----------------------------- MODULE Lifecycle ------------------------------
(***************************************************************************)
(* Who keeps what alive: the callback registries a program hands to a      *)
(* ContextBuilder, the Context, and the ChainstateManagers built on it.    *)
(*                                                                         *)
(* The library holds a registry through shared pointers, one in the        *)
(* options of the builder and one in the context, and the context through  *)
(* shared pointers in the Rust handle, in the options of every manager and *)
(* in every manager.  The Rust types carry no lifetimes between them: the  *)
(* program may drop handle, builders and managers in any order, on any     *)
(* threads, while a manager calls back into the registries through plain   *)
(* references.  A registry is freed by the destructor of its last holder.  *)
(***************************************************************************)
EXTENDS Naturals, FiniteSets

CONSTANTS
    Context,      \* contexts, each built by one ContextBuilder
    Manager,      \* chainstate managers
    NoContext     \* of a manager that does not exist yet

ASSUME ContextAssumption == NoContext \notin Context

\* The two registries of a context: notifications and validation interface.
Kind == {"note", "valid"}
Registry == Context \X Kind

VARIABLES
    builder,      \* the ContextBuilder: none, open, set, created or gone
    made,         \* registries that were ever created
    inBuilder,    \* registries in the Option fields of their builder
    inOptions,    \* registries the btck_ContextOptions hold
    inContext,    \* registries the Context holds
    frees,        \* how often each registry was freed
    handle,       \* contexts whose Rust handle is alive
    ctxOf,        \* the context a manager is built on
    mgr,          \* where the life of a manager is
    inMgrOptions, \* managers whose options hold the context
    inMgr,        \* managers that hold the context
    calling       \* the registry kind a manager is calling into, or "no"

reg == <<made, inBuilder, inOptions, inContext, frees>>
ctx == <<builder, handle>>
man == <<ctxOf, mgr, inMgrOptions, inMgr, calling>>
vars == <<reg, ctx, man>>

MgrState == {"none", "options", "loading", "built", "live", "flushing",
             "deleting", "gone"}

\* The state has its type, and a registry in its builder is nowhere else.
TypeOK ==
    /\ builder \in [Context -> {"none", "open", "set", "created", "gone"}]
    /\ made \subseteq Registry
    /\ inOptions \subseteq made /\ inContext \subseteq made
    /\ inBuilder \subseteq made \ (inOptions \cup inContext)
    /\ frees \in [Registry -> Nat]
    /\ handle \subseteq Context
    /\ ctxOf \in [Manager -> Context \cup {NoContext}]
    /\ mgr \in [Manager -> MgrState]
    /\ inMgrOptions \subseteq Manager /\ inMgr \subseteq Manager
    /\ calling \in [Manager -> Kind \cup {"no"}]

Init ==
    /\ builder = [c \in Context |-> "none"]
    /\ made = {} /\ inBuilder = {} /\ inOptions = {} /\ inContext = {}
    /\ frees = [r \in Registry |-> 0]
    /\ handle = {}
    /\ ctxOf = [m \in Manager |-> NoContext]
    /\ mgr = [m \in Manager |-> "none"]
    /\ inMgrOptions = {} /\ inMgr = {}
    /\ calling = [m \in Manager |-> "no"]

-----------------------------------------------------------------------------
(* The reference counts. *)

Of(c) == {c} \X Kind

\* The shared pointers to c among a set of handles and two sets of managers.
Held(c, handles, options, managers) ==
    c \in handles \/ \E m \in options \cup managers : ctxOf[m] = c

\* Registries the last shared pointer to which goes when options and context
\* are left with the given ones.
LastShare(options, context) == (inOptions \cup inContext) \ (options \cup context)

One(p) == IF p THEN 1 ELSE 0

\* Registries are freed, by the drop of a Rust value or by the library, which
\* calls user_data_destroy.
Freed(rust, library) ==
    frees' = [r \in Registry |-> frees[r] + One(r \in rust) + One(r \in library)]

\* The shared pointers to contexts become the given ones; contexts that were
\* held and no longer are let go of their registries.
Release(handles, options, managers) ==
    /\ handle' = handles /\ inMgrOptions' = options /\ inMgr' = managers
    /\ inContext' = {r \in inContext : Held(r[1], handles, options, managers)}
    /\ Freed({}, LastShare(inOptions, inContext'))
    /\ UNCHANGED <<made, inBuilder, inOptions>>

-----------------------------------------------------------------------------
(* The context. *)

NewBuilder(c) ==
    /\ builder[c] = "none"
    /\ builder' = [builder EXCEPT ![c] = "open"]
    /\ UNCHANGED <<reg, handle, man>>

\* A handler is registered; the registry is created for the first one.
GetOrCreate(c, k) ==
    /\ builder[c] = "open"
    /\ made' = made \cup {<<c, k>>}
    /\ inBuilder' = inBuilder \cup {<<c, k>>}
    /\ UNCHANGED <<inOptions, inContext, frees, ctx, man>>

RegisterNotification(c) == GetOrCreate(c, "note")
RegisterValidation(c) == GetOrCreate(c, "valid")

\* Mutant: the builder keeps the registries it boxed (clone for take).
Kept(c) == inBuilder

\* What the builder still owns once it has taken the registries of c.
Taken(c) == inBuilder \ Of(c)

\* build, first half: the registries are boxed and given to the options.
SetInterfaces(c) ==
    /\ builder[c] = "open"
    /\ builder' = [builder EXCEPT ![c] = "set"]
    /\ inOptions' = inOptions \cup (inBuilder \cap Of(c))
    /\ inBuilder' = Taken(c)
    /\ UNCHANGED <<made, inContext, frees, handle, man>>

\* The constructor of Context copies the shared pointers of the options.
CreateContext(c) ==
    /\ builder[c] = "set"
    /\ builder' = [builder EXCEPT ![c] = "created"]
    /\ inContext' = inContext \cup (inOptions \cap Of(c))
    /\ handle' = handle \cup {c}
    /\ UNCHANGED <<made, inBuilder, inOptions, frees, man>>

\* The sanity checks fail: the new context is destroyed, build returns Err.
ContextInsane(c) ==
    /\ builder[c] = "set"
    /\ builder' = [builder EXCEPT ![c] = "created"]
    /\ UNCHANGED <<reg, handle, man>>

\* The builder is dropped, by build when it returns or without a build.
DropBuilder(c) ==
    /\ builder[c] \in {"open", "created"}
    /\ builder' = [builder EXCEPT ![c] = "gone"]
    /\ inBuilder' = inBuilder \ Of(c)
    /\ inOptions' = inOptions \ Of(c)
    /\ Freed(inBuilder \cap Of(c), LastShare(inOptions', inContext))
    /\ UNCHANGED <<made, inContext, handle, man>>

DropContext(c) ==
    /\ c \in handle
    /\ Release(handle \ {c}, inMgrOptions, inMgr)
    /\ UNCHANGED <<builder, ctxOf, mgr, calling>>

-----------------------------------------------------------------------------
(* The managers. *)

Becomes(m, s) == mgr' = [mgr EXCEPT ![m] = s]

\* Mutant: the options of a manager keep a plain pointer to the context.
HeldByNone(m) == inMgrOptions

\* The options of a manager take a share of its context.
HeldByOptions(m) == inMgrOptions \cup {m}

NewManagerBuilder(m, c) ==
    /\ mgr[m] = "none" /\ c \in handle
    /\ Becomes(m, "options")
    /\ ctxOf' = [ctxOf EXCEPT ![m] = c]
    /\ inMgrOptions' = HeldByOptions(m)
    /\ UNCHANGED <<reg, ctx, inMgr, calling>>

\* Mutant: a failed build forgets its builder.
ForgottenOnError(m) == IF mgr[m] = "loading" THEN inMgrOptions ELSE inMgrOptions \ {m}

\* Dropping a builder destroys the options and their share of the context.
OptionsGone(m) == inMgrOptions \ {m}

\* The builder is dropped without a build; wipe_db does it when it is asked
\* to wipe the block tree and not the chainstate.
DropManagerBuilder(m) ==
    /\ mgr[m] = "options"
    /\ Becomes(m, "gone")
    /\ Release(handle, OptionsGone(m), inMgr)
    /\ UNCHANGED <<builder, ctxOf, calling>>

\* build: the chainstate is loaded, verified and brought to its best chain.
BuildManager(m) ==
    /\ mgr[m] = "options"
    /\ Becomes(m, "loading")
    /\ UNCHANGED <<reg, ctx, ctxOf, inMgrOptions, inMgr, calling>>

\* An error or an interrupt on the way: the ChainstateManager is destroyed
\* and then, in build, the builder.
LoadFails(m) ==
    /\ mgr[m] = "loading" /\ calling[m] = "no"
    /\ Becomes(m, "gone")
    /\ Release(handle, OptionsGone(m), inMgr)
    /\ UNCHANGED <<builder, ctxOf, calling>>

LoadDone(m) ==
    /\ mgr[m] = "loading" /\ calling[m] = "no"
    /\ Becomes(m, "built")
    /\ inMgr' = inMgr \cup {m}
    /\ UNCHANGED <<reg, ctx, ctxOf, inMgrOptions, calling>>

\* build drops the builder and returns the manager.
BuildReturns(m) ==
    /\ mgr[m] = "built"
    /\ Becomes(m, "live")
    /\ Release(handle, OptionsGone(m), inMgr)
    /\ UNCHANGED <<builder, ctxOf, calling>>

\* Dropping a manager flushes first, then lets go of the context (m_context
\* is declared after m_chainman, so it is destroyed before it), and then
\* destroys the ChainstateManager, which has plain references into it.
DropManager(m) ==
    /\ mgr[m] = "live" /\ calling[m] = "no"
    /\ Becomes(m, "flushing")
    /\ UNCHANGED <<reg, ctx, ctxOf, inMgrOptions, inMgr, calling>>

ReleaseContext(m) ==
    /\ mgr[m] = "flushing" /\ calling[m] = "no"
    /\ Becomes(m, "deleting")
    /\ Release(handle, inMgrOptions, inMgr \ {m})
    /\ UNCHANGED <<builder, ctxOf, calling>>

DeleteChainman(m) ==
    /\ mgr[m] = "deleting" /\ calling[m] = "no"
    /\ Becomes(m, "gone")
    /\ UNCHANGED <<reg, ctx, ctxOf, inMgrOptions, inMgr, calling>>

-----------------------------------------------------------------------------
(* The callbacks. *)

\* Mutant: the destructor of ChainstateManager flushes once more.
NotifiesToTheEnd(m) == mgr[m] \in {"loading", "live", "flushing", "deleting"}

\* A manager reports its tip, progress, warnings and errors while it loads,
\* in calls of the program, and while it is flushed.
Notifies(m) == mgr[m] \in {"loading", "live", "flushing"}

\* A callback runs for a while; the library calls none that was not set.
Calls(m, k) ==
    /\ calling[m] = "no" /\ <<ctxOf[m], k>> \in made
    /\ calling' = [calling EXCEPT ![m] = k]
    /\ UNCHANGED <<reg, ctx, ctxOf, mgr, inMgrOptions, inMgr>>

CallNotification(m) == Notifies(m) /\ Calls(m, "note")
\* Blocks are checked and connected while it loads, and in calls.
CallValidation(m) == mgr[m] \in {"loading", "live"} /\ Calls(m, "valid")

CallbackReturns(m) ==
    /\ calling[m] # "no"
    /\ calling' = [calling EXCEPT ![m] = "no"]
    /\ UNCHANGED <<reg, ctx, ctxOf, mgr, inMgrOptions, inMgr>>

ContextStep(c) ==
    \/ NewBuilder(c) \/ RegisterNotification(c) \/ RegisterValidation(c)
    \/ SetInterfaces(c) \/ CreateContext(c) \/ ContextInsane(c)
    \/ DropBuilder(c) \/ DropContext(c)

ManagerStep(m) ==
    \/ \E c \in Context : NewManagerBuilder(m, c)
    \/ DropManagerBuilder(m) \/ BuildManager(m) \/ LoadFails(m)
    \/ LoadDone(m) \/ BuildReturns(m) \/ DropManager(m) \/ ReleaseContext(m)
    \/ DeleteChainman(m)
    \/ CallNotification(m) \/ CallValidation(m) \/ CallbackReturns(m)

Next == (\E c \in Context : ContextStep(c)) \/ (\E m \in Manager : ManagerStep(m))

Spec == Init /\ [][Next]_vars

-----------------------------------------------------------------------------
(* Properties. *)

\* A callback never runs on a registry that was freed, in whatever order
\* handle, builders and managers are dropped around it: the wrappers of
\* notification.rs and validation.rs turn user_data into a reference.
CallbackTargetAlive ==
    \A m \in Manager :
        calling[m] # "no" => frees[<<ctxOf[m], calling[m]>>] = 0

\* No registry is freed twice: Rust gives up its ownership before the library
\* has it, and the library frees it with the last holder only.
FreedAtMostOnce == \A r \in Registry : frees[r] <= 1

\* Once the builder, the handle and all managers of a context are gone its
\* registries are freed, after failed builds too.
NothingLeaked ==
    \A r \in made :
        /\ builder[r[1]] = "gone" /\ r[1] \notin handle
        /\ \A m \in Manager : ctxOf[m] = r[1] => mgr[m] = "gone"
        => frees[r] = 1

\* The Context a handle, a builder or a working manager refers to is intact:
\* it has all the interfaces that were set, and none of them is freed.
ContextIntact ==
    \A c \in Context :
        \/ c \in handle
        \/ \E m \in Manager :
              ctxOf[m] = c /\ mgr[m] \notin {"none", "deleting", "gone"}
        => \A r \in made : r[1] = c => r \in inContext /\ frees[r] = 0
=============================================================================
