-------------------------- MODULE LifecycleProofs ---------------------------
(***************************************************************************)
(* The ownership of registries, contexts and managers, proved for any      *)
(* number of contexts and managers.  The inductive invariant says where a  *)
(* registry is by the state of its builder, that a context holds its       *)
(* registries exactly while something holds the context, and that a        *)
(* registry is freed exactly when it is nowhere.                           *)
(***************************************************************************)
EXTENDS Lifecycle, TLAPS

Alive(c) == Held(c, handle, inMgrOptions, inMgr)

\* The state of its builder says whether the builder or its options own a
\* registry.
PlaceInv ==
    \A c \in Context, k \in Kind :
        /\ <<c, k>> \in inBuilder <=> <<c, k>> \in made /\ builder[c] = "open"
        /\ <<c, k>> \in inOptions <=>
              <<c, k>> \in made /\ builder[c] \in {"set", "created"}
        /\ <<c, k>> \in made => builder[c] # "none"

\* A context has its registries while something holds it.
ShareInv ==
    \A c \in Context, k \in Kind :
        <<c, k>> \in inContext <=> <<c, k>> \in made /\ Alive(c)

\* A registry is freed once, when nothing owns it any more.
Unowned == made \ (inBuilder \cup inOptions \cup inContext)
FreeInv ==
    \A r \in Registry : frees[r] = IF r \in Unowned THEN 1 ELSE 0

\* A context exists once its builder has created it.
CtxInv == \A c \in Context : Alive(c) => builder[c] \in {"created", "gone"}

\* Which shares of its context a manager has, and when it calls back.
MgrInv ==
    \A m \in Manager :
        /\ mgr[m] = "none" <=> ctxOf[m] = NoContext
        /\ m \in inMgrOptions <=> mgr[m] \in {"options", "loading", "built"}
        /\ m \in inMgr <=> mgr[m] \in {"built", "live", "flushing"}
        /\ calling[m] # "no" => /\ mgr[m] \in {"loading", "live", "flushing"}
                                /\ <<ctxOf[m], calling[m]>> \in made

IInv == TypeOK /\ PlaceInv /\ ShareInv /\ FreeInv /\ CtxInv /\ MgrInv

\* The steps that touch no shared pointer to a context, or add one to a
\* context that has one, change no context's life.
LEMMA AliveKept ==
    ASSUME TypeOK, MgrInv,
           \/ UNCHANGED <<handle, inMgrOptions, inMgr, ctxOf>>
           \/ \E m \in Manager, c \in Context : NewManagerBuilder(m, c)
           \/ \E m \in Manager : LoadDone(m)
    PROVE  \A x \in Context : Alive(x)' <=> Alive(x)
<1> USE ContextAssumption DEF ContextAssumption, Alive, Held, TypeOK, MgrInv
<1>1. CASE UNCHANGED <<handle, inMgrOptions, inMgr, ctxOf>>
  BY <1>1
<1>2. ASSUME NEW m \in Manager, NEW c \in Context, NewManagerBuilder(m, c)
      PROVE  \A x \in Context : Alive(x)' <=> Alive(x)
  <2>1. /\ m \notin inMgrOptions \cup inMgr /\ c \in handle
        /\ inMgrOptions' = inMgrOptions \cup {m}
        /\ UNCHANGED <<handle, inMgr>>
        /\ ctxOf' = [ctxOf EXCEPT ![m] = c]
    BY Zenon, <1>2 DEF NewManagerBuilder, HeldByOptions, ctx
  <2>2. \A y \in inMgrOptions \cup inMgr : ctxOf'[y] = ctxOf[y]
    BY <2>1
  <2>3. ctxOf'[m] = c
    BY <2>1
  <2> QED
    BY <2>1, <2>2, <2>3
<1>3. ASSUME NEW m \in Manager, LoadDone(m)
      PROVE  \A x \in Context : Alive(x)' <=> Alive(x)
  <2>1. mgr[m] = "loading" /\ inMgr' = inMgr \cup {m}
    BY <1>3, Zenon DEF LoadDone
  <2>2. UNCHANGED <<handle, ctxOf, inMgrOptions>>
    BY <1>3, Zenon DEF LoadDone, ctx
  <2>3. m \in inMgrOptions
    BY <2>1, Zenon
  <2>. QED BY <2>1, <2>2, <2>3, Zenon
<1> QED
  BY Zenon, <1>1, <1>2, <1>3

\* Releasing shared pointers ends the life of contexts, and the registries of
\* a context go with it.
LEMMA ReleaseEnds ==
    ASSUME TypeOK, ShareInv, NEW h, NEW o, NEW n, Release(h, o, n),
           h \subseteq handle, o \subseteq inMgrOptions, n \subseteq inMgr,
           UNCHANGED ctxOf
    PROVE  ShareInv' /\ \A x \in Context : Alive(x)' => Alive(x)
<1>1. \A x \in Context : Alive(x)' <=> Held(x, h, o, n)
  BY Zenon DEF Alive, Held, Release
<1>2. \A x \in Context : Held(x, h, o, n) => Alive(x)
  BY DEF Alive, Held
<1>3. made' = made /\ inContext' = {r \in inContext : Held(r[1], h, o, n)}
  BY DEF Release
<1>4. ShareInv'
  BY ZenonT(30), <1>1, <1>2, <1>3 DEF ShareInv
<1> QED
  BY <1>1, <1>2, <1>4

\* Every step keeps the types, and a registry in one place.
LEMMA TypeStep ==
    TypeOK /\ PlaceInv /\ ShareInv /\ CtxInv /\ [Next]_vars => TypeOK'
<1> SUFFICES ASSUME TypeOK, PlaceInv, ShareInv, CtxInv, [Next]_vars
             PROVE  TypeOK'
  OBVIOUS
<1> USE ContextAssumption
    DEF ContextAssumption, TypeOK, PlaceInv, MgrState, reg, ctx, man, Becomes,
        Of, Registry, Kind
<1>1. ASSUME NEW c \in Context, NewBuilder(c) PROVE TypeOK'
  BY Zenon, <1>1 DEF NewBuilder
<1>2. ASSUME NEW c \in Context, RegisterNotification(c) PROVE TypeOK'
  <2>1. <<c, "note">> \in Registry
    OBVIOUS
  <2>2. <<c, "note">> \notin inOptions \cup inContext
    BY Zenon, <1>2 DEF RegisterNotification, GetOrCreate, ShareInv, CtxInv
  <2> QED
    BY Zenon, <1>2, <2>1, <2>2 DEF RegisterNotification, GetOrCreate
<1>3. ASSUME NEW c \in Context, RegisterValidation(c) PROVE TypeOK'
  <2>1. <<c, "valid">> \in Registry
    OBVIOUS
  <2>2. <<c, "valid">> \notin inOptions \cup inContext
    BY Zenon, <1>3 DEF RegisterValidation, GetOrCreate, ShareInv, CtxInv
  <2> QED
    BY Zenon, <1>3, <2>1, <2>2 DEF RegisterValidation, GetOrCreate
<1>4. ASSUME NEW c \in Context, SetInterfaces(c) PROVE TypeOK'
  BY <1>4 DEF SetInterfaces, Taken
<1>5. ASSUME NEW c \in Context, CreateContext(c) PROVE TypeOK'
  BY Zenon, <1>5 DEF CreateContext
<1>6. ASSUME NEW c \in Context, ContextInsane(c) PROVE TypeOK'
  BY Zenon, <1>6 DEF ContextInsane
<1>7. ASSUME NEW c \in Context, DropBuilder(c) PROVE TypeOK'
  BY <1>7 DEF DropBuilder, Freed, LastShare, One
<1>8. ASSUME NEW c \in Context, DropContext(c) PROVE TypeOK'
  BY <1>8 DEF DropContext, Release, Freed, LastShare, One
<1>9. ASSUME NEW m \in Manager, NEW c \in Context, NewManagerBuilder(m, c)
      PROVE  TypeOK'
  BY Zenon, <1>9 DEF NewManagerBuilder, HeldByOptions
<1>10. ASSUME NEW m \in Manager, DropManagerBuilder(m) PROVE TypeOK'
  BY <1>10 DEF DropManagerBuilder, Release, OptionsGone, Freed, LastShare, One
<1>11. ASSUME NEW m \in Manager, BuildManager(m) PROVE TypeOK'
  BY Zenon, <1>11 DEF BuildManager
<1>12. ASSUME NEW m \in Manager, LoadFails(m) PROVE TypeOK'
  BY <1>12 DEF LoadFails, Release, OptionsGone, Freed, LastShare, One
<1>13. ASSUME NEW m \in Manager, LoadDone(m) PROVE TypeOK'
  BY Zenon, <1>13 DEF LoadDone
<1>14. ASSUME NEW m \in Manager, BuildReturns(m) PROVE TypeOK'
  BY <1>14 DEF BuildReturns, Release, OptionsGone, Freed, LastShare, One
<1>15. ASSUME NEW m \in Manager, DropManager(m) PROVE TypeOK'
  BY Zenon, <1>15 DEF DropManager
<1>16. ASSUME NEW m \in Manager, ReleaseContext(m) PROVE TypeOK'
  BY <1>16 DEF ReleaseContext, Release, Freed, LastShare, One
<1>17. ASSUME NEW m \in Manager, DeleteChainman(m) PROVE TypeOK'
  BY Zenon, <1>17 DEF DeleteChainman
<1>18. ASSUME NEW m \in Manager, CallNotification(m) PROVE TypeOK'
  BY Zenon, <1>18 DEF CallNotification, Calls, Notifies
<1>19. ASSUME NEW m \in Manager, CallValidation(m) PROVE TypeOK'
  BY Zenon, <1>19 DEF CallValidation, Calls
<1>20. ASSUME NEW m \in Manager, CallbackReturns(m) PROVE TypeOK'
  BY Zenon, <1>20 DEF CallbackReturns
<1>21. CASE UNCHANGED vars
  BY Zenon, <1>21 DEF vars
<1> HIDE DEF TypeOK, PlaceInv, MgrState, reg, ctx, man, Becomes, Of, Registry,
         Kind
<1> QED
  BY Zenon, <1>1, <1>2, <1>3, <1>4, <1>5, <1>6, <1>7, <1>8, <1>9, <1>10, <1>11,
     <1>12, <1>13, <1>14, <1>15, <1>16, <1>17, <1>18, <1>19, <1>20, <1>21
  DEF Next, ContextStep, ManagerStep

\* Registries move with the state of their builder.
LEMMA PlaceStep ==
    TypeOK /\ PlaceInv /\ [Next]_vars => PlaceInv'
<1> SUFFICES ASSUME TypeOK, PlaceInv, [Next]_vars
             PROVE  PlaceInv'
  OBVIOUS
<1> USE ContextAssumption
    DEF ContextAssumption, TypeOK, PlaceInv, reg, ctx, man, Becomes, Of,
        Registry, Kind
<1>1. ASSUME NEW c \in Context, NewBuilder(c) PROVE PlaceInv'
  BY Zenon, <1>1 DEF NewBuilder
<1>2. ASSUME NEW c \in Context, RegisterNotification(c) PROVE PlaceInv'
  BY Zenon, <1>2 DEF RegisterNotification, GetOrCreate
<1>3. ASSUME NEW c \in Context, RegisterValidation(c) PROVE PlaceInv'
  BY Zenon, <1>3 DEF RegisterValidation, GetOrCreate
<1>4. ASSUME NEW c \in Context, SetInterfaces(c) PROVE PlaceInv'
  BY Zenon, <1>4 DEF SetInterfaces, Taken
<1>5. ASSUME NEW c \in Context, CreateContext(c) PROVE PlaceInv'
  BY Zenon, <1>5 DEF CreateContext
<1>6. ASSUME NEW c \in Context, ContextInsane(c) PROVE PlaceInv'
  BY Zenon, <1>6 DEF ContextInsane
<1>7. ASSUME NEW c \in Context, DropBuilder(c) PROVE PlaceInv'
  BY Zenon, <1>7 DEF DropBuilder, Freed, LastShare, One
<1>8. ASSUME NEW c \in Context, DropContext(c) PROVE PlaceInv'
  BY Zenon, <1>8 DEF DropContext, Release, Freed, LastShare, One
<1>9. ASSUME NEW m \in Manager, NEW c \in Context, NewManagerBuilder(m, c)
      PROVE  PlaceInv'
  BY Zenon, <1>9 DEF NewManagerBuilder, HeldByOptions
<1>10. ASSUME NEW m \in Manager, DropManagerBuilder(m) PROVE PlaceInv'
  BY Zenon, <1>10 DEF DropManagerBuilder, Release, OptionsGone, Freed, LastShare, One
<1>11. ASSUME NEW m \in Manager, BuildManager(m) PROVE PlaceInv'
  BY Zenon, <1>11 DEF BuildManager
<1>12. ASSUME NEW m \in Manager, LoadFails(m) PROVE PlaceInv'
  BY Zenon, <1>12 DEF LoadFails, Release, OptionsGone, Freed, LastShare, One
<1>13. ASSUME NEW m \in Manager, LoadDone(m) PROVE PlaceInv'
  BY Zenon, <1>13 DEF LoadDone
<1>14. ASSUME NEW m \in Manager, BuildReturns(m) PROVE PlaceInv'
  BY Zenon, <1>14 DEF BuildReturns, Release, OptionsGone, Freed, LastShare, One
<1>15. ASSUME NEW m \in Manager, DropManager(m) PROVE PlaceInv'
  BY Zenon, <1>15 DEF DropManager
<1>16. ASSUME NEW m \in Manager, ReleaseContext(m) PROVE PlaceInv'
  BY Zenon, <1>16 DEF ReleaseContext, Release, Freed, LastShare, One
<1>17. ASSUME NEW m \in Manager, DeleteChainman(m) PROVE PlaceInv'
  BY Zenon, <1>17 DEF DeleteChainman
<1>18. ASSUME NEW m \in Manager, CallNotification(m) PROVE PlaceInv'
  BY Zenon, <1>18 DEF CallNotification, Calls, Notifies
<1>19. ASSUME NEW m \in Manager, CallValidation(m) PROVE PlaceInv'
  BY Zenon, <1>19 DEF CallValidation, Calls
<1>20. ASSUME NEW m \in Manager, CallbackReturns(m) PROVE PlaceInv'
  BY Zenon, <1>20 DEF CallbackReturns
<1>21. CASE UNCHANGED vars
  BY Zenon, <1>21 DEF vars
<1> HIDE DEF TypeOK, PlaceInv, reg, ctx, man, Becomes, Of, Registry, Kind
<1> QED
  BY <1>1, <1>2, <1>3, <1>4, <1>5, <1>6, <1>7, <1>8, <1>9, <1>10, <1>11,
     <1>12, <1>13, <1>14, <1>15, <1>16, <1>17, <1>18, <1>19, <1>20, <1>21
  DEF Next, ContextStep, ManagerStep

\* What a step frees is what it leaves without an owner.
LEMMA FreeStep ==
    TypeOK /\ PlaceInv /\ FreeInv /\ [Next]_vars => FreeInv'
<1> SUFFICES ASSUME TypeOK, PlaceInv, FreeInv, [Next]_vars
             PROVE  FreeInv'
  OBVIOUS
<1> USE ContextAssumption
    DEF ContextAssumption, TypeOK, PlaceInv, FreeInv, Unowned, reg, ctx, man,
        Becomes, Of, Registry, Kind
<1>1. ASSUME NEW c \in Context, NewBuilder(c) PROVE FreeInv'
  BY Zenon, <1>1 DEF NewBuilder
<1>2. ASSUME NEW c \in Context, RegisterNotification(c) PROVE FreeInv'
  <2>1. <<c, "note">> \in Registry /\ <<c, "note">> \notin Unowned
    BY Zenon, <1>2 DEF RegisterNotification, GetOrCreate
  <2>2. Unowned' = Unowned /\ frees' = frees
    BY <1>2, <2>1 DEF RegisterNotification, GetOrCreate
  <2> QED
    BY <2>2
<1>3. ASSUME NEW c \in Context, RegisterValidation(c) PROVE FreeInv'
  <2>1. <<c, "valid">> \in Registry /\ <<c, "valid">> \notin Unowned
    BY Zenon, <1>3 DEF RegisterValidation, GetOrCreate
  <2>2. Unowned' = Unowned /\ frees' = frees
    BY <1>3, <2>1 DEF RegisterValidation, GetOrCreate
  <2> QED
    BY <2>2
<1>4. ASSUME NEW c \in Context, SetInterfaces(c) PROVE FreeInv'
  BY <1>4 DEF SetInterfaces, Taken
<1>5. ASSUME NEW c \in Context, CreateContext(c) PROVE FreeInv'
  BY Zenon, <1>5 DEF CreateContext
<1>6. ASSUME NEW c \in Context, ContextInsane(c) PROVE FreeInv'
  BY Zenon, <1>6 DEF ContextInsane
<1>7. ASSUME NEW c \in Context, DropBuilder(c) PROVE FreeInv'
  BY <1>7 DEF DropBuilder, Freed, LastShare, One
<1>8. ASSUME NEW c \in Context, DropContext(c) PROVE FreeInv'
  BY <1>8 DEF DropContext, Release, Freed, LastShare, One
<1>9. ASSUME NEW m \in Manager, NEW c \in Context, NewManagerBuilder(m, c)
      PROVE  FreeInv'
  BY Zenon, <1>9 DEF NewManagerBuilder, HeldByOptions
<1>10. ASSUME NEW m \in Manager, DropManagerBuilder(m) PROVE FreeInv'
  BY <1>10 DEF DropManagerBuilder, Release, OptionsGone, Freed, LastShare, One
<1>11. ASSUME NEW m \in Manager, BuildManager(m) PROVE FreeInv'
  BY Zenon, <1>11 DEF BuildManager
<1>12. ASSUME NEW m \in Manager, LoadFails(m) PROVE FreeInv'
  BY <1>12 DEF LoadFails, Release, OptionsGone, Freed, LastShare, One
<1>13. ASSUME NEW m \in Manager, LoadDone(m) PROVE FreeInv'
  BY <1>13 DEF LoadDone
<1>14. ASSUME NEW m \in Manager, BuildReturns(m) PROVE FreeInv'
  BY <1>14 DEF BuildReturns, Release, OptionsGone, Freed, LastShare, One
<1>15. ASSUME NEW m \in Manager, DropManager(m) PROVE FreeInv'
  BY Zenon, <1>15 DEF DropManager
<1>16. ASSUME NEW m \in Manager, ReleaseContext(m) PROVE FreeInv'
  BY <1>16 DEF ReleaseContext, Release, Freed, LastShare, One
<1>17. ASSUME NEW m \in Manager, DeleteChainman(m) PROVE FreeInv'
  BY <1>17 DEF DeleteChainman
<1>18. ASSUME NEW m \in Manager, CallNotification(m) PROVE FreeInv'
  BY <1>18 DEF CallNotification, Calls, Notifies
<1>19. ASSUME NEW m \in Manager, CallValidation(m) PROVE FreeInv'
  BY <1>19 DEF CallValidation, Calls
<1>20. ASSUME NEW m \in Manager, CallbackReturns(m) PROVE FreeInv'
  BY Zenon, <1>20 DEF CallbackReturns
<1>21. CASE UNCHANGED vars
  BY Zenon, <1>21 DEF vars
<1> HIDE DEF TypeOK, PlaceInv, FreeInv, Unowned, reg, ctx, man, Becomes, Of,
         Registry, Kind
<1> QED
  BY Zenon, <1>1, <1>2, <1>3, <1>4, <1>5, <1>6, <1>7, <1>8, <1>9, <1>10, <1>11,
     <1>12, <1>13, <1>14, <1>15, <1>16, <1>17, <1>18, <1>19, <1>20, <1>21
  DEF Next, ContextStep, ManagerStep

\* Managers take and release their shares in order.
LEMMA MgrStep ==
    TypeOK /\ MgrInv /\ [Next]_vars => MgrInv'
<1> SUFFICES ASSUME TypeOK, MgrInv, [Next]_vars
             PROVE  MgrInv'
  OBVIOUS
<1> USE ContextAssumption
    DEF ContextAssumption, TypeOK, MgrInv, reg, ctx, man, Becomes, Of,
        Registry, Kind
<1>1. ASSUME NEW c \in Context, NewBuilder(c) PROVE MgrInv'
  BY Zenon, <1>1 DEF NewBuilder
<1>2. ASSUME NEW c \in Context, RegisterNotification(c) PROVE MgrInv'
  BY Zenon, <1>2 DEF RegisterNotification, GetOrCreate
<1>3. ASSUME NEW c \in Context, RegisterValidation(c) PROVE MgrInv'
  BY Zenon, <1>3 DEF RegisterValidation, GetOrCreate
<1>4. ASSUME NEW c \in Context, SetInterfaces(c) PROVE MgrInv'
  BY Zenon, <1>4 DEF SetInterfaces, Taken
<1>5. ASSUME NEW c \in Context, CreateContext(c) PROVE MgrInv'
  BY <1>5 DEF CreateContext
<1>6. ASSUME NEW c \in Context, ContextInsane(c) PROVE MgrInv'
  BY Zenon, <1>6 DEF ContextInsane
<1>7. ASSUME NEW c \in Context, DropBuilder(c) PROVE MgrInv'
  BY Zenon, <1>7 DEF DropBuilder, Freed, LastShare, One
<1>8. ASSUME NEW c \in Context, DropContext(c) PROVE MgrInv'
  BY Zenon, <1>8 DEF DropContext, Release, Freed, LastShare, One
<1>9. ASSUME NEW m \in Manager, NEW c \in Context, NewManagerBuilder(m, c)
      PROVE  MgrInv'
  BY Zenon, <1>9 DEF NewManagerBuilder, HeldByOptions
<1>10. ASSUME NEW m \in Manager, DropManagerBuilder(m) PROVE MgrInv'
  BY Zenon, <1>10 DEF DropManagerBuilder, Release, OptionsGone, Freed, LastShare, One
<1>11. ASSUME NEW m \in Manager, BuildManager(m) PROVE MgrInv'
  BY <1>11 DEF BuildManager
<1>12. ASSUME NEW m \in Manager, LoadFails(m) PROVE MgrInv'
  BY Zenon, <1>12 DEF LoadFails, Release, OptionsGone, Freed, LastShare, One
<1>13. ASSUME NEW m \in Manager, LoadDone(m) PROVE MgrInv'
  BY <1>13 DEF LoadDone
<1>14. ASSUME NEW m \in Manager, BuildReturns(m) PROVE MgrInv'
  BY <1>14 DEF BuildReturns, Release, OptionsGone, Freed, LastShare, One
<1>15. ASSUME NEW m \in Manager, DropManager(m) PROVE MgrInv'
  BY Zenon, <1>15 DEF DropManager
<1>16. ASSUME NEW m \in Manager, ReleaseContext(m) PROVE MgrInv'
  BY <1>16 DEF ReleaseContext, Release, Freed, LastShare, One
<1>17. ASSUME NEW m \in Manager, DeleteChainman(m) PROVE MgrInv'
  BY <1>17 DEF DeleteChainman
<1>18. ASSUME NEW m \in Manager, CallNotification(m) PROVE MgrInv'
  BY Zenon, <1>18 DEF CallNotification, Calls, Notifies
<1>19. ASSUME NEW m \in Manager, CallValidation(m) PROVE MgrInv'
  BY Zenon, <1>19 DEF CallValidation, Calls
<1>20. ASSUME NEW m \in Manager, CallbackReturns(m) PROVE MgrInv'
  BY Zenon, <1>20 DEF CallbackReturns
<1>21. CASE UNCHANGED vars
  BY Zenon, <1>21 DEF vars
<1> HIDE DEF TypeOK, MgrInv, reg, ctx, man, Becomes, Of, Registry, Kind
<1> QED
  BY <1>1, <1>2, <1>3, <1>4, <1>5, <1>6, <1>7, <1>8, <1>9, <1>10, <1>11,
     <1>12, <1>13, <1>14, <1>15, <1>16, <1>17, <1>18, <1>19, <1>20, <1>21
  DEF Next, ContextStep, ManagerStep

\* A context has its registries as long as it lives.
LEMMA ShareStep ==
    TypeOK /\ PlaceInv /\ ShareInv /\ CtxInv /\ MgrInv
        /\ [Next]_vars => ShareInv'
<1> SUFFICES ASSUME TypeOK, PlaceInv, ShareInv, CtxInv, MgrInv, [Next]_vars
             PROVE  ShareInv'
  OBVIOUS
<1> USE ContextAssumption
    DEF ContextAssumption, reg, ctx, man, Becomes, Of, Registry, Kind
<1>1. ASSUME NEW c \in Context, NewBuilder(c) PROVE ShareInv'
  BY Zenon, <1>1, AliveKept DEF NewBuilder, ShareInv
<1>2. ASSUME NEW c \in Context, RegisterNotification(c) PROVE ShareInv'
  <2>1. ~Alive(c)
    BY Zenon, <1>2 DEF RegisterNotification, GetOrCreate, CtxInv
  <2>2. \A x \in Context : Alive(x)' <=> Alive(x)
    BY Zenon, <1>2, AliveKept DEF RegisterNotification, GetOrCreate
  <2> QED
    BY Zenon, <1>2, <2>1, <2>2 DEF RegisterNotification, GetOrCreate, ShareInv
<1>3. ASSUME NEW c \in Context, RegisterValidation(c) PROVE ShareInv'
  <2>1. ~Alive(c)
    BY Zenon, <1>3 DEF RegisterValidation, GetOrCreate, CtxInv
  <2>2. \A x \in Context : Alive(x)' <=> Alive(x)
    BY Zenon, <1>3, AliveKept DEF RegisterValidation, GetOrCreate
  <2> QED
    BY Zenon, <1>3, <2>1, <2>2 DEF RegisterValidation, GetOrCreate, ShareInv
<1>4. ASSUME NEW c \in Context, SetInterfaces(c) PROVE ShareInv'
  BY Zenon, <1>4, AliveKept DEF SetInterfaces, Taken, ShareInv
<1>5. ASSUME NEW c \in Context, CreateContext(c) PROVE ShareInv'
  <2>1. /\ Alive(c)' /\ ~Alive(c)
        /\ \A x \in Context \ {c} : Alive(x)' <=> Alive(x)
    BY Zenon, <1>5 DEF CreateContext, Alive, Held, CtxInv
  <2>2. \A k \in Kind : <<c, k>> \in inContext' <=> <<c, k>> \in made
    BY Zenon, <1>5, <2>1 DEF CreateContext, PlaceInv, ShareInv, TypeOK
  <2>3. \A x \in Context \ {c}, k \in Kind :
          <<x, k>> \in inContext' <=> <<x, k>> \in inContext
    BY Zenon, <1>5 DEF CreateContext
  <2>4. made' = made
    BY Zenon, <1>5 DEF CreateContext
  <2> QED
    BY Zenon, <2>1, <2>2, <2>3, <2>4 DEF ShareInv
<1>6. ASSUME NEW c \in Context, ContextInsane(c) PROVE ShareInv'
  BY Zenon, <1>6, AliveKept DEF ContextInsane, ShareInv
<1>7. ASSUME NEW c \in Context, DropBuilder(c) PROVE ShareInv'
  BY Zenon, <1>7, AliveKept DEF DropBuilder, Freed, LastShare, One, ShareInv
<1>8. ASSUME NEW c \in Context, DropContext(c) PROVE ShareInv'
  <2>1. /\ Release(handle \ {c}, inMgrOptions, inMgr)
        /\ UNCHANGED <<builder, ctxOf>>
    BY Zenon, <1>8 DEF DropContext
  <2> QED
    BY Zenon, <2>1, ReleaseEnds
<1>9. ASSUME NEW m \in Manager, NEW c \in Context, NewManagerBuilder(m, c)
      PROVE  ShareInv'
  <2>1. UNCHANGED <<made, inContext>>
    BY Zenon, <1>9 DEF NewManagerBuilder, HeldByOptions
  <2> QED
    BY Zenon, <1>9, <2>1, AliveKept DEF ShareInv
<1>10. ASSUME NEW m \in Manager, DropManagerBuilder(m) PROVE ShareInv'
  <2>1. /\ Release(handle, inMgrOptions \ {m}, inMgr)
        /\ UNCHANGED <<builder, ctxOf>>
    BY Zenon, <1>10 DEF DropManagerBuilder, OptionsGone
  <2> QED
    BY Zenon, <2>1, ReleaseEnds
<1>11. ASSUME NEW m \in Manager, BuildManager(m) PROVE ShareInv'
  BY Zenon, <1>11, AliveKept DEF BuildManager, ShareInv
<1>12. ASSUME NEW m \in Manager, LoadFails(m) PROVE ShareInv'
  <2>1. /\ Release(handle, inMgrOptions \ {m}, inMgr)
        /\ UNCHANGED <<builder, ctxOf>>
    BY Zenon, <1>12 DEF LoadFails, OptionsGone
  <2> QED
    BY <2>1, ReleaseEnds
<1>13. ASSUME NEW m \in Manager, LoadDone(m) PROVE ShareInv'
  <2>1. UNCHANGED <<made, inContext>>
    BY Zenon, <1>13 DEF LoadDone
  <2> QED
    BY Zenon, <1>13, <2>1, AliveKept DEF ShareInv
<1>14. ASSUME NEW m \in Manager, BuildReturns(m) PROVE ShareInv'
  <2>1. /\ Release(handle, inMgrOptions \ {m}, inMgr)
        /\ UNCHANGED <<builder, ctxOf>>
    BY Zenon, <1>14 DEF BuildReturns, OptionsGone
  <2> QED
    BY <2>1, ReleaseEnds
<1>15. ASSUME NEW m \in Manager, DropManager(m) PROVE ShareInv'
  BY Zenon, <1>15, AliveKept DEF DropManager, ShareInv
<1>16. ASSUME NEW m \in Manager, ReleaseContext(m) PROVE ShareInv'
  <2>1. /\ Release(handle, inMgrOptions, inMgr \ {m})
        /\ UNCHANGED <<builder, ctxOf>>
    BY <1>16 DEF ReleaseContext
  <2> QED
    BY Zenon, <2>1, ReleaseEnds
<1>17. ASSUME NEW m \in Manager, DeleteChainman(m) PROVE ShareInv'
  BY Zenon, <1>17, AliveKept DEF DeleteChainman, ShareInv
<1>18. ASSUME NEW m \in Manager, CallNotification(m) PROVE ShareInv'
  BY Zenon, <1>18, AliveKept DEF CallNotification, Calls, Notifies, ShareInv
<1>19. ASSUME NEW m \in Manager, CallValidation(m) PROVE ShareInv'
  BY Zenon, <1>19, AliveKept DEF CallValidation, Calls, ShareInv
<1>20. ASSUME NEW m \in Manager, CallbackReturns(m) PROVE ShareInv'
  BY Zenon, <1>20, AliveKept DEF CallbackReturns, ShareInv
<1>21. CASE UNCHANGED vars
  BY Zenon, <1>21, AliveKept DEF vars, ShareInv
<1> HIDE DEF reg, ctx, man, Becomes, Of, Registry, Kind
<1> QED
  BY Zenon, <1>1, <1>2, <1>3, <1>4, <1>5, <1>6, <1>7, <1>8, <1>9, <1>10, <1>11,
     <1>12, <1>13, <1>14, <1>15, <1>16, <1>17, <1>18, <1>19, <1>20, <1>21
  DEF Next, ContextStep, ManagerStep

\* No context lives before its builder has created it.
LEMMA CtxStep ==
    TypeOK /\ PlaceInv /\ ShareInv /\ CtxInv /\ MgrInv
        /\ [Next]_vars => CtxInv'
<1> SUFFICES ASSUME TypeOK, PlaceInv, ShareInv, CtxInv, MgrInv, [Next]_vars
             PROVE  CtxInv'
  OBVIOUS
<1> USE ContextAssumption
    DEF ContextAssumption, CtxInv, TypeOK, reg, ctx, man, Becomes, Of,
        Registry, Kind
<1>1. ASSUME NEW c \in Context, NewBuilder(c) PROVE CtxInv'
  BY <1>1, AliveKept DEF NewBuilder
<1>2. ASSUME NEW c \in Context, RegisterNotification(c) PROVE CtxInv'
  BY Zenon, <1>2, AliveKept DEF RegisterNotification, GetOrCreate
<1>3. ASSUME NEW c \in Context, RegisterValidation(c) PROVE CtxInv'
  BY Zenon, <1>3, AliveKept DEF RegisterValidation, GetOrCreate
<1>4. ASSUME NEW c \in Context, SetInterfaces(c) PROVE CtxInv'
  BY Zenon, <1>4, AliveKept DEF SetInterfaces, Taken
<1>5. ASSUME NEW c \in Context, CreateContext(c) PROVE CtxInv'
  <2>1. \A x \in Context \ {c} : Alive(x)' <=> Alive(x)
    BY Zenon, <1>5 DEF CreateContext, Alive, Held
  <2> QED
    BY Zenon, <1>5, <2>1 DEF CreateContext, TypeOK
<1>6. ASSUME NEW c \in Context, ContextInsane(c) PROVE CtxInv'
  BY Zenon, <1>6, AliveKept DEF ContextInsane
<1>7. ASSUME NEW c \in Context, DropBuilder(c) PROVE CtxInv'
  BY Zenon, <1>7, AliveKept DEF DropBuilder, Freed, LastShare, One
<1>8. ASSUME NEW c \in Context, DropContext(c) PROVE CtxInv'
  <2>1. /\ Release(handle \ {c}, inMgrOptions, inMgr)
        /\ UNCHANGED <<builder, ctxOf>>
    BY Zenon, <1>8 DEF DropContext
  <2> QED
    BY <2>1, ReleaseEnds
<1>9. ASSUME NEW m \in Manager, NEW c \in Context, NewManagerBuilder(m, c)
      PROVE  CtxInv'
  <2>1. UNCHANGED builder
    BY Zenon, <1>9 DEF NewManagerBuilder, HeldByOptions
  <2> QED
    BY Zenon, <1>9, <2>1, AliveKept
<1>10. ASSUME NEW m \in Manager, DropManagerBuilder(m) PROVE CtxInv'
  <2>1. /\ Release(handle, inMgrOptions \ {m}, inMgr)
        /\ UNCHANGED <<builder, ctxOf>>
    BY Zenon, <1>10 DEF DropManagerBuilder, OptionsGone
  <2> QED
    BY <2>1, ReleaseEnds
<1>11. ASSUME NEW m \in Manager, BuildManager(m) PROVE CtxInv'
  BY Zenon, <1>11, AliveKept DEF BuildManager
<1>12. ASSUME NEW m \in Manager, LoadFails(m) PROVE CtxInv'
  <2>1. /\ Release(handle, inMgrOptions \ {m}, inMgr)
        /\ UNCHANGED <<builder, ctxOf>>
    BY Zenon, <1>12 DEF LoadFails, OptionsGone
  <2> QED
    BY <2>1, ReleaseEnds
<1>13. ASSUME NEW m \in Manager, LoadDone(m) PROVE CtxInv'
  <2>1. UNCHANGED builder
    BY Zenon, <1>13 DEF LoadDone
  <2> QED
    BY Zenon, <1>13, <2>1, AliveKept
<1>14. ASSUME NEW m \in Manager, BuildReturns(m) PROVE CtxInv'
  <2>1. /\ Release(handle, inMgrOptions \ {m}, inMgr)
        /\ UNCHANGED <<builder, ctxOf>>
    BY Zenon, <1>14 DEF BuildReturns, OptionsGone
  <2> QED
    BY <2>1, ReleaseEnds
<1>15. ASSUME NEW m \in Manager, DropManager(m) PROVE CtxInv'
  BY Zenon, <1>15, AliveKept DEF DropManager
<1>16. ASSUME NEW m \in Manager, ReleaseContext(m) PROVE CtxInv'
  <2>1. /\ Release(handle, inMgrOptions, inMgr \ {m})
        /\ UNCHANGED <<builder, ctxOf>>
    BY Zenon, <1>16 DEF ReleaseContext
  <2> QED
    BY <2>1, ReleaseEnds
<1>17. ASSUME NEW m \in Manager, DeleteChainman(m) PROVE CtxInv'
  BY Zenon, <1>17, AliveKept DEF DeleteChainman
<1>18. ASSUME NEW m \in Manager, CallNotification(m) PROVE CtxInv'
  BY Zenon, <1>18, AliveKept DEF CallNotification, Calls, Notifies
<1>19. ASSUME NEW m \in Manager, CallValidation(m) PROVE CtxInv'
  BY Zenon, <1>19, AliveKept DEF CallValidation, Calls
<1>20. ASSUME NEW m \in Manager, CallbackReturns(m) PROVE CtxInv'
  BY Zenon, <1>20, AliveKept DEF CallbackReturns
<1>21. CASE UNCHANGED vars
  BY <1>21, AliveKept DEF vars
<1> HIDE DEF CtxInv, TypeOK, reg, ctx, man, Becomes, Of, Registry, Kind
<1> QED
  BY <1>1, <1>2, <1>3, <1>4, <1>5, <1>6, <1>7, <1>8, <1>9, <1>10, <1>11,
     <1>12, <1>13, <1>14, <1>15, <1>16, <1>17, <1>18, <1>19, <1>20, <1>21
  DEF Next, ContextStep, ManagerStep

\* The invariant holds at first, when there is nothing.
LEMMA InitInv == Init => IInv
<1> SUFFICES ASSUME Init PROVE IInv
  OBVIOUS
<1>1. TypeOK
  BY Zenon DEF Init, TypeOK, MgrState, Registry
<1>2. PlaceInv /\ FreeInv
  BY Zenon DEF Init, PlaceInv, FreeInv, Unowned, Registry
<1>3. ShareInv /\ CtxInv
  BY Zenon DEF Init, ShareInv, CtxInv, Alive, Held
<1>4. MgrInv
  BY ContextAssumption DEF ContextAssumption, Init, MgrInv
<1> QED
  BY <1>1, <1>2, <1>3, <1>4 DEF IInv

\* The invariant is inductive, for any number of contexts and managers.
THEOREM Inductive == Spec => []IInv
<1>1. IInv /\ [Next]_vars => IInv'
  BY TypeStep, PlaceStep, ShareStep, FreeStep, CtxStep, MgrStep DEF IInv
<1> QED
  BY InitInv, <1>1, PTL DEF Spec

\* Every variable keeps its type and a registry is in one place only: the
\* builder has given it up when the library has it.
THEOREM TypeCorrect == Spec => []TypeOK
<1>1. IInv => TypeOK
  BY Zenon DEF IInv
<1> QED
  BY <1>1, Inductive, PTL

\* The context of a manager that may call back lives, with its registries.
LEMMA ManagerHolds ==
    ASSUME IInv, NEW m \in Manager, mgr[m] \notin {"none", "deleting", "gone"}
    PROVE  ctxOf[m] \in Context /\ Alive(ctxOf[m])
<1>1. m \in inMgrOptions \cup inMgr
  BY Zenon DEF IInv, MgrInv, TypeOK, MgrState
<1>2. ctxOf[m] \in Context
  BY Zenon DEF IInv, MgrInv, TypeOK
<1> QED
  BY Zenon, <1>1, <1>2 DEF Alive, Held

\* What a living context holds is not freed.
LEMMA AliveNotFreed ==
    ASSUME IInv, NEW c \in Context, Alive(c), NEW k \in Kind, <<c, k>> \in made
    PROVE  <<c, k>> \in inContext /\ frees[<<c, k>>] = 0
<1>1. <<c, k>> \in inContext
  BY DEF IInv, ShareInv
<1>2. <<c, k>> \in Registry /\ <<c, k>> \notin Unowned
  BY <1>1 DEF Registry, Unowned
<1> QED
  BY <1>1, <1>2 DEF IInv, FreeInv

\* No callback runs on a freed registry: the manager that calls holds the
\* context, directly or through its options, and the context the registry.
THEOREM CallbacksSafe == Spec => []CallbackTargetAlive
<1>1. IInv => CallbackTargetAlive
  <2> SUFFICES ASSUME IInv, NEW m \in Manager, calling[m] # "no"
               PROVE  frees[<<ctxOf[m], calling[m]>>] = 0
    BY Zenon DEF CallbackTargetAlive
  <2>1. /\ mgr[m] \in {"loading", "live", "flushing"}
        /\ <<ctxOf[m], calling[m]>> \in made /\ calling[m] \in Kind
    BY Zenon DEF IInv, MgrInv, TypeOK
  <2>2. ctxOf[m] \in Context /\ Alive(ctxOf[m])
    BY Zenon, <2>1, ManagerHolds
  <2> QED
    BY Zenon, <2>1, <2>2, AliveNotFreed
<1> QED
  BY <1>1, Inductive, PTL

\* No registry is freed twice.
THEOREM FreedOnce == Spec => []FreedAtMostOnce
<1>1. IInv => FreedAtMostOnce
  BY DEF IInv, FreeInv, FreedAtMostOnce
<1> QED
  BY <1>1, Inductive, PTL

\* Nothing is leaked once the program has dropped all it has.
THEOREM LeakFree == Spec => []NothingLeaked
<1>1. IInv => NothingLeaked
  <2> SUFFICES ASSUME IInv, NEW r \in made,
                      builder[r[1]] = "gone", r[1] \notin handle,
                      \A m \in Manager : ctxOf[m] = r[1] => mgr[m] = "gone"
               PROVE  frees[r] = 1
    BY Zenon DEF NothingLeaked
  <2>1. PICK c \in Context, k \in Kind : r = <<c, k>>
    BY DEF IInv, TypeOK, Registry
  <2>2. ~Alive(c)
    BY Zenon, <2>1 DEF IInv, MgrInv, TypeOK, Alive, Held
  <2>3. r \in Unowned
    BY Zenon, <2>1, <2>2 DEF IInv, PlaceInv, ShareInv, Unowned
  <2>4. r \in Registry
    BY Zenon, <2>1 DEF Registry
  <2> QED
    BY Zenon, <2>3, <2>4 DEF IInv, FreeInv
<1> QED
  BY <1>1, Inductive, PTL

\* A context that a handle, a builder or a working manager can reach is
\* whole.
THEOREM ContextWhole == Spec => []ContextIntact
<1>1. IInv => ContextIntact
  <2> SUFFICES ASSUME IInv, NEW c \in Context,
                      \/ c \in handle
                      \/ \E m \in Manager :
                            /\ ctxOf[m] = c
                            /\ mgr[m] \notin {"none", "deleting", "gone"},
                      NEW r \in made, r[1] = c
               PROVE  r \in inContext /\ frees[r] = 0
    BY Zenon DEF ContextIntact
  <2>1. Alive(c)
    BY Zenon, ManagerHolds DEF Alive, Held
  <2>2. PICK k \in Kind : r = <<c, k>>
    BY DEF IInv, TypeOK, Registry
  <2> QED
    BY Zenon, <2>1, <2>2, AliveNotFreed
<1> QED
  BY <1>1, Inductive, PTL
=============================================================================
