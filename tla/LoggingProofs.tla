---------------------------- MODULE LoggingProofs ----------------------------
(***************************************************************************)
(* Proofs about Logging, for any number of threads, Loggers and lines.     *)
(***************************************************************************)
EXTENDS Logging, SequenceTheorems, WellFoundedInduction, TLAPS

\* A thread between taking and releasing cs_main.
InSection(t) == pc[t] \in Creating \cup Dropping

\* cs_main is held exactly by the thread inside a constructor or destructor.
LockInv == \A t \in Thread : InSection(t) <=> csMain = t

\* The Logger of such a call is alive, and the branch NumConnections() == 1
\* decided on still describes the callbacks: only cs_main sections change them.
CallInv ==
    \A t \in Thread :
        /\ InSection(t) => box[arg[t]] = "live"
        /\ pc[t] \in {"new_start", "drop_last"} => callbacks = {arg[t]}
        /\ pc[t] = "drop_other" => callbacks # {arg[t]}

\* CallbacksAreLive, by elements.
LiveInv ==
    \A l \in Logger :
        l \in callbacks <=> /\ box[l] = "live"
                            /\ \A t \in Thread : pc[t] = "drop_free" => arg[t] # l

\* Until disable_logging is called, the logger buffers exactly while there is
\* no connection, or the first one has been added and not yet been started.
FirstStarting ==
    \E t \in Thread : pc[t] \in {"new_count", "new_start"} /\ callbacks = {arg[t]}

BufferInv ==
    disable = "never" =>
        /\ process = "running"
        /\ \A t \in Thread : pc[t] # "dis_start"
        /\ mode = "buffering" <=> (callbacks = {} \/ FirstStarting)

IInv == TypeOK /\ LockInv /\ CallInv /\ LiveInv /\ BufferInv

USE DEF Creating, Dropping, Pc, locks, settings, hist
-----------------------------------------------------------------------------
\* The initial state satisfies the inductive invariant.
LEMMA InitIInv == Init => IInv
<1>. SUFFICES ASSUME Init PROVE IInv
  OBVIOUS
<1>1. (CHOOSE l \in Logger : TRUE) \in Logger /\ (CHOOSE t \in Thread : TRUE) \in Thread
  BY LoggingConstants DEF LoggingConstants
<1>2. TypeOK
  <2>1. 0 \in Nat /\ 0 \in 0 .. MaxMsgs
    BY LoggingConstants DEF LoggingConstants
  <2>. QED BY Zenon, <1>1, <2>1, EmptySeq DEF Init, TypeOK
<1>3. LockInv /\ CallInv
  BY LoggingConstants DEF LoggingConstants, Init, LockInv, InSection, CallInv
<1>4. LiveInv /\ BufferInv
  BY DEF Init, LiveInv, BufferInv
<1>. QED BY <1>2, <1>3, <1>4 DEF IInv

\* Dropping a prefix of a sequence leaves a sequence over the same set.
LEMMA SuffixType ==
    ASSUME NEW S, NEW s \in Seq(S), NEW k \in 0 .. Len(s)
    PROVE  SubSeq(s, k + 1, Len(s)) \in Seq(S)
<1>. DEFINE a == k + 1
            b == Len(s)
<1>1. a \in Int /\ b \in Int /\ \A i \in a .. b : i \in 1 .. Len(s)
  OBVIOUS
<1>2. \A i \in a .. b : s[i] \in S
  BY <1>1, ElementOfSeq
<1>. HIDE DEF a, b
<1>3. SubSeq(s, a, b) \in Seq(S)
  BY <1>1, <1>2, SubSeqProperties
<1>. QED BY <1>3 DEF a, b

\* Buffering or delivering one line keeps the types of what it changes.
LEMMA LogPrintType ==
    ASSUME TypeOK, LogPrint
    PROVE  /\ buffer' \in Seq(1 .. MaxMsgs)
           /\ discarded' \in Nat
           /\ logged' \in 0 .. MaxMsgs
           /\ received' \in [Logger -> Seq(1 .. MaxMsgs)]
<1>1. logged + 1 \in 1 .. MaxMsgs /\ logged' = logged + 1
  BY LoggingConstants DEF LoggingConstants, TypeOK, LogPrint
<1>2. CASE mode = "buffering"
  <2>. DEFINE s == Append(buffer, logged + 1)
  <2>1. s \in Seq(1 .. MaxMsgs)
    BY <1>1 DEF TypeOK
  <2>2. PICK k \in 0 .. Len(s) : /\ buffer' = SubSeq(s, k + 1, Len(s))
                                 /\ discarded' = discarded + k
    BY <1>2 DEF LogPrint
  <2>3. received' = received
    BY <1>2 DEF LogPrint
  <2>. HIDE DEF s
  <2>4. SubSeq(s, k + 1, Len(s)) \in Seq(1 .. MaxMsgs)
    BY Zenon, <2>1, <2>2, SuffixType
  <2>5. k \in Nat
    BY <2>1, <2>2
  <2>6. buffer' \in Seq(1 .. MaxMsgs)
    BY <2>2, <2>4
  <2>7. discarded \in Nat /\ received \in [Logger -> Seq(1 .. MaxMsgs)]
    BY DEF TypeOK
  <2>8. discarded' \in Nat
    BY <2>2, <2>5, <2>7
  <2>9. logged' \in 0 .. MaxMsgs
    BY <1>1, LoggingConstants DEF LoggingConstants
  <2>. QED BY <2>3, <2>6, <2>7, <2>8, <2>9
<1>3. CASE mode = "started"
  <2>1. \A l \in Logger : received[l] \o <<logged + 1>> \in Seq(1 .. MaxMsgs)
    BY <1>1 DEF TypeOK
  <2>2. received' = [l \in Logger |-> IF l \in callbacks
                                      THEN received[l] \o <<logged + 1>> ELSE received[l]]
    BY Zenon, <1>3 DEF LogPrint, Deliver
  <2>3. received' \in [Logger -> Seq(1 .. MaxMsgs)]
    BY Zenon, <2>1, <2>2 DEF TypeOK
  <2>. QED BY <1>1, <1>3, <2>3 DEF TypeOK, LogPrint
<1>. QED BY <1>2, <1>3 DEF TypeOK

\* LogDebug either logs one line or changes nothing.
LEMMA LogDebugType ==
    ASSUME TypeOK, LogDebug
    PROVE  /\ buffer' \in Seq(1 .. MaxMsgs)
           /\ discarded' \in Nat
           /\ logged' \in 0 .. MaxMsgs
           /\ received' \in [Logger -> Seq(1 .. MaxMsgs)]
BY Zenon, LogPrintType DEF LogDebug, TypeOK

\* Starting the logger keeps the types of what it changes.
LEMMA StartLoggingType ==
    ASSUME TypeOK, StartLogging
    PROVE  /\ mode' \in {"buffering", "started"}
           /\ process' \in {"running", "aborted"}
           /\ buffer' \in Seq(1 .. MaxMsgs)
           /\ received' \in [Logger -> Seq(1 .. MaxMsgs)]
           /\ since' \in 0 .. MaxMsgs
           /\ origin' \in [Logger -> 0 .. MaxMsgs]
           /\ reported' \in [Logger -> Nat]
<1>1. \A l \in Logger : received[l] \o buffer \in Seq(1 .. MaxMsgs)
  BY DEF TypeOK
<1>2. CASE mode = "started"
  BY Zenon, <1>2 DEF TypeOK, StartLogging
<1>3. CASE mode = "buffering"
  <2>1. received' = [l \in Logger |-> IF l \in callbacks THEN received[l] \o buffer
                                                         ELSE received[l]]
    BY <1>3 DEF StartLogging, Deliver
  <2>2. received' \in [Logger -> Seq(1 .. MaxMsgs)]
    BY Zenon, <1>1, <2>1 DEF TypeOK
  <2>3. origin' \in [Logger -> 0 .. MaxMsgs] /\ reported' \in [Logger -> Nat]
    BY Zenon, <1>3 DEF TypeOK, StartLogging
  <2>4. buffer' \in Seq(1 .. MaxMsgs)
    BY <1>3 DEF StartLogging
  <2>. QED BY Zenon, <1>3, <2>2, <2>3, <2>4 DEF TypeOK, StartLogging
<1>. QED BY Zenon, <1>2, <1>3 DEF TypeOK

\* Every step keeps the types.
LEMMA NextType == TypeOK /\ [Next]_vars => TypeOK'
<1>. SUFFICES ASSUME TypeOK, [Next]_vars PROVE TypeOK'
  OBVIOUS
<1>1. CASE UNCHANGED vars
  BY Zenon, <1>1 DEF TypeOK, vars
<1>2. ASSUME NEW t \in Thread, Log(t) PROVE TypeOK'
  BY Zenon, <1>2, LogPrintType DEF Log, TypeOK
<1>3. ASSUME NEW t \in Thread, NEW l \in Logger, NewPush(t, l) PROVE TypeOK'
  BY Zenon, <1>3 DEF NewPush, TypeOK
<1>4. ASSUME NEW t \in Thread, NEW l \in Logger, DropBegin(t, l) PROVE TypeOK'
  BY Zenon, <1>4, LogDebugType DEF DropBegin, TypeOK
<1>5. ASSUME NEW t \in Thread, DisableCheck(t) PROVE TypeOK'
  BY Zenon, <1>5 DEF DisableCheck, TypeOK
<1>6. ASSUME NEW t \in Thread, NEW v \in {"on", "off"}, SetCategory(t, v) PROVE TypeOK'
  BY Zenon, <1>6 DEF SetCategory, TypeOK
<1>7. ASSUME NEW t \in Thread, NEW v \in {"debug", "info"}, SetLevelCategory(t, v)
      PROVE  TypeOK'
  BY Zenon, <1>7 DEF SetLevelCategory, TypeOK
<1>8. ASSUME NEW t \in Thread, NewCount(t) \/ DropCount(t) PROVE TypeOK'
  BY ZenonT(30), <1>8 DEF NewCount, DropCount, TypeOK
<1>9. ASSUME NEW t \in Thread, NewStart(t) \/ DisableStart(t) PROVE TypeOK'
  BY Zenon, <1>9, StartLoggingType DEF NewStart, DisableStart, TypeOK
<1>10. ASSUME NEW t \in Thread, NewDone(t) PROVE TypeOK'
  BY Zenon, <1>10, LogDebugType DEF NewDone, TypeOK
<1>11. ASSUME NEW t \in Thread,
              DisconnectTestLogger(t) \/ DeleteCallback(t) \/ DropFree(t)
       PROVE  TypeOK'
  <2>1. CASE DisconnectTestLogger(t)
    <3>1. buffer' \in Seq(1 .. MaxMsgs)
      BY <2>1 DEF DisconnectTestLogger
    <3>. QED BY Zenon, <2>1, <3>1 DEF DisconnectTestLogger, TypeOK
  <2>2. CASE DeleteCallback(t)
    BY Zenon, <2>2 DEF DeleteCallback, TypeOK
  <2>3. CASE DropFree(t)
    BY Zenon, <2>3 DEF DropFree, TypeOK
  <2>. QED BY <1>11, <2>1, <2>2, <2>3
<1>. QED
  BY <1>1, <1>2, <1>3, <1>4, <1>5, <1>6, <1>7, <1>8, <1>9, <1>10, <1>11
     DEF Next, Proceed

\* TypeOK holds in every reachable state of the logger.
THEOREM TypeCorrect == Spec => []TypeOK
<1>1. Init => TypeOK
  BY InitIInv DEF IInv
<1>. QED BY <1>1, NextType, PTL DEF Spec

-----------------------------------------------------------------------------
\* The part of the state the ownership argument is about.
own == <<csMain, pc, arg, box, callbacks, mode, disable, process>>

OwnType ==
    /\ pc \in [Thread -> Pc]
    /\ arg \in [Thread -> Logger]
    /\ box \in [Logger -> {"none", "live", "freed"}]
    /\ callbacks \in SUBSET Logger
    /\ disable \in {"never", "called"}
    /\ NoThread \notin Thread

OwnInv == LockInv /\ CallInv /\ LiveInv /\ BufferInv

\* A step that leaves the ownership state alone keeps the invariant about it.
LEMMA OwnUnchanged == OwnInv /\ UNCHANGED own => OwnInv'
BY DEF own, OwnInv, LockInv, InSection, CallInv, LiveInv, BufferInv, FirstStarting

\* Logger::new registers the boxed handler.
LEMMA NewPushOwn ==
    ASSUME OwnType, OwnInv, NEW t \in Thread, NEW l \in Logger, NewPush(t, l)
    PROVE  OwnInv'
<1>. USE DEF OwnType, OwnInv, NewPush
<1>1. \A u \in Thread : pc[u] \notin Creating \cup Dropping
  BY Zenon DEF LockInv, InSection
<1>2. l \notin callbacks
  BY Zenon DEF LiveInv
<1>3. LockInv'
  BY <1>1 DEF LockInv, InSection
<1>4. CallInv'
  BY <1>1 DEF CallInv, InSection
<1>5. LiveInv'
  BY <1>1 DEF LiveInv
<1>6. BufferInv'
  BY <1>1, <1>2 DEF BufferInv, FirstStarting
<1>. QED BY Zenon, <1>3, <1>4, <1>5, <1>6

\* The thread inside a constructor or destructor is alone in one.
LEMMA SoleSection ==
    ASSUME OwnType, LockInv, NEW t \in Thread, InSection(t)
    PROVE  csMain = t /\ \A u \in Thread \ {t} : ~InSection(u)
BY Zenon DEF OwnType, LockInv

\* NumConnections() == 1 decides whether the logger is started.
LEMMA NewCountOwn ==
    ASSUME OwnType, OwnInv, NEW t \in Thread, NewCount(t)
    PROVE  OwnInv'
<1>. USE DEF OwnType, OwnInv, NewCount, InSection
<1>1. csMain = t /\ \A u \in Thread \ {t} : pc[u] \notin Creating \cup Dropping
  BY Zenon, SoleSection
<1>2. arg[t] \in callbacks
  BY <1>1 DEF CallInv, LiveInv
<1>3. OneConnection <=> callbacks = {arg[t]}
  BY Zenon, <1>2 DEF OneConnection
<1>4. LockInv'
  BY Zenon, <1>1 DEF LockInv
<1>5. CallInv'
  BY <1>1, <1>3 DEF CallInv
<1>6. LiveInv'
  BY <1>1 DEF LiveInv
<1>7. BufferInv'
  BY <1>1, <1>2, <1>3 DEF BufferInv, FirstStarting
<1>. QED BY Zenon, <1>4, <1>5, <1>6, <1>7

\* The first connection starts the logger; assert(m_buffering) holds unless
\* disable_logging was called.
LEMMA NewStartOwn ==
    ASSUME OwnType, OwnInv, NEW t \in Thread, NewStart(t)
    PROVE  OwnInv'
<1>. USE DEF OwnType, OwnInv, NewStart, InSection
<1>1. csMain = t /\ \A u \in Thread \ {t} : pc[u] \notin Creating \cup Dropping
  BY Zenon, SoleSection
<1>2. callbacks = {arg[t]}
  BY Zenon DEF CallInv
<1>3. disable = "never" => mode = "buffering"
  BY Zenon, <1>2 DEF BufferInv, FirstStarting
<1>4. disable = "never" => mode' = "started" /\ process' = process
  BY Zenon, <1>3 DEF StartLogging
<1>5. LockInv'
  BY Zenon, <1>1 DEF LockInv
<1>6. CallInv'
  BY Zenon, <1>1, <1>2 DEF CallInv
<1>7. LiveInv'
  BY Zenon, <1>1 DEF LiveInv
<1>8. BufferInv'
  BY Zenon, <1>1, <1>2, <1>4 DEF BufferInv, FirstStarting
<1>. QED BY Zenon, <1>5, <1>6, <1>7, <1>8

\* The constructor returns and releases cs_main.
LEMMA NewDoneOwn ==
    ASSUME OwnType, OwnInv, NEW t \in Thread, NewDone(t)
    PROVE  OwnInv'
<1>. USE DEF OwnType, OwnInv, NewDone, InSection
<1>1. csMain = t /\ \A u \in Thread \ {t} : pc[u] \notin Creating \cup Dropping
  BY Zenon, SoleSection
<1>2. LockInv'
  BY Zenon, <1>1 DEF LockInv
<1>3. CallInv'
  BY <1>1 DEF CallInv
<1>4. LiveInv'
  BY Zenon, <1>1 DEF LiveInv
<1>5. BufferInv'
  BY Zenon, <1>1 DEF BufferInv, FirstStarting
<1>. QED BY Zenon, <1>2, <1>3, <1>4, <1>5

\* The destructor takes cs_main, for a Logger whose handler is alive.
LEMMA DropBeginOwn ==
    ASSUME OwnType, OwnInv, NEW t \in Thread, NEW l \in Logger, DropBegin(t, l)
    PROVE  OwnInv'
<1>. USE DEF OwnType, OwnInv, DropBegin, InSection
<1>1. \A u \in Thread : pc[u] \notin Creating \cup Dropping
  BY Zenon DEF LockInv
<1>2. LockInv'
  BY Zenon, <1>1 DEF LockInv
<1>3. CallInv'
  BY Zenon, <1>1 DEF CallInv
<1>4. LiveInv'
  BY Zenon, <1>1 DEF LiveInv
<1>5. BufferInv'
  BY Zenon, <1>1 DEF BufferInv, FirstStarting
<1>. QED BY Zenon, <1>2, <1>3, <1>4, <1>5

\* NumConnections() == 1 decides how the connection is removed.
LEMMA DropCountOwn ==
    ASSUME OwnType, OwnInv, NEW t \in Thread, DropCount(t)
    PROVE  OwnInv'
<1>. USE DEF OwnType, OwnInv, DropCount, InSection
<1>1. csMain = t /\ \A u \in Thread \ {t} : pc[u] \notin Creating \cup Dropping
  BY Zenon, SoleSection
<1>2. arg[t] \in callbacks
  BY <1>1 DEF CallInv, LiveInv
<1>3. OneConnection <=> callbacks = {arg[t]}
  BY Zenon, <1>2 DEF OneConnection
<1>4. LockInv'
  BY Zenon, <1>1 DEF LockInv
<1>5. CallInv'
  BY <1>1, <1>3 DEF CallInv
<1>6. LiveInv'
  BY <1>1 DEF LiveInv
<1>7. BufferInv'
  BY <1>1 DEF BufferInv, FirstStarting
<1>. QED BY Zenon, <1>4, <1>5, <1>6, <1>7

\* The last connection goes: the logger buffers again.
LEMMA DisconnectOwn ==
    ASSUME OwnType, OwnInv, NEW t \in Thread, DisconnectTestLogger(t)
    PROVE  OwnInv'
<1>. USE DEF OwnType, OwnInv, DisconnectTestLogger, InSection
<1>1. csMain = t /\ \A u \in Thread \ {t} : pc[u] \notin Creating \cup Dropping
  BY Zenon, SoleSection
<1>2. callbacks = {arg[t]}
  BY Zenon DEF CallInv
<1>3. LockInv'
  BY Zenon, <1>1 DEF LockInv
<1>4. CallInv'
  BY Zenon, <1>1 DEF CallInv
<1>5. LiveInv'
  BY <1>1, <1>2 DEF LiveInv
<1>6. BufferInv'
  BY Zenon, <1>1 DEF BufferInv, FirstStarting
<1>. QED BY Zenon, <1>3, <1>4, <1>5, <1>6

\* One of several connections goes: the others keep the logger started.
LEMMA DeleteOwn ==
    ASSUME OwnType, OwnInv, NEW t \in Thread, DeleteCallback(t)
    PROVE  OwnInv'
<1>. USE DEF OwnType, OwnInv, DeleteCallback, InSection
<1>1. csMain = t /\ \A u \in Thread \ {t} : pc[u] \notin Creating \cup Dropping
  BY Zenon, SoleSection
<1>2. arg[t] \in callbacks /\ callbacks # {arg[t]}
  BY <1>1 DEF CallInv, LiveInv
<1>3. LockInv'
  BY <1>1 DEF LockInv
<1>4. CallInv'
  BY <1>1 DEF CallInv
<1>5. LiveInv'
  BY Zenon, <1>1 DEF LiveInv
<1>6. BufferInv'
  BY Zenon, <1>1, <1>2 DEF BufferInv, FirstStarting
<1>. QED BY Zenon, <1>3, <1>4, <1>5, <1>6

\* The handler is freed, after it was unregistered.
LEMMA DropFreeOwn ==
    ASSUME OwnType, OwnInv, NEW t \in Thread, DropFree(t)
    PROVE  OwnInv'
<1>. USE DEF OwnType, OwnInv, DropFree, InSection
<1>1. csMain = t /\ \A u \in Thread \ {t} : pc[u] \notin Creating \cup Dropping
  BY Zenon, SoleSection
<1>2. LockInv'
  BY Zenon, <1>1 DEF LockInv
<1>3. CallInv'
  BY Zenon, <1>1 DEF CallInv
<1>4. LiveInv'
  BY Zenon, <1>1 DEF LiveInv
<1>5. BufferInv'
  BY Zenon, <1>1 DEF BufferInv, FirstStarting
<1>. QED BY Zenon, <1>2, <1>3, <1>4, <1>5

\* disable_logging changes no connection; it may only start or abort.
LEMMA DisableOwn ==
    ASSUME OwnType, OwnInv, NEW t \in Thread, DisableCheck(t) \/ DisableStart(t)
    PROVE  OwnInv'
<1>. USE DEF OwnType, OwnInv, DisableCheck, DisableStart, InSection
<1>1. /\ \A u \in Thread \ {t} : pc'[u] = pc[u]
      /\ pc[t] \in {"idle", "dis_start"} /\ pc'[t] \in {"idle", "dis_start"}
      /\ UNCHANGED <<csMain, arg, box, callbacks>>
  OBVIOUS
<1>2. LockInv'
  BY Zenon, <1>1 DEF LockInv
<1>3. CallInv'
  BY Zenon, <1>1 DEF CallInv
<1>4. LiveInv'
  BY <1>1 DEF LiveInv
<1>5. disable' = "called"
  BY Zenon DEF BufferInv
<1>. QED BY Zenon, <1>2, <1>3, <1>4, <1>5 DEF BufferInv
-----------------------------------------------------------------------------
\* Every step of the logger preserves the inductive invariant.
LEMMA StepIInv == IInv /\ [Next]_vars => IInv'
<1>. SUFFICES ASSUME IInv, [Next]_vars PROVE OwnInv'
  BY Zenon, NextType DEF IInv, OwnInv
<1>1. OwnType /\ OwnInv
  BY Zenon, LoggingConstants DEF LoggingConstants, IInv, TypeOK, OwnType, OwnInv
<1>2. CASE UNCHANGED vars
  BY Zenon, <1>1, <1>2, OwnUnchanged DEF vars, own
<1>3. ASSUME NEW t \in Thread,
             \/ Log(t)
             \/ \E v \in {"on", "off"} : SetCategory(t, v)
             \/ \E v \in {"debug", "info"} : SetLevelCategory(t, v)
      PROVE  OwnInv'
  BY Zenon, <1>1, <1>3, OwnUnchanged DEF Log, SetCategory, SetLevelCategory, own
<1>4. ASSUME NEW t \in Thread, Proceed(t) \/ DisableCheck(t)
      PROVE  OwnInv'
  BY Zenon, <1>1, <1>4, NewCountOwn, NewStartOwn, NewDoneOwn, DropCountOwn, DisconnectOwn,
     DeleteOwn, DropFreeOwn, DisableOwn DEF Proceed
<1>5. ASSUME NEW t \in Thread, NEW l \in Logger, NewPush(t, l) \/ DropBegin(t, l)
      PROVE  OwnInv'
  BY <1>1, <1>5, NewPushOwn, DropBeginOwn
<1>. QED BY <1>2, <1>3, <1>4, <1>5 DEF Next

\* The inductive invariant holds in every reachable state.
LEMMA Inductive == Spec => []IInv
BY InitIInv, StepIInv, PTL DEF Spec

\* For every number of threads and Loggers, the registered callbacks are the
\* live handlers: a Log handler is never called after it is freed, and none
\* stays registered or leaks when Loggers are created and dropped concurrently.
THEOREM CallbacksSafe == Spec => []CallbacksAreLive
<1>1. ASSUME IInv PROVE CallbacksAreLive
  <2>. DEFINE freeing == {arg[t] : t \in {u \in Thread : pc[u] = "drop_free"}}
  <2>1. \A l \in Logger : l \in callbacks <=> box[l] = "live" /\ l \notin freeing
    BY <1>1 DEF IInv, LiveInv
  <2>2. callbacks \subseteq Logger
    BY <1>1 DEF IInv, TypeOK
  <2>. HIDE DEF freeing
  <2>3. callbacks = {l \in Logger : box[l] = "live"} \ freeing
    BY <2>1, <2>2
  <2>. QED BY Zenon, <2>3 DEF CallbacksAreLive, freeing
<1>. QED BY <1>1, Inductive, PTL

\* For every number of threads and Loggers, no assertion of the logger fails
\* in a program that never calls disable_logging.
THEOREM AbortFree == Spec => []AbortOnlyAfterDisable
<1>1. IInv => AbortOnlyAfterDisable
  BY DEF IInv, BufferInv, AbortOnlyAfterDisable, TypeOK
<1>. QED BY <1>1, Inductive, PTL

-----------------------------------------------------------------------------
(* What the lines of the buffer use. *)

\* The least-number principle.
LEMMA Least ==
    ASSUME NEW T \in SUBSET Nat, T # {}
    PROVE  \E x \in T : \A y \in T : x <= y
<1>. DEFINE R == OpToRel(<, Nat)
<1>1. PICK x \in T : \A y \in T : ~(<<y, x>> \in R)
  <2>1. IsWellFoundedOn(R, Nat)
    BY ZenonT(30), NatLessThanWellFounded
  <2>. HIDE DEF R
  <2>. QED BY ZenonT(30), <2>1, WFMin
<1>2. \A i, j \in Nat : i < j => <<i, j>> \in R
  BY DEF R, OpToRel
<1>. HIDE DEF R
<1>3. \A y \in T : ~(y < x)
  BY ZenonT(30), <1>1, <1>2
<1>. QED BY <1>3

\* f adds up the sizes of the lines s, one by one, for the first n.
Totals(f, s, n) ==
    f = [i \in 0 .. n |-> IF i = 0 THEN 0 ELSE f[i - 1] + MsgSize[s[i]]]

LEMMA TotalsAt ==
    ASSUME NEW f, NEW s, NEW n, Totals(f, s, n), NEW i \in 0 .. n
    PROVE  f[i] = IF i = 0 THEN 0 ELSE f[i - 1] + MsgSize[s[i]]
BY DEF Totals

LEMMA TotalsExist ==
    ASSUME NEW s \in Seq(1 .. MaxMsgs), NEW n \in 0 .. Len(s)
    PROVE  \E f : Totals(f, s, n)
<1>. SUFFICES ASSUME ~\E f : Totals(f, s, n) PROVE FALSE
  OBVIOUS
<1>. DEFINE T == {k \in Nat : ~\E f : Totals(f, s, k)}
<1>1. T \in SUBSET Nat /\ T # {}
  <2>1. n \in Nat
    OBVIOUS
  <2>. QED BY Zenon, <2>1
<1>2. PICK k \in T : \A m \in T : k <= m
  BY ZenonT(30), <1>1, Least
<1>3. k # 0
  <2>. DEFINE f == [i \in 0 .. 0 |-> 0]
  <2>1. Totals(f, s, 0)
    BY DEF Totals
  <2>. HIDE DEF f
  <2>. QED BY <2>1
<1>4. PICK f : Totals(f, s, k - 1)
  BY <1>2, <1>3
<1>5. \A i \in 0 .. k - 1 : f[i] = IF i = 0 THEN 0 ELSE f[i - 1] + MsgSize[s[i]]
  BY <1>4, TotalsAt
<1>. DEFINE h == [i \in 0 .. k |-> IF i = k THEN f[k - 1] + MsgSize[s[k]] ELSE f[i]]
<1>6. h = [i \in 0 .. k |-> IF i = 0 THEN 0 ELSE h[i - 1] + MsgSize[s[i]]]
  <2>1. \A i \in 0 .. k : h[i] = IF i = 0 THEN 0 ELSE h[i - 1] + MsgSize[s[i]]
    <3>. SUFFICES ASSUME NEW i \in 0 .. k
                  PROVE  h[i] = IF i = 0 THEN 0 ELSE h[i - 1] + MsgSize[s[i]]
      OBVIOUS
    <3>1. CASE i = 0
      BY <1>3, <1>5, <3>1
    <3>2. CASE i # 0 /\ i # k
      BY <1>5, <3>2
    <3>3. CASE i = k
      BY <1>3, <3>3
    <3>. QED BY <3>1, <3>2, <3>3
  <2>. QED BY <2>1
<1>7. Totals(h, s, k)
  BY Zenon, <1>6 DEF Totals
<1>. HIDE DEF h
<1>. QED BY <1>2, <1>7

LEMMA UsageTotals ==
    ASSUME NEW s \in Seq(1 .. MaxMsgs)
    PROVE  \E f : Totals(f, s, Len(s)) /\ Usage(s) = f[Len(s)]
<1>. DEFINE f == CHOOSE f : Totals(f, s, Len(s))
<1>1. Totals(f, s, Len(s))
  <2>1. \E g : Totals(g, s, Len(s))
    BY TotalsExist
  <2>. QED BY <2>1, Zenon
<1>2. Usage(s) = f[Len(s)]
  BY Zenon DEF Usage, Totals
<1>. QED BY ZenonT(30), <1>1, <1>2

\* The totals are natural numbers, and depend on the lines added up only.
LEMMA TotalsNat ==
    ASSUME NEW s \in Seq(1 .. MaxMsgs), NEW f, Totals(f, s, Len(s)), NEW n \in 0 .. Len(s)
    PROVE  f[n] \in Nat
<1>. SUFFICES ASSUME f[n] \notin Nat PROVE FALSE
  OBVIOUS
<1>. DEFINE T == {k \in 0 .. Len(s) : f[k] \notin Nat}
<1>1. T \in SUBSET Nat /\ T # {}
  OBVIOUS
<1>2. PICK k \in T : \A m \in T : k <= m
  BY ZenonT(30), <1>1, Least
<1>3. \A i \in 0 .. Len(s) : f[i] = IF i = 0 THEN 0 ELSE f[i - 1] + MsgSize[s[i]]
  BY TotalsAt
<1>4. k \in 1 .. Len(s) /\ k - 1 \in 0 .. Len(s) /\ f[k] = f[k - 1] + MsgSize[s[k]]
  BY <1>2, <1>3
<1>5. f[k - 1] \in Nat
  BY <1>2, <1>4
<1>6. MsgSize[s[k]] \in Nat
  BY SMTT(30), <1>4, LoggingConstants DEF LoggingConstants
<1>. QED BY SMTT(30), <1>2, <1>4, <1>5, <1>6

LEMMA TotalsAgree ==
    ASSUME NEW s \in Seq(1 .. MaxMsgs), NEW u \in Seq(1 .. MaxMsgs), Len(s) <= Len(u),
           \A i \in 1 .. Len(s) : s[i] = u[i],
           NEW f, Totals(f, s, Len(s)), NEW h, Totals(h, u, Len(u)), NEW n \in 0 .. Len(s)
    PROVE  f[n] = h[n]
<1>. SUFFICES ASSUME f[n] # h[n] PROVE FALSE
  OBVIOUS
<1>. DEFINE T == {k \in 0 .. Len(s) : f[k] # h[k]}
<1>1. T \in SUBSET Nat /\ T # {}
  OBVIOUS
<1>2. PICK k \in T : \A m \in T : k <= m
  BY ZenonT(30), <1>1, Least
<1>3. \A i \in 0 .. Len(s) : f[i] = IF i = 0 THEN 0 ELSE f[i - 1] + MsgSize[s[i]]
  BY TotalsAt
<1>4. \A i \in 0 .. Len(s) : h[i] = IF i = 0 THEN 0 ELSE h[i - 1] + MsgSize[u[i]]
  <2>1. \A i \in 0 .. Len(s) : i \in 0 .. Len(u)
    OBVIOUS
  <2>. QED BY <2>1, TotalsAt
<1>5. k \in 1 .. Len(s) /\ k - 1 \in 0 .. Len(s)
  BY <1>2, <1>3, <1>4
<1>6. f[k - 1] = h[k - 1]
  BY <1>2, <1>5
<1>. QED BY <1>2, <1>3, <1>4, <1>5, <1>6

\* No lines use nothing, and one more line uses no less.
LEMMA UsageGrows ==
    /\ Usage(<< >>) = 0
    /\ \A s \in Seq(1 .. MaxMsgs), x \in 1 .. MaxMsgs :
          Usage(s) \in Nat /\ Usage(Append(s, x)) \in Nat /\ Usage(s) <= Usage(Append(s, x))
<1>1. Usage(<< >>) = 0
  <2>1. << >> \in Seq(1 .. MaxMsgs) /\ Len(<< >>) = 0
    OBVIOUS
  <2>2. PICK f : Totals(f, << >>, 0) /\ Usage(<< >>) = f[0]
    BY ZenonT(30), <2>1, UsageTotals
  <2>. QED BY <2>2 DEF Totals
<1>2. ASSUME NEW s \in Seq(1 .. MaxMsgs), NEW x \in 1 .. MaxMsgs
      PROVE  Usage(s) \in Nat /\ Usage(Append(s, x)) \in Nat /\ Usage(s) <= Usage(Append(s, x))
  <2>. DEFINE u == Append(s, x)
  <2>1. /\ u \in Seq(1 .. MaxMsgs) /\ Len(u) = Len(s) + 1 /\ Len(s) \in Nat
        /\ \A i \in 1 .. Len(s) : s[i] = u[i]
        /\ u[Len(u)] = x
    OBVIOUS
  <2>. HIDE DEF u
  <2>2. PICK f : Totals(f, s, Len(s)) /\ Usage(s) = f[Len(s)]
    BY UsageTotals
  <2>3. PICK h : Totals(h, u, Len(u)) /\ Usage(u) = h[Len(u)]
    BY <2>1, UsageTotals
  <2>4. Len(s) \in 0 .. Len(s) /\ Len(s) <= Len(u) /\ Len(u) \in 0 .. Len(u)
        /\ Len(s) \in 0 .. Len(u)
    BY <2>1
  <2>5. f[Len(s)] = h[Len(s)]
    BY <2>1, <2>2, <2>3, <2>4, TotalsAgree
  <2>6. h[Len(u)] = h[Len(s)] + MsgSize[u[Len(u)]]
    BY <2>1, <2>3 DEF Totals
  <2>7. f[Len(s)] \in Nat /\ h[Len(u)] \in Nat /\ h[Len(s)] \in Nat
    BY Zenon, <2>1, <2>2, <2>3, <2>4, TotalsNat
  <2>8. MsgSize[x] \in Nat
    BY LoggingConstants DEF LoggingConstants
  <2>. QED BY <2>1, <2>2, <2>3, <2>5, <2>6, <2>7, <2>8 DEF u
<1>. QED BY <1>1, <1>2
-----------------------------------------------------------------------------
(* The lines each handler sees. *)

\* While buffering, the buffer ends with the last line logged, and no
\* registered handler has seen anything.
NewestInv ==
    mode = "buffering" =>
        /\ \A i \in 1 .. Len(buffer) : buffer[i] = logged - Len(buffer) + i
        /\ \A l \in callbacks : received[l] = << >>

\* A Logger still to be created has seen nothing.
FreshInv == \A l \in Logger : box[l] = "none" => received[l] = << >> /\ reported[l] = 0

LinesInv == LinesUnbroken /\ LinesAccountedFor /\ NewestInv /\ FreshInv

\* A suffix of a sequence.
LEMMA Suffix ==
    ASSUME NEW S, NEW s \in Seq(S), NEW k \in 0 .. Len(s)
    PROVE  /\ SubSeq(s, k + 1, Len(s)) \in Seq(S)
           /\ Len(SubSeq(s, k + 1, Len(s))) = Len(s) - k
           /\ \A i \in 1 .. Len(s) - k : SubSeq(s, k + 1, Len(s))[i] = s[k + i]
<1>1. SubSeq(s, k + 1, Len(s)) \in Seq(S)
  BY SuffixType
<1>2. Len(SubSeq(s, k + 1, Len(s))) = Len(s) - k
  OBVIOUS
<1>3. \A i \in 1 .. Len(s) - k : SubSeq(s, k + 1, Len(s))[i] = s[k + i]
  OBVIOUS
<1>. QED BY <1>1, <1>2, <1>3

\* What LogPrint leaves in the buffer: the newest lines, all but k of them.
LEMMA Buffered ==
    ASSUME TypeOK, LinesInv, mode = "buffering", LogPrint
    PROVE  LET s == Append(buffer, logged + 1)
           IN  \E k \in 0 .. Len(s) :
                  /\ s \in Seq(1 .. MaxMsgs) /\ Len(s) = Len(buffer) + 1
                  /\ \A i \in 1 .. Len(s) : s[i] = logged' - Len(s) + i
                  /\ Evicts(s, k) /\ buffer' = SubSeq(s, k + 1, Len(s))
                  /\ discarded' = discarded + k /\ received' = received
                  /\ logged' = logged + 1
<1>. DEFINE s == Append(buffer, logged + 1)
<1>1. /\ logged' = logged + 1 /\ received' = received /\ logged < MaxMsgs
      /\ \E k \in 0 .. Len(s) : /\ Evicts(s, k) /\ buffer' = SubSeq(s, k + 1, Len(s))
                                /\ discarded' = discarded + k
  BY Zenon DEF LogPrint
<1>2. buffer \in Seq(1 .. MaxMsgs) /\ logged \in Nat /\ logged + 1 \in 1 .. MaxMsgs
  BY <1>1, LoggingConstants DEF LoggingConstants, TypeOK
<1>3. /\ s \in Seq(1 .. MaxMsgs) /\ Len(s) = Len(buffer) + 1 /\ s[Len(s)] = logged + 1
      /\ \A i \in 1 .. Len(buffer) : s[i] = buffer[i]
  BY <1>2
<1>4. Len(buffer) \in Nat /\ \A i \in 1 .. Len(buffer) : buffer[i] = logged - Len(buffer) + i
  BY <1>2 DEF LinesInv, NewestInv
<1>. HIDE DEF s
<1>5. \A i \in 1 .. Len(s) : s[i] = logged' - Len(s) + i
  <2>. SUFFICES ASSUME NEW i \in 1 .. Len(s) PROVE s[i] = logged' - Len(s) + i
    OBVIOUS
  <2>1. CASE i = Len(s)
    <3>1. s[i] = logged' /\ logged' \in Nat
      BY <1>1, <1>2, <1>3, <2>1
    <3>. QED BY <1>3, <1>4, <2>1, <3>1
  <2>2. CASE i # Len(s)
    <3>1. i \in 1 .. Len(buffer)
      BY <1>3, <1>4, <2>2
    <3>2. s[i] = logged - Len(buffer) + i
      BY Zenon, <1>3, <1>4, <3>1
    <3>. QED BY <1>1, <1>2, <1>3, <1>4, <3>2
  <2>. QED BY <2>1, <2>2
<1>. QED BY Zenon, <1>1, <1>3, <1>5 DEF s

\* One line: the buffer stays the newest lines, or every registered handler
\* is called with it.
LEMMA PrintLines ==
    ASSUME IInv, LinesInv, LogPrint,
           UNCHANGED <<mode, callbacks, box, since, origin, reported>>
    PROVE  LinesInv'
<1>0. /\ buffer \in Seq(1 .. MaxMsgs) /\ logged \in Nat /\ discarded \in Nat /\ since \in Nat
      /\ received \in [Logger -> Seq(1 .. MaxMsgs)] /\ callbacks \subseteq Logger
      /\ origin \in [Logger -> Nat] /\ reported \in [Logger -> Nat] /\ TypeOK
  BY SMTT(30) DEF IInv, TypeOK
<1>1. CASE mode = "buffering"
  <2>. DEFINE s == Append(buffer, logged + 1)
  <2>1. PICK k \in 0 .. Len(s) :
            /\ s \in Seq(1 .. MaxMsgs) /\ Len(s) = Len(buffer) + 1
            /\ \A i \in 1 .. Len(s) : s[i] = logged' - Len(s) + i
            /\ buffer' = SubSeq(s, k + 1, Len(s))
            /\ discarded' = discarded + k /\ received' = received
            /\ logged' = logged + 1
    BY Zenon, <1>0, <1>1, Buffered
  <2>. HIDE DEF s
  <2>2. /\ Len(buffer') = Len(s) - k /\ k \in Nat /\ Len(s) \in Nat
        /\ \A i \in 1 .. Len(s) - k : buffer'[i] = s[k + i]
    <3>1. k \in Nat /\ Len(s) \in Nat
      BY <2>1
    <3>. QED BY ZenonT(30), <2>1, <3>1, Suffix
  <2>3. \A i \in 1 .. Len(buffer') : buffer'[i] = logged' - Len(buffer') + i
    <3>. SUFFICES ASSUME NEW i \in 1 .. Len(buffer')
                  PROVE  buffer'[i] = logged' - Len(buffer') + i
      OBVIOUS
    <3>1. k + i \in 1 .. Len(s) /\ i \in 1 .. Len(s) - k
      BY <2>2
    <3>2. buffer'[i] = s[k + i] /\ s[k + i] = logged' - Len(s) + (k + i)
      BY Zenon, <2>1, <2>2, <3>1
    <3>3. logged' \in Nat /\ Len(buffer') = Len(s) - k
      BY <1>0, <2>1, <2>2
    <3>. QED BY <2>2, <3>2, <3>3
  <2>4. NewestInv'
    BY Zenon, <1>1, <2>1, <2>3 DEF LinesInv, NewestInv
  <2>5. LinesUnbroken' /\ FreshInv'
    BY Zenon, <2>1 DEF LinesInv, LinesUnbroken, FreshInv
  <2>6. since + discarded + Len(buffer) = logged
    BY Zenon, <1>1 DEF LinesInv, LinesAccountedFor
  <2>7. since' + discarded' + Len(buffer') = logged'
    <3>1. /\ since' = since /\ discarded' = discarded + k /\ logged' = logged + 1
          /\ Len(buffer') = (Len(buffer) + 1) - k /\ Len(buffer) \in Nat
      BY Zenon, <1>0, <2>1, <2>2, LenProperties
    <3>2. since \in Nat /\ discarded \in Nat /\ k \in Nat
      BY Zenon, <1>0, <2>2
    <3>. QED BY <2>6, <3>1, <3>2
  <2>8. LinesAccountedFor'
    BY Zenon, <1>1, <2>7 DEF LinesAccountedFor
  <2>. QED BY <2>4, <2>5, <2>8 DEF LinesInv
<1>2. CASE mode # "buffering"
  <2>1. /\ logged' = logged + 1 /\ mode' # "buffering"
        /\ received' = [l \in Logger |-> IF l \in callbacks THEN received[l] \o <<logged + 1>>
                                                            ELSE received[l]]
    BY Zenon, <1>2 DEF LogPrint, Deliver
  <2>2. ASSUME NEW l \in callbacks
        PROVE  /\ origin[l] + reported[l] + Len(received'[l]) = logged'
               /\ \A i \in DOMAIN received'[l] : received'[l][i] = origin[l] + reported[l] + i
    <3>1. received'[l] = received[l] \o <<logged + 1>> /\ l \in Logger
      BY Zenon, <1>0, <2>1, <2>2
    <3>2. /\ origin[l] + reported[l] + Len(received[l]) = logged
          /\ \A i \in DOMAIN received[l] : received[l][i] = origin[l] + reported[l] + i
      BY Zenon, <1>2, <2>2, <3>1 DEF LinesInv, LinesAccountedFor, LinesUnbroken
    <3>3. received[l] \in Seq(1 .. MaxMsgs) /\ origin[l] \in Nat /\ reported[l] \in Nat
      BY <1>0, <3>1
    <3>4. /\ Len(received'[l]) = Len(received[l]) + 1
          /\ DOMAIN received'[l] = 1 .. Len(received[l]) + 1 /\ Len(received[l]) \in Nat
          /\ DOMAIN received[l] = 1 .. Len(received[l])
          /\ received'[l][Len(received[l]) + 1] = logged + 1
          /\ \A i \in 1 .. Len(received[l]) : received'[l][i] = received[l][i]
      BY <3>1, <3>3
    <3>5. origin[l] + reported[l] + Len(received'[l]) = logged'
      BY <1>0, <2>1, <3>2, <3>3, <3>4
    <3>6. ASSUME NEW i \in 1 .. Len(received[l]) + 1
          PROVE  received'[l][i] = origin[l] + reported[l] + i
      <4>1. CASE i = Len(received[l]) + 1
        <5>1. received'[l][i] = logged + 1
          BY Zenon, <3>4, <4>1
        <5>. QED BY <1>0, <3>2, <3>3, <3>4, <4>1, <5>1
      <4>2. CASE i # Len(received[l]) + 1
        <5>1. i \in 1 .. Len(received[l])
          BY <3>4, <4>2
        <5>. QED BY Zenon, <3>2, <3>4, <5>1
      <4>. QED BY <4>1, <4>2
    <3>. QED BY Zenon, <3>4, <3>5, <3>6
  <2>3. ASSUME NEW l \in Logger, l \notin callbacks PROVE received'[l] = received[l]
    BY Zenon, <2>1, <2>3
  <2>4. LinesUnbroken'
    BY Zenon, <2>2, <2>3 DEF LinesInv, LinesUnbroken
  <2>5. LinesAccountedFor' /\ NewestInv'
    BY Zenon, <2>1, <2>2 DEF LinesAccountedFor, NewestInv
  <2>6. FreshInv'
    <3>1. \A l \in Logger : box[l] = "none" => l \notin callbacks
      BY Zenon DEF IInv, LiveInv
    <3>. QED BY Zenon, <2>3, <3>1 DEF LinesInv, FreshInv
  <2>. QED BY <2>4, <2>5, <2>6 DEF LinesInv
<1>. QED BY <1>1, <1>2

\* Steps that touch no line.
LEMMA SameLines ==
    ASSUME LinesInv, UNCHANGED <<buffer, discarded, logged, received, since, origin, reported>>,
           mode' = mode, callbacks' \subseteq callbacks,
           \A l \in Logger : box'[l] = "none" => box[l] = "none"
    PROVE  LinesInv'
<1>1. LinesUnbroken' /\ LinesAccountedFor'
  BY Zenon DEF LinesInv, LinesUnbroken, LinesAccountedFor
<1>2. NewestInv' /\ FreshInv'
  BY Zenon DEF LinesInv, NewestInv, FreshInv
<1>. QED BY <1>1, <1>2 DEF LinesInv

\* StartLogging hands the buffer to the registered handlers, which have seen
\* nothing, and tells them what was discarded.
LEMMA StartLines ==
    ASSUME IInv, LinesInv, StartLogging, UNCHANGED <<callbacks, box, discarded, logged>>
    PROVE  LinesInv'
<1>1. CASE mode = "started"
  <2>1. mode' = mode /\ UNCHANGED <<buffer, received, since, origin, reported>>
    BY Zenon, <1>1 DEF StartLogging
  <2>. QED BY Zenon, <2>1, SameLines
<1>2. CASE mode # "started"
  <2>1. /\ mode = "buffering" /\ mode' = "started"
        /\ received' = [l \in Logger |-> IF l \in callbacks THEN received[l] \o buffer
                                                            ELSE received[l]]
        /\ origin' = [l \in Logger |-> IF l \in callbacks THEN since ELSE origin[l]]
        /\ reported' = [l \in Logger |-> IF l \in callbacks THEN discarded ELSE reported[l]]
    BY Zenon, <1>2 DEF StartLogging, Deliver
  <2>2. /\ buffer \in Seq(1 .. MaxMsgs) /\ callbacks \subseteq Logger
        /\ since + discarded + Len(buffer) = logged /\ logged \in Nat
        /\ since \in Nat /\ discarded \in Nat
        /\ \A i \in 1 .. Len(buffer) : buffer[i] = logged - Len(buffer) + i
    <3>1. buffer \in Seq(1 .. MaxMsgs) /\ callbacks \subseteq Logger
      BY Zenon DEF IInv, TypeOK
    <3>2. logged \in Nat /\ since \in Nat /\ discarded \in Nat
      BY DEF IInv, TypeOK
    <3>. QED BY Zenon, <2>1, <3>1, <3>2 DEF LinesInv, LinesAccountedFor, NewestInv
  <2>3. Len(buffer) \in Nat /\ DOMAIN buffer = 1 .. Len(buffer) /\ << >> \o buffer = buffer
    BY <2>2
  <2>4. \A i \in 1 .. Len(buffer) : buffer[i] = since + discarded + i
    BY <2>2, <2>3
  <2>5. ASSUME NEW l \in callbacks
        PROVE  received'[l] = buffer /\ origin'[l] = since /\ reported'[l] = discarded
    <3>1. l \in Logger /\ received[l] = << >>
      BY Zenon, <2>1, <2>2, <2>5 DEF LinesInv, NewestInv
    <3>. QED BY Zenon, <2>1, <2>3, <2>5, <3>1
  <2>6. ASSUME NEW l \in Logger, l \notin callbacks
        PROVE  received'[l] = received[l] /\ origin'[l] = origin[l] /\ reported'[l] = reported[l]
    BY Zenon, <2>1, <2>6
  <2>7. LinesUnbroken'
    <3>1. ASSUME NEW l \in callbacks, NEW i \in DOMAIN received'[l]
          PROVE  received'[l][i] = origin'[l] + reported'[l] + i
      BY Zenon, <2>3, <2>4, <2>5, <3>1
    <3>2. ASSUME NEW l \in Logger, l \notin callbacks, NEW i \in DOMAIN received'[l]
          PROVE  received'[l][i] = origin'[l] + reported'[l] + i
      BY Zenon, <2>6, <3>2 DEF LinesInv, LinesUnbroken
    <3>. QED BY Zenon, <3>1, <3>2 DEF LinesUnbroken
  <2>8. LinesAccountedFor' /\ NewestInv'
    <3>1. \A l \in callbacks' : origin'[l] + reported'[l] + Len(received'[l]) = logged'
      BY Zenon, <2>2, <2>5
    <3>2. mode' # "buffering"
      BY <2>1
    <3>. QED BY Zenon, <3>1, <3>2 DEF LinesAccountedFor, NewestInv
  <2>9. FreshInv'
    <3>1. \A l \in Logger : box[l] = "none" => l \notin callbacks
      BY Zenon DEF IInv, LiveInv
    <3>. QED BY Zenon, <2>6, <3>1 DEF LinesInv, FreshInv
  <2>. QED BY <2>7, <2>8, <2>9 DEF LinesInv
<1>. QED BY <1>1, <1>2

\* A new handler starts with the next line.
LEMMA PushLines ==
    ASSUME IInv, LinesInv, NEW t \in Thread, NEW l \in Logger, NewPush(t, l)
    PROVE  LinesInv'
<1>1. /\ box[l] = "none" /\ callbacks' = callbacks \cup {l} /\ box' = [box EXCEPT ![l] = "live"]
      /\ origin' = [origin EXCEPT ![l] = logged]
      /\ UNCHANGED <<mode, buffer, discarded, logged, received, since, reported>>
  BY Zenon DEF NewPush
<1>2. /\ origin \in [Logger -> 0 .. MaxMsgs] /\ box \in [Logger -> {"none", "live", "freed"}]
      /\ logged \in Nat /\ callbacks \subseteq Logger
  <2>1. logged \in 0 .. MaxMsgs
    BY Zenon DEF IInv, TypeOK
  <2>2. logged \in Nat
    BY <2>1
  <2>. QED BY Zenon, <2>2 DEF IInv, TypeOK
<1>3. received[l] = << >> /\ reported[l] = 0
  BY Zenon, <1>1 DEF LinesInv, FreshInv
<1>4. \A k \in Logger \ {l} : origin'[k] = origin[k] /\ box'[k] = box[k]
  BY Zenon, <1>1, <1>2
<1>5. origin'[l] = logged /\ box'[l] # "none"
  BY <1>1, <1>2
<1>6. DOMAIN received[l] = {} /\ logged + 0 + Len(received[l]) = logged
  BY <1>2, <1>3
<1>7. LinesUnbroken'
  BY Zenon, <1>1, <1>4, <1>6 DEF LinesInv, LinesUnbroken
<1>8. LinesAccountedFor'
  <2>1. CASE mode = "buffering"
    BY Zenon, <1>1, <2>1 DEF LinesInv, LinesAccountedFor
  <2>2. CASE mode # "buffering"
    <3>1. origin'[l] + reported'[l] + Len(received'[l]) = logged'
      BY Zenon, <1>1, <1>3, <1>5, <1>6
    <3>2. ASSUME NEW k \in callbacks, k # l
          PROVE  origin'[k] + reported'[k] + Len(received'[k]) = logged'
      BY Zenon, <1>1, <1>2, <1>4, <2>2, <3>2 DEF LinesInv, LinesAccountedFor
    <3>. QED BY Zenon, <1>1, <2>2, <3>1, <3>2 DEF LinesAccountedFor
  <2>. QED BY <2>1, <2>2
<1>9. NewestInv' /\ FreshInv'
  BY Zenon, <1>1, <1>3, <1>4, <1>5 DEF LinesInv, NewestInv, FreshInv
<1>. QED BY <1>7, <1>8, <1>9 DEF LinesInv

\* DisconnectTestLogger: no handler is left, and buffering begins afresh.
LEMMA DisconnectLines ==
    ASSUME IInv, LinesInv, NEW t \in Thread, DisconnectTestLogger(t)
    PROVE  LinesInv'
<1>1. /\ mode' = "buffering" /\ callbacks' = {} /\ buffer' = << >> /\ discarded' = 0
      /\ since' = logged /\ UNCHANGED <<box, logged, received, origin, reported>>
  BY Zenon DEF DisconnectTestLogger
<1>2. LinesUnbroken' /\ FreshInv'
  BY Zenon, <1>1 DEF LinesInv, LinesUnbroken, FreshInv
<1>3. since' + discarded' + Len(buffer') = logged' /\ 1 .. Len(buffer') = {}
  BY <1>1 DEF IInv, TypeOK
<1>4. LinesAccountedFor' /\ NewestInv'
  BY Zenon, <1>1, <1>3 DEF LinesAccountedFor, NewestInv
<1>. QED BY <1>2, <1>4 DEF LinesInv

\* Every step keeps the account of the lines.
LEMMA LinesStep == IInv /\ LinesInv /\ [Next]_vars => LinesInv'
<1>. SUFFICES ASSUME IInv, LinesInv, [Next]_vars PROVE LinesInv'
  OBVIOUS
<1>0. ASSUME LogDebug, UNCHANGED <<mode, callbacks, box, since, origin, reported>>
      PROVE  LinesInv'
  BY Zenon, <1>0, PrintLines, SameLines DEF LogDebug
<1>1. CASE UNCHANGED vars
  BY Zenon, <1>1, SameLines DEF vars
<1>2. ASSUME NEW t \in Thread, Log(t) PROVE LinesInv'
  BY Zenon, <1>2, PrintLines DEF Log
<1>3. ASSUME NEW t \in Thread, NEW l \in Logger, DropBegin(t, l) PROVE LinesInv'
  BY Zenon, <1>0, <1>3 DEF DropBegin
<1>4. ASSUME NEW t \in Thread, NewDone(t) PROVE LinesInv'
  BY Zenon, <1>0, <1>4 DEF NewDone
<1>5. ASSUME NEW t \in Thread, NewStart(t) \/ DisableStart(t) PROVE LinesInv'
  BY Zenon, <1>5, StartLines DEF NewStart, DisableStart
<1>6. ASSUME NEW t \in Thread,
             \/ DisableCheck(t) \/ NewCount(t) \/ DropCount(t) \/ DeleteCallback(t)
             \/ \E v \in {"on", "off"} : SetCategory(t, v)
             \/ \E v \in {"debug", "info"} : SetLevelCategory(t, v)
      PROVE  LinesInv'
  <2>1. /\ UNCHANGED <<mode, box, buffer, discarded, logged, received, since, origin, reported>>
        /\ callbacks' \subseteq callbacks
    BY Zenon, <1>6 DEF DisableCheck, NewCount, DropCount, DeleteCallback, SetCategory,
       SetLevelCategory
  <2>. QED BY Zenon, <2>1, SameLines
<1>7. ASSUME NEW t \in Thread, DropFree(t) PROVE LinesInv'
  <2>1. /\ UNCHANGED <<mode, callbacks, buffer, discarded, logged, received, since, origin,
                       reported>>
        /\ box' = [box EXCEPT ![arg[t]] = "freed"]
    BY Zenon, <1>7 DEF DropFree
  <2>2. box \in [Logger -> {"none", "live", "freed"}]
    BY Zenon DEF IInv, TypeOK
  <2>3. \A l \in Logger : box'[l] = "none" => box[l] = "none"
    BY <2>1, <2>2
  <2>. QED BY Zenon, <2>1, <2>3, SameLines
<1>. QED BY Zenon, <1>1, <1>2, <1>3, <1>4, <1>5, <1>6, <1>7, PushLines, DisconnectLines
         DEF Next, Proceed

LEMMA LinesInvariant == Spec => []LinesInv
<1>1. Init => LinesInv
  BY LoggingConstants DEF LoggingConstants, Init, LinesInv, LinesUnbroken, LinesAccountedFor,
     NewestInv, FreshInv
<1>. QED BY <1>1, LinesStep, Inductive, PTL DEF Spec

\* For any number of threads, Loggers and lines, every handler sees an unbroken
\* run of lines, starting after those it was told were discarded.
THEOREM LinesInOrder == Spec => []LinesUnbroken
<1>1. LinesInv => LinesUnbroken
  BY DEF LinesInv
<1>. QED BY <1>1, LinesInvariant, PTL

\* No line is lost between the buffer, the count of discarded lines and the
\* handlers.
THEOREM NoLineLost == Spec => []LinesAccountedFor
<1>1. LinesInv => LinesAccountedFor
  BY DEF LinesInv
<1>. QED BY <1>1, LinesInvariant, PTL

-----------------------------------------------------------------------------
(* The limit of the buffer. *)

\* The buffer fits, and with the line discarded last it would not.
LimitInv ==
    mode = "buffering" =>
        /\ Usage(buffer) <= MaxBuffer
        /\ discarded > 0 => Usage(<<logged - Len(buffer)>> \o buffer) > MaxBuffer

LEMMA Prepended ==
    ASSUME NEW S, NEW q \in Seq(S), NEW x \in S, NEW y \in S
    PROVE  /\ <<x>> \o q \in Seq(S)
           /\ <<x>> \o Append(q, y) = Append(<<x>> \o q, y)
OBVIOUS

\* The eviction loop stops as soon as the rest fits; when it evicts nothing,
\* what did not fit before fits even less with one more line.
LEMMA PrintLimit ==
    ASSUME TypeOK, LinesInv, LimitInv, LogPrint, UNCHANGED <<mode, since>>
    PROVE  LimitInv'
<1>. SUFFICES ASSUME mode = "buffering"
              PROVE  /\ Usage(buffer') <= MaxBuffer
                     /\ discarded' > 0 =>
                            Usage(<<logged' - Len(buffer')>> \o buffer') > MaxBuffer
  BY Zenon DEF LimitInv
<1>. DEFINE s == Append(buffer, logged + 1)
<1>1. PICK k \in 0 .. Len(s) :
          /\ s \in Seq(1 .. MaxMsgs) /\ Len(s) = Len(buffer) + 1
          /\ \A i \in 1 .. Len(s) : s[i] = logged' - Len(s) + i
          /\ Evicts(s, k) /\ buffer' = SubSeq(s, k + 1, Len(s))
          /\ discarded' = discarded + k /\ logged' = logged + 1
  BY Zenon, Buffered
<1>0. /\ buffer \in Seq(1 .. MaxMsgs) /\ logged \in Nat /\ discarded \in Nat /\ since \in Nat
      /\ MaxMsgs \in Nat /\ MaxBuffer \in Nat /\ logged' <= MaxMsgs /\ Len(buffer) \in Nat
  <2>1. logged' \in 0 .. MaxMsgs
    BY Zenon, LogPrintType
  <2>. QED BY <2>1, LoggingConstants DEF LoggingConstants, TypeOK
<1>2. Usage(buffer') <= MaxBuffer
  BY Zenon, <1>1 DEF Evicts
<1>3. CASE k = 0
  <2>. SUFFICES ASSUME discarded' > 0
                PROVE  Usage(<<logged' - Len(buffer')>> \o buffer') > MaxBuffer
    BY <1>2
  <2>. DEFINE x == logged - Len(buffer)
  <2>1. buffer' = s
    <3>1. Len(s) \in Nat /\ s = SubSeq(s, 1, Len(s))
      BY <1>1
    <3>. QED BY SMTT(30), <1>1, <1>3, <3>1
  <2>2. discarded > 0 /\ since + discarded + Len(buffer) = logged
    <3>1. since + discarded + Len(buffer) = logged
      BY Zenon DEF LinesInv, LinesAccountedFor
    <3>. QED BY <1>0, <1>1, <1>3, <3>1
  <2>3. x \in 1 .. MaxMsgs /\ logged + 1 \in 1 .. MaxMsgs /\ x = logged' - Len(buffer')
    <3>1. logged' = logged + 1 /\ Len(buffer') = Len(buffer) + 1
      BY Zenon, <1>1, <2>1
    <3>. HIDE DEF s
    <3>. QED BY <1>0, <2>2, <3>1
  <2>4. Usage(<<x>> \o buffer) > MaxBuffer
    BY Zenon, <2>2 DEF LimitInv
  <2>. HIDE DEF x
  <2>5. /\ <<x>> \o buffer \in Seq(1 .. MaxMsgs)
        /\ <<x>> \o s = Append(<<x>> \o buffer, logged + 1)
    BY ZenonT(30), <1>0, <2>3, Prepended
  <2>6. /\ Usage(<<x>> \o buffer) \in Nat /\ Usage(<<x>> \o s) \in Nat
        /\ Usage(<<x>> \o buffer) <= Usage(<<x>> \o s)
    BY Zenon, <2>3, <2>5, UsageGrows
  <2>7. Usage(<<x>> \o s) > MaxBuffer
    <3>. HIDE DEF s
    <3>. QED BY <1>0, <2>4, <2>6
  <2>. QED BY Zenon, <2>1, <2>3, <2>7
<1>4. CASE k # 0
  <2>. HIDE DEF s
  <2>1. k - 1 \in 0 .. k - 1 /\ (k - 1) + 1 = k /\ k \in 1 .. Len(s) /\ k \in Nat
    BY <1>1, <1>4
  <2>2. Usage(SubSeq(s, k, Len(s))) > MaxBuffer
    BY ZenonT(30), <1>1, <2>1 DEF Evicts
  <2>3. Len(buffer') = Len(s) - k /\ Len(s) \in Nat
    BY <1>1, <2>1
  <2>4. s[k] = logged' - Len(buffer')
    <3>1. s[k] = logged' - Len(s) + k
      BY Zenon, <1>1, <2>1
    <3>2. logged' \in Nat
      BY <1>0, <1>1
    <3>. QED BY <2>1, <2>3, <3>1, <3>2
  <2>5. SubSeq(s, k, Len(s)) = <<s[k]>> \o SubSeq(s, k + 1, Len(s))
    BY SMTT(30), <1>1, <2>1
  <2>. QED BY Zenon, <1>1, <1>2, <2>2, <2>4, <2>5
<1>. QED BY <1>3, <1>4

LEMMA LimitStep == IInv /\ LinesInv /\ LimitInv /\ [Next]_vars => LimitInv'
<1>. SUFFICES ASSUME IInv, LinesInv, LimitInv, [Next]_vars PROVE LimitInv'
  OBVIOUS
<1>0. TypeOK
  BY DEF IInv
<1>1. CASE UNCHANGED <<mode, buffer, discarded, logged>>
  BY Zenon, <1>1 DEF LimitInv
<1>2. CASE LogPrint /\ UNCHANGED <<mode, since>>
  BY Zenon, <1>0, <1>2, PrintLimit
<1>3. CASE mode' # "buffering"
  BY Zenon, <1>3 DEF LimitInv
<1>4. ASSUME NEW t \in Thread, DisconnectTestLogger(t) PROVE LimitInv'
  <2>1. buffer' = << >> /\ discarded' = 0
    BY Zenon, <1>4 DEF DisconnectTestLogger
  <2>2. Usage(buffer') <= MaxBuffer /\ ~(discarded' > 0)
    BY <2>1, UsageGrows, LoggingConstants DEF LoggingConstants
  <2>. QED BY Zenon, <2>2 DEF LimitInv
<1>5. CASE Next
  <2>1. ASSUME NEW t \in Thread, Log(t) PROVE LimitInv'
    BY Zenon, <1>2, <2>1 DEF Log
  <2>2. ASSUME NEW t \in Thread, NewDone(t) \/ \E l \in Logger : DropBegin(t, l)
        PROVE  LimitInv'
    BY Zenon, <1>1, <1>2, <2>2 DEF NewDone, DropBegin, LogDebug
  <2>3. ASSUME NEW t \in Thread, NewStart(t) \/ DisableStart(t) PROVE LimitInv'
    BY Zenon, <1>1, <1>3, <2>3 DEF NewStart, DisableStart, StartLogging
  <2>4. ASSUME NEW t \in Thread,
               \/ DisableCheck(t) \/ NewCount(t) \/ DropCount(t) \/ DeleteCallback(t) \/ DropFree(t)
               \/ \E v \in {"on", "off"} : SetCategory(t, v)
               \/ \E v \in {"debug", "info"} : SetLevelCategory(t, v)
               \/ \E l \in Logger : NewPush(t, l)
        PROVE  LimitInv'
    BY Zenon, <1>1, <2>4 DEF DisableCheck, NewCount, DropCount, DeleteCallback, DropFree,
       SetCategory, SetLevelCategory, NewPush
  <2>. QED BY Zenon, <1>4, <1>5, <2>1, <2>2, <2>3, <2>4 DEF Next, Proceed
<1>. QED BY Zenon, <1>1, <1>5 DEF vars

\* For any lines and any limit, the early buffer holds the newest lines, fits,
\* and gives up no line it had room for.
THEOREM BufferBounded == Spec => []BufferKeepsNewest
<1>1. Init => LimitInv
  <2>. SUFFICES ASSUME Init PROVE Usage(buffer) <= MaxBuffer /\ ~(discarded > 0)
    BY Zenon DEF LimitInv
  <2>1. buffer = << >> /\ discarded = 0
    BY Zenon DEF Init
  <2>. QED BY <2>1, UsageGrows, LoggingConstants DEF LoggingConstants
<1>2. IInv /\ LinesInv /\ LimitInv => BufferKeepsNewest
  <2>. SUFFICES ASSUME IInv, LinesInv, LimitInv PROVE BufferKeepsNewest
    OBVIOUS
  <2>1. DOMAIN buffer = 1 .. Len(buffer)
    BY DEF IInv, TypeOK
  <2>. QED BY Zenon, <2>1 DEF LinesInv, NewestInv, LimitInv, BufferKeepsNewest
<1>. QED BY <1>1, <1>2, LimitStep, LinesInvariant, Inductive, PTL DEF Spec
=============================================================================
