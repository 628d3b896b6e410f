------------------------------- MODULE Logging -------------------------------
(***************************************************************************)
(* The global logger: Logger::new, Logger's Drop, disable_logging and the  *)
(* category setters of src/src/log/logging.rs, together with the          *)
(* LoggingConnection of bitcoinkernel.cpp and the BCLog::Logger they act   *)
(* on (logging.cpp).                                                       *)
(*                                                                         *)
(* Two locks matter.  m_cs guards every field of BCLog::Logger: one action *)
(* below is at most one m_cs section.  cs_main is held by the constructor  *)
(* and the destructor of LoggingConnection over several m_cs sections, and *)
(* NOT by disable_logging: it is the variable csMain.                      *)
(***************************************************************************)
EXTENDS Integers, Sequences

CONSTANTS
    Thread,      \* the program's threads
    Logger,      \* the Logger objects the program may create, each once
    NoThread,    \* cs_main is free
    MaxMsgs,     \* bound: log lines emitted
    MsgSize,     \* MemUsage of the n-th log line
    MaxBuffer    \* m_max_buffer_memusage

ASSUME LoggingConstants ==
    /\ Thread # {} /\ Logger # {} /\ NoThread \notin Thread
    /\ MaxMsgs \in Nat
    /\ MsgSize \in [1 .. MaxMsgs -> Nat \ {0}]
    /\ MaxBuffer \in Nat

VARIABLES
    csMain,      \* the holder of cs_main
    pc,          \* where each thread is in its call
    arg,         \* the Logger its call is about
    owner,       \* the thread that created a Logger (Logger is not Send)
    box,         \* the boxed Log handler: none, live, freed
    mode,        \* m_buffering: buffering, or started
    callbacks,   \* m_print_callbacks; their order is not observable
    buffer,      \* m_msgs_before_open: the numbers of the buffered lines
    discarded,   \* m_buffer_lines_discarded
    category,    \* the KERNEL bit of m_categories
    level,       \* the lowest level at which KERNEL lines pass
    disable,     \* history: was disable_logging ever called
    process,     \* aborted: an assert failed and the process is gone
    logged,      \* lines emitted so far; line n is the n-th
    received,    \* the lines each handler was called with
    since,       \* history: logged when the current buffering began
    origin,      \* history: the last line a handler was not meant to see
    reported     \* history: the discarded lines a handler was told of

locks == <<csMain, pc, arg, owner, box>>
settings == <<category, level>>
hist == <<since, origin, reported>>
vars == <<locks, mode, callbacks, buffer, discarded, settings, disable,
          process, logged, received, hist>>

Creating == {"new_count", "new_start", "new_done"}
Dropping == {"drop_count", "drop_last", "drop_other", "drop_free"}
Pc == {"idle", "dis_start"} \cup Creating \cup Dropping

TypeOK ==
    /\ csMain \in Thread \cup {NoThread}
    /\ pc \in [Thread -> Pc]
    /\ arg \in [Thread -> Logger]
    /\ owner \in [Logger -> Thread]
    /\ box \in [Logger -> {"none", "live", "freed"}]
    /\ callbacks \in SUBSET Logger
    /\ buffer \in Seq(1 .. MaxMsgs)
    /\ discarded \in Nat
    /\ logged \in 0 .. MaxMsgs
    /\ received \in [Logger -> Seq(1 .. MaxMsgs)]
    /\ since \in 0 .. MaxMsgs
    /\ origin \in [Logger -> 0 .. MaxMsgs]
    /\ reported \in [Logger -> Nat]
    /\ mode \in {"buffering", "started"}
    /\ category \in {"on", "off"} /\ level \in {"debug", "info"}
    /\ disable \in {"never", "called"}
    /\ process \in {"running", "aborted"}

Init ==
    /\ csMain = NoThread
    /\ pc = [t \in Thread |-> "idle"]
    /\ arg = [t \in Thread |-> CHOOSE l \in Logger : TRUE]
    /\ owner = [l \in Logger |-> CHOOSE t \in Thread : TRUE]
    /\ box = [l \in Logger |-> "none"]
    /\ mode = "buffering"
    /\ callbacks = {}
    /\ buffer = << >>
    /\ discarded = 0
    /\ category = "off"
    /\ level = "debug"
    /\ disable = "never"
    /\ process = "running"
    /\ logged = 0
    /\ received = [l \in Logger |-> << >>]
    /\ since = 0
    /\ origin = [l \in Logger |-> 0]
    /\ reported = [l \in Logger |-> 0]
-----------------------------------------------------------------------------
\* NumConnections() == 1
OneConnection == \E l \in Logger : callbacks = {l}

\* What the lines s use.
Usage(s) ==
    LET total[i \in 0 .. Len(s)] ==
            IF i = 0 THEN 0 ELSE total[i - 1] + MsgSize[s[i]]
    IN  total[Len(s)]

\* Mutant: the eviction loop tests >= instead of >.
EvictsAtLimit(s, k) ==
    /\ k = Len(s) \/ Usage(SubSeq(s, k + 1, Len(s))) < MaxBuffer
    /\ \A j \in 0 .. k - 1 : Usage(SubSeq(s, j + 1, Len(s))) >= MaxBuffer

\* The eviction loop of LogPrint_: lines leave from the front until the rest
\* fits.  A line larger than the buffer evicts everything and then itself.
Evicts(s, k) ==
    /\ Usage(SubSeq(s, k + 1, Len(s))) <= MaxBuffer
    /\ \A j \in 0 .. k - 1 : Usage(SubSeq(s, j + 1, Len(s))) > MaxBuffer

Deliver(lines) ==
    received' = [l \in Logger |-> IF l \in callbacks THEN received[l] \o lines
                                                     ELSE received[l]]

\* LogPrint: one line, buffered or handed to every callback, under m_cs.
LogPrint ==
    /\ logged < MaxMsgs
    /\ logged' = logged + 1
    /\ \/ /\ mode = "buffering"
          /\ LET s == Append(buffer, logged + 1)
             IN  \E k \in 0 .. Len(s) :
                    /\ Evicts(s, k)
                    /\ buffer' = SubSeq(s, k + 1, Len(s))
                    /\ discarded' = discarded + k
          /\ UNCHANGED received
       \/ /\ mode = "started"
          /\ Deliver(<<logged + 1>>)
          /\ UNCHANGED <<buffer, discarded>>

\* LogDebug(BCLog::KERNEL, ...): WillLogCategoryLevel, then LogPrint.
LogDebug ==
    IF category = "on" /\ level = "debug" /\ logged < MaxMsgs
    THEN LogPrint
    ELSE UNCHANGED <<logged, buffer, discarded, received>>

\* Mutant: the lines buffered before the logger starts are not dumped.
StartLoggingNoDump ==
    \/ /\ mode = "started"
       /\ process' = "aborted"
       /\ UNCHANGED <<mode, buffer, received, hist>>
    \/ /\ mode = "buffering"
       /\ mode' = "started"
       /\ buffer' = << >>
       /\ origin' = [l \in Logger |-> IF l \in callbacks THEN since ELSE origin[l]]
       /\ reported' = [l \in Logger |-> IF l \in callbacks THEN discarded
                                                           ELSE reported[l]]
       /\ UNCHANGED <<process, since, received>>

\* StartLogging.  m_print_to_file is never set in the kernel library, so it
\* returns true or its assertion fails.
StartLogging ==
    \/ /\ mode = "started"
       /\ process' = "aborted"
       /\ UNCHANGED <<mode, buffer, received, hist>>
    \/ /\ mode = "buffering"
       /\ mode' = "started"
       /\ buffer' = << >>
       /\ Deliver(buffer)
       /\ origin' = [l \in Logger |-> IF l \in callbacks THEN since ELSE origin[l]]
       /\ reported' = [l \in Logger |-> IF l \in callbacks THEN discarded
                                                           ELSE reported[l]]
       /\ UNCHANGED <<process, since>>

-----------------------------------------------------------------------------
\* A line logged by any kernel code running on thread t.
Log(t) ==
    /\ pc[t] = "idle"
    /\ LogPrint
    /\ UNCHANGED <<locks, mode, callbacks, settings, disable, process, hist>>

\* Logger::new, up to and including PushBackCallback: the handler is boxed,
\* its ownership passes to the connection, cs_main is taken.
NewPush(t, l) ==
    /\ pc[t] = "idle"
    /\ box[l] = "none"
    /\ csMain = NoThread
    /\ csMain' = t
    /\ pc' = [pc EXCEPT ![t] = "new_count"]
    /\ arg' = [arg EXCEPT ![t] = l]
    /\ owner' = [owner EXCEPT ![l] = t]
    /\ box' = [box EXCEPT ![l] = "live"]
    /\ callbacks' = callbacks \cup {l}
    /\ origin' = [origin EXCEPT ![l] = logged]
    /\ UNCHANGED <<mode, buffer, discarded, settings, disable, process,
                   logged, received, since, reported>>

\* Mutant: every new connection starts the logger.
NewCountAlwaysStarts(t) ==
    /\ pc[t] = "new_count"
    /\ pc' = [pc EXCEPT ![t] = "new_start"]
    /\ UNCHANGED <<csMain, arg, owner, box, mode, callbacks, buffer, discarded,
                   settings, disable, process, logged, received, hist>>

\* "Only start logging if we just added the connection."
NewCount(t) ==
    /\ pc[t] = "new_count"
    /\ pc' = [pc EXCEPT ![t] = IF OneConnection THEN "new_start"
                                                     ELSE "new_done"]
    /\ UNCHANGED <<csMain, arg, owner, box, mode, callbacks, buffer, discarded,
                   settings, disable, process, logged, received, hist>>

NewStart(t) ==
    /\ pc[t] = "new_start"
    /\ StartLogging
    /\ pc' = [pc EXCEPT ![t] = "new_done"]
    /\ UNCHANGED <<csMain, arg, owner, box, callbacks, discarded, settings,
                   disable, logged>>

\* "Logger connected.", and cs_main is released.
NewDone(t) ==
    /\ pc[t] = "new_done"
    /\ LogDebug
    /\ pc' = [pc EXCEPT ![t] = "idle"]
    /\ csMain' = NoThread
    /\ UNCHANGED <<arg, owner, box, mode, callbacks, settings, disable,
                   process, hist>>

\* Logger's Drop: cs_main is taken, "Logger disconnecting."
DropBegin(t, l) ==
    /\ pc[t] = "idle"
    /\ box[l] = "live"
    /\ owner[l] = t
    /\ csMain = NoThread
    /\ csMain' = t
    /\ pc' = [pc EXCEPT ![t] = "drop_count"]
    /\ arg' = [arg EXCEPT ![t] = l]
    /\ LogDebug
    /\ UNCHANGED <<owner, box, mode, callbacks, settings, disable, process,
                   hist>>

DropCount(t) ==
    /\ pc[t] = "drop_count"
    /\ pc' = [pc EXCEPT ![t] = IF OneConnection THEN "drop_last"
                                                     ELSE "drop_other"]
    /\ UNCHANGED <<csMain, arg, owner, box, mode, callbacks, buffer, discarded,
                   settings, disable, process, logged, received, hist>>

\* Mutants: DisconnectTestLogger leaves the callbacks; leaves the count of
\* discarded lines; subtracts from that count instead of resetting it.
DisconnectKeepsCallbacks(t) ==
    /\ pc[t] = "drop_last"
    /\ pc' = [pc EXCEPT ![t] = "drop_free"]
    /\ mode' = "buffering"
    /\ buffer' = << >>
    /\ discarded' = 0
    /\ since' = logged
    /\ UNCHANGED <<csMain, arg, owner, box, callbacks, settings, disable, process,
                   logged, received, origin, reported>>

DisconnectKeepsDiscarded(t) ==
    /\ pc[t] = "drop_last"
    /\ pc' = [pc EXCEPT ![t] = "drop_free"]
    /\ mode' = "buffering"
    /\ callbacks' = {}
    /\ buffer' = << >>
    /\ since' = logged
    /\ UNCHANGED <<csMain, arg, owner, box, discarded, settings, disable, process,
                   logged, received, origin, reported>>

DisconnectSubtracts(t) ==
    /\ pc[t] = "drop_last"
    /\ pc' = [pc EXCEPT ![t] = "drop_free"]
    /\ mode' = "buffering"
    /\ callbacks' = {}
    /\ buffer' = << >>
    /\ discarded' = discarded - Len(received[arg[t]])
    /\ since' = logged
    /\ UNCHANGED <<csMain, arg, owner, box, settings, disable, process, logged,
                   received, origin, reported>>

\* DisconnectTestLogger: back to buffering, with an empty buffer.
DisconnectTestLogger(t) ==
    /\ pc[t] = "drop_last"
    /\ pc' = [pc EXCEPT ![t] = "drop_free"]
    /\ mode' = "buffering"
    /\ callbacks' = {}
    /\ buffer' = << >>
    /\ discarded' = 0
    /\ since' = logged
    /\ UNCHANGED <<csMain, arg, owner, box, settings, disable, process, logged,
                   received, origin, reported>>

DeleteCallback(t) ==
    /\ pc[t] = "drop_other"
    /\ pc' = [pc EXCEPT ![t] = "drop_free"]
    /\ callbacks' = callbacks \ {arg[t]}
    /\ UNCHANGED <<csMain, arg, owner, box, mode, buffer, discarded, settings,
                   disable, process, logged, received, hist>>

\* m_deleter(m_user_data): the box is freed, and cs_main is released.
DropFree(t) ==
    /\ pc[t] = "drop_free"
    /\ pc' = [pc EXCEPT ![t] = "idle"]
    /\ csMain' = NoThread
    /\ box' = [box EXCEPT ![arg[t]] = "freed"]
    /\ UNCHANGED <<arg, owner, mode, callbacks, buffer, discarded, settings,
                   disable, process, logged, received, hist>>

\* disable_logging: the two assertions are checked in an m_cs section of their
\* own, before StartLogging takes m_cs again.
DisableCheck(t) ==
    /\ pc[t] = "idle"
    /\ disable' = "called"
    /\ \/ /\ mode = "buffering" /\ callbacks = {}
          /\ pc' = [pc EXCEPT ![t] = "dis_start"]
          /\ UNCHANGED process
       \/ /\ ~(mode = "buffering" /\ callbacks = {})
          /\ process' = "aborted"
          /\ UNCHANGED pc
    /\ UNCHANGED <<csMain, arg, owner, box, mode, callbacks, buffer, discarded,
                   settings, logged, received, hist>>

DisableStart(t) ==
    /\ pc[t] = "dis_start"
    /\ StartLogging
    /\ pc' = [pc EXCEPT ![t] = "idle"]
    /\ UNCHANGED <<csMain, arg, owner, box, callbacks, discarded, settings,
                   disable, logged>>

\* enable_category and disable_category: one atomic update, without cs_main.
SetCategory(t, v) ==
    /\ pc[t] = "idle"
    /\ \E l \in Logger : box[l] = "live" /\ owner[l] = t
    /\ category' = v
    /\ UNCHANGED <<locks, mode, callbacks, buffer, discarded, level,
                   disable, process, logged, received, hist>>

\* set_level_category: under cs_main.
SetLevelCategory(t, v) ==
    /\ pc[t] = "idle"
    /\ \E l \in Logger : box[l] = "live" /\ owner[l] = t
    /\ csMain = NoThread
    /\ level' = v
    /\ UNCHANGED <<locks, mode, callbacks, buffer, discarded, category,
                   disable, process, logged, received, hist>>

\* The steps of a call that has begun.
Proceed(t) ==
    \/ NewCount(t) \/ NewStart(t) \/ NewDone(t)
    \/ DropCount(t) \/ DisconnectTestLogger(t) \/ DeleteCallback(t) \/ DropFree(t)
    \/ DisableStart(t)

Next ==
    /\ process = "running"
    /\ \E t \in Thread :
          \/ Log(t)
          \/ \E l \in Logger : NewPush(t, l) \/ DropBegin(t, l)
          \/ DisableCheck(t)
          \/ \E v \in {"on", "off"} : SetCategory(t, v)
          \/ \E v \in {"debug", "info"} : SetLevelCategory(t, v)
          \/ Proceed(t)

Spec == Init /\ [][Next]_vars
-----------------------------------------------------------------------------
(* What the logger promises.                                               *)

\* The registered callbacks are the live handlers, except the one a Drop has
\* unregistered and is about to free.  So no line is ever passed to a freed
\* Log handler, and no handler is unregistered without being freed, in any
\* order of Logger::new, Drop and disable_logging on any threads.
CallbacksAreLive ==
    callbacks = {l \in Logger : box[l] = "live"}
                    \ {arg[t] : t \in {u \in Thread : pc[u] = "drop_free"}}

\* Every handler sees an unbroken run of lines in the order they were logged.
\* The run starts right after the lines it was told were discarded, also when
\* other threads log between PushBackCallback and StartLogging.
LinesUnbroken ==
    \A l \in Logger : \A i \in DOMAIN received[l] :
        received[l][i] = origin[l] + reported[l] + i

\* No line is lost: once logging has started a registered handler has had
\* every line since its origin, and while buffering the lines since buffering
\* began are either in the buffer or counted as discarded.
LinesAccountedFor ==
    IF mode = "buffering"
    THEN since + discarded + Len(buffer) = logged
    ELSE \A l \in callbacks : origin[l] + reported[l] + Len(received[l]) = logged

\* The early buffer holds the newest lines, fits its limit, and a line was
\* discarded only because keeping it would have exceeded the limit.
BufferKeepsNewest ==
    mode = "buffering" =>
        /\ \A i \in DOMAIN buffer : buffer[i] = logged - Len(buffer) + i
        /\ Usage(buffer) <= MaxBuffer
        /\ discarded > 0 => Usage(<<logged - Len(buffer)>> \o buffer) > MaxBuffer

\* An assertion of the logger fails only in a program that calls
\* disable_logging: creating and dropping Loggers alone, on any number of
\* threads, never trips assert(m_buffering) in StartLogging.
AbortOnlyAfterDisable == process = "aborted" => disable = "called"
=============================================================================
