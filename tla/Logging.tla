------------------------------- MODULE Logging -------------------------------
(***************************************************************************)
(* The main logger (src/src/logging/Logger.cpp) with its Loki sink          *)
(* (Loki.cpp), the HTTP request that one makes (src/src/connection/         *)
(* Http.cpp), and its Sentry sink (Sentry.cpp).                            *)
(*                                                                         *)
(* spdlog is external: its sinks are called with a mutex held, which makes  *)
(* a message one step and lets nothing in while flush_() waits for the     *)
(* answer; a message that repeats the last one is filtered before the sinks *)
(* and is none here.  A message is known by its number; it is clean if its  *)
(* text needs no escape in JSON.  Loki is external: it takes a well-formed  *)
(* batch as a whole, and its answer may be lost.  So is Sentry: it has the  *)
(* events it was handed.                                                   *)
(***************************************************************************)
EXTENDS Integers, Sequences, FiniteSets, SequencesExt

CONSTANTS
  LokiAvailable,   \* LOKI_ADDRESS was given
  SentryAvailable, \* SENTRY_ADDRESS was given
  BuildLevel,      \* the level of the build, "warn" or "info"
  Verbosity,       \* the levels the command line may ask for instead
  Levels,          \* the levels messages are logged at
  MaxMessages      \* bound: messages logged, without the last one

\* The levels of spdlog, "off" being none of a message.
AllLevels == <<"trace", "debug", "info", "warn", "err", "critical", "off">>
Number(level) == CHOOSE n \in 0 .. 6 : AllLevels[n + 1] = level

\* What the options -v, -vv, -vvv and the commands of these names set.
VerboseLevels == {"info", "debug", "trace"}

ASSUME ConstantsAssumption ==
  /\ LokiAvailable \in BOOLEAN /\ SentryAvailable \in BOOLEAN
  /\ BuildLevel \in {"warn", "info"} /\ Verbosity \subseteq VerboseLevels
  /\ Levels \subseteq {AllLevels[n] : n \in 1 .. 6} /\ MaxMessages \in Nat

VARIABLES
  threshold, \* the level of the logger
  phase,     \* the MainLogger object: "none", "starting", "alive", "leaving",
             \* "flushed", "dropped", "gone"; or "crashed", the process
  buffer,    \* _internalLogBuffer, from level 1, "debug", to 5, "critical"
  posting,   \* the batch flush_() has sent, one sequence for each level
  status,    \* the status code of the last request, NoStatus being xxx_max
  store,     \* what Loki has, for each level
  events,    \* what Sentry was handed
  logged,    \* history: the messages logged
  lost,      \* history: the messages of the batches Loki did not take
  flushed    \* history: how many were logged before the last flush() began

lokiVars == <<buffer, posting, status, store, lost>>
vars == <<threshold, phase, lokiVars, events, logged, flushed>>

Buffers == 1 .. 5
Messages == [number : 1 .. MaxMessages + 1, level : Levels \cup {"info"},
             clean : BOOLEAN]
NoBatch == [b \in Buffers |-> <<>>]
NoStatus == 600

Init ==
  /\ threshold = "off" /\ phase = "none"
  /\ buffer = NoBatch /\ posting = NoBatch /\ store = NoBatch
  /\ status = NoStatus /\ events = <<>> /\ logged = {} /\ lost = {}
  /\ flushed = 0

All(batch) == UNION {Range(batch[b]) : b \in DOMAIN batch}
Busy == posting # NoBatch
Registered == phase \in {"starting", "alive", "leaving", "flushed"}

-----------------------------------------------------------------------------
(* The sinks.                                                              *)

\* Levels below "debug" are not sent.
ToLoki(level) == Number(level) \in Number("debug") .. Number("critical")

\* push_back() to the n-th buffer; nothing checks that there is one.
Pushed(n, msg) ==
  [b \in Buffers \cup {n} |->
     (IF b \in Buffers THEN buffer[b] ELSE <<>>)
       \o (IF b = n THEN <<msg>> ELSE <<>>)]

\* The levels Sentry is handed.
ToSentry(level) == level \in {"warn", "err", "critical"}

\* A message at a level the logger lets through: sink_it_() of both sinks.
Logged(level, clean) ==
  LET msg == [number |-> Cardinality(logged) + 1, level |-> level,
              clean |-> clean]
  IN IF Number(level) < Number(threshold)
     THEN UNCHANGED <<logged, buffer, events>>
     ELSE /\ logged' = logged \cup {msg}
          /\ buffer' = IF LokiAvailable /\ ToLoki(level)
                       THEN Pushed(Number(level), msg)
                       ELSE buffer
          /\ events' = IF SentryAvailable /\ ToSentry(level)
                       THEN Append(events, msg)
                       ELSE events

\* Any thread logs, as long as the logger is the default one.
Log(level, clean) ==
  /\ Registered /\ ~Busy /\ Cardinality(logged) < MaxMessages
  /\ Logged(level, clean)
  /\ UNCHANGED <<threshold, phase, posting, status, store, lost, flushed>>

\* What a flush leaves in the buffers.  Mutant: they are kept until Loki has
\* answered.
KeptBatch == buffer
Cleared == NoBatch

\* flush_(): all buffers go into one request, unless all are empty.
Flush ==
  IF buffer = NoBatch
  THEN UNCHANGED <<buffer, posting>>
  ELSE posting' = buffer /\ buffer' = Cleared

\* The thread of spdlog::flush_every() flushes a logger until it is dropped.
PeriodicFlush ==
  /\ Registered /\ ~Busy /\ Flush
  /\ UNCHANGED <<threshold, phase, status, store, events, logged, lost, flushed>>

-----------------------------------------------------------------------------
(* main(): the MainLogger object.                                          *)

Construct ==
  /\ phase = "none"
  /\ phase' = "starting" /\ threshold' = BuildLevel
  /\ UNCHANGED <<lokiVars, events, logged, flushed>>

\* The options of the command line, the most verbose last.
AdjustLevel ==
  /\ phase = "starting"
  /\ phase' = "alive" /\ threshold' \in {threshold} \cup Verbosity
  /\ UNCHANGED <<lokiVars, events, logged, flushed>>

\* The log level command sets or resets the level, as long as the ZeroMQ server
\* runs: main() destroys it before the logger.
ChangeLevel ==
  /\ phase = "alive"
  /\ threshold' \in {BuildLevel} \cup VerboseLevels
  /\ UNCHANGED <<phase, lokiVars, events, logged, flushed>>

\* ~MainLogger(): a last message,
Goodbye ==
  /\ phase = "alive" /\ ~Busy
  /\ phase' = "leaving" /\ Logged("info", TRUE)
  /\ UNCHANGED <<threshold, posting, status, store, lost, flushed>>

\* a last flush, which returns when Loki has answered,  Mutant: none.
LastFlushNone == UNCHANGED <<buffer, posting>>
LastFlush == Flush

FlushLast ==
  /\ phase = "leaving" /\ ~Busy
  /\ phase' = "flushed" /\ LastFlush /\ flushed' = Cardinality(logged)
  /\ UNCHANGED <<threshold, status, store, events, logged, lost>>

\* the end of the registered logger, which was the default one,
Drop ==
  /\ phase = "flushed" /\ ~Busy
  /\ phase' = "dropped"
  /\ UNCHANGED <<threshold, lokiVars, events, logged, flushed>>

\* and another default logger, which writes to the terminal.
SetDefault ==
  /\ phase = "dropped"
  /\ phase' = "gone"
  /\ UNCHANGED <<threshold, lokiVars, events, logged, flushed>>

\* A thread that logs in between dereferences a null pointer.
LogWithoutDefault ==
  /\ phase = "dropped"
  /\ phase' = "crashed"
  /\ UNCHANGED <<threshold, lokiVars, events, logged, flushed>>

-----------------------------------------------------------------------------
(* Loki.                                                                   *)

\* The quotes of a message are not escaped: it spoils the whole request.
WellFormed == \A m \in All(posting) : m.clean

\* Loki takes the batch; its answer arrives, or is lost.
Accepted ==
  /\ Busy /\ WellFormed
  /\ store' = [b \in Buffers |-> store[b] \o posting[b]]
  /\ posting' = NoBatch
  /\ status' \in {204, NoStatus}
  /\ UNCHANGED <<threshold, phase, buffer, events, logged, lost, flushed>>

\* Loki answers that it cannot read, or store, the batch, or cannot be reached.
\* Nobody looks at the answer.
Refused ==
  /\ Busy
  /\ lost' = lost \cup All(posting)
  /\ posting' = NoBatch
  /\ status' \in {NoStatus, IF WellFormed THEN 500 ELSE 400}
  /\ UNCHANGED <<threshold, phase, buffer, store, events, logged, flushed>>

Next ==
  \/ \E level \in Levels, clean \in BOOLEAN : Log(level, clean)
  \/ PeriodicFlush
  \/ Construct \/ AdjustLevel \/ ChangeLevel
  \/ Goodbye \/ FlushLast \/ Drop \/ SetDefault \/ LogWithoutDefault
  \/ Accepted \/ Refused

Spec == Init /\ [][Next]_vars

-----------------------------------------------------------------------------
(* Properties.                                                             *)

TypeOK ==
  /\ threshold \in {"off", BuildLevel} \cup VerboseLevels
  /\ phase \in {"none", "starting", "alive", "leaving", "flushed", "dropped",
                "gone", "crashed"}
  /\ \A batch \in {buffer, posting, store} :
       batch \in [Buffers -> Seq(Messages)]
  /\ status \in {204, 400, 500, NoStatus}
  /\ events \in Seq(Messages)
  /\ logged \subseteq Messages /\ lost \subseteq Messages
  /\ flushed \in 0 .. MaxMessages + 1

InOrder(msgs) ==
  \A i, j \in DOMAIN msgs : i < j => msgs[i].number < msgs[j].number

\* flush_() empties the buffers before the request and never repeats it: what
\* Loki has of a level is in the order of logging and has no message twice, and
\* a message that is neither there, nor waiting, was in a request that failed.
OnceAndInOrder ==
  /\ TypeOK
  /\ \A b \in Buffers : InOrder(store[b] \o posting[b] \o buffer[b])
  /\ LokiAvailable => {m \in logged : m.level # "trace"}
                        = All(store) \cup All(posting) \cup All(buffer) \cup lost
  /\ All(store) \cap lost = {}

\* ~MainLogger() flushes before it drops the logger: what never reaches Loki,
\* though no request failed, was logged by another thread in between.  Sentry
\* has every warning and worse, those that Loki refused too.
OnlyLateOnesStay ==
  /\ phase \in {"dropped", "gone", "crashed"} =>
       \A m \in All(buffer) : m.number > flushed
  /\ SentryAvailable =>
       /\ Range(events) = {m \in logged : Number(m.level) >= Number("warn")}
       /\ InOrder(events)
=============================================================================
