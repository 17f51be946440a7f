----------------------------- MODULE Performance -----------------------------
(***************************************************************************)
(* PerformanceTracker (src/src/metrics/Performance.cpp), used by threads    *)
(* that each bracket their work with startTimer() and endTimer(), as a     *)
(* TrackPerformance object does.                                           *)
(*                                                                         *)
(* There is one start time for all of them, and no lock: every read and    *)
(* write that a thread makes is a step.  Gauges and the summary are        *)
(* external: one call of theirs is atomic.  The clock counts ticks.        *)
(***************************************************************************)
EXTENDS Integers, FiniteSets, FiniteSetsExt

CONSTANTS
  Threads,   \* the threads
  IntMax,    \* std::numeric_limits<int>::max(), in ticks
  MaxClock,  \* bound: the last tick
  MaxCalls   \* bound: calls of startTimer()

VARIABLES
  now,        \* high_resolution_clock
  startTime,  \* _startTime
  minTiming,  \* *_minTiming
  maxTiming,  \* *_maxTiming
  pc,         \* each thread: "idle", "timing", or the step of endTimer() it is at
  began,      \* history: when each thread called startTimer() last
  end,        \* each thread: now() in endTimer()
  val,        \* each thread: val in endTimer()
  observed,   \* history: the values observed
  overlapped, \* history: two calls of endTimer() have overlapped
  calls       \* history: the calls of startTimer()

vars == <<now, startTime, minTiming, maxTiming, pc, began, end, val, observed,
          overlapped, calls>>

InEnd == {"read", "min", "setMin", "max", "setMax"}

\* The constructor sets the minimum; a gauge is 0 until it is set.
Init ==
  /\ now = 0 /\ startTime = 0 /\ minTiming = IntMax /\ maxTiming = 0
  /\ pc = [t \in Threads |-> "idle"]
  /\ began = [t \in Threads |-> 0] /\ end = [t \in Threads |-> 0]
  /\ val = [t \in Threads |-> 0]
  /\ observed = {} /\ overlapped = FALSE /\ calls = 0

Goes(t, from, to) == pc[t] = from /\ pc' = [pc EXCEPT ![t] = to]

Tick ==
  /\ now < MaxClock
  /\ now' = now + 1
  /\ UNCHANGED <<startTime, minTiming, maxTiming, pc, began, end, val,
                 observed, overlapped, calls>>

\* Mutant: a start is kept while another thread's is being timed.
StartKept == IF \E t \in Threads : pc[t] # "idle" THEN startTime ELSE now
Started == now

startTimer(t) ==
  /\ Goes(t, "idle", "timing") /\ calls < MaxCalls
  /\ startTime' = Started /\ began' = [began EXCEPT ![t] = now]
  /\ calls' = calls + 1
  /\ UNCHANGED <<now, minTiming, maxTiming, end, val, observed, overlapped>>

\* endTimer() asks for the time first and reads _startTime then.
AskTime(t) ==
  /\ Goes(t, "timing", "read")
  /\ end' = [end EXCEPT ![t] = now]
  /\ overlapped' = (overlapped \/ \E u \in Threads : pc[u] \in InEnd)
  /\ UNCHANGED <<now, startTime, minTiming, maxTiming, began, val, observed,
                 calls>>

Observe(t) ==
  /\ Goes(t, "read", "min")
  /\ val' = [val EXCEPT ![t] = end[t] - startTime]
  /\ observed' = observed \cup {end[t] - startTime}
  /\ UNCHANGED <<now, startTime, minTiming, maxTiming, began, end, overlapped,
                 calls>>

CheckMin(t) ==
  /\ Goes(t, "min", IF val[t] < minTiming THEN "setMin" ELSE "max")
  /\ UNCHANGED <<now, startTime, minTiming, maxTiming, began, end, val,
                 observed, overlapped, calls>>

SetMin(t) ==
  /\ Goes(t, "setMin", "max")
  /\ minTiming' = val[t]
  /\ UNCHANGED <<now, startTime, maxTiming, began, end, val, observed,
                 overlapped, calls>>

CheckMax(t) ==
  /\ Goes(t, "max", IF val[t] > maxTiming THEN "setMax" ELSE "idle")
  /\ UNCHANGED <<now, startTime, minTiming, maxTiming, began, end, val,
                 observed, overlapped, calls>>

SetMax(t) ==
  /\ Goes(t, "setMax", "idle")
  /\ maxTiming' = val[t]
  /\ UNCHANGED <<now, startTime, minTiming, began, end, val, observed,
                 overlapped, calls>>

Next ==
  \/ Tick
  \/ \E t \in Threads :
       \/ startTimer(t) \/ AskTime(t) \/ Observe(t)
       \/ CheckMin(t) \/ SetMin(t) \/ CheckMax(t) \/ SetMax(t)

Spec == Init /\ [][Next]_vars

-----------------------------------------------------------------------------
(* Properties.                                                             *)

Ticks == 0 .. MaxClock
Values == -MaxClock .. MaxClock

TypeOK ==
  /\ now \in Ticks /\ startTime \in Ticks
  /\ minTiming \in Values \cup {IntMax} /\ maxTiming \in Ticks
  /\ pc \in [Threads -> {"idle", "timing"} \cup InEnd]
  /\ began \in [Threads -> Ticks] /\ end \in [Threads -> Ticks]
  /\ val \in [Threads -> Values] /\ observed \subseteq Values
  /\ overlapped \in BOOLEAN /\ calls \in 0 .. MaxCalls

\* startTimer(): the start that threads share is never older than a thread's
\* own, so that what endTimer() measures is its own time or less; it may be
\* less than nothing, when another thread starts between the two reads.
NeverOverstates ==
  \A t \in Threads :
    pc[t] \in InEnd \ {"read"} => val[t] <= end[t] - began[t]

\* endTimer(): the checks are not atomic with the writes they guard; as long as
\* no two calls overlapped the gauges are the extremes of all that was observed,
\* whatever starts in between; the minimum never says more than IntMax.
ExtremesExact ==
  ~overlapped /\ (\A t \in Threads : pc[t] \notin InEnd) =>
    /\ minTiming = Min(observed \cup {IntMax})
    /\ maxTiming = Max(observed \cup {0})

\* The shared start is no thread's future, and what a maximum is set to is more
\* than the gauge's first value.
StartsInv ==
  /\ startTime <= now
  /\ \A t \in Threads :
       began[t] <= startTime /\ (pc[t] = "setMax" => val[t] > 0)

\* A thread is alone in endTimer(), and what the gauges lack is its value.
ExtremesInv ==
  /\ \A t, u \in Threads : pc[t] \in InEnd /\ pc[u] \in InEnd => t = u
  /\ \A t \in Threads :
       /\ pc[t] \in InEnd \ {"read"} => val[t] \in observed
       /\ pc[t] = "setMin" => val[t] < minTiming
       /\ pc[t] = "setMax" => val[t] > maxTiming
  /\ minTiming \in observed \cup {IntMax}
  /\ maxTiming \in observed \cup {0}
  /\ \A v \in observed \cup {IntMax} :
       \/ minTiming <= v
       \/ \E t \in Threads : pc[t] \in {"min", "setMin"} /\ v = val[t]
  /\ \A v \in observed \cup {0} :
       \/ v <= maxTiming
       \/ \E t \in Threads : pc[t] \in InEnd \ {"read"} /\ v = val[t]

\* What every step keeps, and makes TimingSound true.
TimingInv ==
  TypeOK /\ NeverOverstates /\ StartsInv /\ (~overlapped => ExtremesInv)

\* Several threads may share a tracker, to this extent.
TimingSound == NeverOverstates /\ ExtremesExact
=============================================================================
