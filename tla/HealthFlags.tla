---------------------------- MODULE HealthFlags ----------------------------
(***************************************************************************)
(* The life of the process in main() (src/src/main.cpp) and its health      *)
(* flags: main() appends one entry to vCheckFlag for each service and       *)
(* starts the service; each service sets its flag in every round that       *)
(* works; the SIGALRM handler clears the flags; the Telnet and the ZeroMQ   *)
(* server read them, from their own threads, for a status request; at the   *)
(* end the services are destroyed in reverse order.                         *)
(*                                                                         *)
(* What a service does in a round is abstracted to whether it works.  An    *)
(* append is one step here: a signal that arrives inside a reallocation of  *)
(* the vector is not modelled.                                              *)
(***************************************************************************)
EXTENDS Integers, Sequences, FiniteSets

CONSTANTS
  Enabled,     \* the services the command line enables
  Reporters,   \* those of them that answer status requests
  RetryCount,  \* CRASHPAD_RETRY_COUNT
  CanBreak,    \* the services that may stop working, and recover
  MayDie,      \* whether the crash handler may close its socket, or exit
  MayFail      \* whether starting a service may fail

Services == {"crashpad", "monitor", "zeromq", "telnet"}

ASSUME ConstantsAssumption ==
  /\ Enabled \subseteq Services /\ "crashpad" \in Enabled
  /\ Reporters \subseteq Enabled \cap {"zeromq", "telnet"}
  /\ CanBreak \subseteq Services /\ RetryCount \in Nat
  /\ MayDie \in BOOLEAN /\ MayFail \in BOOLEAN

\* The order in which main() starts the services.  Mutant: ZeroMQ comes first.
OrderZeroMQFirst == <<"zeromq", "crashpad", "monitor", "telnet">>
Order == <<"crashpad", "monitor", "zeromq", "telnet">>
Place(s) == CHOOSE i \in DOMAIN Order : Order[i] = s

VARIABLES
  phase,      \* main(): "starting", "running", "stopping", "returned"
              \* or "aborted", by std::terminate()
  at,         \* starting: appends Order[at + 1], or starts Order[at];
              \* stopping: destroys Order[at]
  appended,   \* starting: whether Order[at] is appended and not yet started
  size,       \* the entries of the vector vCheckFlag: Order[1 .. size]
  capacity,   \* the capacity of the vector vCheckFlag
  flag,       \* the flag of each service
  started,    \* the services whose thread runs
  working,    \* the services whose rounds work
  reader,     \* each reporter: how far it has read, and what
  torn,       \* history: the vector was reallocated under a reader
  armed,      \* the alarm is armed
  clearing,   \* the entry the handler clears next, 0 outside the handler
  handler,    \* the crash handler process: "none", "up", "hungUp": its end of
              \* the socket is closed, or "gone"
  retries,    \* stopCounter of Tracer::threadFunc()
  connected   \* a Telnet session is open

mainVars == <<phase, at, appended, size, capacity, torn>>
alarmVars == <<armed, clearing>>
tracerVars == <<handler, retries>>
vars == <<mainVars, flag, started, working, reader, alarmVars, tracerVars,
          connected>>

NotReading == [next |-> 0, size |-> 0, seen |-> {}]

Init ==
  /\ phase = "starting" /\ at = 0 /\ appended = FALSE
  /\ size = 0 /\ capacity = 0
  /\ flag = [s \in Services |-> FALSE] /\ started = {} /\ working = Services
  /\ reader = [s \in Reporters |-> NotReading] /\ torn = FALSE
  /\ armed = TRUE /\ clearing = 0 /\ handler = "none" /\ retries = 0
  /\ connected = FALSE

Reading(s) == s \in Reporters /\ reader[s].next > 0
Ended == phase \in {"returned", "aborted"}

\* main() gave up the Telnet server, and a session still owns it.
Orphaned ==
  /\ phase = "stopping" /\ at < Place("telnet") /\ "telnet" \in started

-----------------------------------------------------------------------------
(* main().                                                                 *)

Grown(c) == IF c = 0 THEN 1 ELSE 2 * c

\* vCheckFlag.emplace_back(); a full vector is reallocated to twice its size.
AppendFlag ==
  /\ phase = "starting" /\ ~appended /\ at < Len(Order)
  /\ at' = at + 1 /\ appended' = TRUE /\ size' = size + 1
  /\ capacity' = IF size < capacity THEN capacity ELSE Grown(capacity)
  /\ torn' = (torn \/ (size = capacity /\ \E s \in Reporters : Reading(s)))
  /\ UNCHANGED <<phase, flag, started, working, reader, alarmVars, tracerVars,
                 connected>>

\* Mutant: the service is given the flag of the entry before.
FlagOfPrevious(s) == IF Place(s) > 1 THEN Order[Place(s) - 1] ELSE s
FlagOf(s) == s

\* startHandler(), in the constructor of Tracer, starts the process first.
Start ==
  /\ phase = "starting" /\ appended
  /\ appended' = FALSE
  /\ handler' = IF Order[at] = "crashpad" THEN "up" ELSE handler
  /\ started' = IF Order[at] \in Enabled THEN started \cup {Order[at]}
                                         ELSE started
  /\ phase' = IF at = Len(Order) THEN "running" ELSE phase
  /\ UNCHANGED <<at, size, capacity, torn, flag, working, reader, alarmVars,
                 retries, connected>>

\* Nothing catches what the constructor of Tracer throws; a failing start of the
\* ZeroMQ server ends main().  So does a wrong port or an exception for the
\* Telnet server, but main() ignores that its initialise() returns false.
AfterFailed == [crashpad |-> {"aborted"}, zeromq |-> {"stopping"},
                telnet |-> {"running", "stopping"}]

StartFails ==
  /\ MayFail /\ phase = "starting" /\ appended
  /\ Order[at] \in Enabled \cap DOMAIN AfterFailed
  /\ appended' = FALSE
  /\ phase' \in AfterFailed[Order[at]]
  /\ UNCHANGED <<at, size, capacity, torn, flag, started, working, reader,
                 alarmVars, tracerVars, connected>>

\* The self monitor is enabled with the Prometheus server, which main() starts
\* before it and whose failure ends main().
PrometheusFails ==
  /\ MayFail /\ phase = "starting" /\ at = 1 /\ ~appended
  /\ "monitor" \in Enabled
  /\ phase' = "stopping"
  /\ UNCHANGED <<at, appended, size, capacity, torn, flag, started, working,
                 reader, alarmVars, tracerVars, connected>>

\* SIGINT or SIGTERM.
Interrupt ==
  /\ phase = "running"
  /\ phase' = "stopping"
  /\ UNCHANGED <<at, appended, size, capacity, torn, flag, started, working,
                 reader, alarmVars, tracerVars, connected>>

\* The destructor of Order[at] requests a stop and joins the thread.  A Telnet
\* session owns its server: with one open, the server is not destroyed.
\* Mutant: it does not join.
StoppedDetached(s) == started
Stopped(s) == IF s = "telnet" /\ connected THEN started ELSE started \ {s}

\* The thread is joined when it has finished its round.  A Telnet server that is
\* at a status request has a session, and main() does not wait for it.
\* Mutant: the ZeroMQ server's destructor does not join either.
JoinedDetached(s) == TRUE
Joined(s) == ~Reading(s) \/ s = "telnet"

Stop ==
  /\ phase = "stopping" /\ at > 0
  /\ Joined(Order[at])
  /\ at' = at - 1
  /\ started' = Stopped(Order[at])
  /\ UNCHANGED <<phase, appended, size, capacity, torn, flag, working, reader,
                 alarmVars, tracerVars, connected>>

Return ==
  /\ phase = "stopping" /\ at = 0
  /\ phase' = "returned"
  /\ UNCHANGED <<at, appended, size, capacity, torn, flag, started, working,
                 reader, alarmVars, tracerVars, connected>>

-----------------------------------------------------------------------------
(* The services.                                                           *)

\* A round of threadFunc() that works sets the flag.
SetsFlag(s) == s \in working

Flagged(s) ==
  flag' = IF SetsFlag(s) THEN [flag EXCEPT ![FlagOf(s)] = TRUE] ELSE flag

Round(s) ==
  /\ s \in started \ {"crashpad"} /\ ~Reading(s) /\ ~Ended
  /\ Flagged(s)
  /\ UNCHANGED <<mainVars, started, working, reader, alarmVars, tracerVars,
                 connected>>

\* isRunning() peeks into the socket to the handler and asks for its process.
IsRunning == handler = "up"

\* Tracer::threadFunc() counts the rounds in which the handler does not run,
\* but starts again after each.
TracerRound ==
  LET count  == IF IsRunning THEN retries ELSE retries + 1
      closed == ~IsRunning /\ count > RetryCount
  IN /\ "crashpad" \in started /\ ~Ended
     /\ retries' = IF closed THEN count ELSE 0
     /\ started' = IF closed THEN started \ {"crashpad"} ELSE started
     /\ flag' = IF closed THEN flag ELSE [flag EXCEPT !["crashpad"] = TRUE]
     /\ UNCHANGED <<mainVars, working, reader, alarmVars, handler, connected>>

\* A status request: the loop over vCheckFlag takes its end once.
StatusBegin(s) ==
  /\ s \in started /\ s \in working /\ ~Reading(s) /\ ~Ended
  /\ s = "telnet" => connected
  /\ reader' = [reader EXCEPT ![s] = [next |-> 1, size |-> size, seen |-> {}]]
  /\ UNCHANGED <<mainVars, flag, started, working, alarmVars, tracerVars,
                 connected>>

StatusRead(s) ==
  /\ Reading(s) /\ reader[s].next <= reader[s].size
  /\ reader' = [reader EXCEPT
       ![s].next = @ + 1,
       ![s].seen = IF flag[Order[reader[s].next]]
                   THEN @ \cup {Order[reader[s].next]} ELSE @]
  /\ UNCHANGED <<mainVars, flag, started, working, alarmVars, tracerVars,
                 connected>>

\* The reply is sent and the round has worked.
StatusEnd(s) ==
  /\ Reading(s) /\ reader[s].next > reader[s].size
  /\ reader' = [reader EXCEPT ![s] = NotReading]
  /\ Flagged(s)
  /\ UNCHANGED <<mainVars, started, working, alarmVars, tracerVars, connected>>

-----------------------------------------------------------------------------
(* The alarm and the environment.                                          *)

\* alarmFunc() arms the alarm again, then clears the flags one by one.
\* Mutant: it does not arm it.
RearmedNot == FALSE
Rearmed == TRUE

AlarmFires ==
  /\ armed /\ clearing = 0 /\ ~Ended
  /\ armed' = Rearmed /\ clearing' = 1
  /\ UNCHANGED <<mainVars, flag, started, working, reader, tracerVars,
                 connected>>

AlarmClears ==
  /\ clearing > 0
  /\ IF clearing <= size
     THEN /\ flag' = [flag EXCEPT ![Order[clearing]] = FALSE]
          /\ clearing' = clearing + 1
     ELSE clearing' = 0 /\ flag' = flag
  /\ UNCHANGED <<mainVars, started, working, reader, armed, tracerVars,
                 connected>>

Break(s) ==
  /\ s \in CanBreak \cap working /\ ~Reading(s)
  /\ working' = working \ {s}
  /\ UNCHANGED <<mainVars, flag, started, reader, alarmVars, tracerVars,
                 connected>>

Recover(s) ==
  /\ s \in CanBreak \ working
  /\ working' = working \cup {s}
  /\ UNCHANGED <<mainVars, flag, started, reader, alarmVars, tracerVars,
                 connected>>

HandlerFails(to) ==
  /\ MayDie
  /\ (handler = "up" \/ (handler = "hungUp" /\ to = "gone"))
  /\ handler' = to
  /\ UNCHANGED <<mainVars, flag, started, working, reader, alarmVars, retries,
                 connected>>

\* The first Telnet client connects.
ClientConnects ==
  /\ "telnet" \in started /\ ~connected /\ ~Ended
  /\ connected' = TRUE
  /\ UNCHANGED <<mainVars, flag, started, working, reader, alarmVars,
                 tracerVars>>

\* The last Telnet session is erased.  If it owned the server alone, the
\* destructor runs on the server's own thread, which then joins itself.
LastClientLeaves ==
  /\ "telnet" \in started /\ connected /\ ~Reading("telnet") /\ ~Ended
  /\ connected' = FALSE
  /\ phase' = IF Orphaned THEN "aborted" ELSE phase
  /\ UNCHANGED <<at, appended, size, capacity, torn, flag, started, working,
                 reader, alarmVars, tracerVars>>

Main == AppendFlag \/ Start \/ StartFails \/ PrometheusFails \/ Stop \/ Return
Serve(s) == Round(s) \/ (s = "crashpad" /\ TracerRound)
Report(s) == StatusRead(s) \/ StatusEnd(s)

Next ==
  \/ Main \/ Interrupt
  \/ \E s \in Services : Serve(s) \/ Break(s) \/ Recover(s)
  \/ \E s \in Reporters : StatusBegin(s) \/ Report(s)
  \/ AlarmFires \/ AlarmClears
  \/ \E to \in {"hungUp", "gone"} : HandlerFails(to)
  \/ ClientConnects \/ LastClientLeaves

Spec == Init /\ [][Next]_vars

\* Every thread is scheduled, and the alarm goes off while it is armed.
FairSpec ==
  /\ Spec /\ WF_vars(Main) /\ WF_vars(AlarmFires) /\ WF_vars(AlarmClears)
  /\ \A s \in Services : WF_vars(Serve(s))
  /\ \A s \in Reporters : WF_vars(Report(s))

-----------------------------------------------------------------------------
(* Properties.                                                             *)

\* How far a reporter can be, and what it can have seen set.
Readings == [next : 0 .. Len(Order) + 1, size : 0 .. Len(Order),
             seen : SUBSET Services]

TypeOK ==
  /\ phase \in {"starting", "running", "stopping", "returned",
               "aborted"}
  /\ at \in 0 .. Len(Order) /\ appended \in BOOLEAN /\ torn \in BOOLEAN
  /\ size \in 0 .. Len(Order) /\ capacity \in size .. 2 * Len(Order)
  /\ flag \in [Services -> BOOLEAN] /\ started \subseteq Enabled
  /\ working \subseteq Services
  /\ reader \in [Reporters -> Readings]
  /\ armed \in BOOLEAN /\ clearing \in 0 .. Len(Order) + 1
  /\ handler \in {"none", "up", "hungUp", "gone"} /\ retries \in 0 .. RetryCount + 1
  /\ connected \in BOOLEAN

\* vCheckFlag is appended to while the ZeroMQ server already answers status
\* requests; its capacity makes the one append that may race not reallocate.
\* This is about the threads that answer, not about the alarm handler, which may
\* interrupt main() in any append.
NoReallocationUnderReader == ~torn

\* When main() returns no thread of a service runs any more, but for a Telnet
\* server that its open sessions keep alive.
OnlySessionsOutlive ==
  phase = "returned" =>
    (started = {} \/ (started = {"telnet"} /\ connected))

\* The vector grew with main() alone: 1, 2, 4 entries, so that the fourth
\* append, the first one that may meet a reader, finds a place.
VectorInv ==
  /\ phase = "starting" => (size = at /\ (appended => at > 0))
  /\ phase = "running" => (at = size /\ size = Len(Order))
  /\ phase = "returned" => at = 0
  /\ at <= size /\ clearing <= size + 1
  /\ capacity = IF size < 3 THEN size ELSE 4

\* Only what main() has started and not yet destroyed runs, but for a Telnet
\* server that a session owns.
StartedInv ==
  \A i \in DOMAIN Order : Order[i] \in started =>
    /\ phase = "starting" => i <= at /\ (i < at \/ ~appended)
    /\ phase \in {"stopping", "returned"} =>
         (i <= at \/ (Order[i] = "telnet" /\ connected))

\* A reader's thread runs, with a session if it is the Telnet server's, and
\* reads entries that exist.
ReaderInv ==
  \A s \in Reporters :
    /\ reader[s].next <= reader[s].size + 1 /\ reader[s].size <= size
    /\ Reading(s) => s \in started /\ (s = "telnet" => connected)

\* While Tracer::threadFunc() goes on, it has not counted past the limit.
TracerInv ==
  /\ "crashpad" \in started => retries <= RetryCount
  /\ (phase = "starting" /\ (at = 0 \/ (at = 1 /\ appended))) => retries = 0

\* What every step keeps, and why the properties above hold.
Inductive ==
  /\ TypeOK /\ NoReallocationUnderReader
  /\ VectorInv /\ StartedInv /\ ReaderInv /\ TracerInv

\* The alarm clears flags for good: a service that stays broken, or was never
\* started, is in the end reported as not active.
BrokenIsReported ==
  \A s \in Services \ {"crashpad"} :
    (<>[](s \notin working \/ s \notin started)) =>
      <>[](~flag[s] \/ Ended)

\* A service that keeps working sets its flag again after every alarm.
LiveIsReported ==
  \A s \in Services : (<>[](s \in working \cap started)) =>
    []<>(flag[s] \/ Ended)

\* "Flag to check if the process is running": a crash handler that is gone is
\* in the end reported as not active.
DeadHandlerIsReported ==
  handler \in {"hungUp", "gone"} ~> [](~flag["crashpad"] \/ Ended)
=============================================================================
