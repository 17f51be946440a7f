----------------------------- MODULE SmallParts -----------------------------
(***************************************************************************)
(* Four parts of the program that share nothing with each other nor with    *)
(* the rest: the registries and status tracker of Metrics, a performance    *)
(* tracker, the self monitor, and raw sockets.  Each behaviour is one of    *)
(* the parts', the others standing still, so that TLC explores every part   *)
(* completely and none of their products.                                  *)
(***************************************************************************)
EXTENDS Metrics

CONSTANTS
  Timers, IntMax, MaxClock, MaxCalls,             \* of Performance
  MaxFileBytes, MaxRounds,                        \* of ProcessMetrics
  Objects, Fds, Results, MaxSocketBytes, NoObject \* of RawSocket

ASSUME PartsAssumption ==
  /\ IntMax \in Nat /\ MaxClock \in Nat /\ MaxCalls \in Nat
  /\ MaxFileBytes \in Nat /\ MaxRounds \in Nat /\ MaxSocketBytes \in Nat
  /\ Fds \subseteq Nat /\ IsFiniteSet(Fds) /\ Results \subseteq Int

VARIABLES
  part,
  now, startTime, minTiming, maxTiming, at, began, end, val, observed,
  overlapped, calls,
  place, stopReq, flag, io, readBytes, old, result, shown, reported, rounds,
  open, socket, failed, moved, taken

Timing == INSTANCE Performance WITH Threads <- Timers, pc <- at

Process == INSTANCE ProcessMetrics WITH MaxBytes <- MaxFileBytes, pc <- place

Sockets == INSTANCE RawSocket WITH MaxBytes <- MaxSocketBytes

ASSUME NoObjectAssumption == NoObject \notin Sockets!Records

timingVars == <<now, startTime, minTiming, maxTiming, at, began, end, val,
                observed, overlapped, calls>>
processVars == <<place, stopReq, flag, io, readBytes, old, result, shown,
                 reported, rounds>>
socketVars == <<open, socket, failed, moved, taken>>

PartsInit ==
  /\ part \in {"metrics", "timing", "process", "sockets"}
  /\ Init /\ Timing!Init /\ Process!Init /\ Sockets!Init

MetricsStep ==
  /\ part = "metrics" /\ Next
  /\ UNCHANGED <<part, timingVars, processVars, socketVars>>

TimingStep ==
  /\ part = "timing" /\ Timing!Next
  /\ UNCHANGED <<part, vars, processVars, socketVars>>

ProcessStep ==
  /\ part = "process" /\ Process!Next
  /\ UNCHANGED <<part, vars, timingVars, socketVars>>

SocketsStep ==
  /\ part = "sockets" /\ Sockets!Next
  /\ UNCHANGED <<part, vars, timingVars, processVars>>

PartsSpec ==
  PartsInit /\ [][MetricsStep \/ TimingStep \/ ProcessStep \/ SocketsStep]_<<
                   part, vars, timingVars, processVars, socketVars>>

-----------------------------------------------------------------------------

\* The inductive invariants of the parts.
PartsInv ==
  /\ RegistryInv /\ Timing!TimingInv /\ Sockets!HoldersDiffer

\* The type invariants of the four modules.
TypesOK == TypeOK /\ Timing!TypeOK /\ Process!TypeOK /\ Sockets!TypeOK

\* What holds the parts together: besides the types (in particular that no
\* difference of byte counts is negative), how the registries' ids grow, which
\* starts and extremes the timers see, and whose descriptors are open.
Inductive == TypesOK /\ PartsInv

\* startTimer() and endTimer() by several threads (Performance!TimingSound).
TimingSound == Timing!TimingSound

\* getDiskIO() with searches that fail (ProcessMetrics!DiskBytesAddUp).
DiskBytesAddUp == Process!DiskBytesAddUp

\* RawSocket objects and their counters (RawSocket!SocketsAccounted).
SocketsAccounted == Sockets!SocketsAccounted
=============================================================================
