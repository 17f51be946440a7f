---------------------------- MODULE ProcessMetrics ----------------------------
(***************************************************************************)
(* ProcessMetrics (src/src/metrics/ProcessMetrics.cpp): the thread that     *)
(* once a second sets the gauges about the process itself.                 *)
(*                                                                         *)
(* The kernel is external: it counts the bytes the process has read and    *)
(* written, here in small units, and /proc/self/io shows the counts, unless *)
(* the file cannot be opened.  An exception may come from any allocation.  *)
(* Gauges that just show a number of the kernel's are left out.            *)
(***************************************************************************)
EXTENDS Naturals

CONSTANTS
  MaxBytes,  \* bound: what the kernel counts of each kind
  MaxRounds  \* bound: rounds of the thread

VARIABLES
  pc,        \* the thread: "top", "first", "second", "set", "flag", "sleep",
             \* or "ended"
  stopReq,   \* the stop token of _thread
  flag,      \* *_checkFlag
  io,        \* what the kernel has counted, of each kind
  readBytes, \* readBytes in getDiskIO()
  old,       \* _oldReadBytes, _oldWriteBytes
  result,    \* what getDiskIO() returned
  shown,     \* *_pDiskRead, *_pDiskWrite
  reported,  \* history: the sums of what the two gauges have been set to
  rounds     \* history: the rounds begun

diskVars == <<readBytes, old, result>>
gaugeVars == <<shown, reported>>
vars == <<pc, stopReq, flag, io, diskVars, gaugeVars, rounds>>

Pair(r, w) == [read |-> r, write |-> w]
Nothing == Pair(0, 0)

Init ==
  /\ pc = "top" /\ stopReq = FALSE /\ flag = FALSE /\ io = Nothing
  /\ readBytes = 0 /\ old = Nothing /\ result = Nothing
  /\ shown = Nothing /\ reported = Nothing /\ rounds = 0

-----------------------------------------------------------------------------
(* The thread.                                                             *)

CheckStop ==
  /\ pc = "top" /\ (stopReq \/ rounds < MaxRounds)
  /\ pc' = IF stopReq THEN "ended" ELSE "first"
  /\ rounds' = IF stopReq THEN rounds ELSE rounds + 1
  /\ UNCHANGED <<stopReq, flag, io, diskVars, gaugeVars>>

\* getDiskIO() searches the file for the bytes read.  Mutant: they are
\* remembered at once.
RememberedAtOnce == [old EXCEPT !.read = io.read]
Remembered == old

FindReadBytes ==
  /\ pc = "first"
  /\ pc' = "second"
  /\ readBytes' = io.read /\ old' = Remembered
  /\ UNCHANGED <<stopReq, flag, io, result, gaugeVars, rounds>>

\* Mutant: the operands are swapped.
DifferenceSwapped(count, before) == before - count
Difference(count, before) == count - before

\* It searches it again for the bytes written, and remembers both.
FindWriteBytes ==
  /\ pc = "second"
  /\ pc' = "set"
  /\ result' = Pair(Difference(readBytes, old.read),
                    Difference(io.write, old.write))
  /\ old' = Pair(readBytes, io.write)
  /\ UNCHANGED <<stopReq, flag, io, readBytes, gaugeVars, rounds>>

\* Either time the file may be unreadable.
FindsNothing ==
  /\ pc \in {"first", "second"}
  /\ pc' = "set" /\ result' = Nothing
  /\ UNCHANGED <<stopReq, flag, io, readBytes, old, gaugeVars, rounds>>

SetGauges ==
  /\ pc = "set"
  /\ pc' = "flag"
  /\ shown' = result
  /\ reported' = Pair(reported.read + result.read,
                      reported.write + result.write)
  /\ UNCHANGED <<stopReq, flag, io, diskVars, rounds>>

SetFlag ==
  /\ pc = "flag"
  /\ pc' = "sleep" /\ flag' = TRUE
  /\ UNCHANGED <<stopReq, io, diskVars, gaugeVars, rounds>>

\* threadRunner() catches what the searches throw: the flag is not set, and the
\* gauges keep what they show.
UpdateThrows ==
  /\ pc \in {"first", "second"}
  /\ pc' = "sleep"
  /\ UNCHANGED <<stopReq, flag, io, diskVars, gaugeVars, rounds>>

Wake ==
  /\ pc = "sleep"
  /\ pc' = "top"
  /\ UNCHANGED <<stopReq, flag, io, diskVars, gaugeVars, rounds>>

ThreadStep ==
  \/ CheckStop \/ FindReadBytes \/ FindWriteBytes \/ FindsNothing
  \/ SetGauges \/ SetFlag \/ UpdateThrows \/ Wake

-----------------------------------------------------------------------------
(* The kernel, the alarm handler, and main(), which destroys the object.   *)

Transfer(kind) ==
  /\ io[kind] < MaxBytes
  /\ io' = [io EXCEPT ![kind] = @ + 1]
  /\ UNCHANGED <<pc, stopReq, flag, diskVars, gaugeVars, rounds>>

Alarm ==
  /\ flag
  /\ flag' = FALSE
  /\ UNCHANGED <<pc, stopReq, io, diskVars, gaugeVars, rounds>>

RequestStop ==
  /\ ~stopReq
  /\ stopReq' = TRUE
  /\ UNCHANGED <<pc, flag, io, diskVars, gaugeVars, rounds>>

Next ==
  \/ ThreadStep
  \/ \E kind \in {"read", "write"} : Transfer(kind)
  \/ Alarm \/ RequestStop

Spec == Init /\ [][Next]_vars

-----------------------------------------------------------------------------
(* Properties.                                                             *)

Bytes == [read : 0 .. MaxBytes, write : 0 .. MaxBytes]

TypeOK ==
  /\ pc \in {"top", "first", "second", "set", "flag", "sleep", "ended"}
  /\ stopReq \in BOOLEAN /\ flag \in BOOLEAN
  /\ readBytes \in 0 .. MaxBytes /\ rounds \in 0 .. MaxRounds
  /\ {io, old, result, shown, reported} \subseteq Bytes

\* "Gets the disk read and write bytes of the process": whichever searches fail
\* or throw while the process goes on reading and writing, every byte is shown
\* in one round, and no difference wraps below zero.
DiskBytesAddUp ==
  /\ LET pending == IF pc = "set" THEN result ELSE Nothing
     IN old = Pair(reported.read + pending.read, reported.write + pending.write)
  /\ old.read <= io.read /\ old.write <= io.write
  /\ pc = "second" => old.read <= readBytes /\ readBytes <= io.read
=============================================================================
