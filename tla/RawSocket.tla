------------------------------ MODULE RawSocket ------------------------------
(***************************************************************************)
(* RawSocket objects (src/src/connection/RawSocket.cpp) and the descriptors *)
(* they hold.                                                              *)
(*                                                                         *)
(* The kernel is external: socket() takes a free descriptor, bind() and     *)
(* setsockopt() may fail, write() and recvfrom() move some bytes, none, or  *)
(* fail with a negative number.  The processing time is left out.          *)
(***************************************************************************)
EXTENDS Integers, FiniteSets, FiniteSetsExt

CONSTANTS
  Objects,   \* the objects there may be at a time
  Fds,       \* the descriptors of the process
  Results,   \* what write() and recvfrom() may return
  MaxBytes,  \* bound: bytes moved
  NoObject   \* an object that is not there

VARIABLES
  open,      \* the descriptors in use
  socket,    \* each object: its mode, descriptor and _stats, or NoObject
  failed,    \* history: constructors that threw after socket()
  moved,     \* history: bytes the kernel moved, of each kind, for each object
  taken      \* history: bytes getStats(true) has returned for each object

vars == <<open, socket, failed, moved, taken>>

Modes == {"write", "read"}
Pair(s, r) == [sent |-> s, received |-> r]
None == Pair(0, 0)
Plus(p, q) == Pair(p.sent + q.sent, p.received + q.received)

Init ==
  /\ open = {} /\ failed = 0
  /\ socket = [o \in Objects |-> NoObject]
  /\ moved = [o \in Objects |-> None] /\ taken = [o \in Objects |-> None]

-----------------------------------------------------------------------------

\* The constructor and init(): the socket is bound, and for writing is bound to
\* the device.  One that finds no interface, or gets no socket, changes nothing.
Construct(o, mode) ==
  /\ socket[o] = NoObject /\ Fds \ open # {}
  /\ LET fd == Min(Fds \ open)
     IN /\ open' = open \cup {fd}
        /\ socket' = [socket EXCEPT
                        ![o] = [mode |-> mode, fd |-> fd, stats |-> None]]
  /\ moved' = [moved EXCEPT ![o] = None] /\ taken' = [taken EXCEPT ![o] = None]
  /\ UNCHANGED failed

\* bind() or setsockopt() fails: the constructor throws, and no destructor
\* closes the descriptor.
ConstructThrows(o) ==
  /\ socket[o] = NoObject /\ Fds \ open # {}
  /\ open' = open \cup {Min(Fds \ open)} /\ failed' = failed + 1
  /\ UNCHANGED <<socket, moved, taken>>

\* writeData() and readData() do nothing in the other one's mode.  The counter
\* each of them adds to.  Mutant: both add to sentBytes.
CounterSame(mode) == "sent"
Counter(mode) == IF mode = "write" THEN "sent" ELSE "received"

\* write() or recvfrom() returns n.
Transfer(o, mode, n) ==
  LET kind == IF mode = "write" THEN "sent" ELSE "received"
  IN /\ socket[o] # NoObject /\ socket[o].mode = mode
     /\ moved[o][kind] + n <= MaxBytes
     /\ IF n > 0
        THEN /\ socket' = [socket EXCEPT ![o].stats[Counter(mode)] = @ + n]
             /\ moved' = [moved EXCEPT ![o][kind] = @ + n]
        ELSE UNCHANGED <<socket, moved>>
     /\ UNCHANGED <<open, failed, taken>>

\* getStats(true)
TakeStats(o) ==
  /\ socket[o] # NoObject
  /\ taken' = [taken EXCEPT ![o] = Plus(@, socket[o].stats)]
  /\ socket' = [socket EXCEPT ![o].stats = None]
  /\ UNCHANGED <<open, failed, moved>>

\* ~RawSocket().  Mutant: the descriptor is not closed.
AfterCloseOpen(fd) == open
AfterClose(fd) == open \ {fd}

Destroy(o) ==
  /\ socket[o] # NoObject
  /\ open' = AfterClose(socket[o].fd)
  /\ socket' = [socket EXCEPT ![o] = NoObject]
  /\ UNCHANGED <<failed, moved, taken>>

Next ==
  \E o \in Objects :
    \/ ConstructThrows(o) \/ TakeStats(o) \/ Destroy(o)
    \/ \E mode \in Modes :
         Construct(o, mode) \/ \E n \in Results : Transfer(o, mode, n)

Spec == Init /\ [][Next]_vars

-----------------------------------------------------------------------------
(* Properties.                                                             *)

Live == {o \in Objects : socket[o] # NoObject}
Held == {socket[o].fd : o \in Live}
Stats == [sent : 0 .. MaxBytes, received : 0 .. MaxBytes]
Records == [mode : Modes, fd : Fds, stats : Stats]

TypeOK ==
  /\ open \subseteq Fds /\ failed \in 0 .. Cardinality(Fds)
  /\ socket \in [Objects -> Records \cup {NoObject}]
  /\ moved \in [Objects -> Stats] /\ taken \in [Objects -> Stats]

\* ~RawSocket() and the constructor: no two objects hold the same descriptor,
\* and the descriptors nobody holds are one for each constructor that threw
\* after socket(): nothing else leaks one, but those stay in use for good.
OnlyFailuresLeak ==
  /\ Cardinality(Held) = Cardinality(Live) /\ Held \subseteq open
  /\ Cardinality(open \ Held) = failed

\* getStats(): resetting it now and then loses no byte and returns none twice,
\* and a socket counts what it moved in its own mode only.
StatsConserved ==
  \A o \in Live : Plus(taken[o], socket[o].stats) = moved[o]

\* Each object has a descriptor of its own, whatever their numbers.
HoldersDiffer ==
  \A o, p \in Live : socket[o].fd = socket[p].fd => o = p

SocketsAccounted == OnlyFailuresLeak /\ StatsConserved
=============================================================================
