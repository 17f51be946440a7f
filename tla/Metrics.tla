------------------------------- MODULE Metrics -------------------------------
(***************************************************************************)
(* The registries of the Prometheus server (src/src/metrics/                *)
(* PrometheusServer.cpp) and a StatusTracker (src/src/metrics/Status.cpp)   *)
(* that several threads share.                                             *)
(*                                                                         *)
(* Each call of PrometheusServer holds _guardLock and is one step.  A      *)
(* StatusTracker has no lock: its counters are atomic, its methods are not, *)
(* and take one step for each counter.  A registry is named by the order of *)
(* its creation, 0 being the one of the constructor.                        *)
(***************************************************************************)
EXTENDS Integers, Sequences, FiniteSets, SequencesExt

CONSTANTS
  Threads,      \* the threads
  MaxId,        \* std::numeric_limits<uint64_t>::max()
  MaxRegistries,\* bound: registries created
  MaxEvents     \* bound: events tracked

ASSUME BoundsAssumption ==
  MaxRegistries \in Nat /\ MaxEvents \in Nat /\ MaxId \in Nat

\* No program creates 2^64 registries.
ASSUME WidthAssumption == MaxRegistries < MaxId

VARIABLES
  vRegister,  \* _vRegister
  created,    \* history: the registries created, the next one's name
  ids,        \* history: the registries a thread was given and nobody deleted,
              \* with their ids
  pc,         \* each thread: "idle", or what it does to the tracker next
  counts,     \* _totalCtr, _successCtr, _failedCtr
  activeCtr,  \* _activeCtr
  events      \* history: the events begun, bounded

registryVars == <<vRegister, created, ids>>
trackerVars == <<pc, counts, activeCtr, events>>
vars == <<registryVars, trackerVars>>

Entry(id, reg) == [id |-> id, reg |-> reg]

Init ==
  /\ vRegister = <<Entry(MaxId, 0)>> /\ created = 1 /\ ids = {}
  /\ pc = [t \in Threads |-> "idle"]
  /\ counts = [total |-> 0, success |-> 0, failed |-> 0] /\ activeCtr = 0
  /\ events = 0

-----------------------------------------------------------------------------
(* PrometheusServer.                                                       *)

\* The id after the last one's; after the information registry's comes 0.
\* Mutant: the number of registries.
NextIdCount == Len(vRegister) - 1
NextId == (Last(vRegister).id + 1) % (MaxId + 1)

createNewRegistry ==
  /\ created <= MaxRegistries
  /\ vRegister' = Append(vRegister, Entry(NextId, created))
  /\ ids' = ids \cup {Entry(NextId, created)}
  /\ created' = created + 1
  /\ UNCHANGED trackerVars

\* getRegistry(): the first with this id, or nullptr, here -1.
getRegistry(id) ==
  LET found == {i \in DOMAIN vRegister : vRegister[i].id = id}
  IN IF found = {} THEN -1 ELSE vRegister[Min(found)].reg

\* What erase_if() leaves of the first n registries.
Left(id) ==
  LET left[n \in 0 .. Len(vRegister)] ==
        IF n = 0 THEN <<>>
        ELSE IF vRegister[n].id = id THEN left[n - 1]
        ELSE Append(left[n - 1], vRegister[n])
  IN left

\* It removes every one with this id, but the information registry is never
\* removed.
deleteRegistry(id) ==
  /\ id # MaxId
  /\ vRegister' = Left(id)[Len(vRegister)]
  /\ UNCHANGED <<created, trackerVars>>

\* A registry is deleted by who has its id.
DeleteOwn == \E e \in ids : deleteRegistry(e.id) /\ ids' = ids \ {e}

-----------------------------------------------------------------------------
(* StatusTracker, used by each thread for one event after another:         *)
(* incrementActive() first, incrementSuccess() or incrementFail() at last. *)

Goes(t, from, to) == pc[t] = from /\ pc' = [pc EXCEPT ![t] = to]

incrementActive(t) ==
  /\ Goes(t, "idle", "working") /\ events < MaxEvents
  /\ activeCtr' = activeCtr + 1 /\ events' = events + 1
  /\ UNCHANGED <<counts, registryVars>>

\* The first step of incrementSuccess() and incrementFail().
incrementOutcome(t, outcome) ==
  /\ Goes(t, "working", "outcome")
  /\ counts' = [counts EXCEPT ![outcome] = @ + 1]
  /\ UNCHANGED <<activeCtr, events, registryVars>>

incrementTotal(t) ==
  /\ Goes(t, "outcome", "total")
  /\ counts' = [counts EXCEPT !.total = @ + 1]
  /\ UNCHANGED <<activeCtr, events, registryVars>>

\* The value is read, and only then decremented.  Mutant: it is decremented
\* while another event is active.
MayDecrementOthers == activeCtr > 1
MayDecrement == activeCtr > 0

checkActive(t) ==
  /\ Goes(t, "total", IF MayDecrement THEN "decrement" ELSE "idle")
  /\ UNCHANGED <<counts, activeCtr, events, registryVars>>

decrementActive(t) ==
  /\ Goes(t, "decrement", "idle")
  /\ activeCtr' = activeCtr - 1
  /\ UNCHANGED <<counts, events, registryVars>>

\* A TrackStatus object counts an event that has no outcome.
endScope(t) ==
  /\ Goes(t, "working", "idle")
  /\ activeCtr' = activeCtr - 1
  /\ UNCHANGED <<counts, events, registryVars>>

Next ==
  \/ createNewRegistry \/ DeleteOwn
  \/ \E t \in Threads :
       \/ incrementActive(t) \/ endScope(t)
       \/ \E o \in {"success", "failed"} : incrementOutcome(t, o)
       \/ incrementTotal(t) \/ checkActive(t) \/ decrementActive(t)

Spec == Init /\ [][Next]_vars

-----------------------------------------------------------------------------
(* Properties.                                                             *)

Entries == [id : 0 .. MaxId, reg : 0 .. MaxRegistries]

TypeOK ==
  /\ vRegister \in Seq(Entries) /\ created \in 1 .. MaxRegistries + 1
  /\ ids \subseteq Entries
  /\ pc \in [Threads -> {"idle", "working", "outcome", "total", "decrement"}]
  /\ counts \in [{"total", "success", "failed"} -> Nat]
  /\ activeCtr \in Int /\ events \in 0 .. MaxEvents

\* "Get the registry with id": whatever was created and deleted before, an id
\* that was given out and not deleted finds its own registry, and the id of the
\* information registry always finds that one, so that back() is valid.
IdFindsRegistry ==
  /\ \A e \in ids : getRegistry(e.id) = e.reg
  /\ getRegistry(MaxId) = 0
  /\ vRegister # <<>>

\* What every step keeps, and makes IdFindsRegistry true: the ids grow along
\* the vector and stay below the number of registries ever created, so that
\* none comes twice, or is the information registry's.
RegistryInv ==
  /\ vRegister # <<>> /\ vRegister[1] = Entry(MaxId, 0)
  /\ \A i \in 2 .. Len(vRegister) : vRegister[i].id <= created - 2
  /\ \A i, j \in 2 .. Len(vRegister) :
       i < j => vRegister[i].id < vRegister[j].id
  /\ \A e \in ids : \E i \in 2 .. Len(vRegister) : vRegister[i] = e

At(places) == Cardinality({t \in Threads : pc[t] \in places})

\* "Currently active number of events" and "Total occurrences": the check before
\* the decrement is not atomic with it, yet the gauge has exactly the events
\* begun and not ended, and the total lags only behind an outcome just reported.
EventsBalance ==
  /\ activeCtr = At({"working", "outcome", "total", "decrement"})
  /\ counts.success + counts.failed = counts.total + At({"outcome"})
=============================================================================
