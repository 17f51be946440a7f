------------------------------ MODULE ConfigFile ------------------------------
(***************************************************************************)
(* A configuration file, the ConfigParser objects of several processes that *)
(* load and save it (src/src/utils/ConfigParser.cpp), and the FileMonitor   *)
(* that watches it (src/src/utils/FileHelpers.cpp).                         *)
(*                                                                         *)
(* The text of a map is abstracted to the map and a length, one for each    *)
(* entry and one for the braces.  The file system and inotify are external: *)
(* opening a stream truncates the file; the text, which fits in the buffer  *)
(* of the stream, reaches it when the stream is destroyed, over what is     *)
(* there; and where the file would have to grow the disk may be full.       *)
(***************************************************************************)
EXTENDS Integers, Sequences, FiniteSets, SequencesExt

CONSTANTS
  Parsers,    \* the ConfigParser objects, each in a process of its own
  Keys,       \* the keys of the configuration
  Values,     \* and their values
  MaxChanges  \* bound: changes of maps and files, and crashes, in all

ASSUME ConfigAssumption == MaxChanges \in Nat /\ IsFiniteSet(Keys)

VARIABLES
  file,      \* the file: its text, or Missing
  map,       \* _configMap of each parser
  valid,     \* _isValid
  pc,        \* each parser: "idle", "gone", or in save()
             \* "writing" the file or "detached", a file replaced since
  mpc,       \* FileMonitor::threadFunc(): "top", "read", "scan", "stopped"
  size,      \* nBytes: the events ioctl() reported
  batch,     \* buffer: the events read
  queue,     \* the inotify queue
  watched,   \* the watch is on the file at the path
  callback,  \* _notifyCallback is set
  stopReq,   \* the stop token of the monitor's thread
  loaded,    \* history: what each parser's last load() read
  written,   \* history: the maps somebody wrote
  due,       \* history: a change the callback has not been called for yet
  changes    \* the bounded counter

parserVars == <<map, valid, pc, loaded>>
threadVars == <<mpc, size, batch>>
vars == <<file, parserVars, threadVars, queue, watched, callback, stopReq,
          written, due, changes>>

Empty == [k \in {} |-> ""]
Maps == UNION {[D -> Values] : D \in SUBSET Keys}
Length(m) == 1 + Cardinality(DOMAIN m)

\* A text: it begins with that of map, and is whole if nothing follows it or
\* lacks.  Missing: there is no file.
Texts ==
  [map : Maps, length : -1 .. 1 + Cardinality(Keys), whole : BOOLEAN]
TextOf(m) == [map |-> m, length |-> Length(m), whole |-> TRUE]
Truncated == [map |-> Empty, length |-> 0, whole |-> FALSE]
Missing == [map |-> Empty, length |-> -1, whole |-> FALSE]

\* The first n bytes of m's text, written over what the file holds.
Overwritten(m, n) ==
  [map |-> m, length |-> IF n > file.length THEN n ELSE file.length,
   whole |-> n = Length(m) /\ n >= file.length]

Init ==
  /\ file \in {TextOf(m) : m \in Maps} \cup {Missing}
  /\ map = [p \in Parsers |-> Empty] /\ valid = [p \in Parsers |-> FALSE]
  /\ loaded = map /\ pc = [p \in Parsers |-> "gone"]
  /\ mpc = "top" /\ size = 0 /\ batch = <<>> /\ queue = <<>>
  /\ watched = (file # Missing) /\ callback = FALSE /\ stopReq = FALSE
  /\ written = (IF file = Missing THEN {} ELSE {file.map})
  /\ due = FALSE /\ changes = 0

Counted == changes < MaxChanges /\ changes' = changes + 1

-----------------------------------------------------------------------------
(* What inotify makes of a change.                                         *)

\* An event equal to the last one in the queue is merged with it.
Queued(e) == IF queue # <<>> /\ Last(queue) = e THEN queue ELSE Append(queue, e)

Modified ==
  /\ queue' = IF watched THEN Queued("modify") ELSE queue
  /\ due' = (due \/ (watched /\ callback))
  /\ UNCHANGED <<watched, callback, stopReq, threadVars>>

-----------------------------------------------------------------------------
(* ConfigParser.                                                           *)

\* Whether readJson() gets an object out of the text.  Mutant: a text that does
\* not parse is an empty configuration.
ParsesAlways(text) == text # Missing
Parses(text) == text.whole

\* load(), or the constructor in a process that has just started.
Load(p) ==
  /\ pc[p] \in {"idle", "gone"}
  /\ pc' = [pc EXCEPT ![p] = "idle"]
  /\ map' = [map EXCEPT ![p] = IF Parses(file) THEN file.map ELSE Empty]
  /\ valid' = [valid EXCEPT ![p] = Parses(file)]
  /\ loaded' = [loaded EXCEPT ![p] = map'[p]]
  /\ UNCHANGED <<file, threadVars, queue, watched, callback, stopReq, written,
                 due, changes>>

\* set() and remove().
With(m, key, value) ==
  [k \in DOMAIN m \cup {key} |-> IF k = key THEN value ELSE m[k]]
Without(m, key) == Restrict(m, DOMAIN m \ {key})

\* The maps they make of m.  Mutant: remove() leaves the key, with no value.
EditedRaw(m) ==
  {[m EXCEPT ![key] = ""] : key \in DOMAIN m} \cup
  {With(m, key, value) : key \in Keys, value \in Values}
Edited(m) ==
  {With(m, key, value) : key \in Keys, value \in Values}
    \cup {Without(m, key) : key \in Keys}

\* They change the map only.
Edit(p) ==
  /\ pc[p] = "idle" /\ Counted
  /\ \E m \in Edited(map[p]) : map' = [map EXCEPT ![p] = m]
  /\ UNCHANGED <<file, valid, pc, loaded, threadVars, queue, watched, callback,
                 stopReq, written, due>>

\* save(): the stream is opened, and the file is empty from then on.
SaveOpen(p) ==
  /\ pc[p] = "idle" /\ Counted
  /\ pc' = [pc EXCEPT ![p] = "writing"]
  /\ file' = Truncated /\ written' = written \cup {map[p]}
  /\ Modified
  /\ UNCHANGED <<map, valid, loaded>>

\* The stream is destroyed: its buffer is written, as far as the disk has room;
\* nobody asks whether it was.
SaveWrite(p) ==
  /\ pc[p] = "writing"
  /\ pc' = [pc EXCEPT ![p] = "idle"]
  /\ \E n \in {Length(map[p])} \cup (file.length .. Length(map[p])) :
       file' = Overwritten(map[p], n)
  /\ Modified
  /\ UNCHANGED <<map, valid, loaded, written, changes>>

\* The text goes to the file that had the name before.
SaveNowhere(p) ==
  /\ pc[p] = "detached"
  /\ pc' = [pc EXCEPT ![p] = "idle"]
  /\ UNCHANGED <<file, map, valid, loaded, threadVars, queue, watched,
                 callback, stopReq, written, due, changes>>

Crash(p) ==
  /\ pc[p] # "gone" /\ Counted
  /\ pc' = [pc EXCEPT ![p] = "gone"]
  /\ UNCHANGED <<file, map, valid, loaded, threadVars, queue, watched,
                 callback, stopReq, written, due>>

-----------------------------------------------------------------------------
(* Somebody else changes the file.                                         *)

\* In place, at once.
Rewrite ==
  /\ file # Missing /\ Counted
  /\ \E m \in Maps : file' = TextOf(m) /\ written' = written \cup {m}
  /\ Modified
  /\ UNCHANGED parserVars

\* By a new file of the same name: the watch stays with the old one, and ends.
Replace ==
  /\ Counted
  /\ \E m \in Maps : file' = TextOf(m) /\ written' = written \cup {m}
  /\ queue' = IF watched THEN Queued("ignored") ELSE queue
  /\ watched' = FALSE
  /\ pc' = [p \in Parsers |-> IF pc[p] = "writing" THEN "detached" ELSE pc[p]]
  /\ UNCHANGED <<map, valid, loaded, threadVars, callback, stopReq, due>>

-----------------------------------------------------------------------------
(* FileMonitor, with the events it is constructed for abstracted to IN_MODIFY. *)

\* notifyCallback(f): the thread runs since the constructor.
SetCallback ==
  /\ ~callback /\ callback' = TRUE
  /\ UNCHANGED <<file, parserVars, threadVars, queue, watched, stopReq, written,
                 due, changes>>

\* The top of the loop: ioctl(FIONREAD).
Ask ==
  /\ mpc = "top"
  /\ IF stopReq THEN mpc' = "stopped" /\ size' = size
                ELSE mpc' = "read" /\ size' = Len(queue)
  /\ UNCHANGED <<file, parserVars, batch, queue, watched, callback, stopReq,
                 written, due, changes>>

\* read() of so many events, into a buffer of that size.  With none it fails:
\* EAGAIN for an empty queue, EINVAL if an event has arrived since.
\* Mutant: that ends the thread.
AfterEmptyReadStops == IF queue # <<>> THEN "stopped" ELSE "top"
AfterEmptyRead == "top"

Read ==
  /\ mpc = "read"
  /\ mpc' = IF size = 0 THEN AfterEmptyRead ELSE "scan"
  /\ batch' = SubSeq(queue, 1, size)
  /\ queue' = SubSeq(queue, size + 1, Len(queue))
  /\ size' = 0
  /\ UNCHANGED <<file, parserVars, watched, callback, stopReq, written, due,
                 changes>>

\* The callback is called once for all the events of one read().
Scan ==
  /\ mpc = "scan"
  /\ mpc' = "top" /\ batch' = <<>>
  /\ due' = IF callback /\ Contains(batch, "modify") THEN FALSE ELSE due
  /\ UNCHANGED <<file, parserVars, size, queue, watched, callback, stopReq,
                 written, changes>>

\* The destructor: the thread is asked to stop, and joined.
Destroy ==
  /\ ~stopReq /\ stopReq' = TRUE
  /\ UNCHANGED <<file, parserVars, threadVars, queue, watched, callback,
                 written, due, changes>>

MonitorStep == Ask \/ Read \/ Scan

Next ==
  \/ \E p \in Parsers :
       \/ Load(p) \/ Edit(p) \/ Crash(p)
       \/ SaveOpen(p) \/ SaveWrite(p) \/ SaveNowhere(p)
  \/ Rewrite \/ Replace
  \/ SetCallback \/ MonitorStep \/ Destroy

\* The monitor's thread is scheduled; nothing else need ever happen.
Spec == Init /\ [][Next]_vars /\ WF_vars(MonitorStep)

-----------------------------------------------------------------------------
(* Properties.                                                             *)

TypeOK ==
  /\ file \in Texts \cup {Missing} /\ written \subseteq Maps
  /\ map \in [Parsers -> Maps] /\ loaded \in [Parsers -> Maps]
  /\ valid \in [Parsers -> BOOLEAN]
  /\ pc \in [Parsers -> {"idle", "writing", "detached", "gone"}]
  /\ mpc \in {"top", "read", "scan", "stopped"} /\ size \in Nat
  /\ batch \in Seq({"modify", "ignored"}) /\ queue \in Seq({"modify", "ignored"})
  /\ watched \in BOOLEAN /\ callback \in BOOLEAN /\ stopReq \in BOOLEAN
  /\ due \in BOOLEAN /\ changes \in 0 .. MaxChanges

\* isValid(), "Check if the configuration was loaded successfully": whatever
\* crashes, full disks and simultaneous saves have left in the file, what a
\* valid parser has read is a configuration that somebody wrote in full.
LoadedIsWhole == \A p \in Parsers : valid[p] => loaded[p] \in written

\* What LoadedIsWhole rests on: a text that parses, and one on its way to the
\* file, is of a map that somebody wrote.
WholeIsWritten ==
  /\ file.whole => file.map \in written
  /\ \A p \in Parsers : pc[p] = "writing" => map[p] \in written

\* "Invokes functions for a file for given notify events": as long as it lives,
\* the monitor calls its callback after every change of the file it watches,
\* however the change falls between ioctl() and read(), or on another event.
ChangeNotified == due ~> (~due \/ stopReq)
=============================================================================
