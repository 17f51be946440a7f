----------------------------- MODULE TelnetLine -----------------------------
(***************************************************************************)
(* The line discipline of one TelnetSession (src/src/telnet/               *)
(* TelnetServer.cpp): what update() does with the bytes of one recv(), from *)
(* the echo to the command callback, the command history, the completion   *)
(* of commands and the session's statistics.                               *)
(*                                                                         *)
(* The client's bytes are keys: a letter, a control character, or one      *)
(* arrow (its escape sequence; update() keeps a partial one in m_buffer).  *)
(* A send() counts as one upload, whatever its length.  TCP may cut the    *)
(* stream anywhere: each recv() returns one of the setting's segments.     *)
(***************************************************************************)
EXTENDS Integers, Sequences, FiniteSets, SequencesExt

CONSTANTS
  Settings,      \* the circumstances of a session, by name: see SettingType
  HistoryLimit,  \* TELNET_HISTORY_LIMIT
  Commands,      \* telnetCommands, the commands Tab completes, a sequence
  Known,         \* the lines TelnetMessageCallback knows, other than these:
  Help, Quit

\* segments: what one recv() may return, a set of sequences of keys; keys: the
\* bound on the keys the client types; interactive: the server has a prompt;
\* hooked: the callbacks are installed; sends: send() may succeed, may fail.
SettingType(s) ==
  /\ DOMAIN s = {"segments", "keys", "interactive", "hooked", "sends"}
  /\ s.segments \subseteq Seq(STRING) \ {<<>>} /\ s.keys \in Nat
  /\ s.interactive \in BOOLEAN /\ s.hooked \in BOOLEAN
  /\ s.sends \subseteq BOOLEAN

ASSUME LimitsAssumption ==
  HistoryLimit \in Nat \ {0} /\ \A s \in Range(Settings) : SettingType(s)

Arrows == {"up", "down", "left", "right"}
Controls == {"nul", "cr", "lf", "bs", "del", "tab", "iac"} \cup Arrows

ASSUME CommandsAssumption == Commands \in Seq(Seq(STRING \ Controls))

VARIABLES
  setting,    \* the circumstances, a name of Settings
  phase,      \* "accepted": initialise() has run; "live": update() has, too
  buffer,     \* m_buffer
  history,    \* m_history
  cursor,     \* m_historyCursor, Len(history) + 1 being end()
  stats,      \* the session's statistics since they were last reset
  totals,     \* what TelnetStats::consumeStats() has added up
  timedOut,   \* markTimeout() was called: the session ends in this round
  received,   \* history: every key received
  executed,   \* history: every line handed to the command callback
  sent        \* history: the number of send() calls that succeeded

vars == <<setting, phase, buffer, history, cursor, stats, totals, timedOut,
          received, executed, sent>>

Interactive == Settings[setting].interactive
Hooked == Settings[setting].hooked

NoStats == [up |-> 0, down |-> 0, succ |-> 0, fail |-> 0]

\* The place of the first of Ks in b, 0 if there is none.
First(b, Ks) == SelectInSeq(b, LAMBDA k : k \in Ks)

Without(b, from, to) == SubSeq(b, 1, from - 1) \o SubSeq(b, to + 1, Len(b))

\* A loop that goes on until it finds nothing more: its body, which leaves what
\* has nothing to be found as it is, as often as there may be something.
Repeated(body(_), x, times) ==
  LET after[n \in 0 .. times] == IF n = 0 THEN x ELSE body(after[n - 1])
  IN after[times]

-----------------------------------------------------------------------------
(* The stages of update(), in its order.                                   *)

\* Telnet clients send CR NUL for a new line: every NUL becomes an LF.
SwapNulls(b) == [i \in DOMAIN b |-> IF b[i] = "nul" THEN "lf" ELSE b[i]]

\* Mutant: a negotiation cut short by the end of the segment is dropped.
StripNVTPartial(b) ==
  LET f == First(b, {"iac"})
  IN IF f # 0 THEN Without(b, f, f + 2) ELSE b

StripFirstNVT(b) ==
  LET f == First(b, {"iac"})
  IN IF f # 0 /\ f + 2 <= Len(b) THEN Without(b, f, f + 2) ELSE b
StripNVT(b) == Repeated(StripFirstNVT, b, Len(b))

StripFirstArrow(b) ==
  LET f == First(b, Arrows) IN IF f # 0 THEN Without(b, f, f) ELSE b
StripEscapeCharacters(b) == Repeated(StripFirstArrow, b, Len(b))

ProcessFirstBackspace(b) ==
  LET f == IF First(b, {"del"}) # 0 THEN First(b, {"del"})
                                    ELSE First(b, {"bs"})
  IN IF f = 0 THEN b
     ELSE IF Len(b) > 1 /\ f > 1 THEN Without(b, f - 1, f) ELSE <<>>
ProcessBackspace(b) == Repeated(ProcessFirstBackspace, b, Len(b))

\* sendLine() with b in m_buffer: erase, the line, the prompt and b again.
PromptSends(b) == 1 + (IF b # <<>> THEN 1 ELSE 0)
LineSends(b) ==
  (IF Interactive \/ b # <<>> THEN 2 ELSE 0) + 1
    + (IF Interactive THEN PromptSends(b) ELSE 0)

\* TelnetTabCallback for the text before the tab: the commands that begin so, and
\* the only one.
Matches(line) == {i \in DOMAIN Commands : IsPrefix(line, Commands[i])}
Match(line) == Commands[CHOOSE i \in Matches(line) : TRUE]

ProcessFirstTab(r) ==
  LET f     == First(r.buf, {"tab"})
      rest  == Without(r.buf, f, f)
      found == IF Hooked THEN Cardinality(Matches(SubSeq(rest, 1, f - 1))) ELSE 0
  IN IF f = 0 THEN r
     ELSE IF found = 1
     THEN [r EXCEPT !.buf = Match(SubSeq(rest, 1, f - 1))
                              \o SubSeq(rest, f, Len(rest))]
     ELSE [buf   |-> rest,
           sends |-> r.sends + (IF found > 1 THEN LineSends(rest) ELSE 0)]
ProcessTab(b) == Repeated(ProcessFirstTab, [buf |-> b, sends |-> 0], Len(b))

TakeFirstLine(r) ==
  LET b    == r.rest
      ends == {i \in 1 .. Len(b) - 1 : b[i] = "cr" /\ b[i + 1] = "lf"}
      f    == Min(ends)
  IN IF ends = {} THEN r
     ELSE [lines |-> Append(r.lines, SubSeq(b, 1, f - 1)),
           rest  |-> SubSeq(b, f + 2, Len(b))]
GetCompleteLines(b) ==
  Repeated(TakeFirstLine, [lines |-> <<>>, rest |-> b], Len(b))

\* next() of std::list wraps: after end() comes begin().
NextOf(c) == IF c > Len(history) THEN 1 ELSE c + 1

Recalled(c, ok) ==
  [buf |-> history[c], cursor |-> c, reprint |-> ok, sends |-> 1]

ProcessCommandHistory(b, ok) ==
  IF First(b, {"up"}) # 0 /\ history # <<>>
  THEN Recalled(IF cursor # 1 THEN cursor - 1 ELSE cursor, ok)
  ELSE IF First(b, {"down"}) # 0 /\ history # <<>>
  THEN Recalled(IF NextOf(cursor) # Len(history) + 1 THEN NextOf(cursor)
                                                     ELSE cursor, ok)
  ELSE [buf |-> b, cursor |-> cursor,
        reprint |-> First(b, {"left", "right"}) # 0, sends |-> 0]

\* The last entry is not repeated, the oldest gives way, the cursor is end().
Longer(h, line) ==
  IF line # <<>> /\ ~(h.list # <<>> /\ Last(h.list) = line)
  THEN Append(h.list, line) ELSE h.list
Popped(list) == IF Len(list) > HistoryLimit THEN Tail(list) ELSE list

\* Mutants: a repeated line is added; the cursor stays where the user left it.
AddToHistoryRepeats(h, line) ==
  LET list == Popped(IF line # <<>> THEN Append(h.list, line) ELSE h.list)
  IN [list |-> list, cursor |-> Len(list) + 1]
AddToHistoryKeepsCursor(h, line) ==
  [list |-> Popped(Longer(h, line)), cursor |-> h.cursor]

AddToHistory(h, line) ==
  LET list == Popped(Longer(h, line))
  IN [list |-> list, cursor |-> Len(list) + 1]

\* TelnetMessageCallback: whether it succeeds, and its calls of sendLine()
\* ("status" prints one line for each service, here one).
Succeeds(line) == line = <<>> \/ line \in Known \cup {Help, Quit}
Replies(line) ==
  CASE line = <<>> -> 1
    [] line = Help -> 4 + Len(Commands)
    [] line = Quit -> 3
    [] OTHER       -> 2

Sum(s) == FoldLeft(LAMBDA a, x : a + x, 0, s)

-----------------------------------------------------------------------------
(* What the server does with the session.                                  *)

Init ==
  /\ setting \in DOMAIN Settings
  /\ phase = "new" /\ timedOut = FALSE
  /\ buffer = <<>> /\ history = <<>> /\ cursor = 1
  /\ stats = NoStats /\ totals = NoStats
  /\ received = <<>> /\ executed = <<>> /\ sent = 0

\* The sends of initialise(): three negotiations and the banner.
Banner ==
  3 + (IF Hooked THEN (4 + Len(Commands)) * LineSends(<<>>) ELSE 0)

\* initialise(); its sends are counted in stats.
Initialise ==
  /\ phase = "new" /\ phase' = "accepted"
  /\ stats' = [stats EXCEPT !.up = @ + Banner]
  /\ sent' = sent + Banner
  /\ UNCHANGED <<setting, buffer, history, cursor, totals, timedOut,
                 received, executed>>

\* The statistics update() starts from.  Mutant: the commands of the
\* last round are not reset.
StartingStatsKept == [NoStats EXCEPT !.succ = stats.succ, !.fail = stats.fail]
StartingStats == NoStats

\* consumeStats() in the same round of the server.
Consume(s) ==
  /\ stats' = s
  /\ totals' = [f \in DOMAIN totals |-> totals[f] + s[f]]

\* update() when recv() has nothing.
UpdateIdle ==
  /\ phase # "new" /\ ~timedOut
  /\ phase' = "live" /\ Consume(StartingStats)
  /\ UNCHANGED <<setting, buffer, history, cursor, timedOut, received,
                 executed, sent>>

\* update() when recv() returns the keys taken; ok: send() succeeds.
Update(taken, ok) ==
  LET raw   == StripNVT(buffer \o SwapNulls(taken))
      walk  == ProcessCommandHistory(raw, ok)
      text  == StripEscapeCharacters(walk.buf)
      left  == ProcessBackspace(text)
      tabs  == ProcessTab(left)
      cut   == GetCompleteLines(IF Interactive THEN tabs.buf ELSE raw)
      lines == IF Hooked THEN cut.lines ELSE <<>>
      again == /\ Interactive
               /\ walk.reprint \/ left # text \/ First(left, {"tab"}) # 0
      hist  == FoldLeft(AddToHistory,
                 [list |-> history,
                  cursor |-> IF Interactive THEN walk.cursor ELSE cursor],
                 lines)
      sends == (IF taken[1] = "iac" THEN 0 ELSE 1)
                 + (IF Interactive THEN walk.sends + tabs.sends ELSE 0)
                 + Sum([i \in DOMAIN lines |-> Replies(lines[i])])
                     * LineSends(cut.rest)
                 + (IF again THEN 2 + PromptSends(cut.rest) ELSE 0)
      up    == IF ok THEN sends ELSE 0
      good  == Cardinality({i \in DOMAIN lines : Succeeds(lines[i])})
  IN /\ phase # "new" /\ ~timedOut
     /\ phase' = "live" /\ UNCHANGED setting
     /\ received' = received \o taken
     /\ buffer' = cut.rest
     /\ history' = hist.list /\ cursor' = hist.cursor
     /\ executed' = executed \o lines
     /\ timedOut' = (Quit \in Range(lines))
     /\ sent' = sent + up
     /\ Consume([up |-> StartingStats.up + up,
                 down |-> StartingStats.down + Len(taken),
                 succ |-> StartingStats.succ + good,
                 fail |-> StartingStats.fail + Len(lines) - good])

Next ==
  \/ Initialise
  \/ UpdateIdle
  \/ \E taken \in Settings[setting].segments, ok \in Settings[setting].sends :
       Len(received) + Len(taken) <= Settings[setting].keys /\ Update(taken, ok)

Spec == Init /\ [][Next]_vars

-----------------------------------------------------------------------------
(* Properties.                                                             *)

Keys == UNION {Range(s) : s \in Settings[setting].segments}
Texts == Seq(Keys \cup {"lf"} \cup UNION {Range(c) : c \in Range(Commands)})

TypeOK ==
  /\ setting \in DOMAIN Settings
  /\ phase \in {"new", "accepted", "live"} /\ timedOut \in BOOLEAN
  /\ received \in Seq(Keys) /\ buffer \in Texts
  /\ history \in Seq(Texts) /\ executed \in Seq(Texts)
  /\ cursor \in 1 .. Len(history) + 1 /\ sent \in Nat
  /\ stats \in [{"up", "down", "succ", "fail"} -> Nat]
  /\ totals \in [{"up", "down", "succ", "fail"} -> Nat]

\* What a user means by typing: a backspace takes back one key, CR LF (or
\* CR NUL) ends a line, a tab completes an unambiguous command, IAC and the
\* two keys after it mean nothing.
TypeKey(e, k) ==
  LET key  == IF k = "nul" THEN "lf" ELSE k
      line == e.line
  IN IF e.skip > 0 THEN [e EXCEPT !.skip = @ - 1]
     ELSE IF key = "iac" THEN [e EXCEPT !.skip = 2]
     ELSE IF Interactive /\ key \in {"bs", "del"}
     THEN [e EXCEPT !.line = IF line = <<>> THEN <<>> ELSE Front(line)]
     ELSE IF Interactive /\ key = "tab"
     THEN [e EXCEPT !.line =
             IF Cardinality(Matches(line)) = 1 THEN Match(line) ELSE line]
     ELSE IF key = "lf" /\ line # <<>> /\ Last(line) = "cr"
     THEN [e EXCEPT !.lines = Append(@, Front(line)), !.line = <<>>]
     ELSE [e EXCEPT !.line = Append(@, key)]

Typed == FoldLeft(TypeKey, [line |-> <<>>, lines |-> <<>>, skip |-> 0],
                  received)

\* Character mode: one key in a segment, or the two of Enter, and no negotiation.
OneByOne ==
  \A seg \in Settings[setting].segments :
    seg = <<"cr", "lf">> \/ (Len(seg) = 1 /\ seg # <<"iac">>)

\* A negotiation still incomplete stays in m_buffer until it is complete.
Unfinished == First(buffer, {"iac"}) # 0

\* getCompleteLines() and the stages before it: however TCP cuts the stream
\* into recv() calls, the lines executed are those the user typed, and
\* m_buffer is the unfinished line.  (For a server with callbacks and a user who
\* recalls nothing, and edits only in character mode: a backspace that opens a
\* segment wipes all of it, and one in an unfinished negotiation takes that back.)
TypedText ==
  Hooked /\ Range(received) \cap Arrows = {} /\ (Interactive => OneByOne) =>
    /\ executed = Typed.lines
    /\ ~Unfinished => buffer = Typed.line

\* The lines executed, without empty lines and immediate repetitions.
Distinct ==
  FoldLeft(LAMBDA h, l : IF l = <<>> \/ (h # <<>> /\ Last(h) = l) THEN h
                         ELSE Append(h, l), <<>>, executed)

\* addToHistory(): m_history is always the last HistoryLimit of them, however
\* the user moved through it in between; m_historyCursor points into it or to
\* its end, and the other variables have their types.
HistoryIsRecent ==
  /\ TypeOK
  /\ Len(history) <= HistoryLimit
  /\ IsSuffix(history, Distinct)
  /\ Len(history) < HistoryLimit => history = Distinct

\* processCommandHistory(): after a line was entered, the k-th up arrow shows
\* the k-th last entry of the history, and stops at the oldest.  (In character
\* mode: an arrow is looked up before the lines of its segment are added.)
UpsWalkBack ==
  LET ups  == {i \in 1 .. Len(received) :
                 \A j \in i .. Len(received) : received[j] = "up"}
      k    == Cardinality(ups)
      n    == Len(received) - k
      back == IF k > Len(history) THEN 1 ELSE Len(history) + 1 - k
  IN (/\ k > 0 /\ n > 1 /\ history # <<>>
      /\ received[n - 1] = "cr" /\ received[n] = "lf" /\ Interactive /\ OneByOne)
     => buffer = history[back]

\* TelnetStats::consumeStats() adds up what update() starts anew in each round:
\* each line executed is counted once, as what TelnetMessageCallback made of it,
\* and everything that was sent since initialise(), whose banner the first
\* update() forgets.
TotalsAddUp ==
  /\ totals.succ + totals.fail = Len(executed)
  /\ totals.fail = Cardinality({i \in DOMAIN executed : ~Succeeds(executed[i])})
  /\ phase = "live" => totals.up = sent - Banner
=============================================================================
