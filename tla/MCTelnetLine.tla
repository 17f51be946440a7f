---------------------------- MODULE MCTelnetLine ----------------------------
(* TelnetLine on small instances: see TelnetLine.cfg for the bounds.       *)
EXTENDS TelnetLine

\* What one recv() may return: between one and max of the chunks.
SegmentsOf(chunks, max) ==
  {FlattenSeq(s) : s \in BoundedSeq(chunks, max)} \ {<<>>}

Enter == <<"cr", "lf">>
PlainChunks == {<<"a">>, <<"cr">>, <<"lf">>, <<"nul">>, <<"iac">>}
EditChunks == {<<"a">>, <<"b">>, Enter, <<"bs">>, <<"del">>, <<"tab">>}
WalkChunks == {<<"a">>, <<"b">>, Enter, <<"up">>, <<"down">>, <<"left">>}
LineChunks == {<<"a">> \o Enter, <<"b">> \o Enter, <<"c">> \o Enter, Enter,
               <<"up">>}

\* No editing keys, and every stream cut in every way.
Streams == [segments |-> SegmentsOf(PlainChunks, 3), keys |-> 5,
            interactive |-> FALSE, hooked |-> TRUE, sends |-> {TRUE}]
\* Character mode with every editing key.
Editing == [segments |-> SegmentsOf(EditChunks, 1), keys |-> 6,
            interactive |-> TRUE, hooked |-> TRUE, sends |-> {TRUE}]
\* Character mode with arrows.
Walking == [segments |-> SegmentsOf(WalkChunks, 1), keys |-> 7,
            interactive |-> TRUE, hooked |-> TRUE, sends |-> {TRUE}]
\* Several lines and arrows in a segment, sends that fail.
Lines == [segments |-> SegmentsOf(LineChunks, 2), keys |-> 9,
          interactive |-> TRUE, hooked |-> TRUE, sends |-> {TRUE, FALSE}]
\* A server without callbacks.
Bare == [segments |-> SegmentsOf(LineChunks, 1), keys |-> 6,
         interactive |-> TRUE, hooked |-> FALSE, sends |-> {TRUE}]

AllSettings == [streams |-> Streams, editing |-> Editing, walking |-> Walking,
                lines |-> Lines, bare |-> Bare]

ABCommands == <<<<"a", "b">>, <<"a", "a">>, <<"b", "a">>>>
KnownLines == {<<"a", "b">>, <<"a">>}
HelpLine == <<"b">>
QuitLine == <<"c">>
=============================================================================
