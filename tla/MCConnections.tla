---------------------------- MODULE MCConnections ----------------------------
(***************************************************************************)
(* An instance of the machine's network side for TLC.                      *)
(***************************************************************************)
EXTENDS Connections

(* Forms of up to two pairs: with empty and bad values, a name twice.      *)
MCPairs == [name : {"auth", "brew"}, value : {"none", "one", "", "?"}]
MCForms == UNION {[1 .. k -> MCPairs] : k \in 0 .. 2}

(* Settings that share parts of their keys, one of them a text with a      *)
(* character to escape.                                                    *)
Text == <<"quote", "a">>
MCKeys == << << <<"brew">>, <<"mode">> >>, << <<"brew">>, <<"pid">>, <<"on">> >>, << <<"steam">> >> >>
MCValues == {<<"1">>, Text}
MCTexts == {Text}
MCRefused == <<"bad">>

(* An upload: data with every beginning of the delimiter, and two parts.   *)
MCBoundary == <<"b">>
MCPreambles == {<<>>, <<"x">>, <<"r">>}
Data == UNION {[1 .. k -> {"r", "n", "-", "x"}] : k \in 0 .. 2}
        \cup {<<"r", "n", "-">>, <<"r", "n", "-", "-">>, <<"r", "r", "n", "-">>,
              <<"r", "n", "-", "-", "x">>, <<"r", "n", "-", "-", "r">>, <<"n", "b">>}
Part(name, data) == [name |-> name, data |-> data]
MCUploads == {<<Part("f", d)>> : d \in Data}
            \cup {<<Part("f", d), Part("g", e)>> :
                     d \in {<<>>, <<"r">>}, e \in {<<"r", "n">>, <<"n", "b">>}}
=============================================================================
