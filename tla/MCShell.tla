------------------------------ MODULE MCShell ------------------------------
(***************************************************************************)
(* Instances of Settings and of Text for TLC: the client at work, or one   *)
(* input of the text algorithms in a state of its own.                     *)
(***************************************************************************)
EXTENDS Settings, Text

MCInit ==
  /\ Init /\ input \in Inputs \cup {NoInput}
  /\ ini.language = (CHOOSE l \in Installed : TRUE)
MCNext == input = NoInput /\ Next /\ UNCHANGED input

\* A file has an end.
MCSpec == MCInit /\ [][MCNext]_<<vars, input>> /\ WF_<<vars, input>>(MCNext /\ ReadEof)

\* One variable is set.
OneVariableSet == [n \in {<<"a">>} |-> <<"v">>]

\* Sections in sections and values of two strings in the first file.
DeepFile == [depth |-> 2, name |-> 2, strings |-> 1, begins |-> 2]
FlatFiles == [depth |-> 0, name |-> 1, strings |-> 1, begins |-> 0]

\* A key outside of all sections and one in a section.
Keys == {<<"a">>, <<"a", ".", "a">>}
=============================================================================
