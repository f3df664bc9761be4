-------------------------- MODULE MCServerProcess --------------------------
(***************************************************************************)
(* Instances of ServerProcess and Conversions for TLC: the server at work, *)
(* or one sample for the conversions in a state of its own.                *)
(***************************************************************************)
EXTENDS ServerProcess, Conversions, TLC

\* The sessions s and t, and the restart r: t only says that it stops.
Messages1 == [k \in {"s", "t", "r", "main"} |-> IF k = "t" THEN 0 ELSE 1]

NoSample == [kind |-> "none"]

\* A good file, one whose time format is none, one without its last value, and one
\* whose directories name a variable that does not exist.
MCInit ==
  /\ Init /\ sample \in M!Inputs \cup Octets!Inputs \cup {NoSample}
  /\ <<file.bad, file.unresolved, file.format>> \in
       IF sample = NoSample
       THEN {<<6, FALSE, TRUE>>, <<6, FALSE, FALSE>>, <<5, FALSE, TRUE>>, <<2, TRUE, TRUE>>}
       ELSE {<<6, FALSE, TRUE>>}
MCNext == sample = NoSample /\ Next /\ UNCHANGED sample

\* The printer's thread runs on.
MCSpec == MCInit /\ [][MCNext]_<<vars, sample>> /\ WF_<<vars, sample>>(sample = NoSample /\ Printer /\ UNCHANGED sample)

\* Two variables are set, one to nothing.
SomeVariables == (<<"h", "o">> :> <<"h">>) @@ (<<"e", "m">> :> <<>>)
=============================================================================
