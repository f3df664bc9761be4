------------------------------- MODULE Markup -------------------------------
(***************************************************************************)
(* What the server does with "<" and ">": the variables in the strings of  *)
(* its configuration and its messages (EVSStrResolver), and the colours of *)
(* a message on their way to the console (ConStrPropResolver).             *)
(*                                                                         *)
(* A string is a sequence of characters; words that the code compares as a *)
(* whole ("color", the names of colours) are one character each.           *)
(***************************************************************************)
EXTENDS Integers, Sequences, SequencesExt

CONSTANTS
  Environment,  \* the environment variables: a function from names to values
  Colors        \* the colours of termcolor_map

-----------------------------------------------------------------------------
(* EVSStrResolver; "strict" is its parameter EnableErrors.                 *)

\* getVarType.
VarType(v) ==
  IF v = <<>> \/ Head(v) = ":" THEN "property" ELSE IF Head(v) = "$" THEN "sysvar" ELSE "environment"

\* insertEmptyIfEmpty: a name of one letter counts as empty.
IsEmpty(v) == v = <<>> \/ (Len(v) = 1 /\ VarType(v) # "property")

\* What stands in a message for a variable without a name.
Placeholder(v) ==
  CASE VarType(v) = "property" -> <<"<", ":", ">">>
    [] VarType(v) = "sysvar"   -> <<"<", "$", ">">>
    [] OTHER                   -> <<"<", ">">>

\* insertSysvar, insertEnvVar and what insertVar does with a property.  No system variable
\* has a value of its own: sysvar::get says "none" to every name.
VarText(v, strict) ==
  CASE VarType(v) = "sysvar" -> <<"none">>
    [] VarType(v) = "environment" /\ v \in DOMAIN Environment -> Environment[v]
    [] OTHER -> <<"<">> \o v \o <<">">>

Unresolvable(v) == IsEmpty(v) \/ (VarType(v) = "environment" /\ v \notin DOMAIN Environment)

\* MUTANT: the name of the last variable is kept.
ResolvesKeeping(r, c, strict) ==
  IF r.failed THEN r
  ELSE IF c = "<" THEN IF r.inVar /\ strict THEN [r EXCEPT !.failed = TRUE] ELSE [r EXCEPT !.inVar = TRUE]
  ELSE IF c # ">" THEN IF r.inVar THEN [r EXCEPT !.var = Append(@, c)] ELSE [r EXCEPT !.out = Append(@, c)]
  ELSE IF strict /\ (~r.inVar \/ Unresolvable(r.var)) THEN [r EXCEPT !.failed = TRUE]
  ELSE [r EXCEPT !.inVar = FALSE,
                 !.out = @ \o IF IsEmpty(r.var) THEN Placeholder(r.var) ELSE VarText(r.var, strict)]

\* processNextChar and insertVar.
Resolves(r, c, strict) ==
  IF r.failed THEN r
  ELSE IF c = "<" THEN IF r.inVar /\ strict THEN [r EXCEPT !.failed = TRUE] ELSE [r EXCEPT !.inVar = TRUE]
  ELSE IF c # ">" THEN IF r.inVar THEN [r EXCEPT !.var = Append(@, c)] ELSE [r EXCEPT !.out = Append(@, c)]
  ELSE IF strict /\ (~r.inVar \/ Unresolvable(r.var)) THEN [r EXCEPT !.failed = TRUE]
  ELSE [r EXCEPT !.inVar = FALSE, !.var = <<>>,
                 !.out = @ \o IF IsEmpty(r.var) THEN Placeholder(r.var) ELSE VarText(r.var, strict)]

\* resolve: a failure gives the string back; what follows an opening without an end is lost.
Resolved(s, strict) ==
  LET r == FoldLeft(LAMBDA x, c : Resolves(x, c, strict),
                    [out |-> <<>>, var |-> <<>>, inVar |-> FALSE, failed |-> FALSE], s)
  IN  [ok |-> ~r.failed, out |-> IF r.failed THEN s ELSE r.out]

-----------------------------------------------------------------------------
(* ConStrPropResolver.                                                     *)

\* processProp and setColor: what the stream is given for "key=val".
Property(p) ==
  IF Len(p) = 3 /\ p[1] = "color" /\ p[2] = "=" /\ p[3] \in Colors
  THEN <<[color |-> p[3]]>> ELSE <<>>

\* MUTANT: a property is only forgotten when it was none.
PrintsKeeping(p, c) ==
  IF c = "<" THEN [p EXCEPT !.inProp = TRUE]
  ELSE IF c = ">"
  THEN IF p.prop # <<>> /\ Head(p.prop) = ":"
       THEN [p EXCEPT !.inProp = FALSE, !.out = @ \o Property(Tail(p.prop))]
       ELSE [p EXCEPT !.inProp = FALSE, !.prop = <<>>]
  ELSE IF p.inProp THEN [p EXCEPT !.prop = Append(@, c)] ELSE [p EXCEPT !.out = Append(@, [char |-> c])]

\* processChar and processRawProp: only a property is forgotten when it ends.
Prints(p, c) ==
  IF c = "<" THEN [p EXCEPT !.inProp = TRUE]
  ELSE IF c = ">"
  THEN IF p.prop # <<>> /\ Head(p.prop) = ":"
       THEN [p EXCEPT !.inProp = FALSE, !.prop = <<>>, !.out = @ \o Property(Tail(p.prop))]
       ELSE [p EXCEPT !.inProp = FALSE]
  ELSE IF p.inProp THEN [p EXCEPT !.prop = Append(@, c)] ELSE [p EXCEPT !.out = Append(@, [char |-> c])]

\* print.
Printed(s) == FoldLeft(Prints, [out |-> <<>>, prop |-> <<>>, inProp |-> FALSE], s).out

\* getResolvedMessage and printMessageContent.
Shown(message) == Printed(Resolved(message, FALSE).out)

-----------------------------------------------------------------------------
(* The inputs, each in a state of its own.                                 *)

VARIABLE input

\* A piece of a string: text, a variable or a colour.
Piece(kind, text)  == [kind |-> kind, text |-> text]
ConfigText(pieces) == [kind |-> "config", pieces |-> pieces]
AMessage(pieces)   == [kind |-> "message", pieces |-> pieces]

TextPieces  == {Piece("text", <<"a">>), Piece("text", <<":", "=">>)}
ColorPieces == {Piece("color", <<x>>) : x \in Colors \cup {"none of these"}}
KnownPieces == {Piece("var", v) : v \in DOMAIN Environment}
OtherPieces == {Piece("var", v) : v \in {<<"n", "o">>, <<"n">>, <<>>}}

Inputs ==
  {ConfigText(p) : p \in BoundedSeq(TextPieces \cup KnownPieces \cup OtherPieces, 3)}
  \cup {AMessage(p) : p \in BoundedSeq(TextPieces \cup KnownPieces \cup ColorPieces, 4)}

\* How a piece is typed.
Typed(p) ==
  CASE p.kind = "text"  -> p.text
    [] p.kind = "var"   -> <<"<">> \o p.text \o <<">">>
    [] p.kind = "color" -> <<"<", ":", "color", "=">> \o p.text \o <<">">>
TypedAll(pieces) == FlattenSeq([i \in DOMAIN pieces |-> Typed(pieces[i])])

\* A variable that exists, and what it stands for.
Known(v)   == v \in DOMAIN Environment
Meaning(v) == Environment[v]

-----------------------------------------------------------------------------
(* Properties.                                                             *)

\* A string of the configuration is taken with the values of all its variables or not at
\* all: one variable that does not exist, or has no name, refuses the whole.
ConfigAllOrNothing ==
  input.kind = "config" =>
    LET r == Resolved(TypedAll(input.pieces), TRUE) IN
    /\ r.ok <=> \A i \in DOMAIN input.pieces :
                  input.pieces[i].kind = "var" => Known(input.pieces[i].text)
    /\ r.ok => r.out = FlattenSeq([i \in DOMAIN input.pieces |->
                         LET p == input.pieces[i] IN IF p.kind = "var" THEN Meaning(p.text) ELSE p.text])

\* A message whose variables exist is printed with their values, with its colours where
\* they are known and without them where they are not, and with nothing else lost: what
\* looks for variables leaves the colours to what looks for colours.
MessageAsMeant ==
  input.kind = "message" =>
    LET Chars(s) == [i \in DOMAIN s |-> [char |-> s[i]]]
        Means(p) == CASE p.kind = "text"  -> Chars(p.text)
                      [] p.kind = "var"   -> Chars(Meaning(p.text))
                      [] p.kind = "color" -> IF p.text[1] \in Colors THEN <<[color |-> p.text[1]]>> ELSE <<>>
    IN  Shown(TypedAll(input.pieces)) = FlattenSeq([i \in DOMAIN input.pieces |-> Means(input.pieces[i])])

\* A variable of the environment with more than a letter, or one that does not exist.
\* System variables are not among them, and neither are those of one letter: the README of
\* the server gives both a value, and the code does not.
Ordinary(v) == VarType(v) # "sysvar" /\ (v \in DOMAIN Environment => Len(v) > 1)
UsesOrdinary ==
  \A i \in DOMAIN input.pieces : input.pieces[i].kind = "var" => Ordinary(input.pieces[i].text)

\* What is between "<" and ">" never changes a string to something that was not meant, in
\* the configuration and in messages, when its variables are ordinary ones.
StringsAsMeant ==
  input.kind \in {"config", "message"} /\ UsesOrdinary => ConfigAllOrNothing /\ MessageAsMeant
=============================================================================
