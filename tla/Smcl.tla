-------------------------------- MODULE Smcl --------------------------------
(***************************************************************************)
(* The parser of language files (SMCLParser) as a step on each token, and  *)
(* what it puts into the texts of the client (LangData) on the way.        *)
(*                                                                         *)
(* The functions of the parser call each other and each takes the next     *)
(* token from the lexer; "at" is the call that is waiting for one.  What   *)
(* is read goes into the client's texts at once: a file that turns out to  *)
(* be wrong has already changed them.                                      *)
(***************************************************************************)
EXTENDS Sequences, SequencesExt

CONSTANT WatchedKeys  \* the keys whose texts are looked at; all others are stored alike

HeaderKeys == {"name", "locale", "version", "authors"}

Places == {"top", "section", "binding", "value", "bracket", "item", "version", "strbegin",
           "semicolon", "accepted", "failed"}

\* TokenId; the text of a token that is a word or a sign is its own.
Tok(id) == [id |-> id, text |-> id]
Identifier(x) == [id |-> "Identifier", text |-> x]
String(x)     == [id |-> "String", text |-> x]
Number(x)     == [id |-> "Number", text |-> x]
Signs    == {".", ";", "=", "[", "]", ","}
Keywords == {"SECTION", "STRBEGIN", "HEADER", "END"}

\* The members of a new SMCLParser and the locals of its calls.
NewParser ==
  [at |-> "top", sections |-> <<>>, strbegins |-> <<>>, given |-> {}, inHeader |-> FALSE,
   headerDefined |-> FALSE, name |-> <<>>, value |-> <<>>, read |-> 0]

\* The texts of a LangData, as a function from keys to strings, when there are none.  What
\* the header says of a language is left out.
NoData == <<>>

Result(p, d)  == [parser |-> p, data |-> d]
Goes(p, d, place) == Result([p EXCEPT !.at = place], d)
Fails(p, d)   == Goes(p, d, "failed")

Scope(p) == Len(p.sections)
LastIsPoint(name) == name # <<>> /\ Last(name) = "."

\* getSectionsFullName.
SectionsName(p) == FlattenSeq([i \in DOMAIN p.sections |-> Append(p.sections[i], ".")])

\* getFullStrBegins: strbegins[i] is <<>> or the one string given in scope i - 1.
Begins(p) == FlattenSeq(p.strbegins)

\* curr_strbegins.insert: the first STRBEGIN of a scope stays.
WithBegin(p, x) ==
  LET here == Scope(p) + 1 IN
  IF here <= Len(p.strbegins) /\ p.strbegins[here] # <<>> THEN p
  ELSE [p EXCEPT !.strbegins =
          [i \in 1..here |-> IF i = here THEN <<x>> ELSE IF i <= Len(@) THEN @[i] ELSE <<>>]]

\* MUTANT: the STRBEGIN of the block stays.
ClosedKeeping(p) == [p EXCEPT !.sections = Front(@)]

\* The end of a block: its STRBEGIN goes with it.
Closed(p) ==
  [p EXCEPT !.sections = Front(@), !.strbegins = IF Len(@) > Scope(p) THEN Front(@) ELSE @]

-----------------------------------------------------------------------------
(* One operator per waiting call.                                          *)

\* A value starts with the STRBEGINs of the open scopes.
ReadsValue(p, d, place) == Goes([p EXCEPT !.value = Begins(p), !.read = 0], d, place)

\* MUTANT: no look at the bindings.
ClosesHeaderAnyway(p, d) == Goes([p EXCEPT !.inHeader = FALSE], d, "top")

\* processNewEnd in the header, and checkHeaderBindings.
ClosesHeader(p, d) ==
  Goes([p EXCEPT !.inHeader = FALSE], d, IF p.given = HeaderKeys THEN "top" ELSE "failed")

\* The end of the file, and the checks of parse.
Ends(p, d) == Goes(p, d, IF Scope(p) = 0 /\ p.headerDefined THEN "accepted" ELSE "failed")

\* processNewHeader.
OpensHeader(p, d) ==
  IF p.headerDefined \/ Scope(p) # 0 THEN Fails(p, d)
  ELSE Goes([p EXCEPT !.inHeader = TRUE, !.headerDefined = TRUE], d, "semicolon")

\* processNextToken.
Top(p, d, t) ==
  CASE t.id = "EOF"      -> Ends(p, d)
    [] t.id = ";"        -> Goes(p, d, "top")
    [] t.id = "."        -> Goes([p EXCEPT !.name = <<>>], d, "binding")
    [] t.id = "SECTION"  -> IF p.inHeader THEN Fails(p, d) ELSE Goes([p EXCEPT !.name = <<>>], d, "section")
    [] t.id = "STRBEGIN" -> Goes(p, d, "strbegin")
    [] t.id = "HEADER"   -> OpensHeader(p, d)
    [] t.id = "END"      -> IF p.inHeader THEN ClosesHeader(p, d)
                            ELSE IF Scope(p) = 0 THEN Fails(p, d) ELSE Goes(Closed(p), d, "semicolon")
    [] OTHER             -> Fails(p, d)

\* What follows the name of a section or of a binding (processNewSection,
\* pushGlobalBindingValueFromKey, pushHeaderBindingValueFromKey).  A binding of the header
\* counts as given before its value is read.
Named(p, d) ==
  IF p.at = "section" THEN Goes([p EXCEPT !.sections = Append(@, p.name), !.name = <<>>], d, "top")
  ELSE IF ~p.inHeader THEN ReadsValue([p EXCEPT !.name = SectionsName(p) \o @], d, "value")
  ELSE LET key == Head(p.name)
           q == [p EXCEPT !.given = @ \cup {key}]
       IN IF Len(p.name) # 1 \/ key \notin HeaderKeys \ p.given THEN Fails(p, d)
          ELSE IF key = "version" THEN Goes([q EXCEPT !.name = <<>>, !.read = 0], d, "version")
          ELSE IF key = "authors" THEN Goes([q EXCEPT !.name = <<>>], d, "bracket")
          ELSE ReadsValue(q, d, "value")

\* getIdentifierName.
Name(p, d, t) ==
  IF t.id = (IF p.at = "section" THEN ";" ELSE "=")
  THEN IF p.name = <<>> \/ LastIsPoint(p.name) THEN Fails(p, d) ELSE Named(p, d)
  ELSE IF t.id = "Identifier" \/ (t.id = "." /\ p.name # <<>>)
  THEN Result([p EXCEPT !.name = Append(@, t.text)], d)
  ELSE Fails(p, d)

\* The value has been read: translations.insert keeps the text a key already has.
Stored(p, d) ==
  IF ~p.inHeader /\ p.name \in WatchedKeys \ DOMAIN d
  THEN [k \in DOMAIN d \cup {p.name} |-> IF k = p.name THEN p.value ELSE d[k]]
  ELSE d

WithString(p, t) == [p EXCEPT !.value = Append(@, t.text), !.read = @ + 1]
Forget(p) == [p EXCEPT !.name = <<>>, !.value = <<>>, !.read = 0]

\* loadStringValue up to a semicolon.
Value(p, d, t) ==
  IF t.id = "String" THEN Result(WithString(p, t), d)
  ELSE IF t.id = ";" /\ p.read > 0 THEN Goes(Forget(p), Stored(p, d), "top")
  ELSE Fails(p, d)

\* MUTANT: the list may also end with its file.
ItemAtEnd(p, d, t) ==
  IF t.id = "String" THEN Result(WithString(p, t), d)
  ELSE IF t.id = "EOF" THEN Result(p, d)
  ELSE IF t.id = "," /\ p.read > 0 THEN ReadsValue(p, d, "item")
  ELSE IF t.id = "]" /\ p.read > 0 THEN Goes(Forget(p), d, "semicolon")
  ELSE Fails(p, d)

\* loadStringValue up to a comma or the closing bracket (loadListOfStringValue).
Item(p, d, t) ==
  IF t.id = "String" THEN Result(WithString(p, t), d)
  ELSE IF t.id = "," /\ p.read > 0 THEN ReadsValue(p, d, "item")
  ELSE IF t.id = "]" /\ p.read > 0 THEN Goes(Forget(p), d, "semicolon")
  ELSE Fails(p, d)

\* pushHeaderVersionValue: three numbers and two points, no semicolon.
VersionPart(p, d, t) ==
  IF t.id # (IF p.read % 2 = 0 THEN "Number" ELSE ".") THEN Fails(p, d)
  ELSE IF p.read = 4 THEN Goes(Forget(p), d, "top")
  ELSE Result([p EXCEPT !.read = @ + 1], d)

\* processNewStrBegin.
StrBegin(p, d, t) ==
  IF t.id = "String" THEN Goes(WithBegin(p, t.text), d, "semicolon") ELSE Fails(p, d)

\* SMCLParser: the parser and the texts after one more token.
Step(p, d, t) ==
  CASE p.at = "top"                    -> Top(p, d, t)
    [] p.at \in {"section", "binding"} -> Name(p, d, t)
    [] p.at = "value"                  -> Value(p, d, t)
    [] p.at = "bracket"   -> IF t.id = "[" THEN ReadsValue(p, d, "item") ELSE Fails(p, d)
    [] p.at = "item"                   -> Item(p, d, t)
    [] p.at = "version"                -> VersionPart(p, d, t)
    [] p.at = "strbegin"               -> StrBegin(p, d, t)
    [] p.at = "semicolon" -> Goes(p, d, IF t.id = ";" THEN "top" ELSE "failed")

Parsing(p) == p.at \notin {"accepted", "failed"}
=============================================================================
