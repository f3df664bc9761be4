------------------------------- MODULE Bytes -------------------------------
(***************************************************************************)
(* What the programs write byte by byte and read back: requests and        *)
(* responses (ArrayBuilder, ArrayAnalyzer, ResponseBuilder), directory     *)
(* listings (BFLEncoder, BFLDecoder), user files (UIFDecoder) and versions.*)
(*                                                                         *)
(* A byte is a number below Base and an integer of width w is w bytes, the *)
(* lowest first.  The real widths are 1, 2, 4 and 8 and the real base 256. *)
(***************************************************************************)
EXTENDS Naturals, Sequences, SequencesExt

CONSTANTS
  Base,  \* at least 2
  Name   \* bound on the length of a name in a user file (UN_PW_SIZE)

Byte == 0..(Base - 1)
Wide == 2  \* the width of a file's size

\* What a byte is worth at each place.
Power[n \in Nat] == IF n = 0 THEN 1 ELSE Base * Power[n - 1]

\* insertInt and extractInt.
ToBytes(v, w) == [i \in 1..w |-> (v \div Power[i - 1]) % Base]
FromBytes(b)  == FoldLeftDomain(LAMBDA v, i : v + b[i] * Power[i - 1], 0, b)

-----------------------------------------------------------------------------
(* ArrayBuilder and ArrayAnalyzer.                                         *)

AnInt(v, w)  == [kind |-> "int", value |-> v, width |-> w]
ABool(v)     == [kind |-> "bool", value |-> v]
AString(s)   == [kind |-> "string", value |-> s]

\* insertBuffer cuts what its length cannot say.
Cut(s) == SubSeq(s, 1, IF Len(s) < Base THEN Len(s) ELSE Base - 1)

\* insertInt, insertBool, insertString.
Inserted(f) ==
  CASE f.kind = "int"    -> ToBytes(f.value, f.width)
    [] f.kind = "bool"   -> <<IF f.value THEN 1 ELSE 0>>
    [] f.kind = "string" -> <<Len(Cut(f.value)) % Base>> \o Cut(f.value)
BuiltFrom(fields) == FlattenSeq([i \in DOMAIN fields |-> Inserted(fields[i])])

\* An ArrayAnalyzer: the values it has given, where its cursor is, whether it has failed.
Analyzer == [values |-> <<>>, cursor |-> 0, ok |-> TRUE]
Gives(a, v, n) == [a EXCEPT !.values = Append(@, v), !.cursor = @ + n]

\* MUTANT: one byte too few is enough.
HasRoughly(data, a, n) == Len(data) - a.cursor + 1 >= n

\* data.size() - cursor < n.
Has(data, a, n) == Len(data) - a.cursor >= n

Bytes(data, a, n) == [i \in 1..n |-> IF a.cursor + i \in DOMAIN data THEN data[a.cursor + i] ELSE 0]

\* extractInt, extractBool, extractString: a string that is too short leaves the cursor
\* after its length.
Extracts(data, a, f) ==
  IF ~a.ok THEN a
  ELSE LET w == IF f.kind = "int" THEN f.width ELSE 1 IN
  IF ~Has(data, a, w) THEN [a EXCEPT !.ok = FALSE]
  ELSE LET v == FromBytes(Bytes(data, a, w))
           b == [a EXCEPT !.cursor = @ + w]
       IN CASE f.kind = "int"  -> Gives(a, v, w)
            [] f.kind = "bool" -> Gives(a, v # 0, w)
            [] f.kind = "string" -> IF Has(data, b, v) THEN Gives(b, Bytes(data, b, v), v)
                                    ELSE [b EXCEPT !.ok = FALSE]
Extracted(data, fields) == FoldLeft(LAMBDA a, f : Extracts(data, a, f), Analyzer, fields)

-----------------------------------------------------------------------------
(* ResponseBuilder.                                                        *)

\* buildNormal and buildError start anew; a handler inserts the rest.
Responds(data, step) ==
  CASE step.kind = "normal" -> <<0>>
    [] step.kind = "error"  -> <<1>> \o BuiltFrom(<<AnInt(step.error, 1), AString(step.message)>>)
    [] step.kind = "insert" -> data \o Inserted(step.field)
Response(steps) == FoldLeft(Responds, <<>>, steps)

-----------------------------------------------------------------------------
(* BFL: a count, and for each file its type, size, length of name, name.   *)

\* pushFile: the length of the name is cast, not cut.
Pushed(file) ==
  <<file.type>> \o ToBytes(file.size, Wide) \o <<Len(file.name) % Base>> \o file.name

\* encode.
Encoded(files) == <<Len(files) % Base>> \o FlattenSeq([i \in DOMAIN files |-> Pushed(files[i])])

\* decodeFile.
Decodes(bfl, d) ==
  IF ~d.ok \/ ~Has(bfl, d, 2 + Wide) THEN [d EXCEPT !.ok = FALSE]
  ELSE LET size == FromBytes(Bytes(bfl, [d EXCEPT !.cursor = @ + 1], Wide))
           n    == bfl[d.cursor + 2 + Wide]
           c    == [d EXCEPT !.cursor = @ + 2 + Wide]
       IN IF ~Has(bfl, c, n) THEN [d EXCEPT !.ok = FALSE]
          ELSE Gives(c, [type |-> bfl[d.cursor + 1], size |-> size, name |-> Bytes(bfl, c, n)], n)

\* BFLDecoder::decode.
Decoded(bfl) ==
  IF bfl = <<>> THEN [Analyzer EXCEPT !.ok = FALSE]
  ELSE FoldLeft(LAMBDA d, i : Decodes(bfl, d), [Analyzer EXCEPT !.cursor = 1], [i \in 1..bfl[1] |-> i])

-----------------------------------------------------------------------------
(* UIF: a signature, the role, and two blocks for the name and password.   *)

Signature == <<1, 0>>
RoleOffset == Len(Signature)
UsernameOffset == RoleOffset + 2
PasswordOffset == UsernameOffset + Name
DataSize == PasswordOffset + Name

\* getStringFromArray: up to the first zero, or all of the block.
FromArray(block) ==
  LET zero == SelectInSeq(block, LAMBDA c : c = 0) IN IF zero = 0 THEN block ELSE SubSeq(block, 1, zero - 1)

Refused == [ok |-> FALSE, role |-> 0, username |-> <<>>, password |-> <<>>]

\* UIFDecoder::decode.
UserFrom(data) ==
  IF Len(data) < DataSize \/ SubSeq(data, 1, Len(Signature)) # Signature THEN Refused
  ELSE LET user == [ok |-> TRUE, role |-> data[RoleOffset + 1],
                    username |-> FromArray(SubSeq(data, UsernameOffset + 1, UsernameOffset + Name)),
                    password |-> FromArray(SubSeq(data, PasswordOffset + 1, PasswordOffset + Name))]
       IN IF user.username = <<>> THEN Refused ELSE user

-----------------------------------------------------------------------------
(* Versions, of numbers below Base.                                        *)

\* combine, setFromCombined.
Combined(v) == v[1] * Power[2] + v[2] * Power[1] + v[3]
Separated(n) == [i \in 1..3 |-> (n \div Power[3 - i]) % Base]

\* stoi reads a number, here one character, and stops after it.
Numeral == [c \in {"0", "1", "2"} |-> CASE c = "0" -> 0 [] c = "1" -> 1 [] c = "2" -> 2]
Stoi(s) == IF s # <<>> /\ s[1] \in DOMAIN Numeral THEN <<Numeral[s[1]]>> ELSE <<>>

\* The parts around the points i and j: the second goes on past its end.
Parts(s, i, j) ==
  <<SubSeq(s, 1, i - 1), SubSeq(s, i + 1, IF i + j <= Len(s) THEN i + j - 1 ELSE Len(s)),
    SubSeq(s, j + 1, Len(s))>>

\* setFromString: "old", except for the numbers before the first part that is none.
FromString(s, old) ==
  LET points == {i \in DOMAIN s : s[i] = "."} IN
  IF \E i, j \in points : i < j /\ points = {i, j}
  THEN LET i == CHOOSE k \in points : \A l \in points : k <= l
           j == CHOOSE k \in points : k # i
           new == FoldLeft(LAMBDA v, p : IF Len(v) < p THEN v ELSE v \o Stoi(Parts(s, i, j)[p + 1]),
                           <<>>, <<0, 1, 2>>)
       IN [k \in 1..3 |-> IF k <= Len(new) THEN new[k] ELSE old[k]]
  ELSE old

-----------------------------------------------------------------------------
(* The inputs, each in a state of its own.                                 *)

VARIABLE input

Fields(f)   == [kind |-> "fields", fields |-> f]
Steps(s)    == [kind |-> "steps", steps |-> s]
Listing(f)  == [kind |-> "listing", files |-> f]
AUser(r, u, p) == [kind |-> "user", role |-> r, username |-> u, password |-> p]
Versions(v, w) == [kind |-> "versions", v |-> v, w |-> w]

SomeStrings == {<<>>, <<1>>, <<0, 1>>, [i \in 1..Base |-> 1]}
SomeFields  == {AnInt(1, 1), AnInt(Base + 1, 2), ABool(TRUE), ABool(FALSE)} \cup {AString(s) : s \in SomeStrings}
SomeSteps   == {[kind |-> "normal"]} \cup {[kind |-> "insert", field |-> f] : f \in {AnInt(1, 1), AString(<<1>>)}}
               \cup {[kind |-> "error", error |-> 1, message |-> s] : s \in SomeStrings}
SomeFiles   == [type : {0, 1}, size : {0, Base + 1}, name : {<<>>, <<1>>, <<0, 1>>}]
SomeNames   == BoundedSeq(Byte \ {0}, Name)

Inputs ==
  {Fields(f) : f \in BoundedSeq(SomeFields, 3)}
  \cup {Steps(s) : s \in BoundedSeq(SomeSteps, 3)}
  \cup {Listing(f) : f \in BoundedSeq(SomeFiles, Base - 1)}
  \cup {AUser(r, u, p) : r \in Byte, u \in SomeNames, p \in SomeNames}
  \cup {Versions(v, w) : v, w \in {<<i, j, k>> : i, j, k \in {0, 1, 2}}}

-----------------------------------------------------------------------------
(* Properties.                                                             *)

Beginnings(s) == {SubSeq(s, 1, n) : n \in 0..Len(s)}

\* What is read of a field: an over-long string is read cut.
Read(f) == IF f.kind = "string" THEN Cut(f.value) ELSE f.value

\* Extracting gives what was inserted, in its order and to the last byte, an over-long
\* string cut and no field after it out of place.  Of data that ends early it gives the
\* fields that are whole and then fails; it makes up none.
FieldsReadBack ==
  input.kind = "fields" =>
    LET fields == input.fields  data == BuiltFrom(fields) IN
    \A part \in Beginnings(data) :
      LET a == Extracted(part, fields) IN
      /\ a.values = [i \in 1..Len(a.values) |-> Read(fields[i])]
      /\ a.ok <=> part = data
      /\ a.ok => a.cursor = Len(data) /\ Len(a.values) = Len(fields)

\* A response is of one kind: an error that comes after a handler has inserted data sends
\* nothing of them, and its code and message are read back.
ResponseOfOneKind ==
  input.kind = "steps" =>
    LET steps == input.steps  data == Response(steps) IN
    steps # <<>> /\ Last(steps).kind = "error" =>
      Extracted(data, <<AnInt(0, 1), AnInt(0, 1), AString(<<>>)>>) =
        [values |-> <<1, Last(steps).error, Cut(Last(steps).message)>>, cursor |-> Len(data), ok |-> TRUE]

\* A listing is read back as it was, and one that ends early is refused.
ListingReadBack ==
  input.kind = "listing" =>
    LET bfl == Encoded(input.files) IN
    \A part \in Beginnings(bfl) :
      LET d == Decoded(part) IN
      /\ d.ok <=> part = bfl
      /\ d.ok => d.values = input.files

\* How a user lies in its file: blocks filled up with zeros.
Block(s) == [i \in 1..Name |-> IF i <= Len(s) THEN s[i] ELSE 0]
UserFile(u) == Signature \o <<u.role, 0>> \o Block(u.username) \o Block(u.password)

\* A user is read back from its file, also when its name or its password fills its block;
\* a user without a name, and a file that ends early, are refused.
UserFileReadBack ==
  input.kind = "user" =>
    \A part \in Beginnings(UserFile(input)) :
      LET u == UserFrom(part) IN
      /\ u.ok <=> part = UserFile(input) /\ input.username # <<>>
      /\ u.ok => <<u.role, u.username, u.password>> = <<input.role, input.username, input.password>>

\* toString.
Written(v) == LET d(n) == CHOOSE c \in DOMAIN Numeral : Numeral[c] = n
               IN <<d(v[1]), ".", d(v[2]), ".", d(v[3])>>

\* Versions are ordered by what is sent of them as by their numbers, are what they were
\* after sending, and after writing and reading.
VersionsAgree ==
  input.kind = "versions" =>
    LET v == input.v  w == input.w IN
    /\ Combined(v) < Combined(w) <=>
         \E k \in 1..3 : v[k] < w[k] /\ \A i \in 1..(k - 1) : v[i] = w[i]
    /\ Separated(Combined(v)) = v
    /\ FromString(Written(v), w) = v
\* What one program writes the other reads, whatever it is: fields and responses
\* (ArrayEditor, ResponseBuilder), listings (BFL), user files (UIF) and versions; and what
\* ends early is refused.
WrittenIsRead ==
  FieldsReadBack /\ ResponseOfOneKind /\ ListingReadBack /\ UserFileReadBack /\ VersionsAgree
=============================================================================
