-------------------------------- MODULE Text --------------------------------
(***************************************************************************)
(* What the client does with characters: the variables of a line           *)
(* (EnvVarStrResolver), the words of a command (CommandLine), the tokens   *)
(* of a language file (SMCLLexer) and the arguments of a text              *)
(* (SMCLFormatter).                                                        *)
(*                                                                         *)
(* A string is a sequence of characters and a character a string of one.   *)
(* The loops of the code are folds over the characters with the members of *)
(* the object as the accumulator.                                          *)
(***************************************************************************)
EXTENDS Integers, Sequences, SequencesExt

CONSTANTS
  Environment,  \* the environment variables: a function from names to values
  Longest       \* bound on the length of a string with variables

\* The character \v, for which TLA+ has no escape.
VerticalTab == "VT"

\* std::isspace.
Blanks == {" ", "\t", "\n", VerticalTab, "\f", "\r"}

-----------------------------------------------------------------------------
(* EnvVarStrResolver.                                                      *)

\* insertEnvVar.
VarText(var) ==
  IF var \in DOMAIN Environment THEN Environment[var] ELSE <<"<">> \o var \o <<">">>

\* processNextChar: the name of the variable is not emptied when it has been replaced.
Resolves(r, c) ==
  IF c = "<" /\ ~r.inVar THEN [r EXCEPT !.inVar = TRUE]
  ELSE IF c = ">" /\ r.inVar THEN [r EXCEPT !.inVar = FALSE, !.out = @ \o VarText(r.var)]
  ELSE IF r.inVar THEN [r EXCEPT !.var = Append(@, c)] ELSE [r EXCEPT !.out = Append(@, c)]

\* resolve: an opening without an end is given back with what followed.
Resolved(s) ==
  LET r == FoldLeft(Resolves, [out |-> <<>>, var |-> <<>>, inVar |-> FALSE], s)
  IN  IF r.inVar THEN r.out \o <<"<">> \o r.var ELSE r.out

-----------------------------------------------------------------------------
(* CommandLine.                                                            *)

NewLine == [tokens |-> <<>>, item |-> <<>>, single |-> FALSE, double |-> FALSE, last |-> "none"]

\* flushToken.
Flushed(l) ==
  IF l.item = <<>> THEN l ELSE [l EXCEPT !.tokens = Append(@, l.item), !.item = <<>>]

\* MUTANT: an empty pair of quotes is no word.
QuotedPlain(l, c) == Flushed(l)

\* A quote after the same quote is an empty word.
Quoted(l, c) == IF l.last = c THEN [l EXCEPT !.tokens = Append(@, <<>>)] ELSE Flushed(l)

\* processSimpleQuotes, processDoubleQuotes and the loop of tokenize.
Tokenizes(l, c) ==
  LET next ==
        IF c = "'" /\ ~l.double THEN Quoted([l EXCEPT !.single = ~@], c)
        ELSE IF c = "\"" /\ ~l.single THEN Quoted([l EXCEPT !.double = ~@], c)
        ELSE IF l.single \/ l.double \/ c \notin Blanks THEN [l EXCEPT !.item = Append(@, c)]
        ELSE Flushed(l)
  IN [next EXCEPT !.last = c]

\* getLine and tokenize.
Tokenized(line) == Flushed(FoldLeft(Tokenizes, NewLine, Resolved(line))).tokens

-----------------------------------------------------------------------------
(* SMCLLexer.                                                              *)

DigitOf == [n \in 0..9 |-> <<"0", "1", "2", "3", "4", "5", "6", "7", "8", "9">>[n + 1]]
Digit == [c \in {DigitOf[n] : n \in 0..9} |-> CHOOSE n \in 0..9 : DigitOf[n] = c]

\* The keywords letter by letter.
Spelling ==
  [SECTION |-> <<"S", "E", "C", "T", "I", "O", "N">>,
   STRBEGIN |-> <<"S", "T", "R", "B", "E", "G", "I", "N">>,
   HEADER |-> <<"H", "E", "A", "D", "E", "R">>, END |-> <<"E", "N", "D">>]
KeywordIds == {"SECTION", "STRBEGIN", "HEADER", "END"}
KeywordOf ==
  [w \in {Spelling[id] : id \in KeywordIds} |-> CHOOSE id \in KeywordIds : Spelling[id] = w]
SimpleChars == {".", ";", "=", "[", "]", ","}

Lexeme(id, content) == [id |-> id, content |-> content]

\* getEscapeChar.
EscapeChar(c) ==
  CASE c = "n" -> "\n" [] c = "t" -> "\t" [] c = "v" -> VerticalTab [] c = "f" -> "\f"
    [] c \in {"\\", "\""} -> c [] OTHER -> "?"

\* buildTokenFromIdentifier, buildTokenFromNumber.
Built(x) ==
  CASE x.mode = "word" ->
         [x EXCEPT !.mode = "skip", !.word = <<>>, !.tokens = Append(@,
            IF x.word \in DOMAIN KeywordOf THEN Lexeme(KeywordOf[x.word], x.word)
            ELSE Lexeme("Identifier", x.word))]
    [] x.mode = "number" ->
         [x EXCEPT !.mode = "skip", !.word = <<>>, !.tokens = Append(@,
            Lexeme("Number", FoldLeft(LAMBDA n, c : n * 10 + Digit[c], 0, x.word)))]
    [] OTHER -> x

\* getStartIdx and buildTokenFromIdx: a token begins.
StartsToken(x, c) ==
  IF c \in Blanks THEN x
  ELSE IF c \in SimpleChars THEN [x EXCEPT !.tokens = Append(@, Lexeme(c, <<c>>))]
  ELSE [x EXCEPT !.mode = IF c = "\"" THEN "string" ELSE IF c \in DOMAIN Digit THEN "number" ELSE "word",
                 !.word = IF c = "\"" THEN <<>> ELSE <<c>>]

\* MUTANT: an escaped quote ends the string.
LexesPlain(x, c) ==
  CASE x.mode = "string" /\ c = "\"" -> [x EXCEPT !.mode = "skip", !.word = <<>>, !.tokens = Append(@, Lexeme("String", x.word))]
    [] x.mode = "string" /\ c # "\"" -> [x EXCEPT !.word = Append(@, c)]
    [] x.mode = "word" /\ c \notin Blanks \cup SimpleChars -> [x EXCEPT !.word = Append(@, c)]
    [] x.mode = "number" /\ c \in DOMAIN Digit -> [x EXCEPT !.word = Append(@, c)]
    [] OTHER -> StartsToken(Built(x), c)

\* nextToken, one character further.
Lexes(x, c) ==
  CASE x.mode = "escaped" -> [x EXCEPT !.mode = "string", !.word = Append(@, EscapeChar(c))]
    [] x.mode = "string" /\ c = "\\" -> [x EXCEPT !.mode = "escaped"]
    [] x.mode = "string" /\ c = "\"" -> [x EXCEPT !.mode = "skip", !.word = <<>>, !.tokens = Append(@, Lexeme("String", x.word))]
    [] x.mode = "string" /\ c \notin {"\\", "\""} -> [x EXCEPT !.word = Append(@, c)]
    [] x.mode = "word" /\ c \notin Blanks \cup SimpleChars -> [x EXCEPT !.word = Append(@, c)]
    [] x.mode = "number" /\ c \in DOMAIN Digit -> [x EXCEPT !.word = Append(@, c)]
    [] OTHER -> StartsToken(Built(x), c)

\* All tokens of a file; "error" when a string is not closed.
Lexed(file) ==
  LET x == Built(FoldLeft(Lexes, [mode |-> "skip", word |-> <<>>, tokens |-> <<>>], file))
  IN  IF x.mode = "skip" THEN x.tokens ELSE Append(x.tokens, Lexeme("error", <<>>))

-----------------------------------------------------------------------------
(* SMCLFormatter.                                                          *)

Mark == <<"$", "{", "}">>
IsArgHere(s, i) == i + 2 <= Len(s) /\ SubSeq(s, i, i + 2) = Mark

\* processChar: an argument takes the place of its mark, as long as there are arguments.
Formats(s, args, f, i) ==
  IF f.skip > 0 THEN [f EXCEPT !.skip = @ - 1]
  ELSE IF IsArgHere(s, i) /\ f.arg <= Len(args)
  THEN [f EXCEPT !.out = @ \o args[f.arg], !.arg = @ + 1, !.skip = Len(Mark) - 1]
  ELSE [f EXCEPT !.out = Append(@, s[i])]

Formatted(s, args) ==
  FoldLeft(LAMBDA f, i : Formats(s, args, f, i), [out |-> <<>>, arg |-> 1, skip |-> 0],
           [i \in 1..Len(s) |-> i]).out

-----------------------------------------------------------------------------
(* The inputs the algorithms are run on, each in a state of its own.       *)

VARIABLE input

AString(s)           == [kind |-> "string", s |-> s]
SomeWords(q, words)  == [kind |-> "words", quote |-> q, words |-> words]
AFile(b, tokens)     == [kind |-> "file", blank |-> b, tokens |-> tokens]
AText(pieces, args)  == [kind |-> "text", pieces |-> pieces, args |-> args]
NoInput              == [kind |-> "none"]

Words2(q) == BoundedSeq({"a", " "} \cup ({"'", "\""} \ {q}), 2)

SomeTokens ==
  {Lexeme(";", <<";">>), Lexeme(".", <<".">>), Lexeme("Identifier", <<"E", "N">>),
   Lexeme("Identifier", <<"E", "N", "D", "3">>), Lexeme("Number", 2), Lexeme("Number", 39)}
  \cup {Lexeme(id, Spelling[id]) : id \in KeywordIds}
  \cup {Lexeme("String", x) : x \in BoundedSeq({"\"", "\\", "n", "\n"}, 2)}
  \cup {Lexeme("String", <<c>>) : c \in {"v", "f", "?"} \cup Blanks}

Inputs ==
  {AString(s) : s \in BoundedSeq({"a", "b", "<", ">"}, Longest)}
  \cup UNION {{SomeWords(q, w) : w \in BoundedSeq(Words2(q), 3)} : q \in {"'", "\""}}
  \cup {AFile(b, tokens) : b \in Blanks, tokens \in BoundedSeq(SomeTokens, 2)}
  \cup {AText(p, args) : p \in BoundedSeq(BoundedSeq({"a", "$"}, 2), 3) \ {<<>>},
                         args \in BoundedSeq({<<>>, <<"x">>, Mark}, 2)}

-----------------------------------------------------------------------------
(* Properties: each compares an algorithm with what it is for.             *)

\* What a string with at most one variable stands for.
OneVariable(s) ==
  LET open  == {i \in DOMAIN s : s[i] = "<"}
      close == {j \in DOMAIN s : s[j] = ">" /\ \E i \in open : i < j}
      i == Min(open)  j == Min(close)
  IN IF close = {} THEN s
     ELSE SubSeq(s, 1, i - 1) \o VarText(SubSeq(s, i + 1, j - 1)) \o SubSeq(s, j + 1, Len(s))
AtMostOneVariable(s) == Cardinality({i \in DOMAIN s : s[i] = "<"}) <= 1

\* A variable in a string is replaced by its value, one without a value stays as it was
\* typed, and so does everything around it.
VariableInserted ==
  input.kind = "string" /\ AtMostOneVariable(input.s) => Resolved(input.s) = OneVariable(input.s)

Quoting(q, words) ==
  FlattenSeq([i \in DOMAIN words |-> <<q>> \o words[i] \o <<q, " ">>])

\* Every list of words can be typed: in quotes of a kind that the words do not have and
\* separated by a space, each arrives at the command as it is, the empty ones too.
WordsAsTyped ==
  input.kind = "words" => Tokenized(Quoting(input.quote, input.words)) = input.words

\* How a token is written: a text with its special characters escaped, a number below a
\* hundred by its digits, and a blank where two tokens would run into one.
EscapeFor ==
  [c \in {"\n", "\t", VerticalTab, "\f", "\"", "\\"} |->
     CASE c = "\n" -> "n" [] c = "\t" -> "t" [] c = VerticalTab -> "v" [] c = "\f" -> "f" [] OTHER -> c]
Escaped(x) ==
  FlattenSeq([i \in DOMAIN x |->
    IF x[i] \in DOMAIN EscapeFor THEN <<"\\", EscapeFor[x[i]]>> ELSE <<x[i]>>])
Written(t) ==
  CASE t.id = "String" -> <<"\"">> \o Escaped(t.content) \o <<"\"">>
    [] t.id = "Number" -> IF t.content < 10 THEN <<DigitOf[t.content]>>
                          ELSE <<DigitOf[t.content \div 10], DigitOf[t.content % 10]>>
    [] OTHER -> t.content
RunsOn(t, u) ==
  \/ t.id \in KeywordIds \cup {"Identifier"} /\ u.id \notin SimpleChars
  \/ t.id = "Number" /\ u.id = "Number"
File(b, tokens) ==
  FlattenSeq([i \in DOMAIN tokens |->
    Written(tokens[i]) \o IF i < Len(tokens) /\ RunsOn(tokens[i], tokens[i + 1]) THEN <<b>> ELSE <<>>])

\* Reading a file gives the tokens it was written from, with any characters in its texts
\* and with no more blanks than words and numbers need between them.
TokensAsWritten ==
  input.kind = "file" => Lexed(File(input.blank, input.tokens)) = input.tokens

\* The pieces of a text with an argument between each two of them.
Filled(pieces, args) ==
  FlattenSeq([i \in DOMAIN pieces |->
    pieces[i] \o IF i = Len(pieces) THEN <<>> ELSE IF i <= Len(args) THEN args[i] ELSE Mark])

\* Arguments go where the marks of the text are, in order; an argument that looks like a
\* mark stays an argument, marks without an argument stay, and the rest of the text is
\* as it was.
ArgumentsInPlace ==
  input.kind = "text" =>
    Formatted(Filled(input.pieces, <<>>), input.args) = Filled(input.pieces, input.args)
\* What is typed reaches the command: the words as they were meant (CommandLine), and a
\* variable among them by its value (EnvVarStrResolver).
LineAsTyped == VariableInserted /\ WordsAsTyped

\* What is written in a language file reaches the user: its tokens (SMCLLexer), and the
\* arguments in the places of its texts (SMCLFormatter).
FileAsWritten == TokensAsWritten /\ ArgumentsInPlace
=============================================================================
