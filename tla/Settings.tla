------------------------------ MODULE Settings ------------------------------
(***************************************************************************)
(* The client's configuration and its language: main's init, Config, the   *)
(* conf and the lang command.                                              *)
(*                                                                         *)
(* A setting is in three places: the ini file, the property tree that was  *)
(* read from it, and the values that were taken from the tree.  A language *)
(* file goes through the parser of Smcl a token at a time, into texts that *)
(* stay from one load to the next.  What a file contains is chosen token   *)
(* by token, so that every file within the bounds is read.                 *)
(***************************************************************************)
EXTENDS Smcl, Naturals, FiniteSets

CONSTANTS
  Languages,     \* what shell.language may name
  Installed,     \* the languages that have a file
  Entries,       \* what else is in the directory of the language files
  Words,         \* identifiers of a language file that are no header bindings
  Strings,
  FirstFile,     \* bounds on the first language file that is read: the nesting of its
                 \* sections, the words and points of a name, the strings of a value and
                 \* the STRBEGINs
  LaterFiles,    \* bounds on those read later
  MaxCommands    \* bound on starts of the client, its commands and edits of the file

ASSUME SettingsAssumption ==
  /\ Installed \subseteq Languages /\ Entries \subseteq Languages \ Installed
  /\ {"none", "unparsed"} \cap Languages = {}
  /\ {FirstFile, LaterFiles} \subseteq [depth : Nat, name : Nat, strings : Nat, begins : Nat]
  /\ MaxCommands \in Nat

\* A tree as far as loadValuesFromTree tells trees apart: whether the values read before
\* the language (the port) and after it (the buffer sizes) are there and are numbers, and
\* the language, "none" when it is not there.
Trees == [before : BOOLEAN, language : Languages \cup {"none"}, after : BOOLEAN]
EmptyTree == [before |-> FALSE, language |-> "none", after |-> FALSE]
Valid(t) == t.before /\ t.language # "none" /\ t.after

\* An ini file that cannot be parsed.
Unreadable == [before |-> FALSE, language |-> "unparsed", after |-> FALSE]

VARIABLES
  phase,     \* no client, one that reads its language at the start, one at its prompt, or
             \* one whose lang command reads a language
  ini,       \* data\config.ini
  tree,      \* Config::property_tree
  language,  \* Config::values.shell_language
  data,      \* the texts (lang.cpp's data)
  parser,    \* the SMCLParser of the load
  commands,  \* starts, commands and edits so far, for the bound
  blocks,    \* history: what values started with where each open section was opened
  read,      \* history: the keys the file has given so far
  switched,  \* history: lang set has chosen the language since the tree was last taken
  refused,   \* history: the last conf command that took values from the tree failed
  faulty     \* history: the ini file was edited, saved when the tree was refused, or is what
             \* a save that broke off has left

config == <<ini, tree, language, switched, refused, faulty>>
load == <<data, parser, blocks, read>>
vars == <<phase, ini, tree, language, data, parser, commands, blocks, read, switched,
          refused, faulty>>

Init ==
  /\ phase = "off" /\ commands = 0
  /\ ini \in {t \in Trees : Valid(t)}
  /\ tree = EmptyTree /\ language = "none"
  /\ data = NoData /\ parser = NewParser /\ blocks = <<>> /\ read = {}
  /\ switched = FALSE /\ refused = FALSE /\ faulty = FALSE

\* One more start, command or edit.
Counts == commands < MaxCommands /\ commands' = commands + 1

-----------------------------------------------------------------------------
(* Taking the values from the tree.                                        *)

\* MUTANT: what follows the language is taken without a look at it.
TakenHalf(t, was) ==
  LET some == t.before /\ t.language # "none"
  IN [ok |-> some, language |-> IF some THEN t.language ELSE was]

\* loadValuesFromTree: in order, up to the first value that is not there or no number.
Taken(t, was) ==
  [ok |-> Valid(t),
   language |-> IF t.before /\ t.language # "none" THEN t.language ELSE was]

\* tryToLoadValuesFromTree on a new tree.
TakesTree(t) ==
  LET r == Taken(t, language) IN
  /\ tree' = t
  /\ language' = r.language
  /\ switched' = (switched /\ (~t.before \/ t.language = "none"))
  /\ refused' = ~r.ok

-----------------------------------------------------------------------------
(* Loading a language.                                                     *)

\* SMCLLoader::load has opened the file, or has failed to.
Opens(lang) ==
  IF lang \in Installed THEN phase' = "loading" ELSE UNCHANGED phase

\* A number, a word or a sign that the file may have next, within the bounds.
Bound == IF commands = 1 THEN FirstFile ELSE LaterFiles
Identifiers == IF parser.inHeader THEN Words \cup HeaderKeys ELSE Words
Offered ==
  {Tok(s) : s \in Signs \ {"."}} \cup {Tok("HEADER"), Tok("END"), Number(1)}
  \cup (IF Len(parser.name) < Bound.name \/ parser.at \notin {"section", "binding"}
        THEN {Tok(".")} \cup {Identifier(x) : x \in Identifiers} ELSE {})
  \cup (IF Scope(parser) < Bound.depth THEN {Tok("SECTION")} ELSE {})
  \cup (IF Len(Begins(parser)) < Bound.begins THEN {Tok("STRBEGIN")} ELSE {})
  \cup (IF parser.read < Bound.strings \/ parser.at = "version" THEN {String(x) : x \in Strings} ELSE {})

\* The parser takes a token; what happens when it was the last one.
Parses(t) ==
  LET r == Step(parser, data, t) IN
  /\ data' = r.data
  /\ IF Parsing(r.parser)
     THEN /\ parser' = r.parser
          /\ blocks' = (IF Scope(r.parser) > Scope(parser) THEN Append(blocks, Begins(parser))
                        ELSE SubSeq(blocks, 1, Scope(r.parser)))
          /\ read' = (IF parser.at = "value" /\ r.parser.at = "top" /\ ~parser.inHeader
                      THEN read \cup ({parser.name} \cap WatchedKeys) ELSE read)
          /\ UNCHANGED phase
     ELSE /\ parser' = NewParser /\ blocks' = <<>> /\ read' = {}
          /\ phase' = (IF phase = "starting" /\ r.parser.at = "failed" THEN "off" ELSE "prompt")
  /\ UNCHANGED commands /\ UNCHANGED config

Loading == phase \in {"starting", "loading"}
ReadToken == Loading /\ \E t \in Offered : Parses(t)

\* The end of the file, or a string that is not closed.
ReadEof == Loading /\ Parses(Tok("EOF"))

-----------------------------------------------------------------------------
(* The client.                                                             *)

\* MUTANT: whether the file could be parsed is not looked at.
StartUnread ==
  /\ phase = "off" /\ Counts
  /\ data' = NoData
  /\ LET r == Taken(ini, "none") IN
     /\ language' = r.language
     /\ tree' = ini
     /\ phase' = IF r.ok /\ r.language \in Installed THEN "starting" ELSE "off"
  /\ switched' = FALSE /\ refused' = FALSE
  /\ UNCHANGED <<ini, parser, blocks, read, faulty>>

\* main: a new process takes the values of the file and reads its language, or ends.
Start ==
  /\ phase = "off" /\ Counts
  /\ data' = NoData
  /\ LET r == Taken(ini, "none") IN
     /\ language' = r.language
     /\ IF ini # Unreadable /\ r.ok /\ r.language \in Installed
        THEN phase' = "starting" /\ tree' = ini
        ELSE phase' = "off" /\ tree' = EmptyTree
  /\ switched' = FALSE /\ refused' = FALSE
  /\ UNCHANGED <<ini, parser, blocks, read, faulty>>

\* quit, or Ctrl-C at any time.
Stop ==
  /\ phase # "off"
  /\ phase' = "off"
  /\ parser' = NewParser /\ blocks' = <<>> /\ read' = {}
  /\ UNCHANGED <<data, commands>> /\ UNCHANGED config

\* The file is changed with a text editor; a change at another time would not be told from
\* one while the client is at its prompt.
Edit ==
  /\ phase = "prompt" /\ ~faulty /\ faulty' = TRUE /\ Counts
  /\ ini' \in {Unreadable, [ini EXCEPT !.before = FALSE], [ini EXCEPT !.after = FALSE]}
              \cup {[ini EXCEPT !.language = l] : l \in Languages \cup {"none"}}
  /\ UNCHANGED <<phase, tree, language, data, parser, blocks, read, switched, refused>>

\* MUTANT: the value is set and not taken.
ConfSetUnused ==
  /\ phase = "prompt" /\ Counts
  /\ \E l \in Languages : tree' = [tree EXCEPT !.language = l]
  /\ UNCHANGED <<phase, ini, language, data, parser, blocks, read, switched, refused, faulty>>

\* conf set, with a key whose value is a language or a number.
ConfSet ==
  /\ phase = "prompt" /\ Counts
  /\ \/ \E l \in Languages : TakesTree([tree EXCEPT !.language = l])
     \/ \E ok \in BOOLEAN : TakesTree([tree EXCEPT !.before = ok])
     \/ \E ok \in BOOLEAN : TakesTree([tree EXCEPT !.after = ok])
  /\ UNCHANGED <<phase, ini, data, parser, blocks, read, faulty>>

\* conf load: the tree stays when the file cannot be parsed.
ConfLoad ==
  /\ phase = "prompt" /\ Counts
  /\ IF ini = Unreadable
     THEN UNCHANGED <<tree, language, switched, refused>>
     ELSE TakesTree(ini)
  /\ UNCHANGED <<phase, ini, data, parser, blocks, read, faulty>>

\* What a save of a tree that breaks off may leave: write_ini has emptied the file when it
\* opened it, and every line is written or not.  The line it was writing may stay half: a
\* number of fewer digits, a name that no language has, or no line of an ini file.
Rests(t) ==
  [before : {FALSE, t.before}, language : {"none", t.language} \cup (Languages \ Installed),
   after : {FALSE, t.after}] \cup {Unreadable}

\* conf save (Config::updateFile): the tree and not the values.  The file cannot be opened,
\* or write_ini breaks off: it refuses a tree that is too deep for the format only when it
\* has got there ("conf set server.port.x 1" is accepted), and the disk may be full.
ConfSave ==
  /\ phase = "prompt" /\ Counts
  /\ \/ ini' = tree /\ faulty' = refused
     \/ ini' \in Rests(tree) /\ faulty' = TRUE
     \/ UNCHANGED <<ini, faulty>>
  /\ UNCHANGED <<phase, tree, language, data, parser, blocks, read, switched, refused>>

\* MUTANT: the texts are dropped before it is known whether there are others.
LangReloadEmptied ==
  /\ phase = "prompt" /\ Counts
  /\ Opens(language)
  /\ data' = NoData
  /\ UNCHANGED <<parser, blocks, read>> /\ UNCHANGED config

\* lang reload.
LangReload ==
  /\ phase = "prompt" /\ Counts
  /\ Opens(language)
  /\ UNCHANGED config /\ UNCHANGED load

\* lang set: any entry of the directory is taken for a language.
LangSet ==
  /\ phase = "prompt" /\ Counts
  /\ \/ \E l \in Installed \cup Entries :
          /\ language' = l /\ switched' = TRUE
          /\ Opens(l)
     \/ UNCHANGED <<phase, language, switched>>
  /\ UNCHANGED <<ini, tree, refused, faulty>> /\ UNCHANGED load

Next ==
  \/ Start \/ Stop \/ Edit \/ ConfSet \/ ConfLoad \/ ConfSave \/ LangReload \/ LangSet
  \/ ReadToken \/ ReadEof

Spec == Init /\ [][Next]_vars

-----------------------------------------------------------------------------
(* Properties.                                                             *)

\* Types of the state.
TypeOK ==
  /\ phase \in {"off", "starting", "prompt", "loading"}
  /\ commands \in 0..MaxCommands
  /\ ini \in Trees \cup {Unreadable} /\ tree \in Trees
  /\ language \in Languages \cup {"none"}
  /\ DOMAIN data \subseteq WatchedKeys /\ \A k \in DOMAIN data : data[k] \in Seq(Strings)
  /\ parser.at \in Places \ {"accepted", "failed"} /\ parser.given \subseteq HeaderKeys
  /\ Len(blocks) = Scope(parser) /\ read \subseteq WatchedKeys
  /\ {switched, refused, faulty} \subseteq BOOLEAN

\* While a header is read no section is open, whatever came before it in the file, and
\* once it has ended every binding of it was given (README of the client: sections cannot
\* be put in the header nor the header in sections).
HeaderAsRead ==
  /\ parser.inHeader => Scope(parser) = 0
  /\ parser.headerDefined /\ ~parser.inHeader => parser.given = HeaderKeys

\* When a section ends, values start again with what they started with before it.
PrefixRestored ==
  [][Len(blocks') < Len(blocks) /\ Loading /\ phase' = phase => Begins(parser') = Last(blocks)]_vars

\* A client that runs keeps a text for every key it has one for, also when a file turns out
\* to be wrong in its middle, ends too early or is missing; and a text is never half of a
\* value: it is the old one, or the whole value the file has given its key.
NoTextLost ==
  [][phase # "off" =>
       /\ DOMAIN data \subseteq DOMAIN data'
       /\ \A k \in DOMAIN data' :
            \/ k \in DOMAIN data /\ data'[k] = data[k]
            \/ k = parser.name /\ data'[k] = parser.value]_vars

\* The language the client uses is the one of its settings as long as nobody has switched
\* it with lang set and the settings were not refused.
LanguageOfSettings ==
  phase # "off" /\ ~switched /\ ~refused => language = tree.language

\* Settings that main refuses never get into the file unnoticed: such a file was edited
\* outside, was saved after the shell had refused the settings, or is what a save that broke
\* off has left.
UnusableFileHasCause == ~Valid(ini) => faulty

\* A load ends: at the end of its file at the latest, wherever in the file that is.
LoadEnds == Loading ~> ~Loading

\* The texts of the client: "reload the current language" and "set the current language".
\* A text that a file gives to a key for the first time is the text of the key.
TextOfFile ==
  [][\A k \in WatchedKeys :
       k \in read' \ read => data'[k] = parser.value]_vars
=============================================================================
