--------------------------- MODULE ServerProcess ---------------------------
(***************************************************************************)
(* The server as a process: its start (server.cpp, Config, Logger), the    *)
(* threads of its sessions and of restarts, and the console, which takes   *)
(* the messages of all threads into one queue that a thread of its own     *)
(* prints and logs.                                                        *)
(*                                                                         *)
(* A message is known by its thread and its number in that thread.  What a *)
(* session does between its messages is modelled in ServerSession.         *)
(***************************************************************************)
EXTENDS Naturals, Sequences, SequencesExt, FiniteSets

CONSTANTS
  Sessions,     \* threads of sessions
  Restarts,     \* threads that RestartServerRH starts; they have no client
  MaxMessages   \* bounds on the messages of each thread, those that all have apart

ASSUME ProcessAssumption ==
  /\ "main" \notin Sessions \cup Restarts /\ Sessions \cap Restarts = {} /\ IsFiniteSet(Sessions)
  /\ MaxMessages \in [Sessions \cup Restarts \cup {"main"} -> Nat]

Threads == Sessions \cup Restarts \cup {"main"}

\* The values of config.ini in the order they are read, and those that are strings.
Keys == <<"port", "dirs", "versions", "format", "buffer">>
Strings == {"dirs", "versions", "format"}

\* config.ini: the place of the first value that is missing or, in a string, names a
\* variable that does not exist (one past the last when there is none), and whether the
\* format of the time is one.  A file that cannot be parsed lacks the first.
Files == {f \in [bad : 1..(Len(Keys) + 1), unresolved : BOOLEAN, format : BOOLEAN] :
            /\ f.unresolved => f.bad <= Len(Keys) /\ Keys[f.bad] \in Strings
            /\ f.bad <= Len(Keys) - 1 => f.format}

VARIABLES
  file,     \* config.ini
  main,     \* where the main thread is
  values,   \* Config::values: what has been read
  dirsSet,  \* setDirsValues
  logger,   \* Logger::file: "none", "open", or "shut" when it could not be opened or is deleted
  thread,   \* of a session or a restart: where it is, and the index it was given
  count,    \* client_count
  said,     \* messages of each thread so far
  queue,
  printer,  \* printerThread: where it is and the message it has
  console, log,  \* what has been printed and logged, as sets: the order is the printer's
  together  \* history: pairs of sessions that drew their indices at the same time

starting == <<file, values, dirsSet, logger>>
sessions == <<thread, count, together>>
printing == <<said, queue, printer, console, log>>
vars == <<file, main, values, dirsSet, logger, thread, count, said, queue, printer,
          console, log, together>>

Silent == [from |-> "none", n |-> 0, label |-> <<>>]
Runs == main # "over"

Init ==
  /\ file \in Files /\ main = "config" /\ values = {} /\ dirsSet = FALSE
  /\ logger = "none" /\ count = 0 /\ together = {}
  /\ thread = [t \in Sessions \cup Restarts |-> [at |-> "none", index |-> 0]]
  /\ said = [t \in Threads |-> 0]
  /\ queue = <<>> /\ printer = [at |-> "absent", message |-> Silent]
  /\ console = {} /\ log = {}

-----------------------------------------------------------------------------
(* The console.                                                            *)

\* processMessage and getMessageLocation: no index for the main thread,
\* 0 for one without a client.
Label(t) == IF t = "main" THEN <<>> ELSE <<thread[t].index>>

Message(t) == [from |-> t, n |-> said[t] + 1, label |-> Label(t)]

\* MUTANT: the last message comes first.
SaysFirst(t) ==
  /\ said' = [said EXCEPT ![t] = @ + 1]
  /\ queue' = <<Message(t)>> \o queue
  /\ UNCHANGED <<printer, console, log>>

\* The thread t queues a message, under the lock; what comes before the lock is the
\* thread's own.
Says(t) ==
  /\ said' = [said EXCEPT ![t] = @ + 1]
  /\ queue' = Append(queue, Message(t))
  /\ UNCHANGED <<printer, console, log>>

\* MUTANT: wakes up for the second message.
TakeSecond ==
  /\ printer.at = "waiting" /\ Len(queue) > 1 /\ Runs
  /\ printer' = [at |-> "printing", message |-> Head(queue)]
  /\ queue' = Tail(queue)
  /\ UNCHANGED <<main, said, console, log>> /\ UNCHANGED starting /\ UNCHANGED sessions

\* printerThread takes the first message, under the lock.
Take ==
  /\ printer.at = "waiting" /\ queue # <<>> /\ Runs
  /\ printer' = [at |-> "printing", message |-> Head(queue)]
  /\ queue' = Tail(queue)
  /\ UNCHANGED <<main, said, console, log>> /\ UNCHANGED starting /\ UNCHANGED sessions

\* printMessage.  formatTime throws for a format that is none: no thread catches that, and
\* the process is terminated.
PrintMessage ==
  /\ printer.at = "printing" /\ Runs
  /\ IF "format" \in values /\ ~file.format
     THEN main' = "over" /\ UNCHANGED <<printer, console>>
     ELSE /\ console' = console \cup {printer.message}
          /\ printer' = [printer EXCEPT !.at = "logging"] /\ UNCHANGED main
  /\ UNCHANGED <<said, queue, log>> /\ UNCHANGED starting /\ UNCHANGED sessions

\* logMessage.  A stream that is not open takes nothing; one that the end of the process
\* has deleted may crash it.
LogMessage ==
  /\ printer.at = "logging" /\ Runs
  /\ log' = IF logger = "open" THEN log \cup {printer.message} ELSE log
  /\ \/ UNCHANGED main /\ printer' = [at |-> "waiting", message |-> Silent]
     \/ main = "ending" /\ main' = "over" /\ UNCHANGED printer
  /\ UNCHANGED <<said, queue, console>> /\ UNCHANGED starting /\ UNCHANGED sessions

Printer == Take \/ PrintMessage \/ LogMessage

-----------------------------------------------------------------------------
(* The start.                                                              *)

\* Config::load sets the directories when no value is missing.
SetsDirs(f) == f.bad > Len(Keys)

\* MUTANT: the console before the logger.
LoadConfigThenConsole ==
  /\ main = "config" /\ ~file.unresolved
  /\ values' = {Keys[i] : i \in 1..(file.bad - 1)} /\ dirsSet' = SetsDirs(file)
  /\ main' = "console"
  /\ UNCHANGED <<file, logger>> /\ UNCHANGED sessions /\ UNCHANGED printing

\* Config::load: values are taken up to a bad one.  A variable that does not exist is
\* printed and throws what only main catches; otherwise the result is not looked at.
LoadConfig ==
  /\ main = "config"
  /\ values' = {Keys[i] : i \in 1..(file.bad - 1)} /\ dirsSet' = SetsDirs(file)
  /\ IF file.unresolved THEN main' = "failed" /\ Says("main") ELSE main' = "logger" /\ UNCHANGED printing
  /\ UNCHANGED <<file, logger>> /\ UNCHANGED sessions

\* Logger::init.  create_directories may throw, for an empty path in particular.
InitLogger ==
  /\ main = "logger"
  /\ \/ logger' \in {"open", "shut"} /\ main' = "console"
     \/ main' = "failed" /\ UNCHANGED logger
  /\ UNCHANGED <<file, values, dirsSet>> /\ UNCHANGED sessions /\ UNCHANGED printing

\* console::init.
InitConsole ==
  /\ main = "console"
  /\ main' = "users" /\ printer' = [printer EXCEPT !.at = "waiting"]
  /\ UNCHANGED <<said, queue, console, log>> /\ UNCHANGED starting /\ UNCHANGED sessions

\* UsersManager::load prints first; then a directory may be missing and not creatable.
LoadUsers ==
  /\ main = "users" /\ main' = "loading" /\ Says("main")
  /\ UNCHANGED starting /\ UNCHANGED sessions
UsersLoaded ==
  /\ main = "loading"
  /\ main' \in {"listening", "failed"}
  /\ UNCHANGED starting /\ UNCHANGED sessions /\ UNCHANGED printing

\* runServer up to io_context.run: what is printed before binding to the port and after is
\* one message here, and asking for the address, before, or binding may fail.
Listen ==
  /\ main = "listening"
  /\ \/ main' \in {"serving", "failed"} /\ Says("main")
     \/ main' = "failed" /\ UNCHANGED printing
  /\ UNCHANGED starting /\ UNCHANGED sessions

\* main catches the exception and prints it ...
Fail ==
  /\ main = "failed" /\ Says("main") /\ main' = "failing"
  /\ UNCHANGED starting /\ UNCHANGED sessions

\* ... and returns: the logger is destroyed while the detached threads still run.
Return ==
  /\ main = "failing"
  /\ main' = "ending" /\ logger' = IF logger = "none" THEN "none" ELSE "shut"
  /\ UNCHANGED <<file, values, dirsSet>> /\ UNCHANGED sessions /\ UNCHANGED printing

\* The process ends.  (One that is killed earlier only stops; nothing is read back.)
End ==
  /\ main = "ending" /\ main' = "over"
  /\ UNCHANGED starting /\ UNCHANGED sessions /\ UNCHANGED printing

-----------------------------------------------------------------------------
(* Sessions and restarts.                                                  *)

\* A thread goes on.  Constrains thread'.
Goes(t, where) == thread' = [thread EXCEPT ![t].at = where]

\* acceptConnections: an error is printed by the main thread; when there is no thread for
\* the session the exception ends the loop.
Accept ==
  /\ main = "serving"
  /\ \/ \E t \in Sessions : thread[t].at = "none" /\ Goes(t, "new") /\ UNCHANGED printing
     \/ said["main"] < MaxMessages["main"] + 2 /\ Says("main") /\ UNCHANGED thread
  /\ UNCHANGED <<main, count, together>> /\ UNCHANGED starting

NoThread ==
  /\ main = "serving" /\ main' = "failed"
  /\ UNCHANGED starting /\ UNCHANGED sessions /\ UNCHANGED printing

Drawing == {t \in Sessions : thread[t].at = "drawing"}

\* MUTANT: the index is the count after it has been increased.
LoadCountAfter(t) ==
  /\ thread[t].at = "new" /\ Runs
  /\ thread' = [thread EXCEPT ![t] = [at |-> "drawing", index |-> count + 1]]
  /\ together' = together \cup {{s, t} : s \in Drawing}
  /\ UNCHANGED <<main, count>> /\ UNCHANGED starting /\ UNCHANGED printing

\* handleClient: client_count is loaded ...
LoadCount(t) ==
  /\ thread[t].at = "new" /\ Runs
  /\ thread' = [thread EXCEPT ![t] = [at |-> "drawing", index |-> count]]
  /\ together' = together \cup {{s, t} : s \in Drawing}
  /\ UNCHANGED <<main, count>> /\ UNCHANGED starting /\ UNCHANGED printing

\* MUTANT: the count is that of the sessions that are over.
AddToCountLate(t) ==
  /\ thread[t].at = "drawing" /\ Runs
  /\ count' = Cardinality({s \in Sessions : thread[s].at = "over"})
  /\ Goes(t, "talking")
  /\ UNCHANGED <<main, together>> /\ UNCHANGED starting /\ UNCHANGED printing

\* ... and then increased, and the session has its client.
AddToCount(t) ==
  /\ thread[t].at = "drawing" /\ Runs
  /\ count' = count + 1
  /\ Goes(t, "talking")
  /\ UNCHANGED <<main, together>> /\ UNCHANGED starting /\ UNCHANGED printing

\* A message of a session, or of a thread that restarts the machine.
Talk(t) ==
  /\ thread[t].at = "talking" /\ Runs /\ said[t] < MaxMessages[t] /\ Says(t)
  /\ UNCHANGED main /\ UNCHANGED starting /\ UNCHANGED sessions

\* A session has started a restart, whose thread goes to work a second later.
StartRestart(t) ==
  /\ thread[t].at = "none" /\ Runs /\ \E s \in Sessions : thread[s].at = "talking"
  /\ Goes(t, "talking")
  /\ UNCHANGED <<main, count, together>> /\ UNCHANGED starting /\ UNCHANGED printing

\* The session has ended: "thread stopped".
StopThread(t) ==
  /\ thread[t].at = "talking" /\ Runs /\ Says(t)
  /\ Goes(t, "over")
  /\ UNCHANGED <<main, count, together>> /\ UNCHANGED starting

Next ==
  \/ LoadConfig \/ InitLogger \/ InitConsole \/ LoadUsers \/ UsersLoaded \/ Listen
  \/ Fail \/ Return \/ End \/ Accept \/ NoThread
  \/ \E t \in Sessions : LoadCount(t) \/ AddToCount(t) \/ StopThread(t)
  \/ \E t \in Sessions \cup Restarts : Talk(t)
  \/ \E t \in Restarts : StartRestart(t)
  \/ Take \/ PrintMessage \/ LogMessage

Spec == Init /\ [][Next]_vars

-----------------------------------------------------------------------------
(* Properties.                                                             *)

\* The messages that were queued and are not printed yet, from the next one.
Waiting == (IF printer.at = "printing" THEN <<printer.message>> ELSE <<>>) \o queue
Messages == console \cup Range(Waiting)

\* Types of the state.
TypeOK ==
  /\ file \in Files /\ values \subseteq Range(Keys) /\ dirsSet \in BOOLEAN
  /\ main \in {"config", "logger", "console", "users", "loading", "listening", "serving", "failed",
               "failing", "ending", "over"}
  /\ logger \in {"none", "open", "shut"} /\ count \in 0..Cardinality(Sessions)
  /\ \A t \in Sessions \cup Restarts :
       thread[t].at \in {"none", "new", "drawing", "talking", "over"} /\ thread[t].index \in 0..count
  /\ \A t \in Threads : said[t] \in 0..(MaxMessages[t] + 3)
  /\ printer.at \in {"absent", "waiting", "printing", "logging"}

\* Every message of a thread that has reached the queue is printed or in the queue, and in
\* the order of the thread, whatever the other threads queue meanwhile.
ConsoleFaithful ==
  /\ \A t \in Threads : {m.n : m \in {m \in Messages : m.from = t}} = 1..said[t]
  /\ \A i \in DOMAIN Waiting :
       /\ \A m \in console : m.from = Waiting[i].from => m.n < Waiting[i].n
       /\ \A j \in 1..(i - 1) : Waiting[j].from = Waiting[i].from => Waiting[j].n < Waiting[i].n

\* Two sessions print under one index only when both drew it at the same time, and no
\* thread prints as the main one.  (A restart prints as the first session.)
LabelTells ==
  \A x, y \in Messages :
    x.label = y.label /\ x.from # y.from => {x.from, y.from} \in together \/ {x.from, y.from} \cap Restarts # {}

\* The printer never finds the logger without a stream (getStream dereferences it).
LoggerReady == printer.at # "absent" => logger # "none"

\* A server that has gone on with half a configuration has no storage to serve: a client
\* never meets files behind limits that were not read.
StorageNeedsLimits == dirsSet => {"buffer", "versions"} \subseteq values

\* Whatever the start has failed at and gone on, or left, neither of them happens.
StartSound == LoggerReady /\ StorageNeedsLimits

\* The first message of a thread is printed and, when the log could be opened, logged,
\* unless main gives up, whatever the other threads say.
MessagesShown ==
  \A t \in Sessions \cup Restarts :
    said[t] > 0 ~>
      \/ main \in {"failed", "failing", "ending", "over"}
      \/ \E m \in console : m.from = t /\ m.n = 1 /\ (logger = "open" => m \in log)
=============================================================================
