------------------------ MODULE ServerProcessProofs ------------------------
(***************************************************************************)
(* What the process of the server keeps, proved for every set of sessions  *)
(* and of restarts.                                                        *)
(***************************************************************************)
EXTENDS ServerProcess, FiniteSetTheorems, TLAPS

MainPlaces == {"config", "logger", "console", "users", "loading", "listening", "serving", "failed",
               "failing", "ending", "over"}
ThreadPlaces == {"none", "new", "drawing", "talking", "over"}
Labels == {<<>>} \cup {<<i>> : i \in Nat}
MessageSet == [from : Threads, n : Nat, label : Labels]

\* The types of the variables, without the bounds of TypeOK.
Types ==
  /\ file \in Files /\ values \subseteq Range(Keys) /\ dirsSet \in BOOLEAN
  /\ main \in MainPlaces /\ logger \in {"none", "open", "shut"} /\ count \in Nat
  /\ thread \in [Sessions \cup Restarts -> [at : ThreadPlaces, index : Nat]]
  /\ said \in [Threads -> Nat]
  /\ queue \in Seq(MessageSet)
  /\ printer \in [at : {"absent", "waiting", "printing", "logging"}, message : MessageSet \cup {Silent}]
  /\ printer.at = "printing" => printer.message \in MessageSet
  /\ console \subseteq MessageSet
  /\ main \in {"config", "logger", "console"} => printer.at = "absent"

LEMMA KeysLength == Len(Keys) = 5 /\ DOMAIN Keys = 1..5
BY DEF Keys

LEMMA ThreadsAre ==
  /\ "main" \in Threads
  /\ \A t \in Sessions \cup Restarts : t \in Threads /\ t # "main"
BY ProcessAssumption DEF Threads

\* Saying something keeps the types of the console.
LEMMA SaysTypes ==
  ASSUME Types, NEW t \in Threads, Says(t)
  PROVE  /\ said' \in [Threads -> Nat] /\ queue' \in Seq(MessageSet)
         /\ Message(t) \in MessageSet
         /\ printer' = printer /\ console' = console
<1>1. said[t] \in Nat /\ queue \in Seq(MessageSet)
  BY DEF Types
<1>2. Label(t) \in Labels
  <2>1. CASE t = "main"
    BY <2>1 DEF Label, Labels
  <2>2. CASE t # "main"
    <3>1. t \in Sessions \cup Restarts
      BY <2>2 DEF Threads
    <3>2. thread[t].index \in Nat
      BY <3>1 DEF Types
    <3> QED BY <2>2, <3>2 DEF Label, Labels
  <2> QED BY <2>1, <2>2
<1>3. Message(t) \in MessageSet
  BY <1>1, <1>2 DEF Message, MessageSet
<1> QED BY <1>1, <1>3 DEF Says, Types

\* A thread that goes on keeps the type of the threads.
LEMMA GoesTypes ==
  ASSUME Types, NEW t \in Sessions \cup Restarts, NEW where \in ThreadPlaces, Goes(t, where)
  PROVE  thread' \in [Sessions \cup Restarts -> [at : ThreadPlaces, index : Nat]]
BY DEF Types, Goes

LEMMA InitTypes == Init => Types
<1> SUFFICES ASSUME Init PROVE Types
  OBVIOUS
<1>1. <<>> \in Seq(MessageSet)
  OBVIOUS
<1> QED BY <1>1 DEF Init, Types, MainPlaces, ThreadPlaces

LEMMA StepTypes == Types /\ [Next]_vars => Types'
<1> SUFFICES ASSUME Types, [Next]_vars PROVE Types'
  OBVIOUS
<1> USE ThreadsAre
<1>1. CASE LoadConfig
  <2>1. values' \subseteq Range(Keys) /\ dirsSet' \in BOOLEAN
    <3>1. file.bad \in 1..6
      BY KeysLength DEF Types, Files
    <3> QED BY <1>1, <3>1, KeysLength DEF LoadConfig, SetsDirs, Range
  <2>2. CASE file.unresolved
    BY <1>1, <2>1, <2>2, SaysTypes DEF LoadConfig, Types, MainPlaces, sessions
  <2>3. CASE ~file.unresolved
    BY <1>1, <2>1, <2>3 DEF LoadConfig, Types, MainPlaces, sessions, printing
  <2> QED BY <2>2, <2>3
<1>2. CASE InitLogger
  BY <1>2 DEF InitLogger, Types, MainPlaces, sessions, printing
<1>3. CASE InitConsole
  BY <1>3 DEF InitConsole, Types, MainPlaces, starting, sessions
<1>4. CASE LoadUsers
  BY <1>4, SaysTypes DEF LoadUsers, Types, MainPlaces, starting, sessions
<1>5. CASE UsersLoaded
  BY <1>5 DEF UsersLoaded, Types, MainPlaces, starting, sessions, printing
<1>6. CASE Listen
  <2>1. CASE Says("main")
    BY <1>6, <2>1, SaysTypes DEF Listen, Types, MainPlaces, starting, sessions
  <2>2. CASE UNCHANGED printing
    BY <1>6, <2>2 DEF Listen, Types, MainPlaces, starting, sessions, printing
  <2> QED BY <1>6, <2>1, <2>2 DEF Listen
<1>7. CASE Fail
  BY <1>7, SaysTypes DEF Fail, Types, MainPlaces, starting, sessions
<1>8. CASE Return
  BY <1>8 DEF Return, Types, MainPlaces, sessions, printing
<1>9. CASE End \/ NoThread
  BY <1>9 DEF End, NoThread, Types, MainPlaces, starting, sessions, printing
<1>10. CASE Accept
  <2>1. CASE Says("main") /\ UNCHANGED thread
    BY <1>10, <2>1, SaysTypes DEF Accept, Types, starting
  <2>2. ASSUME NEW t \in Sessions, Goes(t, "new"), UNCHANGED printing PROVE Types'
    <3>1. thread' \in [Sessions \cup Restarts -> [at : ThreadPlaces, index : Nat]]
      BY <2>2, GoesTypes DEF ThreadPlaces
    <3> QED BY <1>10, <2>2, <3>1 DEF Accept, Types, starting, printing
  <2> QED BY <1>10, <2>1, <2>2 DEF Accept
<1>11. ASSUME NEW t \in Sessions, LoadCount(t) \/ AddToCount(t) PROVE Types'
  <2>1. CASE LoadCount(t)
    <3>1. [at |-> "drawing", index |-> count] \in [at : ThreadPlaces, index : Nat]
      BY DEF Types, ThreadPlaces
    <3>2. thread' \in [Sessions \cup Restarts -> [at : ThreadPlaces, index : Nat]]
      BY <2>1, <3>1 DEF LoadCount, Types
    <3> QED BY <2>1, <3>2 DEF LoadCount, Types, starting, printing
  <2>2. CASE AddToCount(t)
    <3>1. thread' \in [Sessions \cup Restarts -> [at : ThreadPlaces, index : Nat]]
      BY <2>2, GoesTypes DEF AddToCount, ThreadPlaces
    <3> QED BY <2>2, <3>1 DEF AddToCount, Types, starting, printing
  <2> QED BY <1>11, <2>1, <2>2
<1>12. ASSUME NEW t \in Sessions, StopThread(t) PROVE Types'
  BY <1>12, SaysTypes DEF StopThread, Goes, Types, ThreadPlaces, starting
<1>13. ASSUME NEW t \in Sessions \cup Restarts, Talk(t) PROVE Types'
  BY <1>13, SaysTypes DEF Talk, Types, starting, sessions
<1>14. ASSUME NEW t \in Restarts, StartRestart(t) PROVE Types'
  BY <1>14 DEF StartRestart, Goes, Types, ThreadPlaces, starting, printing
<1>15. CASE Take
  <2>1. Head(queue) \in MessageSet /\ Tail(queue) \in Seq(MessageSet)
    BY <1>15 DEF Take, Types
  <2> QED BY <1>15, <2>1 DEF Take, Types, starting, sessions
<1>16. CASE PrintMessage
  BY <1>16 DEF PrintMessage, Types, MainPlaces, starting, sessions
<1>17. CASE LogMessage
  BY <1>17 DEF LogMessage, Types, MainPlaces, starting, sessions
<1>18. CASE UNCHANGED vars
  BY <1>18 DEF vars, Types
<1> QED BY <1>1, <1>2, <1>3, <1>4, <1>5, <1>6, <1>7, <1>8, <1>9, <1>10, <1>11, <1>12, <1>13, <1>14,
           <1>15, <1>16, <1>17, <1>18 DEF Next

-----------------------------------------------------------------------------
(* The start.                                                              *)

\* From console::init on there is a logger.
LoggerFirst == main = "console" \/ printer.at # "absent" => logger # "none"

LEMMA StepLogger == LoggerFirst /\ [Next]_vars => LoggerFirst'
<1> SUFFICES ASSUME LoggerFirst, [Next]_vars PROVE LoggerFirst'
  OBVIOUS
<1> USE DEF LoggerFirst, starting, sessions, printing, Says
<1>1. CASE LoadConfig \/ InitLogger \/ InitConsole \/ LoadUsers \/ UsersLoaded \/ Listen
  BY <1>1 DEF LoadConfig, InitLogger, InitConsole, LoadUsers, UsersLoaded, Listen
<1>2. CASE Fail \/ Return \/ End \/ Accept \/ NoThread
  BY <1>2 DEF Fail, Return, End, Accept, NoThread
<1>3. ASSUME NEW t \in Sessions \cup Restarts,
             LoadCount(t) \/ AddToCount(t) \/ StopThread(t) \/ Talk(t) \/ StartRestart(t)
      PROVE  LoggerFirst'
  BY <1>3 DEF LoadCount, AddToCount, StopThread, Talk, StartRestart
<1>4. CASE Take \/ PrintMessage \/ LogMessage
  BY <1>4 DEF Take, PrintMessage, LogMessage
<1>5. CASE UNCHANGED vars
  BY <1>5 DEF vars
<1> QED BY <1>1, <1>2, <1>3, <1>4, <1>5 DEF Next

\* The printer finds a logger with a stream, however the start goes on after a bad
\* configuration and whatever the process ends with.
THEOREM LoggerSafe == Spec => []LoggerReady
<1>1. Init => LoggerFirst
  BY DEF Init, LoggerFirst
<1>2. LoggerFirst => LoggerReady
  BY DEF LoggerFirst, LoggerReady
<1> QED BY <1>1, <1>2, StepLogger, PTL DEF Spec

LEMMA StepStorage == Types /\ StorageNeedsLimits /\ [Next]_vars => StorageNeedsLimits'
<1> SUFFICES ASSUME Types, StorageNeedsLimits, [Next]_vars PROVE StorageNeedsLimits'
  OBVIOUS
<1>1. CASE LoadConfig
  <2> SUFFICES ASSUME dirsSet' PROVE {"buffer", "versions"} \subseteq values'
    BY DEF StorageNeedsLimits
  <2>1. file.bad \in 1..6
    BY KeysLength DEF Types, Files
  <2>2. file.bad = 6
    <3>1. SetsDirs(file)
      BY <1>1 DEF LoadConfig
    <3> QED BY <3>1, <2>1, KeysLength DEF SetsDirs
  <2>3. values' = {Keys[i] : i \in 1..5}
    BY <1>1, <2>2 DEF LoadConfig
  <2>4. Keys[5] = "buffer" /\ Keys[3] = "versions"
    BY DEF Keys
  <2> QED BY <2>3, <2>4
<1> USE DEF StorageNeedsLimits, starting
<1>2. CASE InitLogger \/ InitConsole \/ LoadUsers \/ UsersLoaded \/ Listen
  BY <1>2 DEF InitLogger, InitConsole, LoadUsers, UsersLoaded, Listen
<1>3. CASE Fail \/ Return \/ End \/ Accept \/ NoThread
  BY <1>3 DEF Fail, Return, End, Accept, NoThread
<1>4. ASSUME NEW t \in Sessions \cup Restarts,
             LoadCount(t) \/ AddToCount(t) \/ StopThread(t) \/ Talk(t) \/ StartRestart(t)
      PROVE  StorageNeedsLimits'
  BY <1>4 DEF LoadCount, AddToCount, StopThread, Talk, StartRestart
<1>5. CASE Take \/ PrintMessage \/ LogMessage
  BY <1>5 DEF Take, PrintMessage, LogMessage
<1>6. CASE UNCHANGED vars
  BY <1>6 DEF vars
<1> QED BY <1>1, <1>2, <1>3, <1>4, <1>5, <1>6 DEF Next

\* The storage is set only by a configuration that was read whole.
THEOREM StorageSafe == Spec => []StorageNeedsLimits
<1>1. Init => StorageNeedsLimits
  BY DEF Init, StorageNeedsLimits
<1> QED BY <1>1, InitTypes, StepTypes, StepStorage, PTL DEF Spec

\* Both, of every start: neither is the printer without its stream nor the storage
\* without its limits.
THEOREM StartSafe == Spec => []StartSound
<1>1. LoggerReady /\ StorageNeedsLimits => StartSound
  BY DEF StartSound
<1> QED BY <1>1, LoggerSafe, StorageSafe, PTL

-----------------------------------------------------------------------------
(* The console.                                                            *)

LEMMA RangeAppend ==
  ASSUME NEW S, NEW s \in Seq(S), NEW x \in S
  PROVE  Range(Append(s, x)) = Range(s) \cup {x}
<1> DEFINE a == Append(s, x)
<1>1. /\ DOMAIN a = 1..(Len(s) + 1) /\ DOMAIN s = 1..Len(s) /\ Len(s) \in Nat
      /\ \A i \in 1..Len(s) : a[i] = s[i]
      /\ a[Len(s) + 1] = x
  OBVIOUS
<1> HIDE DEF a
<1>2. ASSUME NEW y \in Range(a) PROVE y \in Range(s) \cup {x}
  <2>1. PICK i \in 1..(Len(s) + 1) : y = a[i]
    BY <1>1 DEF Range
  <2>2. i = Len(s) + 1 \/ i \in 1..Len(s)
    BY <1>1
  <2> QED BY <1>1, <2>1, <2>2 DEF Range
<1>3. ASSUME NEW y \in Range(s) \cup {x} PROVE y \in Range(a)
  <2>1. 1..Len(s) \subseteq 1..(Len(s) + 1) /\ Len(s) + 1 \in 1..(Len(s) + 1)
    BY <1>1
  <2> QED BY <1>1, <2>1 DEF Range
<1>4. Range(a) = Range(s) \cup {x}
  BY <1>2, <1>3
<1> QED BY <1>4 DEF a

LEMMA RangeTail ==
  ASSUME NEW S, NEW s \in Seq(S), s # <<>>
  PROVE  Range(s) = {s[1]} \cup Range(Tail(s))
<1> DEFINE r == Tail(s)
<1>1. /\ DOMAIN s = 1..Len(s) /\ Len(s) \in Nat \ {0} /\ DOMAIN r = 1..(Len(s) - 1)
      /\ \A i \in 1..(Len(s) - 1) : r[i] = s[i + 1]
  OBVIOUS
<1> HIDE DEF r
<1>2. ASSUME NEW y \in Range(s) PROVE y \in {s[1]} \cup Range(r)
  <2>1. PICK i \in 1..Len(s) : y = s[i]
    BY <1>1 DEF Range
  <2>2. CASE i = 1
    BY <2>1, <2>2
  <2>3. CASE i # 1
    <3>1. i - 1 \in 1..(Len(s) - 1) /\ (i - 1) + 1 = i
      BY <1>1, <2>3
    <3>2. r[i - 1] = y
      BY <1>1, <2>1, <3>1
    <3> QED BY <1>1, <3>1, <3>2 DEF Range
  <2> QED BY <2>2, <2>3
<1>3. ASSUME NEW y \in {s[1]} \cup Range(r) PROVE y \in Range(s)
  <2>1. CASE y = s[1]
    BY <1>1, <2>1 DEF Range
  <2>2. CASE y \in Range(r)
    <3>1. PICK i \in 1..(Len(s) - 1) : y = r[i]
      BY <1>1, <2>2 DEF Range
    <3>2. i + 1 \in 1..Len(s) /\ y = s[i + 1]
      BY <1>1, <3>1
    <3> QED BY <1>1, <3>2 DEF Range
  <2> QED BY <1>3, <2>1, <2>2
<1>4. Range(s) = {s[1]} \cup Range(r)
  BY <1>2, <1>3
<1> QED BY <1>4 DEF r

LEMMA WaitingType ==
  ASSUME Types
  PROVE  /\ Waiting \in Seq(MessageSet)
         /\ printer.at = "printing" => Waiting = <<printer.message>> \o queue
         /\ printer.at # "printing" => Waiting = queue
<1>1. queue \in Seq(MessageSet)
  BY DEF Types
<1>2. CASE printer.at = "printing"
  <2>1. printer.message \in MessageSet
    BY <1>2 DEF Types
  <2>2. <<printer.message>> \in Seq(MessageSet)
    BY <2>1
  <2> QED BY <1>1, <1>2, <2>2 DEF Waiting
<1>3. CASE printer.at # "printing"
  <2>1. Waiting = <<>> \o queue
    BY <1>3 DEF Waiting
  <2> QED BY <1>1, <1>3, <2>1
<1> QED BY <1>2, <1>3

\* A message that is said comes last.
LEMMA SaysWaiting ==
  ASSUME Types, NEW t \in Threads, Says(t)
  PROVE  Waiting' = Append(Waiting, Message(t))
<1>1. /\ queue \in Seq(MessageSet) /\ Message(t) \in MessageSet
      /\ queue' = Append(queue, Message(t)) /\ printer' = printer
  BY SaysTypes DEF Types, Says
<1>2. CASE printer.at = "printing"
  <2>1. <<printer.message>> \in Seq(MessageSet)
    BY <1>2 DEF Types
  <2>2. Waiting' = <<printer.message>> \o Append(queue, Message(t))
    BY <1>1, <1>2 DEF Waiting
  <2>3. <<printer.message>> \o Append(queue, Message(t)) = Append(<<printer.message>> \o queue, Message(t))
    BY <1>1, <2>1
  <2> QED BY <1>2, <2>2, <2>3, WaitingType
<1>3. CASE printer.at # "printing"
  <2>1. Waiting' = <<>> \o Append(queue, Message(t))
    BY <1>1, <1>3 DEF Waiting
  <2> QED BY <1>1, <1>3, <2>1, WaitingType
<1> QED BY <1>2, <1>3

\* What the printer does to the messages that wait: nothing when it takes one, and the
\* first is gone when it has printed it.
LEMMA TakeWaiting ==
  ASSUME Types, Take
  PROVE  Waiting' = Waiting
<1>1. /\ queue \in Seq(MessageSet) /\ queue # <<>> /\ printer.at = "waiting"
      /\ queue' = Tail(queue) /\ printer'.at = "printing" /\ printer'.message = Head(queue)
  BY DEF Types, Take
<1>2. Waiting' = <<Head(queue)>> \o Tail(queue)
  BY <1>1 DEF Waiting
<1>3. <<Head(queue)>> \o Tail(queue) = queue
  BY <1>1
<1> QED BY <1>1, <1>2, <1>3, WaitingType

LEMMA PrintWaiting ==
  ASSUME Types, PrintMessage
  PROVE  \/ /\ Waiting # <<>> /\ Waiting' = Tail(Waiting)
            /\ console' = console \cup {Waiting[1]}
         \/ Waiting' = Waiting /\ console' = console
<1>1. printer.at = "printing" /\ queue' = queue /\ queue \in Seq(MessageSet) /\ printer.message \in MessageSet
  BY DEF Types, PrintMessage
<1>2. CASE UNCHANGED <<printer, console>>
  BY <1>1, <1>2 DEF Waiting
<1>3. CASE console' = console \cup {printer.message} /\ printer' = [printer EXCEPT !.at = "logging"]
  <2>1. printer'.at = "logging"
    BY <1>3 DEF Types
  <2>2. Waiting' = <<>> \o queue
    BY <1>1, <2>1 DEF Waiting
  <2>3. Waiting = <<printer.message>> \o queue
    BY <1>1, WaitingType
  <2>4. Waiting # <<>> /\ Waiting[1] = printer.message /\ Tail(Waiting) = queue
    BY <1>1, <2>3
  <2> QED BY <1>1, <1>3, <2>2, <2>4
<1> QED BY <1>2, <1>3 DEF PrintMessage

\* ConsoleFaithful speaks of nothing but what is said, printed and waiting.
LEMMA ConsoleSame ==
  ASSUME ConsoleFaithful, said' = said, console' = console, Waiting' = Waiting
  PROVE  ConsoleFaithful'
BY DEF ConsoleFaithful, Messages

LEMMA ConsoleSays ==
  ASSUME Types, ConsoleFaithful, NEW t \in Threads, Says(t)
  PROVE  ConsoleFaithful'
<1> DEFINE m == Message(t)  w == Waiting
<1>1. /\ Waiting' = Append(w, m) /\ w \in Seq(MessageSet) /\ m \in MessageSet
      /\ console' = console /\ console \subseteq MessageSet
      /\ said' = [said EXCEPT ![t] = @ + 1] /\ said \in [Threads -> Nat]
      /\ m.from = t /\ m.n = said[t] + 1
  BY SaysWaiting, SaysTypes, WaitingType DEF Says, Message, Types
<1> HIDE DEF m, w
<1>2. \A x \in Messages : x.from = t => x.n < m.n
  <2> SUFFICES ASSUME NEW x \in Messages, x.from = t PROVE x.n < m.n
    OBVIOUS
  <2>1. x.n \in 1..said[t]
    BY DEF ConsoleFaithful
  <2> QED BY <1>1, <2>1
<1>3. Messages' = Messages \cup {m}
  <2>1. Range(Append(w, m)) = Range(w) \cup {m}
    BY <1>1, RangeAppend
  <2>2. Range(Waiting)' = Range(Waiting')
    BY DEF Range
  <2> QED BY <1>1, <2>1, <2>2 DEF Messages, w
<1>4. \A u \in Threads : {x.n : x \in {x \in Messages' : x.from = u}} = 1..said'[u]
  <2> SUFFICES ASSUME NEW u \in Threads PROVE {x.n : x \in {x \in Messages' : x.from = u}} = 1..said'[u]
    OBVIOUS
  <2>1. {x.n : x \in {x \in Messages : x.from = u}} = 1..said[u]
    BY DEF ConsoleFaithful
  <2>2. CASE u = t
    <3>1. {x.n : x \in {x \in Messages' : x.from = t}} = {x.n : x \in {x \in Messages : x.from = t}} \cup {m.n}
      BY <1>1, <1>3
    <3>2. said'[t] = said[t] + 1 /\ said[t] \in Nat
      BY <1>1
    <3>3. 1..said'[t] = 1..said[t] \cup {said[t] + 1}
      BY <3>2
    <3> QED BY <1>1, <2>1, <2>2, <3>1, <3>3
  <2>3. CASE u # t
    <3>1. {x \in Messages' : x.from = u} = {x \in Messages : x.from = u}
      BY <1>1, <1>3, <2>3
    <3>2. said'[u] = said[u]
      BY <1>1, <2>3
    <3> QED BY <2>1, <3>1, <3>2
  <2> QED BY <2>2, <2>3
<1>5. ASSUME NEW i \in DOMAIN Waiting'
      PROVE  /\ \A x \in console' : x.from = Waiting'[i].from => x.n < Waiting'[i].n
             /\ \A j \in 1..(i - 1) : Waiting'[j].from = Waiting'[i].from => Waiting'[j].n < Waiting'[i].n
  <2>1. i \in 1..(Len(w) + 1) /\ Len(w) \in Nat /\ DOMAIN w = 1..Len(w)
    BY <1>1, <1>5
  <2>2. \A j \in 1..Len(w) : Waiting'[j] = w[j]
    BY <1>1
  <2>3. CASE i = Len(w) + 1
    <3>1. Waiting'[i] = m
      BY <1>1, <2>3
    <3>2. \A j \in 1..(i - 1) : Waiting'[j] \in Messages
      BY <2>1, <2>2, <2>3 DEF Messages, Range, w
    <3>3. \A x \in console' : x \in Messages
      BY <1>1 DEF Messages
    <3> QED BY <1>1, <1>2, <3>1, <3>2, <3>3
  <2>4. CASE i \in 1..Len(w)
    BY <1>1, <2>1, <2>2, <2>4 DEF ConsoleFaithful, w
  <2> QED BY <2>1, <2>3, <2>4
<1> QED BY <1>4, <1>5 DEF ConsoleFaithful

LEMMA ConsolePrints ==
  ASSUME Types, ConsoleFaithful, PrintMessage
  PROVE  ConsoleFaithful'
<1>1. said' = said /\ Waiting \in Seq(MessageSet)
  BY WaitingType DEF PrintMessage
<1>2. CASE Waiting' = Waiting /\ console' = console
  BY <1>1, <1>2, ConsoleSame
<1>3. CASE Waiting # <<>> /\ Waiting' = Tail(Waiting) /\ console' = console \cup {Waiting[1]}
  <2> DEFINE w == Waiting
  <2>1. /\ Len(w) \in Nat \ {0} /\ DOMAIN w = 1..Len(w) /\ DOMAIN Waiting' = 1..(Len(w) - 1)
        /\ \A i \in 1..(Len(w) - 1) : Waiting'[i] = w[i + 1]
    BY <1>1, <1>3
  <2> HIDE DEF w
  <2>2. Messages' = Messages
    <3>1. Range(w) = {w[1]} \cup Range(Tail(w))
      BY <1>1, <1>3, RangeTail DEF w
    <3>2. Range(Waiting)' = Range(Tail(w))
      BY <1>3 DEF Range, w
    <3> QED BY <1>3, <3>1, <3>2 DEF Messages, w
  <2>3. ASSUME NEW i \in DOMAIN Waiting'
        PROVE  /\ \A x \in console' : x.from = Waiting'[i].from => x.n < Waiting'[i].n
               /\ \A j \in 1..(i - 1) : Waiting'[j].from = Waiting'[i].from => Waiting'[j].n < Waiting'[i].n
    <3>1. i + 1 \in DOMAIN w /\ Waiting'[i] = w[i + 1] /\ 1 \in 1..((i + 1) - 1)
      BY <2>1
    <3>2. /\ \A x \in console : x.from = w[i + 1].from => x.n < w[i + 1].n
          /\ \A j \in 1..((i + 1) - 1) : w[j].from = w[i + 1].from => w[j].n < w[i + 1].n
      BY <3>1 DEF ConsoleFaithful, w
    <3>3. \A x \in console' : x.from = Waiting'[i].from => x.n < Waiting'[i].n
      BY <1>3, <3>1, <3>2 DEF w
    <3>4. \A j \in 1..(i - 1) : j + 1 \in 1..((i + 1) - 1) /\ Waiting'[j] = w[j + 1]
      BY <2>1
    <3> QED BY <3>1, <3>2, <3>3, <3>4
  <2> QED BY <1>1, <2>2, <2>3 DEF ConsoleFaithful
<1> QED BY <1>2, <1>3, PrintWaiting

LEMMA StepConsole == Types /\ ConsoleFaithful /\ [Next]_vars => ConsoleFaithful'
<1> SUFFICES ASSUME Types, ConsoleFaithful, [Next]_vars PROVE ConsoleFaithful'
  OBVIOUS
<1>1. CASE \E t \in Threads : Says(t)
  BY <1>1, ConsoleSays
<1>2. CASE UNCHANGED printing
  <2>1. Waiting' = Waiting
    BY <1>2 DEF printing, Waiting
  <2> QED BY <1>2, <2>1, ConsoleSame DEF printing
<1>3. CASE LoadConfig \/ InitLogger \/ LoadUsers \/ UsersLoaded \/ Listen
  BY <1>1, <1>2, <1>3, ThreadsAre DEF LoadConfig, InitLogger, LoadUsers, UsersLoaded, Listen
<1>4. CASE Fail \/ Return \/ End \/ Accept \/ NoThread
  BY <1>1, <1>2, <1>4, ThreadsAre DEF Fail, Return, End, Accept, NoThread
<1>5. ASSUME NEW t \in Sessions \cup Restarts,
             LoadCount(t) \/ AddToCount(t) \/ StopThread(t) \/ Talk(t) \/ StartRestart(t)
      PROVE  ConsoleFaithful'
  BY <1>1, <1>2, <1>5, ThreadsAre DEF LoadCount, AddToCount, StopThread, Talk, StartRestart
<1>6. CASE InitConsole
  <2>1. printer.at # "printing" /\ printer'.at # "printing" /\ queue' = queue
    BY <1>6 DEF InitConsole, Types
  <2>2. Waiting' = Waiting
    BY <2>1 DEF Waiting
  <2> QED BY <1>6, <2>2, ConsoleSame DEF InitConsole
<1>7. CASE Take
  BY <1>7, TakeWaiting, ConsoleSame DEF Take
<1>8. CASE PrintMessage
  BY <1>8, ConsolePrints
<1>9. CASE LogMessage
  <2>1. printer.at # "printing" /\ printer'.at # "printing" /\ queue' = queue
    BY <1>9 DEF LogMessage, Types
  <2>2. Waiting' = Waiting
    BY <2>1 DEF Waiting
  <2> QED BY <1>9, <2>2, ConsoleSame DEF LogMessage
<1>10. CASE UNCHANGED vars
  BY <1>2, <1>10 DEF vars, printing
<1> QED BY <1>3, <1>4, <1>5, <1>6, <1>7, <1>8, <1>9, <1>10 DEF Next

\* Whatever threads queue and whenever the printer runs, no message is lost, doubled or
\* taken out of the order of its thread on its way to the console.
THEOREM ConsoleSafe == Spec => []ConsoleFaithful
<1>1. Init => ConsoleFaithful
  <2> SUFFICES ASSUME Init PROVE ConsoleFaithful
    OBVIOUS
  <2>1. Waiting = <<>>
    BY DEF Init, Waiting
  <2>2. Messages = {}
    BY <2>1 DEF Init, Messages, Range
  <2>3. \A t \in Threads : 1..said[t] = {}
    BY DEF Init
  <2> QED BY <2>1, <2>2, <2>3 DEF ConsoleFaithful
<1> QED BY <1>1, InitTypes, StepTypes, StepConsole, PTL DEF Spec

-----------------------------------------------------------------------------
(* Indices of sessions.                                                    *)

Drawn(t) == thread[t].at \in {"drawing", "talking", "over"}

\* An index below the count was drawn by a session that has increased it, and two sessions
\* have one index only when both had loaded the count before one of them increased it.
IndicesDiffer ==
  /\ \A t \in Sessions :
       /\ thread[t].at \in {"talking", "over"} => thread[t].index < count
       /\ thread[t].at = "drawing" => thread[t].index <= count
  /\ \A s, t \in Sessions :
       s # t /\ Drawn(s) /\ Drawn(t) /\ thread[s].index = thread[t].index => {s, t} \in together

\* A message of a session has its index, and the main thread has none.
LabelsAreIndices ==
  \A m \in Messages :
    /\ m.from \in Sessions => /\ thread[m.from].at \in {"talking", "over"}
                              /\ m.label = <<thread[m.from].index>>
    /\ m.from = "main" => m.label = <<>>

\* Sessions go through their places in this order, and keep their index once they drew it.
ThreadsGoOn ==
  \A t \in Sessions : thread[t].at \in {"talking", "over"} =>
    thread'[t].at \in {"talking", "over"} /\ thread'[t].index = thread[t].index

LEMMA StepIndices ==
  ASSUME Types, IndicesDiffer, [Next]_vars
  PROVE  IndicesDiffer' /\ ThreadsGoOn
<1>1. CASE UNCHANGED sessions
  BY <1>1 DEF IndicesDiffer, ThreadsGoOn, Drawn, sessions
<1>2. ASSUME NEW t \in Sessions \cup Restarts, NEW where, Goes(t, where),
             UNCHANGED <<count, together>>,
             \/ thread[t].at = "none" /\ where = "new"
             \/ t \in Restarts
             \/ thread[t].at = "talking" /\ where = "over"
      PROVE  IndicesDiffer' /\ ThreadsGoOn
  <2>1. \A s \in Sessions : s # t => thread'[s] = thread[s]
    BY <1>2 DEF Goes, Types
  <2>2. t \in Sessions => thread'[t].at = where /\ thread'[t].index = thread[t].index
    BY <1>2 DEF Goes, Types
  <2> QED BY <1>2, <2>1, <2>2, ProcessAssumption DEF IndicesDiffer, ThreadsGoOn, Drawn
<1>3. ASSUME NEW t \in Sessions, LoadCount(t) PROVE IndicesDiffer' /\ ThreadsGoOn
  <2>1. /\ \A s \in Sessions : s # t => thread'[s] = thread[s]
        /\ thread'[t].at = "drawing" /\ thread'[t].index = count
        /\ count' = count /\ count \in Nat /\ thread[t].at = "new"
        /\ together' = together \cup {{s, t} : s \in Drawing}
    BY <1>3 DEF LoadCount, Types
  <2>2. ThreadsGoOn
    BY <2>1 DEF ThreadsGoOn
  <2>3. ASSUME NEW s \in Sessions, s # t, Drawn(s)', thread'[s].index = count
        PROVE  {s, t} \in together'
    <3>1. thread[s].at = "drawing"
      BY <2>1, <2>3 DEF Drawn, IndicesDiffer, Types
    <3> QED BY <2>1, <3>1 DEF Drawing
  <2>4. ASSUME NEW r \in Sessions, NEW s \in Sessions, r # s, Drawn(r)', Drawn(s)',
               thread'[r].index = thread'[s].index
        PROVE  {r, s} \in together'
    <3>1. CASE r = t
      <4>1. {s, r} \in together'
        BY <2>1, <2>3, <2>4, <3>1
      <4>2. {s, r} = {r, s}
        OBVIOUS
      <4> QED BY <4>1, <4>2
    <3>2. CASE s = t
      BY <2>1, <2>3, <2>4, <3>2
    <3>3. CASE r # t /\ s # t
      BY <2>1, <2>4, <3>3 DEF IndicesDiffer, Drawn
    <3> QED BY <3>1, <3>2, <3>3
  <2>5. \A s \in Sessions :
          /\ thread'[s].at \in {"talking", "over"} => thread'[s].index < count'
          /\ thread'[s].at = "drawing" => thread'[s].index <= count'
    BY <2>1 DEF IndicesDiffer
  <2> QED BY <2>2, <2>4, <2>5 DEF IndicesDiffer
<1>4. ASSUME NEW t \in Sessions, AddToCount(t) PROVE IndicesDiffer' /\ ThreadsGoOn
  <2>1. /\ \A s \in Sessions : s # t => thread'[s] = thread[s]
        /\ thread'[t].at = "talking" /\ thread'[t].index = thread[t].index /\ thread[t].at = "drawing"
        /\ count' = count + 1 /\ count \in Nat /\ together' = together
        /\ \A s \in Sessions : thread[s].index \in Nat
    BY <1>4 DEF AddToCount, Goes, Types
  <2>2. ThreadsGoOn
    BY <2>1 DEF ThreadsGoOn
  <2>3. \A s \in Sessions : /\ Drawn(s)' <=> Drawn(s)
                            /\ thread'[s].index = thread[s].index
    BY <2>1 DEF Drawn
  <2>4. \A s \in Sessions :
          /\ thread'[s].at \in {"talking", "over"} => thread'[s].index < count'
          /\ thread'[s].at = "drawing" => thread'[s].index <= count'
    BY <2>1 DEF IndicesDiffer
  <2> QED BY <2>1, <2>2, <2>3, <2>4 DEF IndicesDiffer
<1>5. CASE LoadConfig \/ InitLogger \/ InitConsole \/ LoadUsers \/ UsersLoaded \/ Listen
  BY <1>1, <1>5 DEF LoadConfig, InitLogger, InitConsole, LoadUsers, UsersLoaded, Listen
<1>6. CASE Fail \/ Return \/ End \/ NoThread
  BY <1>1, <1>6 DEF Fail, Return, End, NoThread
<1>7. CASE Accept
  BY <1>1, <1>2, <1>7 DEF Accept, sessions
<1>8. ASSUME NEW t \in Sessions, StopThread(t) PROVE IndicesDiffer' /\ ThreadsGoOn
  BY <1>2, <1>8 DEF StopThread
<1>9. ASSUME NEW t \in Sessions \cup Restarts, Talk(t) PROVE IndicesDiffer' /\ ThreadsGoOn
  BY <1>1, <1>9 DEF Talk
<1>10. ASSUME NEW t \in Restarts, StartRestart(t) PROVE IndicesDiffer' /\ ThreadsGoOn
  BY <1>2, <1>10 DEF StartRestart
<1>11. CASE Take \/ PrintMessage \/ LogMessage
  BY <1>1, <1>11 DEF Take, PrintMessage, LogMessage
<1>12. CASE UNCHANGED vars
  BY <1>1, <1>12 DEF vars, sessions
<1> QED BY <1>3, <1>4, <1>5, <1>6, <1>7, <1>8, <1>9, <1>10, <1>11, <1>12 DEF Next

\* The only message a step adds is one that is said.
LEMMA SaysMessages ==
  ASSUME Types, NEW t \in Threads, Says(t)
  PROVE  Messages' = Messages \cup {Message(t)}
<1>1. /\ Waiting' = Append(Waiting, Message(t)) /\ Waiting \in Seq(MessageSet)
      /\ Message(t) \in MessageSet /\ console' = console
  BY SaysWaiting, SaysTypes, WaitingType
<1>2. Range(Append(Waiting, Message(t))) = Range(Waiting) \cup {Message(t)}
  BY <1>1, RangeAppend
<1>3. Range(Waiting)' = Range(Waiting')
  BY DEF Range
<1> QED BY <1>1, <1>2, <1>3 DEF Messages

LEMMA PrinterMessages ==
  ASSUME Types, Take \/ PrintMessage \/ LogMessage
  PROVE  Messages' = Messages
<1>1. CASE Take
  BY <1>1, TakeWaiting DEF Take, Messages
<1>2. CASE PrintMessage
  <2>1. CASE Waiting' = Waiting /\ console' = console
    BY <2>1 DEF Messages
  <2>2. CASE Waiting # <<>> /\ Waiting' = Tail(Waiting) /\ console' = console \cup {Waiting[1]}
    <3>1. Range(Waiting) = {Waiting[1]} \cup Range(Tail(Waiting))
      BY <2>2, WaitingType, RangeTail
    <3>2. Range(Waiting)' = Range(Tail(Waiting))
      BY <2>2 DEF Range
    <3> QED BY <2>2, <3>1, <3>2 DEF Messages
  <2> QED BY <1>2, <2>1, <2>2, PrintWaiting
<1>3. CASE LogMessage
  <2>1. printer.at # "printing" /\ printer'.at # "printing" /\ queue' = queue /\ console' = console
    BY <1>3 DEF LogMessage, Types
  <2> QED BY <2>1 DEF Messages, Waiting
<1> QED BY <1>1, <1>2, <1>3

LEMMA StepLabels ==
  ASSUME Types, LabelsAreIndices, ThreadsGoOn, [Next]_vars
  PROVE  LabelsAreIndices'
<1>1. ASSUME Messages' = Messages PROVE LabelsAreIndices'
  BY <1>1 DEF LabelsAreIndices, ThreadsGoOn
<1>2. ASSUME NEW t \in Threads, Says(t), t \in Sessions => thread[t].at = "talking"
      PROVE  LabelsAreIndices'
  <2>1. Messages' = Messages \cup {Message(t)}
    BY <1>2, SaysMessages
  <2>2. Message(t).from = t /\ Message(t).label = Label(t)
    BY DEF Message
  <2>3. t \in Sessions => t # "main"
    BY ProcessAssumption
  <2> QED BY <1>2, <2>1, <2>2, <2>3 DEF LabelsAreIndices, ThreadsGoOn, Label
<1>3. CASE UNCHANGED printing
  BY <1>1, <1>3 DEF printing, Messages, Waiting
<1>4. ASSUME Says("main") PROVE LabelsAreIndices'
  BY <1>2, <1>4, ThreadsAre, ProcessAssumption
<1>5. CASE LoadConfig \/ InitLogger \/ LoadUsers \/ UsersLoaded \/ Listen
  BY <1>3, <1>4, <1>5 DEF LoadConfig, InitLogger, LoadUsers, UsersLoaded, Listen
<1>6. CASE Fail \/ Return \/ End \/ Accept \/ NoThread
  BY <1>3, <1>4, <1>6 DEF Fail, Return, End, Accept, NoThread
<1>7. ASSUME NEW t \in Sessions \cup Restarts, LoadCount(t) \/ AddToCount(t) \/ StartRestart(t)
      PROVE  LabelsAreIndices'
  BY <1>3, <1>7 DEF LoadCount, AddToCount, StartRestart
<1>8. ASSUME NEW t \in Sessions \cup Restarts, Talk(t) \/ StopThread(t) PROVE LabelsAreIndices'
  BY <1>2, <1>8, ThreadsAre DEF Talk, StopThread
<1>9. CASE InitConsole
  <2>1. printer.at # "printing" /\ printer'.at # "printing" /\ queue' = queue /\ console' = console
    BY <1>9 DEF InitConsole, Types
  <2>2. Messages' = Messages
    BY <2>1 DEF Messages, Waiting
  <2> QED BY <1>1, <2>2
<1>10. CASE Take \/ PrintMessage \/ LogMessage
  BY <1>1, <1>10, PrinterMessages
<1>11. CASE UNCHANGED vars
  BY <1>3, <1>11 DEF vars, printing
<1> QED BY <1>5, <1>6, <1>7, <1>8, <1>9, <1>10, <1>11 DEF Next

LEMMA IndicesTell ==
  ASSUME Types, IndicesDiffer, LabelsAreIndices
  PROVE  LabelTells
<1> SUFFICES ASSUME NEW x \in Messages, NEW y \in Messages, x.label = y.label, x.from # y.from,
                    {x.from, y.from} \cap Restarts = {}
             PROVE  {x.from, y.from} \in together
  BY DEF LabelTells
<1>1. \A m \in Messages : m.from \in Threads
  <2>1. Range(Waiting) \subseteq MessageSet
    BY WaitingType DEF Range
  <2> QED BY <2>1 DEF Messages, Types, MessageSet
<1>2. x.from \in Sessions \cup {"main"} /\ y.from \in Sessions \cup {"main"}
  BY <1>1 DEF Threads
<1>3. x.from \in Sessions /\ y.from \in Sessions
  <2>1. \A m \in Messages : /\ m.from \in Sessions => m.label = <<thread[m.from].index>>
                            /\ m.from = "main" => m.label = <<>>
    BY DEF LabelsAreIndices
  <2>2. \A i : <<i>> # <<>>
    OBVIOUS
  <2>3. ASSUME NEW m \in Messages, NEW k \in Messages, m.label = k.label,
               m.from \in Sessions, k.from = "main"
        PROVE  FALSE
    BY <2>1, <2>2, <2>3
  <2> QED BY <1>2, <2>3
<1>4. thread[x.from].index = thread[y.from].index
  BY <1>3 DEF LabelsAreIndices
<1> QED BY <1>3, <1>4 DEF LabelsAreIndices, IndicesDiffer, Drawn

\* However many sessions there are, two of them print under one index only when both drew
\* it at the same time.
THEOREM LabelsSafe == Spec => []LabelTells
<1>1. Init => IndicesDiffer /\ LabelsAreIndices
  <2> SUFFICES ASSUME Init PROVE IndicesDiffer /\ LabelsAreIndices
    OBVIOUS
  <2>1. Messages = {}
    BY DEF Init, Messages, Waiting, Range
  <2>2. \A t \in Sessions : thread[t].at = "none"
    BY DEF Init
  <2> QED BY <2>1, <2>2 DEF IndicesDiffer, LabelsAreIndices, Drawn
<1>2. Types /\ IndicesDiffer /\ LabelsAreIndices /\ [Next]_vars => IndicesDiffer' /\ LabelsAreIndices'
  BY StepIndices, StepLabels
<1> QED BY <1>1, <1>2, InitTypes, StepTypes, IndicesTell, PTL DEF Spec

-----------------------------------------------------------------------------
(* The bounds of the counters.                                             *)

Counted == {t \in Sessions : thread[t].at \in {"talking", "over"}}

\* Each session adds to the count once, and an index was the count at some time.
CountIsOfSessions ==
  /\ count = Cardinality(Counted)
  /\ \A t \in Sessions \cup Restarts : thread[t].index <= count

\* What a thread can have said where it is.
Bound(t) ==
  IF t = "main"
  THEN IF main \in {"config", "logger", "console", "users"} THEN 0
       ELSE IF main \in {"loading", "listening"} THEN 1
       ELSE IF main \in {"serving", "failed"} THEN MaxMessages["main"] + 2
       ELSE MaxMessages["main"] + 3
  ELSE IF thread[t].at = "talking" THEN MaxMessages[t]
       ELSE IF thread[t].at = "over" THEN MaxMessages[t] + 1 ELSE 0

SaidWithin == \A t \in Threads : said[t] <= Bound(t)

LEMMA CountedFinite ==
  IsFiniteSet(Counted) /\ Cardinality(Counted) \in Nat /\ Cardinality(Counted) <= Cardinality(Sessions)
  /\ Cardinality(Sessions) \in Nat
<1>1. Counted \subseteq Sessions
  BY DEF Counted
<1> QED BY <1>1, ProcessAssumption, FS_Subset, FS_CardinalityType

LEMMA StepCount == Types /\ CountIsOfSessions /\ [Next]_vars => CountIsOfSessions'
<1> SUFFICES ASSUME Types, CountIsOfSessions, [Next]_vars PROVE CountIsOfSessions'
  OBVIOUS
<1>1. CASE UNCHANGED sessions
  <2>1. Counted' = Counted
    BY <1>1 DEF Counted, sessions
  <2> QED BY <1>1, <2>1 DEF CountIsOfSessions, sessions
<1>2. ASSUME NEW t \in Sessions \cup Restarts, NEW where, Goes(t, where), UNCHANGED count,
             \/ thread[t].at = "none" /\ where = "new"
             \/ t \in Restarts
             \/ thread[t].at = "talking" /\ where = "over"
      PROVE  CountIsOfSessions'
  <2>1. \A s \in Sessions \cup Restarts : s # t => thread'[s] = thread[s]
    BY <1>2 DEF Goes, Types
  <2>2. thread'[t].at = where /\ thread'[t].index = thread[t].index
    BY <1>2 DEF Goes, Types
  <2>3. Counted' = Counted
    BY <1>2, <2>1, <2>2, ProcessAssumption DEF Counted
  <2> QED BY <1>2, <2>1, <2>2, <2>3 DEF CountIsOfSessions
<1>3. ASSUME NEW t \in Sessions, LoadCount(t) PROVE CountIsOfSessions'
  <2>1. /\ \A s \in Sessions \cup Restarts : s # t => thread'[s] = thread[s]
        /\ thread'[t].at = "drawing" /\ thread'[t].index = count
        /\ count' = count /\ count \in Nat /\ thread[t].at = "new"
    BY <1>3 DEF LoadCount, Types
  <2>2. Counted' = Counted
    BY <2>1 DEF Counted
  <2> QED BY <2>1, <2>2 DEF CountIsOfSessions
<1>4. ASSUME NEW t \in Sessions, AddToCount(t) PROVE CountIsOfSessions'
  <2>1. /\ \A s \in Sessions \cup Restarts : s # t => thread'[s] = thread[s]
        /\ thread'[t].at = "talking" /\ thread'[t].index = thread[t].index /\ thread[t].at = "drawing"
        /\ count' = count + 1 /\ count \in Nat
        /\ \A s \in Sessions \cup Restarts : thread[s].index \in Nat
    BY <1>4 DEF AddToCount, Goes, Types
  <2>2. Counted' = Counted \cup {t} /\ t \notin Counted
    BY <2>1 DEF Counted
  <2>3. Cardinality(Counted') = Cardinality(Counted) + 1
    BY <2>2, CountedFinite, FS_AddElement
  <2>4. \A s \in Sessions \cup Restarts : thread'[s].index <= count'
    BY <2>1 DEF CountIsOfSessions
  <2> QED BY <2>1, <2>3, <2>4 DEF CountIsOfSessions
<1>5. CASE LoadConfig \/ InitLogger \/ InitConsole \/ LoadUsers \/ UsersLoaded \/ Listen
  BY <1>1, <1>5 DEF LoadConfig, InitLogger, InitConsole, LoadUsers, UsersLoaded, Listen
<1>6. CASE Fail \/ Return \/ End \/ NoThread
  BY <1>1, <1>6 DEF Fail, Return, End, NoThread
<1>7. CASE Accept
  BY <1>1, <1>2, <1>7 DEF Accept, sessions
<1>8. ASSUME NEW t \in Sessions, StopThread(t) PROVE CountIsOfSessions'
  BY <1>2, <1>8 DEF StopThread
<1>9. ASSUME NEW t \in Sessions \cup Restarts, Talk(t) PROVE CountIsOfSessions'
  BY <1>1, <1>9 DEF Talk
<1>10. ASSUME NEW t \in Restarts, StartRestart(t) PROVE CountIsOfSessions'
  BY <1>2, <1>10 DEF StartRestart
<1>11. CASE Take \/ PrintMessage \/ LogMessage
  BY <1>1, <1>11 DEF Take, PrintMessage, LogMessage
<1>12. CASE UNCHANGED vars
  BY <1>1, <1>12 DEF vars, sessions
<1> QED BY <1>3, <1>4, <1>5, <1>6, <1>7, <1>8, <1>9, <1>10, <1>11, <1>12 DEF Next

LEMMA BoundsAre ==
  ASSUME Types, NEW t \in Threads
  PROVE  Bound(t) \in Nat /\ Bound(t) <= MaxMessages[t] + 3 /\ said[t] \in Nat /\ MaxMessages[t] \in Nat
<1>1. MaxMessages[t] \in Nat /\ said[t] \in Nat
  BY ProcessAssumption DEF Threads, Types
<1> QED BY <1>1 DEF Bound

\* Nobody speaks and no bound becomes lower; or one thread does, whose bound becomes higher
\* or was not reached.
LEMMA SilentWithin ==
  ASSUME Types, SaidWithin, UNCHANGED said,
         \A t \in Threads : Bound(t)' = Bound(t) \/ Bound(t) <= Bound(t)'
  PROVE  SaidWithin'
<1> SUFFICES ASSUME NEW t \in Threads PROVE said[t] <= Bound(t)'
  BY DEF SaidWithin
<1>1. said[t] \in Nat /\ Bound(t) \in Nat /\ said[t] <= Bound(t) /\ MaxMessages[t] \in Nat
  BY BoundsAre DEF SaidWithin
<1>2. Bound(t)' \in Nat
  BY <1>1 DEF Bound
<1>3. PICK x : x = Bound(t)'
  OBVIOUS
<1>4. x \in Nat /\ (x = Bound(t) \/ Bound(t) <= x)
  BY <1>2, <1>3
<1> QED BY <1>1, <1>3, <1>4

LEMMA SaysWithin ==
  ASSUME Types, SaidWithin, NEW t \in Threads, Says(t),
         \A u \in Threads \ {t} : Bound(u)' = Bound(u),
         Bound(t)' \in Nat, said[t] + 1 <= Bound(t)'
  PROVE  SaidWithin'
<1>1. said'[t] = said[t] + 1 /\ \A u \in Threads \ {t} : said'[u] = said[u]
  BY DEF Says, Types
<1> QED BY <1>1 DEF SaidWithin

LEMMA StepSaid == Types /\ SaidWithin /\ [Next]_vars => SaidWithin'
<1> SUFFICES ASSUME Types, SaidWithin, [Next]_vars PROVE SaidWithin'
  OBVIOUS
<1> USE ThreadsAre
<1>1. ASSUME UNCHANGED thread PROVE \A t \in Threads \ {"main"} : Bound(t)' = Bound(t)
  BY <1>1 DEF Bound
<1>2. ASSUME UNCHANGED main PROVE Bound("main")' = Bound("main")
  BY <1>2 DEF Bound
<1>3. MaxMessages["main"] \in Nat /\ said["main"] \in Nat /\ said["main"] <= Bound("main")
  BY BoundsAre DEF SaidWithin
<1>4. ASSUME UNCHANGED <<said, thread>>, Bound("main") <= Bound("main")' PROVE SaidWithin'
  BY <1>1, <1>4, SilentWithin
<1>5. ASSUME Says("main"), UNCHANGED thread, said["main"] + 1 <= Bound("main")' PROVE SaidWithin'
  <2>1. Bound("main")' \in Nat
    BY <1>3 DEF Bound
  <2> QED BY <1>1, <1>5, <2>1, SaysWithin
<1>6. ASSUME UNCHANGED <<main, thread, said>> PROVE SaidWithin'
  <2>1. Bound("main") <= Bound("main")'
    BY <1>2, <1>6, BoundsAre
  <2> QED BY <1>4, <1>6, <2>1
<1>7. CASE LoadConfig
  <2>1. CASE file.unresolved
    BY <1>3, <1>5, <1>7, <2>1 DEF LoadConfig, sessions, Bound
  <2>2. CASE ~file.unresolved
    BY <1>3, <1>4, <1>7, <2>2 DEF LoadConfig, sessions, printing, Bound
  <2> QED BY <2>1, <2>2
<1>8. CASE InitLogger \/ InitConsole
  BY <1>3, <1>4, <1>8 DEF InitLogger, InitConsole, sessions, printing, Bound
<1>9. CASE LoadUsers
  BY <1>3, <1>5, <1>9 DEF LoadUsers, sessions, Bound
<1>10. CASE UsersLoaded
  BY <1>3, <1>4, <1>10 DEF UsersLoaded, sessions, printing, Bound
<1>11. CASE Listen
  <2>1. CASE Says("main")
    BY <1>3, <1>5, <1>11, <2>1 DEF Listen, sessions, Bound
  <2>2. CASE UNCHANGED printing
    BY <1>3, <1>4, <1>11, <2>2 DEF Listen, sessions, printing, Bound
  <2> QED BY <1>11, <2>1, <2>2 DEF Listen
<1>12. CASE Fail
  BY <1>3, <1>5, <1>12 DEF Fail, sessions, Bound
<1>13. CASE Return \/ End \/ NoThread
  BY <1>3, <1>4, <1>13 DEF Return, End, NoThread, sessions, printing, Bound
<1>14. ASSUME NEW t \in Sessions \cup Restarts, UNCHANGED <<main, said>>,
              \A s \in Sessions \cup Restarts : s # t => thread'[s] = thread[s],
              thread[t].at \in {"none", "new", "drawing"}
       PROVE  SaidWithin'
  <2>1. \A s \in Threads : s # t => Bound(s)' = Bound(s)
    BY <1>14 DEF Bound, Threads
  <2>2. Bound(t) = 0
    BY <1>14 DEF Bound
  <2>3. Bound(t)' \in Nat
    <3>1. MaxMessages[t] \in Nat
      BY BoundsAre
    <3> QED BY <3>1, <1>14 DEF Bound
  <2>4. \A s \in Threads : Bound(s)' = Bound(s) \/ Bound(s) <= Bound(s)'
    BY <2>1, <2>2, <2>3
  <2> QED BY <1>14, <2>4, SilentWithin
<1>15. CASE Accept
  <2>1. CASE said["main"] < MaxMessages["main"] + 2 /\ Says("main") /\ UNCHANGED thread
    <3>1. Bound("main")' = MaxMessages["main"] + 2
      BY <1>15 DEF Accept, Bound
    <3>2. said["main"] + 1 <= Bound("main")'
      BY <1>3, <2>1, <3>1
    <3> QED BY <1>5, <2>1, <3>2
  <2>2. ASSUME NEW t \in Sessions, thread[t].at = "none", Goes(t, "new"), UNCHANGED printing
        PROVE  SaidWithin'
    <3>1. \A s \in Sessions \cup Restarts : s # t => thread'[s] = thread[s]
      BY <2>2 DEF Goes, Types
    <3> QED BY <1>14, <1>15, <2>2, <3>1 DEF Accept, printing
  <2> QED BY <1>15, <2>1, <2>2 DEF Accept
<1>16. ASSUME NEW t \in Sessions, LoadCount(t) \/ AddToCount(t) PROVE SaidWithin'
  <2>1. \A s \in Sessions \cup Restarts : s # t => thread'[s] = thread[s]
    BY <1>16 DEF LoadCount, AddToCount, Goes, Types
  <2> QED BY <1>14, <1>16, <2>1 DEF LoadCount, AddToCount, printing
<1>17. ASSUME NEW t \in Restarts, StartRestart(t) PROVE SaidWithin'
  <2>1. \A s \in Sessions \cup Restarts : s # t => thread'[s] = thread[s]
    BY <1>17 DEF StartRestart, Goes, Types
  <2> QED BY <1>14, <1>17, <2>1 DEF StartRestart, printing
<1>18. ASSUME NEW t \in Sessions \cup Restarts, Talk(t) PROVE SaidWithin'
  <2>1. UNCHANGED <<main, thread>> /\ thread[t].at = "talking" /\ said[t] < MaxMessages[t] /\ Says(t)
    BY <1>18 DEF Talk, sessions
  <2>2. \A u \in Threads : Bound(u)' = Bound(u)
    BY <2>1 DEF Bound
  <2>3. Bound(t) = MaxMessages[t] /\ MaxMessages[t] \in Nat /\ said[t] \in Nat
    BY <2>1, BoundsAre DEF Bound
  <2>4. Bound(t)' \in Nat /\ said[t] + 1 <= Bound(t)'
    BY <2>1, <2>2, <2>3
  <2> QED BY <2>1, <2>2, <2>4, SaysWithin
<1>19. ASSUME NEW t \in Sessions, StopThread(t) PROVE SaidWithin'
  <2>1. /\ UNCHANGED main /\ thread[t].at = "talking" /\ Says(t) /\ thread'[t].at = "over"
        /\ \A s \in Sessions \cup Restarts : s # t => thread'[s] = thread[s]
    BY <1>19 DEF StopThread, Goes, Types
  <2>2. \A u \in Threads \ {t} : Bound(u)' = Bound(u)
    BY <2>1 DEF Bound, Threads
  <2>3. /\ Bound(t) = MaxMessages[t] /\ Bound(t)' = MaxMessages[t] + 1
        /\ MaxMessages[t] \in Nat /\ said[t] \in Nat /\ said[t] <= Bound(t)
    BY <2>1, BoundsAre DEF Bound, SaidWithin
  <2>4. Bound(t)' \in Nat /\ said[t] + 1 <= Bound(t)'
    BY <2>3
  <2> QED BY <2>1, <2>2, <2>4, SaysWithin
<1>20. CASE Take
  BY <1>6, <1>20 DEF Take, sessions
<1>21. CASE PrintMessage \/ LogMessage
  <2>1. UNCHANGED <<said, thread>> /\ (UNCHANGED main \/ main' = "over")
    BY <1>21 DEF PrintMessage, LogMessage, sessions
  <2>2. CASE UNCHANGED main
    BY <1>6, <2>1, <2>2
  <2>3. CASE main' = "over"
    BY <1>3, <1>4, <2>1, <2>3 DEF Bound
  <2> QED BY <2>1, <2>2, <2>3
<1>22. CASE UNCHANGED vars
  BY <1>6, <1>22 DEF vars
<1> QED BY <1>7, <1>8, <1>9, <1>10, <1>11, <1>12, <1>13, <1>15, <1>16, <1>17, <1>18, <1>19, <1>20,
           <1>21, <1>22 DEF Next

\* The state has its types, and no counter passes what its threads can have said or the
\* number of sessions.
THEOREM TypesWithin == Spec => []TypeOK
<1>1. Init => CountIsOfSessions /\ SaidWithin
  <2> SUFFICES ASSUME Init PROVE CountIsOfSessions /\ SaidWithin
    OBVIOUS
  <2>1. Counted = {} /\ \A t \in Sessions \cup Restarts : thread[t].index = 0 /\ thread[t].at = "none"
    BY DEF Init, Counted
  <2>2. CountIsOfSessions
    BY <2>1, FS_EmptySet DEF Init, CountIsOfSessions
  <2>3. \A t \in Threads : said[t] = 0 /\ Bound(t) = 0
    BY <2>1 DEF Init, Bound, Threads
  <2> QED BY <2>2, <2>3 DEF SaidWithin
<1>2. Types /\ CountIsOfSessions /\ SaidWithin => TypeOK
  <2> SUFFICES ASSUME Types, CountIsOfSessions, SaidWithin PROVE TypeOK
    OBVIOUS
  <2>1. count \in 0..Cardinality(Sessions)
    BY CountedFinite DEF Types, CountIsOfSessions
  <2>2. \A t \in Sessions \cup Restarts : thread[t].at \in ThreadPlaces /\ thread[t].index \in 0..count
    BY DEF Types, CountIsOfSessions
  <2>3. \A t \in Threads : said[t] \in 0..(MaxMessages[t] + 3)
    BY BoundsAre DEF SaidWithin
  <2> QED BY <2>1, <2>2, <2>3 DEF Types, TypeOK, MainPlaces, ThreadPlaces
<1> QED BY <1>1, <1>2, InitTypes, StepTypes, StepCount, StepSaid, PTL DEF Spec
=============================================================================
