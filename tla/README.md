# SMC: a TLA+ verification project

SMC is a server that holds files and users and a shell client that works on them over
TCP. This directory models what the two programs do to each other: sessions, requests
and responses, logins, restarts, transfers of files and folders, Ctrl-C and processes that
die; and what each does by itself: the start and the console of the server, the settings and
the language of the client, and the conversions both rely on.
Paths below are relative to the repository; `Server/` is the server, `src/` and `Client/`
the client, `Shared/` what both compile.

## 1. The system

| Component | State it keeps | Operations | Hard behaviour |
|---|---|---|---|
| Connection (`network.cpp` of both programs) | bytes in flight, two sockets | length-prefixed frames, close | half-closed connections, unread data, resets |
| Server session (`Server/src/network/client.cpp`, `server.cpp`) | `is_connected`, `is_logged`, `user`, `version` of a `Client` | accept, welcome, version, request loop, one handler at a time | a thread per connection, blocking reads, an exception of a handler |
| Request handlers (`Server/src/network/request`) | the request and response objects | check requirements, `_run`, one response | a response sent twice, never, or after the handler is gone |
| Login, logout (`handlers/login.cpp`, `logout.cpp`) | a copy of a user record | read a record, sleep, write it back | unlocked shared vector, stale copies, failure after success of the checks |
| Restart (`handlers/restart_server.cpp`) | detached threads, `shutdown_requested` | sleep one second, set a flag or reboot | `this` of a destroyed handler, a flag tested before a blocking read |
| Users (`Server/src/users`) | vector of `User` | load UIF files, get, set | no lock |
| Server file system (`Server/src/io/sfs.cpp`) | the tree of files | copy, move, delete, rename, ... with roles | overloads that throw, half-done operations |
| Server process (`Server/src/server.cpp`, `server/config.cpp`, `io/console.cpp`, `io/logger.cpp`) | configuration values, a queue of messages, log file, the count of clients | start, queue, print, log, end | a start that fails half way, lines of threads interleave, indices drawn by threads at one time |
| Shell client (`src/network/client.cpp`, `src/shell`, `src/main.cpp`) | `is_connected`, `is_logged`, `user`, the socket | connect, commands, disconnect, quit | failures half way, Ctrl-C on a signal thread |
| Transfers (`io_load` commands, `io_get_file_content`, `io_set_file_content`) | an open file on each side, buffer counters | one request, then buffers with no acknowledgement | both sides must count alike; the file changes meanwhile; Ctrl-C in mid-stream |
| Conversions (array editor, request analyzer, response builder, BFL, version) | a byte array and a position | insert, extract | truncated arrays, widths |
| Folders (`download`, `upload`, `get_dir_content_recursively.cpp`, `util/fs.cpp`) | a list of files, an output | list directory by directory, copy file by file | the tree changes between listing and copying, failures half way |
| Language files (`src/shell/lang`) | parser state, a table of texts in use | lex, parse, look up, load again | files that are wrong or end anywhere, texts of the file before |
| Client settings (`src/shell/config.cpp`, `conf`, `lang`) | the ini file, a property tree, the values | load, set, save, switch the language | three copies of one setting, refused values |
| Command line, resolvers (`command_line.cpp`, `env_var_str_resolver.cpp`, `util/resolver`) | members of one object per string | tokenize, substitute, colour | unterminated quotes and variables |

The client asks, the server answers: the connection is the only thing the two share.
Inside the server the session threads share the users, the log, the shutdown flag and the
file system. Inside the client the signal thread shares everything with the main thread.

A component is right when: the answers of a session are those of its requests and in their
order; what a client believes about its session is so; no abandoned session goes on and no
command waits for ever; nothing is served after a shutdown; the counts of wrong passwords
are exact; a transferred file is the file and a transferred folder the folder; no message of
the server is lost on its way to the console; the client's language is the one of its settings
and its texts those of its files; and what one side writes the other reads.

## 2. The modules

| Module | Lines of code it stands for | Contents |
|---|---|---|
| `Protocol` | `id.hpp`, `error.hpp`, `role.hpp`, requirements of the handlers, `RH::checkVersion` ... | requests, responses, roles, what a request requires; accounts |
| `Wire` | `network.cpp` of both programs | two queues of frames and two ends per connection; what a close or the death of a process does to them |
| `Users` | `users/manager.cpp`, `LoginRH::checkPassword` | the counts of wrong passwords as read and written by login threads |
| `ServerSession` | `Server/src/network/client.cpp`, `server.cpp`, `login.cpp`, `logout.cpp`, `restart_server.cpp`, `handler.cpp` | one action per step of a session thread and of a restart thread |
| `AnyClient` | any peer that respects the framing | the server alone, facing clients that send whatever they like and hang up at any time |
| `ShellClient` | `src/network/client.cpp`, `src/network/request/handler.cpp`, `src/shell.cpp`, `server.cpp`, `login.cpp`, `client.cpp` of the commands, `signal.cpp` | connect, command, response, close, Ctrl-C |
| `Rpc` | (abstract) | calls that are served at most once, return their own verdict, or fail |
| `System` | | `ServerSession` and `ShellClient` on the same wire, and the refinement of `Rpc` |
| `Transfer` | the four content handlers, `file_downloader.cpp`, `file_uploader.cpp`, `download.cpp`, `upload.cpp` | one file of the server transferred by several sessions |
| `Folders` | `download.cpp`, `upload.cpp`, `get_dir_content_recursively.cpp`, `io_get_dir_content` handlers, `util/fs.cpp` | a command on a file or a folder: what is listed, then copied, while other sessions change the tree |
| `ServerProcess` | `server.cpp`, `server/config.cpp`, `io/logger.cpp`, `io/console.cpp`, `main.cpp` of the server | the start and the end of the process, the threads and the queue of the console |
| `Markup` | `evs_str.hpp`, `con_str_prop.cpp` | variables in the configuration and in messages, colours of messages |
| `Bytes` | `array_editor`, `response/builder.cpp`, `bfl/encoder.cpp`, `bfl/decoder.cpp`, `uif/decoder.cpp`, `version.cpp` | what is written byte by byte and read back |
| `Conversions` | | one sample for `Markup` and `Bytes`, beside `ServerProcess` in one run |
| `Smcl` | `smcl_parser.cpp` | one step of the parser of language files on each token |
| `Settings` | `src/main.cpp`, `config.cpp`, `conf.cpp`, `lang.cpp`, `smcl_loader.cpp` | the client's settings and the loads of its language |
| `Text` | `command_line.cpp`, `env_var_str_resolver.cpp`, `smcl_lexer.cpp`, `smcl_formatter.cpp` | the client's scanners of characters |
| `Sfs` | `io/sfs.cpp`, `directories.cpp`, the `io_create_*`, `io_delete_file`, `io_set_file_name`, `io_move_file`, `io_copy_file`, `io_get_real_path` handlers, `chdir.cpp` | the tree of files as several sessions change it |
| `ServerSessionProofs` | | lemmas about a session's steps that both environments need |
| `AnyClientProofs`, `SystemProofs`, `TransferProofs` (also of `Folders`), `SfsProofs`, `ServerProcessProofs`, `TextProofs` (`Settings`, `Text`), `ConversionsProofs` (`Markup`, `Bytes`) | | the theorems |
| `MCAnyClient`, `MCSystem`, `MCTransfer`, `MCSfs`, `MCServerProcess`, `MCShell` | | instances for TLC |

`AnyClient` and `System` are two environments of the same `ServerSession`: the first is
the most general client and gives the server's own guarantees, the second is the client of
the repository and gives what its user sees.

### How the code maps to actions

A session thread is at `pc[k]`: `welcome`, `version`, `loop` (the test of the loop
condition), `read` (the blocking read), `run` and `check` (a handler; a login stops between
reading the record and writing it back, where the code sleeps), `closing`, `ended`. A
handler other than login is one action, because nothing another thread can see happens
between its requirements and its response. `Respond` is the call of `sendResponse` at the
end of `RH::run`; `HandlerThrows` is the `catch` of `processReceivedRequest`, which skips it.

The client is at `at[c]`: `prompt`, `connecting`, `welcome`, `version`, `await` (a
command blocked in its read) or `exited`. Ctrl-C is two actions, `Interrupt` (state reset,
Quit written) and `InterruptExit` (socket closed, exit), and the main thread goes on between
them. A command that the shell refuses locally sends nothing and changes nothing and has no
action.

In `Transfer` a client is `idle`, `asked` (blocked on the response), `loading`, `torn` or
`gone` and a handler is in `upload` or `download`. Every buffer is one frame. Bytes are
known by where they come from (`<<session, position>>`, `<<"original", position>>`, a byte
of Quit, nowhere), so that a misplaced byte is seen. An upload's bytes stay in the stream of
the handler until `Flush` or `CloseUpload` writes them at the stream's own position.

In `Sfs` the tree is a function from absolute paths (sequences of names) to directories,
empty files and files with data. A handler checks its paths in `Ask...` and works on the tree
in a later action, `checked` to `idle`, with other sessions in between; a move or a copy also
stops between making the directories of its target (`Place`) and the operation itself. Each
call of `std::filesystem` is one step that succeeds when the tree allows it and may always
fail; a recursive removal or copy that fails leaves any part of its work behind. `chdir` is
two requests and a local assignment: the real path (`AskRealPath`), its type, and the new
`current_dir` (`ChangeDir`).

In `Folders` the two trees are functions from paths to contents, `Dir` or `Part` (a file that
is not whole). `todo` is the list of what is still to be listed (folders) or copied (files);
`ListFolder` is one request, or one call of `pushDirContentIn`, and puts the entries in the
place of their folder, so that the order is that of the recursion. A file is copied in
`OpenOutput` or `OpenInput`, which empties the target, `AskContent` and `Copied`; `Meddle` is any
change another session makes on the server between two steps. How the bytes go is the
business of `Transfer`, which is why a copy here is one step that may be spoilt or break.

In `ServerProcess` the main thread goes through `config`, `logger`, `console`, `users`,
`loading`, `listening` and `serving`, and from any failure through `failed` and `failing` to
`ending`, where static objects are destroyed while detached threads still run. `Says` is
`processMessage`; `Take`, `PrintMessage` and `LogMessage` are the printer thread, which holds
the lock only in the first. `LoadCount` and `AddToCount` are the load and the `fetch_add` with
which a session draws its index.

In `Smcl` the recursive-descent parser is a step on each token: `at` is the call that waits for
one, and the rest of the record is the members of `SMCLParser` and the locals of its calls.
`Settings` feeds it any token the bounds offer, one per action, so that a load meets every file
within the bounds and breaks off at every place. The texts are the client's from the first
token on.

`Text`, `Markup` and `Bytes` are pure: the loops of the code are folds over characters or
fields, with the members of the object as the accumulator. TLC runs them on one input per
initial state (`input`), beside the machine of the same run. Their properties compare an
algorithm with what it is for: a list of words is quoted and must come back, a token list is
written down and must be lexed to itself, every beginning of a byte array must be refused.

### What is abstracted

- A frame is sent and read whole, in `System` and `AnyClient`. Partial reads appear where
  the code looks at them: `read_some` of the welcome message, Quit (6 bytes with its length)
  in place of the version (8 bytes), whose read then ends with the stream.
- Arguments of a request that no property tells apart (paths, commands) are left out. A
  request whose content ends early (`cut`) is answered `InvalidRequestData` by each handler that
  reads it, a login of that kind leaves the session logged as nobody, and an empty frame is
  skipped without an answer, as in the code. What a handler has done before it meets the end of
  its data is nothing another session sees.
- The requests of `AnyClient` and `System` are those that are one request and one response. The two
  that transfer a file's content are not among them (`LoggedRequests`, `HandledRequests`): after
  them data frames follow, which are the business of `Transfer`.
- The race of two threads on the vector of users yields the old or the new record. (In C++
  it is undefined; a record's count is one word.)
- The call through the destroyed restart handler does what was meant or kills the process.
- `boost::asio::write` of the welcome message throws when the connection is gone; the model
  ends the connect like a failed read. The two differ only in whether the client survives.
- `printLocation` of the server may throw when the peer is gone, outside the session's own
  `try`: the thread then ends (`Accept`).
- A server process that died is not started again: what a new process serves are new
  sessions, with none of the old ones' state.
- Values of a destroyed session are reset; they stand for nothing.
- In `Transfer` a file is read when a buffer is sent; the read-ahead of the stream could
  give older bytes of a file that another session changes, about which nothing is stated. A
  buffer's bytes past a failed read are `Nowhere` (in the code, the previous content).
- After a torn buffer (Ctrl-C between its length and its content) no whole frame follows.
  After Ctrl-C the main thread may still upload whole buffers behind Quit; when the upload
  then ends early, the server finds data where a request should be. The model ends the
  session there; the code would interpret the data as a request. `Aligned` excludes this
  outside Ctrl-C.
- A peer that stops reading while its connection is open would block the other's write for
  ever; queues are unbounded here.

- In `Sfs` there is one drive without links, names are compared exactly, and `rename` of the
  operating system is that of Windows (a file replaces a file, a directory nothing). Paths are
  relative, not empty and without a trailing slash. No directory is called `.uif`, and no
  directory is copied into itself. Sessions are logged in; uploads are in `Transfer`.
  Contents matter only as empty or not.

- In `Folders` a path is relative to the directory of the command. Absolute and relative inputs
  differ only where `pushDirContentIn` and `fs::relative` tell them apart (`relative`).
- In `ServerProcess` a message is its thread and its number; what main prints while it starts
  is one message at each of the points that matter (loading the users, listening, failing).
- In `Settings` a tree is valid or not before and after the language; words, strings and
  numbers of a language file come from small sets and most texts are stored unobserved
  (`WatchedKeys`).
- In `Bytes` a byte is a number below `Base`, so that lengths overflow with short strings.

History variables (`touched`, `stale`, `late`, `bornLate`, `accepted`, `unanswered`, `attempts`,
`overlapped`, `asked`, `got`, `disturbed`, `snap`, `good`, `during`, `meddled`,
`lossy`, `together`, `blocks`, `read`, `switched`, `refused`) are read by no action's guard except the bounds.

## 3. The runs

Every configuration has `CHECK_DEADLOCK FALSE`: a server waits for clients that may never
come, and clients exit.

| Run | Instance | What it shows |
|---|---|---|
| `session` | 1 connection, every kind of request but the two content requests, malformed, unknown and empty ones too, 3 requests ahead | answers in order, one per request; an abandoned session ends |
| `sessions` | 2 connections, one account, 2 requests each, 3 wrong passwords | exact counts; shutdown stops every session within one request |
| `system` | 1 client, 2 connections | at most one request outstanding and its answer recognised; an answer owed whenever the client waits; the same user on both sides unless a login was refused; commands end unless a handler threw |
| `calls` | 2 clients, 2 connections | `System` implements `Rpc`; a client that believes it is logged is logged |
| `transfer` | 1 session with buffer 2, sizes 0 to 4, 4 transfers; or 2 sessions with buffers 1 and 2 and one transfer each; or one command on a tree of two files and two folders with 2 changes by others | exact downloads, stored uploads, agreement on where a transfer ends, termination, also while sessions truncate the file under each other; at most one file at risk; a success that left nothing out |
| `files` | a user with 2 requests and an admin with 1 on a storage of 10 entries | each stays within the network directory or the storage; user files change only with their directory; creating loses no content unless overtaken; `chdir` arrives where it was sent |
| `shell` | 3 starts, commands and edits of the settings; a first file with sections in sections, names of two words, values of two strings; flat files later; inputs of up to 5 characters | headers and prefixes as the grammar has them, no text lost, loads that end, settings and language in agreement, a cause for every file the client cannot use; words, tokens, variables and arguments come out as they were meant |
| `server_process` | 2 sessions, a restart, 4 configurations; bytes below 3 | every message in order and once, indices that tell sessions apart, a logger when the printer needs it and no storage behind limits that were not read (`StartSound`), messages shown in the end; variables and colours as they were meant; fields, responses, listings, user files and versions read back (`WrittenIsRead`) |

`refused_login`, `unanswered`, `stale_texts` and `doubled` are expected to fail: each
checks a statement of the repository's documents that the code does not keep.

| Run | The document | The code |
|---|---|---|
| `refused_login` | `Server/README.md:130`: "is the connected client logged" | `LoginRH::_run` stores the user and sets `is_logged` whatever the checks say |
| `unanswered` | `Server/include/network/request/handler.hpp:35`: the response "will be called automatically at the end of run()" | a handler that throws gets no response sent and its client waits for ever |
| `stale_texts` | `Client/data/lang/en_US.smcl:243, 245`: "set the current language", "reload the current language" | `translations.insert` keeps the text a key already has, and the table lives on: a second language adds keys and changes none |
| `doubled` | `Client/data/lang/en_US.smcl:205`: "usage: upload <input path (client)> <output path (optional)>" | `util/fs.cpp:34` appends to a relative directory paths that begin with it already: with files `d/x` and `d/d/x` and an empty folder `d/d/d`, `upload d/` succeeds and has stored the content of `d/d/x` in the place of `d/x` |

`doubled` has a tree and an instance of its own (`Doubled`, no changes by other sessions). It
came out of a proof: `SuccessComplete` used to be about relative folders too, held on the trees
of `transfer`, and could not be proved, because the paths that are listed need not be below the
input. It is now about a relative input only where nothing below it is meant, a file.

Seen while modelling, with no run of their own; the modules have them as the code does:

- `SFS::rename` builds the error of an invalid name and renames all the same, so that the client
  is told of a failure that did not happen (`sfs.cpp:208`).
- A program restart only sets a flag (`restart_server.cpp:112`, "todo") and the accept loop
  never looks at it, although `en_US.smcl:183` says "restart the program"; `server restart
  machine` sends the mode of a program restart (`server.cpp:59` of the commands), although
  `en_US.smcl:184` says "reboot the machine"; a restart needs the developer's role, not the
  administrator's (`en_US.smcl:182`).
- A client whose welcome is refused or not answered prints "disconnected from server"
  (`en_US.smcl:407`) and still has `is_connected` set and its socket open
  (`src/network/client.cpp:33`); `OneOutstanding` shows that no later command suffers from it.
- After a refused login the session has the attempted user although the client keeps its own
  (`Server/README.md:126`). The welcome message is sent by the client, not by the server
  (`Server/README.md:62`). Buffers are limited by `Server/data/config.ini` to 24576 bytes, not
  65535 (`Client/README.md:61`).
- Uploading a relative folder that has a file fails unless the doubled paths of `util/fs.cpp:34`
  exist too, when it sends something else (`doubled`). Uploading a bare file name fails: its parent is empty
  and leads nowhere, so that the server is asked to open a directory. `d/` and `d` put their
  files in different places.
- Neither side looks at the state of the file stream it writes to
  (`io_get_file_content.cpp:84` of the client, `io_set_file_content.cpp:96` of the server): on a
  full disk a file is cut short and the command succeeds. A directory whose iteration fails is
  answered with Ok and what was found (`io_get_dir_content.cpp:28`). `lossy` records both, and
  the properties of `Folders` exclude them.
- The client's `EnvVarStrResolver` never empties the name of a variable, so that the second
  variable of a line is not found (`env_var_str_resolver.cpp:33`); `VariableInserted`, a part of `LineAsTyped`,
  is about lines with one.
- `conf save` is not all or nothing. `write_ini` empties the file when it opens it
  (`src/shell/config.cpp:76`) and may then break off: `conf set server.port.x 1` is accepted and makes
  a tree too deep for the format, and a disk may be full. `ConfSave` has three outcomes: the whole tree,
  what a save that broke off leaves (`Rests`), and a file that could not be opened and stays. No
  document promises more, so that no run claims it; `UnusableFileHasCause` names the broken save
  as one of the causes of a file the next start refuses. The other way to get there without an
  edit is a language without a file: `conf set` and `conf save` accept it, the file is valid, and the
  next start ends for want of the language.
- `canLexicallyAccess` (`sfs.cpp:136`) accepts the network directory itself for a user, beside the
  user's own and the shared directory that `Server/README.md:50` names: `delete ..` of a user who is
  at home removes the directories of all users. `Confined` states what the code does keep, the network
  directory as the border of a user.
- The server ignores the result of `Config::load` (`server.cpp:37`) and serves without storage
  after a bad value; a time format that is none ends it with the first message. What is
  printed before `console::init`, or when the process ends, is queued and never shown.
- A thread that restarts the machine has no client and prints as the first session. An
  opening `<` without an end loses the rest of a message.
- `sysvar::get` says "none" to every name (`sysvar.cpp:6`), in messages and in a configuration that is
  accepted, although `Server/README.md:115-134` gives each system variable a value ("will be
  replaced by the username of the client"). A variable of the environment whose name has one
  letter counts as one without a name (`evs_str.hpp:95`): a message shows `<>`, a configuration is
  refused; `Server/README.md:110` knows no such limit. `StringsAsMeant` is about all other
  variables (`Ordinary`) and says nothing in favour of these.
- `Version::setFromString` takes too much for its second part (`version.cpp:31`), which `stoi`
  forgives: `VersionsAgree`, a part of `WrittenIsRead`, holds.

### What the properties do not say

Some properties exclude the very steps that the code leaves open, and show only that the rest
is right:

- `CountsExact` is about accounts without overlapping writers (`overlapped`). A wrong password that
  another login overwrites is lost, in the code and in the model.
- `CreateKeepsContent` and `UserFilesGuarded` are about requests that no other session overtook
  between their check and their effect (`stale`). The checks are then the right ones; that they are
  not atomic with the effect is a race of the code that these two would not catch. `Confined` and
  `ArrivesWhereAsked` have no such condition.
- `SuccessComplete` excludes commands with an incomplete listing or a write that failed unseen
  (`lossy`).
- `LineAsTyped` is about lines with at most one variable.
- `StartSound` covers what main does until the process ends. What the printer does with a logger
  that is being destroyed at that moment is undefined, and in no property.
- `BelievedUser` excludes connections whose last login was refused; `refused_login` is about those.
- `AnsweredCommandEnds` excludes handlers that throw. In the instance of `unanswered` it is `RunSyscmd`
  that does, as the handler nothing else is asked of; in practice it is `IOCopyFile` or `IOMoveFile`,
  whose `fs::exists` is the overload that throws (`sfs.cpp:294`).

### Bounds, and why they are enough

- `MaxAsked` (requests a peer sends on one connection): order and duplication show with two
  requests queued behind one in hand, hence 3 in `session`; two sessions with 2 each give
  every overlap of two logins and a restart.
- `MaxWrong`: counts only matter by being equal or not; 2 tells a lost update from a reset.
- `Conns` in `System`: a second connection is a reconnect, where state of the first could leak.
- `MaxTransfers` and `Sizes`: sizes 0, 1, 2, 3 and 4 around buffers of 2 give no buffer, a
  short one, an exact one, a multiple; the following transfers show what is left over.
- `files`: the paths users type are a new file, a shared directory, a file in it, the parent of
  the scope and, for the admin, a user's file; new names are a valid one and one with a
  separator and `..`. Two requests of one session let a `chdir` come before another request, and
  the admin's request overtakes any of their steps. `MaxDepth` only stops copies of copies.
- Folders: a tree of depth three, folders beside and in folders, with a target that is empty,
  has the files, or has a file where a folder has to be; two changes can remove and bring back
  a file, or spoil a listing and a copy.
- `shell`: two nested sections show what closing the inner one does to the outer; a second load
  with flat files is enough to meet the texts of the first.
- `server_process`: two sessions draw two indices in every order; one message of one session,
  the two of its end and those of main give every interleaving of three writers.
- `shell`, characters: the lexer has all digits, the four keywords, all six blanks and every escape;
  two tokens at a time, each two with each blank, show what runs into what.
- Conversions: `Base` is 3 and names have up to 2 characters, so that strings over the length
  their length can say, empty ones, and integers of two bytes all occur within the bounds.
- Symmetry is over connections (and clients) only, in runs without liveness.

### Fairness

`ServerFairness`: a session thread whose next step is possible takes it, an accepted
connection gets its thread, and a restart thread wakes up. Threads are preemptive, the sleeps
are finite, and a read returns once data or an end of stream is there. On the client
the main thread goes on when its read returns, and a signal handler that has begun ends. The
user is never fair: no key has to be pressed, no connection made. A peer of `AnyClient` owes
nothing at all. In `transfer` fairness is that of the session that may be alone. In
`server_process` only the printer is fair: its thread blocks on nothing but the queue. In
`shell` a file has an end, which the lexer reaches after finitely many tokens.

## 4. The proofs

`AnyClientProofs` proves, for every set of connections, accounts and requests, and for
clients that do anything:

- `TypeCorrect`: `Spec => []TypeOK` of `AnyClient`, which no run checks. By itself `TypeOK` is not inductive: `CheckPassword`
  hands the user it looked up to the session, who has to be an account. The invariant is
  `TypeInv == TypeOK /\ CheckingLogins`, where `CheckingLogins` says that a session in
  `check` has a login of an existing account in hand. Theorem `TypeSafe` gives it to the other proofs.
- `ShutdownSafe`: `Spec => []ShutdownStops`. Invariant `LateInv`: a session blocked in its read
  after the request of a shutdown has served nothing since; a late request implies that the
  flag is set; a session accepted late never gets to its read. Only five of the variables
  matter, so that all steps that leave them alone are one case.
- `CountsSafe`: `Spec => []CountsExact`. Invariant `CopyInv`: in a check that is not `stale`, the
  copy has the stored count. Steps that touch neither users nor checks are one case
  (`Untouched`), and `GetUser` and `CheckPassword` are the two that remain.

- `OrderSafe`: `Spec => []AnswersInOrder`. Invariant `OrderInv`: the greetings of a conversation
  are ahead of everything else in both queues, and the thread's place tells how many are left
  (`Unwelcomed`, `Ungreeted`); behind them what was received, is on its way, is in hand and is
  queued is what was asked (`InOrder`). A handler that throws and an empty frame release it (`unanswered`). Every step moves one request
  across one border of that concatenation (`ShiftReceived` and the lemmas beside it).

They rest on the assumptions the modules state: `AccountsAssumption` (accounts are names and
have roles), `ThrowingAssumption` (only requests that have a handler throw, and the three
that change the session do not), `AskedAssumption` (peers send requests of the protocol).

`SystemProofs` proves, for every set of clients, connections, accounts and commands, that
`Types`, `OneOutstanding`, `AnswerOwed`, `BelievedLogged` and `BelievedUser` are invariants.
None of them is inductive. One invariant gives them all:

- `Inv == TypeOK /\ CheckingLogins /\ SystemInv`. `Linked` says that the two ends of a connection
  begin together; `Owned`, that a client has a connection as long as it waits and shares it
  with nobody; `Together`, of a client and its connection, is the rest.
- `InStep` relates the places of client and thread and the frames between them (a client at its
  prompt has nothing to read and a session past the version). `OneCommand` says that its one
  command is queued, or in hand, or answered. `Owed` says that it is one of them unless the
  session goes away. `Believes` relates what the client takes for true with what the session
  knows, the answers on their way included.
- A step of the server or of another client is shown to keep each part for one connection, all
  that does not touch the connection being one case (`Same`).

They rest on `ClientAssumption` (`NoConn` is no connection, commands are requests with a
handler) besides those of the server.

It also proves `CallsImplemented`: `Spec => ImplementsRpc`. The view of the state
(`CallOf`, the verdict, `pending`, `logged`) is mapped action by action: a command is an
`Invoke`, `Respond` a `Serve`; a handler that throws, a session that ends and a process that
dies are a `Lose`; reading the answer (or the reset after an accepted restart) is a `Return`, a
failed read a `Fail`, Ctrl-C and a close a `Drop`; all else is seen by nobody. The step relation
of `Rpc` is shown under `Inv`, which supplies that an answer is for the command that waits.

`TransferProofs` proves, for every file, buffer size and number of sessions
(`TransferAssumption`: buffers of a client are not empty):

- `Types` and `ReadsWithin`: `Spec => []TypeOK` and `Spec => []ReadsWithinBuffer`. The two are proved
  at once: what a client keeps of a buffer has a type only if it is read within it.
- `StaysAligned`: `Spec => []Aligned`. Invariant `ConvInv == TypeInv /\ Conversations`: at each
  place of a client the two queues and the handler are one of a few pictures (`Rests`, `Waiting`,
  `Refused`, `Accepted`, `Streams`, `Feeds`). As nothing is acknowledged, they say what is
  still to come: so many buffers from the handler, and so many from an upload that the client
  has already left behind (`Wanted`). Ctrl-C (`closing`) releases most of them.
- `DownloadIsExact`: `Spec => []DownloadExact`. `DataInv` adds `Brings`: the stream of the handler
  is where its next buffer begins (`ReadsOn`), the buffers under way are those places of the
  file (`Carries`) and what is written its beginning (`PrefixCopied`). `CountIsDiv` and `Places` are the
  arithmetic of both sides.
- `UploadIsStored`: `Spec => UploadStored`, an action property. `StoreInv` adds `Stores`: a request
  is behind every buffer of an earlier upload (`Requested`); as long as the handler has taken
  nothing but buffers, the next ones in its queue are the next ones of the file (`Follows`) and
  the client's count goes with them (`Agrees`); and those taken are in the file or in the stream,
  at their places, wherever the stream was flushed (`Stored`). Ctrl-C and the end of the client
  only shorten the run of buffers, so that nothing has to be assumed about them.

`TransferProofs` also proves of `Folders`, for all trees, inputs, contents and changes by other sessions
(`FoldersAssumption`: what exists is in directories that exist and a path has names):

- `TypesHold`: `FoldersSpec => []FoldersTypeOK`, which no run checks: both trees stay trees whatever is
  created and removed.
- `OneFileSafe`: `FoldersSpec => []OneFileAtRisk`. Invariant `AtRisk`: while a file is written only
  it is cut short, and between files none.
- `SuccessSafe`: `FoldersSpec => []SuccessComplete`. Invariant `Covers`: a file that stayed what it
  is has been copied, or is on the list, or is below a folder on it (`Pending`). A copy must
  not undo an earlier one: `PlaceApart` shows that two paths below the input never have one place
  at the target. `Recorded` and `Copies` relate the history to the tree and the file in hand.

The lemmas are about paths (`Above`, prefixes), trees (opening, removing, making directories)
and what a listing puts in the place of its folder (`SplicedIs`).

`SfsProofs` proves, for every drive, all names, arguments and roles and any number of sessions
(`SfsAssumption`: the drive is a tree of paths without `..`, and what users type has names):

- `TreeTyped`: `Spec => []TypeOK`, the shape of the tree through every operation and every part of
  one that fails.
- `ChangesConfined`, `UserFilesSafe` and `CreationKeeps`: `Spec => Confined`, `Spec =>
  UserFilesGuarded` and `Spec => CreateKeepsContent`. What a handler makes of the tree is `Lawful`:
  each write is shown to be so from where its paths lead.
- `ChdirArrives`: `Spec => ArrivesWhereAsked`, as a normal path is the scope and what
  follows it (`RestIs`).

The invariant `Inv` keeps two kinds of facts about a request under way: `Lexical`, which stay true
whatever others do (the normal paths are in the scope, the target is a name after a normal path),
and `Fresh`, which hold until another session changes the tree (nothing is at the path of a
creation, no user file is at a path of a move). What a path leads to is a fold over its names;
the lemmas about it (`NormalIs`, `NormalOfPlain`, `NormalAppend`) are inductions, over a set of
numbers that contains 0 and with every number the next (`NatSets`), because the library's induction
theorems cannot be instantiated. The other lemmas are about prefixes and about what each
operation of `std::filesystem` makes of a tree (`MadeDirs`, `RemovedIs`, `RenamedIs`, `CopiedIs`).
`UserFilesGuarded` says nothing of a user file that is not there yet: whoever is first to make
the directory of a user, by a move from elsewhere, brings its file along.

`ServerProcessProofs` proves, for every set of sessions and restarts and any numbers of
messages (assumption `ProcessAssumption`: threads are different and sessions finitely many):

- `ConsoleSafe`: `Spec => []ConsoleFaithful`. With the types of the queue (`Types`) the property is
  inductive: saying appends to `Waiting` (`SaysWaiting`), taking leaves it (`TakeWaiting`),
  printing moves its first message to the console (`PrintWaiting`), and all else leaves it.
- `LabelsSafe`: `Spec => []LabelTells`. Invariants `IndicesDiffer` (the index of a session that
  increased the count is below it; two sessions have one index only when they drew it
  together) and `LabelsAreIndices` (the index in a message is that of its session).
- `TypesWithin`: `Spec => []TypeOK`, whose bounds are what one step cannot see: the count of sessions is
  the number of those that are talking or over (`CountIsOfSessions`), and the queue and the
  console hold what each thread can have said where it is (`SaidWithin`, `Bound`).
- `StartSafe`: `Spec => []StartSound`, from `LoggerSafe` (invariant `LoggerFirst`: no printer before
  the logger) and `StorageSafe` (from the types of the configuration).

`TextProofs` proves of `Settings`, for every set of languages, words and strings and all bounds:

- `LanguageSafe` and `CauseSafe`: `Spec => []LanguageOfSettings` and `Spec =>
  []UnusableFileHasCause`, a save that breaks off anywhere included. Invariant `SettingsInv`: besides the two, the tree the client has is
  the refused one or a valid one (`RefusedTree`); without it a save could write an invalid tree
  that nobody saw refused.
- `HeaderSafe`: `Spec => []HeaderAsRead`, for files of any tokens in any order and of any
  length. Invariant `ParserSound`: at every call of the recursive parser the brackets that wait
  (`Sound`) say what was opened around a header; `StepKeeps` shows it for one token.
- `TextsSafe`: `Spec => NoTextLost`: a load puts a whole value under its key or leaves the texts
  alone, wherever it fails, and no command drops them. That the new text of an old key does not
  arrive at all is `stale_texts`.
- `PrefixSafe`: `Spec => PrefixRestored`. What values start with is `FlattenSeq` of the STRBEGINs of
  the open scopes, a recursion of the library over the length of a sequence: `FlatSteps` unfolds
  it, and `FlatPadded` shows by induction that scopes without an STRBEGIN add nothing. Invariant
  `Starts`: what values started with where a section was opened is still the join of the STRBEGINs
  of the scopes around it, whether or not they have entries. A token leaves what is open
  alone, opens a section, gives an STRBEGIN to the innermost scope or ends a section (`Moves`, by
  `StepFits` for every place of the parser), and each of the four keeps `Starts`.
- `SettingsTyped`: `Spec => []TypeOK`, from `LoadInv`, which holds `Starts` and the types of what the
  parser has read, and `ConfigType`: outside of `off` the tree is one that was read from a file.
  That an edit finds a readable file comes from `SettingsInv`.

`TextProofs` also proves what the client's conversions of text do to every input, whatever its
characters and however long it is, and `ConversionsProofs` those of the server:

- `LineReaches`: `LineAsTyped` for every line of characters of a set `D` that has the brackets, the
  quotes and the blank (`Alphabet`, `Quotable`), and every environment whose values are of `D`.
- `FileReaches`: `FileAsWritten` for every sequence of signs, keywords, words that are none and do not
  begin with a digit or a quote, texts, and numbers below a hundred, separated by any blank where
  they would run into each other, and every text with arguments, of characters of a set that has
  those the lexer tells apart (`Writable`) and the mark of an argument.
- `StringsReach`: `StringsAsMeant` for all sequences of pieces (`StringsOver`). The pieces are those a
  person can mean: the name of a variable has no bracket and no property in it, and the
  variables of a message exist and have values without brackets, as a value is not resolved
  again. That a string uses ordinary variables is a premise of the property itself (`UsesOrdinary`).
- `BytesReach`: `WrittenIsRead` for every base above 1 (`BytesAssumption`) and all sequences of
  fields and of a handler's steps, all listings, user files and versions (`FieldsOver`, `StepsOver`,
  `ListingsOver`, `UsersOver`, `VersionsOver`). As in the code, integers are those of their width, a
  listing and the names in it are shorter than `Base`, and a user's names have no zero byte
  and fit their block; a string field may be of any length and is read cut. The numbers of a
  version are those `Numeral` has, 0 to 2.

`LinesOver`, `FilesOver` and `StringsOver` are the inputs TLC enumerates, without their
bounds. A scanner is a fold of a step over the characters. `FoldTable` and `TableLeads` turn the
fold into a function on places with `f[i + 1]` the step of `f[i]`, `Leads(g, x, s, y)` says that `g`
takes `x` through `s` to `y`, and `LeadsThrough` that what leads through each piece leads through
all of them one after the other. What is left is one lemma for each kind of piece: a word, a token, a
variable, a colour. The proofs found an overlap: two arms of the `CASE` of `Lexes` applied to a quote
in a string, of which TLC takes the first and TLA+ either. The arms of `Lexes` are disjoint now.

Of bytes, `IntegerReadBack` is the arithmetic: by induction on the width, the digits of a number
below `Power[w]` add up to it. The prover has no exponentiation, so `Power` is a recursive
function, and that it exists and is unique is proved (`PowersExist`, `PowersOnce`). `FieldOver` and
`FileDecoded` say what reading one field or one file does over the place where it was written, in
data that may end anywhere: it gives the value, or what it needs is not there and it fails. `AllOver`
and `AllFilesOver` carry that over a whole sequence, whatever beginning of it has arrived (`Here`,
`Arrives`, `Came`). The block of a user ends at its first zero or at its length (`FromBlock`), and two
versions compare as their combined numbers because each number is below `Base` (`Ordered`).

Model-checked only:

- all liveness (`AbandonedSessionEnds`, `AnsweredCommandEnds`, `TransfersEnd`, `LoadEnds`,
  `MessagesShown`), which is out of this prover's reach.

## 5. Not modelled, and what is left

Left: requests of `Sfs` that only read, and developers on other
drives; which of several user files with one name is kept.

Not modelled: what local commands print (`help`, `clear`, `dir`, the progress of a transfer),
which changes nothing in the system, and the command a `RunSyscmd` runs, which belongs to the
operating system.
