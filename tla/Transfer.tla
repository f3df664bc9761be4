------------------------------ MODULE Transfer ------------------------------
(***************************************************************************)
(* Uploads and downloads of one file of the server by several sessions     *)
(* (the io_load commands and the IOGetFileContent and IOSetFileContent     *)
(* handlers of both programs).                                             *)
(*                                                                         *)
(* After one request and one response the side that has the file writes    *)
(* as many buffers as were announced and the other side reads as many;     *)
(* nothing is acknowledged and nothing marks the end, so that both sides   *)
(* must agree on the number and on the length of every buffer, or the next *)
(* command would read file data as its response.                           *)
(*                                                                         *)
(* Opening for an upload truncates the file.  What a handler has written   *)
(* reaches the file when its stream is flushed, at any time until it is    *)
(* closed, and nothing keeps other handlers from the file meanwhile.       *)
(***************************************************************************)
EXTENDS Naturals, Sequences

CONSTANTS
  Sessions,
  Sizes,          \* the sizes of the files that are uploaded
  OriginalSize,   \* the size of the file before any upload
  ClientBuffer,   \* commands.download_buffer_size, commands.upload_buffer_size
  MaxBuffer,      \* io_load.max_buffer_size
  MaxTransfers    \* bound on the transfers of a session

ASSUME TransferAssumption ==
  /\ Sizes \subseteq Nat /\ OriginalSize \in Nat
  /\ ClientBuffer \in [Sessions -> Nat \ {0}]
  /\ MaxBuffer \in Nat /\ MaxTransfers \in Nat
  /\ "original" \notin Sessions

\* A byte is known by where it comes from: a place in the file a session uploads or in
\* the original file, the Quit of an interrupted client, or nowhere (a hole in the file,
\* what an earlier buffer left behind).
Nowhere == <<"nowhere", 0>>
QuitByte == <<"quit", 0>>
Byte == ((Sessions \cup {"original"}) \X Nat) \cup {QuitByte, Nowhere}
Source(k, n) == [i \in 1..n |-> <<k, i>>]

Lesser(m, n) == IF m < n THEN m ELSE n

-----------------------------------------------------------------------------
(* Numbers and lengths of buffers.                                         *)

\* MUTANT: no buffer for what is left.
CountShort(size, b) == size \div b

\* MUTANT: the index of the last whole buffer.
CountLast(size, b) == size \div b - 1

\* openFile of the server and calcBufferCount of the client.
Count(size, b) == size \div b + 1

\* MUTANT: the last buffer is written whole.
ClientLengthFull(i, count, size, b) == b

\* What the client reads or writes of buffer i.
ClientLength(i, count, size, b) == IF i = count - 1 THEN size % b ELSE b

\* The buffer the server fills: the last one is not shortened when the size is a
\* multiple of b, and is then sent whole.
ServerLength(i, count, size, b) ==
  IF i = count - 1 /\ size % b # 0 THEN size % b ELSE b

\* MUTANT: one buffer more.
AvailableAlways(i, count) == i <= count

\* isAvailable of the client's handlers.
Available(i, count) == i < count

\* The loop conditions of the server's handlers.
More(i, count) == i < count

-----------------------------------------------------------------------------

VARIABLES
  disk,      \* the file on the server
  toServer, toClient,
  client,    \* the client's transfer
  made,      \* transfers started, for the bound
  closing,   \* Ctrl-C: Client::close has written Quit
  handler,   \* the handler on the server
  disturbed, \* history: another session truncated the file or wrote to it while the
             \* session's last transfer was open
  snap       \* history: the file when the session's last download was opened

vars == <<disk, toServer, toClient, client, made, closing, handler, disturbed, snap>>

NoTransfer == [at |-> "idle", op |-> "download", size |-> 0, count |-> 0, idx |-> 0,
               out |-> <<>>, result |-> "none"]
Transfers == [at : {"idle", "asked", "loading", "torn", "gone"}, op : {"upload", "download"},
              size : Nat, count : Nat, idx : Nat, out : Seq(Byte),
              result : {"none", "uploaded", "downloaded", "failed"}]

\* good is a history: how many buffers in a row from the first were the file's.
NoHandler == [doing |-> "none", size |-> 0, count |-> 0, buffer |-> 1, idx |-> 0, pos |-> 0,
              eof |-> FALSE, buf |-> <<>>, good |-> 0]
Handlers == [doing : {"none", "upload", "download", "ended"}, size : Nat, count : Nat,
             buffer : Nat, idx : Nat, pos : Nat, eof : BOOLEAN, buf : Seq(Byte), good : Nat]

Get(b)       == [kind |-> "get", size |-> 0, buffer |-> b, count |-> 0]
Set(n, b)    == [kind |-> "set", size |-> n, buffer |-> b, count |-> Count(n, b)]
Chunk(bytes) == [kind |-> "chunk", bytes |-> bytes]
Junk(n)      == [kind |-> "junk", bytes |-> [i \in 1..n |-> QuitByte]]
Quit         == [kind |-> "quit", bytes |-> <<QuitByte, QuitByte>>]
Reply(n, c)  == [kind |-> "reply", ok |-> TRUE, size |-> n, count |-> c]
Refusal      == [kind |-> "reply", ok |-> FALSE, size |-> 0, count |-> 0]

Data == [kind : {"chunk", "junk", "quit"}, bytes : Seq(Byte)]
ToServerFrames == [kind : {"get", "set"}, size : Nat, buffer : Nat, count : Nat] \cup Data
ToClientFrames == [kind : {"reply"}, ok : BOOLEAN, size : Nat, count : Nat] \cup Data

Init ==
  /\ disk = Source("original", OriginalSize)
  /\ toServer = [k \in Sessions |-> <<>>]
  /\ toClient = [k \in Sessions |-> <<>>]
  /\ client = [k \in Sessions |-> NoTransfer]
  /\ made = [k \in Sessions |-> 0]
  /\ closing = [k \in Sessions |-> FALSE]
  /\ handler = [k \in Sessions |-> NoHandler]
  /\ disturbed = [k \in Sessions |-> FALSE]
  /\ snap = [k \in Sessions |-> <<>>]

Gone(k) == client[k].at = "gone"

ToServerSees(k, kinds) == toServer[k] # <<>> /\ Head(toServer[k]).kind \in kinds
ToClientSees(k, kind)  == toClient[k] # <<>> /\ Head(toClient[k]).kind = kind

\* Each constrains one queue.
ClientSends(k, f) == toServer' = [toServer EXCEPT ![k] = Append(@, f)]
ClientTakes(k)    == toClient' = [toClient EXCEPT ![k] = Tail(@)]
ServerTakes(k)    == toServer' = [toServer EXCEPT ![k] = Tail(@)]
ServerSends(k, f) == toClient' = IF Gone(k) THEN toClient ELSE [toClient EXCEPT ![k] = Append(@, f)]

-----------------------------------------------------------------------------
(* The client.                                                             *)

\* Constrains client'.
Turns(k, c) == client' = [client EXCEPT ![k] = c]

\* initStreamFor opens, and so empties, the output before the server is asked.
StartDownload(k) ==
  /\ client[k].at = "idle" /\ ~closing[k]
  /\ made[k] < MaxTransfers /\ made' = [made EXCEPT ![k] = @ + 1]
  /\ Turns(k, [NoTransfer EXCEPT !.at = "asked"])
  /\ ClientSends(k, Get(ClientBuffer[k]))
  /\ UNCHANGED <<disk, toClient, closing, handler, disturbed, snap>>

\* The size is that of the local file when openFile opens it; the file stays as it is.
StartUpload(k) ==
  /\ client[k].at = "idle" /\ ~closing[k]
  /\ made[k] < MaxTransfers /\ made' = [made EXCEPT ![k] = @ + 1]
  /\ \E n \in Sizes :
       /\ Turns(k, [NoTransfer EXCEPT !.at = "asked", !.op = "upload", !.size = n,
                                      !.count = Count(n, ClientBuffer[k])])
       /\ ClientSends(k, Set(n, ClientBuffer[k]))
  /\ UNCHANGED <<disk, toClient, closing, handler, disturbed, snap>>

\* checkResponse, extractFileSize and extractBufferCount.
ReadReply(k) ==
  /\ client[k].at = "asked" /\ ToClientSees(k, "reply")
  /\ LET r == Head(toClient[k])
         c == client[k]
     IN
     \/ ~r.ok /\ Turns(k, [c EXCEPT !.at = "idle", !.result = "failed"])
     \/ r.ok /\ c.op = "upload" /\ Turns(k, [c EXCEPT !.at = "loading"])
     \/ /\ r.ok /\ c.op = "download"
        /\ Turns(k, [c EXCEPT !.at = "loading", !.size = r.size, !.count = r.count])
  /\ ClientTakes(k)
  /\ UNCHANGED <<disk, toServer, made, closing, handler, disturbed, snap>>

Length(k) == ClientLength(client[k].idx, client[k].count, client[k].size, ClientBuffer[k])

\* downloadNextBuffer.
Download(k) ==
  /\ client[k].at = "loading" /\ client[k].op = "download"
  /\ Available(client[k].idx, client[k].count)
  /\ ToClientSees(k, "chunk")
  /\ Turns(k, [client[k] EXCEPT !.idx = @ + 1,
                                !.out = @ \o SubSeq(Head(toClient[k]).bytes, 1, Length(k))])
  /\ ClientTakes(k)
  /\ UNCHANGED <<disk, toServer, made, closing, handler, disturbed, snap>>

\* The bytes of the local file that uploadNextBuffer reads.
NextBytes(k) == [i \in 1..Length(k) |-> <<k, client[k].idx * ClientBuffer[k] + i>>]

\* uploadNextBuffer.
Upload(k) ==
  /\ client[k].at = "loading" /\ client[k].op = "upload"
  /\ Available(client[k].idx, client[k].count)
  /\ Turns(k, [client[k] EXCEPT !.idx = @ + 1])
  /\ ClientSends(k, Chunk(NextBytes(k)))
  /\ UNCHANGED <<disk, toClient, made, closing, handler, disturbed, snap>>

\* No buffer is left: the command has succeeded.
Finish(k) ==
  /\ client[k].at = "loading" /\ ~Available(client[k].idx, client[k].count)
  /\ Turns(k, [client[k] EXCEPT !.at = "idle",
                                !.result = IF client[k].op = "upload" THEN "uploaded" ELSE "downloaded"])
  /\ UNCHANGED <<disk, toServer, toClient, made, closing, handler, disturbed, snap>>

\* Ctrl-C: Client::close, on the signal thread, writes Quit between two frames of the
\* main thread, which goes on until the process exits...
Interrupt(k) ==
  /\ ~Gone(k) /\ ~closing[k]
  /\ closing' = [closing EXCEPT ![k] = TRUE]
  /\ ClientSends(k, Quit)
  /\ UNCHANGED <<disk, toClient, client, made, handler, disturbed, snap>>

\* ... or between the length and the content of a buffer that is being uploaded: the
\* content then begins with the bytes of Quit and may never be complete.  What follows
\* in the stream is never a whole frame.
Tear(k) ==
  /\ client[k].at = "loading" /\ client[k].op = "upload"
  /\ Available(client[k].idx, client[k].count) /\ Length(k) > 0
  /\ ~closing[k] /\ closing' = [closing EXCEPT ![k] = TRUE]
  /\ Turns(k, [client[k] EXCEPT !.at = "torn"])
  /\ UNCHANGED toServer \/ ClientSends(k, Junk(Length(k)))
  /\ UNCHANGED <<disk, toClient, made, handler, disturbed, snap>>

\* The client's process ends, after Ctrl-C or killed at any time, and its socket with
\* it.  When something was unread the connection is reset and what was sent may be lost.
Exit(k) ==
  /\ ~Gone(k)
  /\ Turns(k, [client[k] EXCEPT !.at = "gone"])
  /\ toClient' = [toClient EXCEPT ![k] = <<>>]
  /\ \/ UNCHANGED toServer
     \/ toClient[k] # <<>> /\ toServer' = [toServer EXCEPT ![k] = <<>>]
  /\ UNCHANGED <<disk, made, closing, handler, disturbed, snap>>

-----------------------------------------------------------------------------
(* The handlers of the server.                                             *)

\* checkBufferSize.
Acceptable(f) == f.buffer # 0 /\ f.buffer <= MaxBuffer

\* Constrains handler'.
Becomes(k, h) == handler' = [handler EXCEPT ![k] = h]

\* The other sessions whose transfer is open see the file change.  Constrains disturbed'.
Disturbs(k) ==
  disturbed' = [j \in Sessions |-> disturbed[j] \/ (j # k /\ handler[j].doing \in {"upload", "download"})]

\* An error response: the file cannot be opened, or checkBufferSize fails.
Refuse(k) ==
  /\ handler[k].doing = "none" /\ ToServerSees(k, {"get", "set"})
  /\ ServerTakes(k) /\ ServerSends(k, Refusal)
  /\ UNCHANGED <<disk, client, made, closing, handler, disturbed, snap>>

\* IOGetFileContentRH up to its response.  The response may fail to be sent when the
\* client is gone: the handler then ends.
OpenDownload(k) ==
  /\ handler[k].doing = "none" /\ ToServerSees(k, {"get"})
  /\ LET f == Head(toServer[k])
         c == Count(Len(disk), f.buffer)
     IN
     /\ Acceptable(f)
     /\ \/ Becomes(k, [NoHandler EXCEPT !.doing = "download", !.size = Len(disk), !.count = c,
                                        !.buffer = f.buffer])
        \/ Gone(k) /\ UNCHANGED handler
     /\ ServerSends(k, Reply(Len(disk), c))
  /\ ServerTakes(k)
  /\ snap' = [snap EXCEPT ![k] = disk]
  /\ disturbed' = [disturbed EXCEPT ![k] = FALSE]
  /\ UNCHANGED <<disk, client, made, closing>>

\* IOSetFileContentRH up to its response: the file is empty from here on.
OpenUpload(k) ==
  /\ handler[k].doing = "none" /\ ToServerSees(k, {"set"})
  /\ LET f == Head(toServer[k]) IN
     /\ Acceptable(f)
     /\ \/ Becomes(k, [NoHandler EXCEPT !.doing = "upload", !.size = f.size, !.count = f.count,
                                        !.buffer = f.buffer])
        \/ Gone(k) /\ UNCHANGED handler
     /\ ServerSends(k, Reply(0, 0))
  /\ ServerTakes(k)
  /\ disk' = <<>>
  /\ disturbed' = [j \in Sessions |->
       j # k /\ (disturbed[j] \/ handler[j].doing \in {"upload", "download"})]
  /\ UNCHANGED <<client, made, closing, snap>>

\* What one read of the stream puts into the buffer.  A read that meets the end of the
\* file sets the stream's state, and no later one reads anything.
Filled(h, n) ==
  LET here == IF h.eof THEN 0 ELSE Lesser(n, IF Len(disk) > h.pos THEN Len(disk) - h.pos ELSE 0)
  IN  [i \in 1..n |-> IF i <= here THEN disk[h.pos + i] ELSE Nowhere]

\* One round of transmitData of the download.
SendBuffer(k) ==
  LET h == handler[k]
      n == ServerLength(h.idx, h.count, h.size, h.buffer)
  IN
  /\ h.doing = "download" /\ More(h.idx, h.count)
  /\ Becomes(k, [h EXCEPT !.idx = @ + 1, !.pos = @ + n, !.eof = @ \/ Len(disk) < h.pos + n])
  /\ ServerSends(k, Chunk(Filled(h, n)))
  /\ UNCHANGED <<disk, toServer, client, made, closing, disturbed, snap>>

\* transmitData of the download has returned, or failed because the client is gone.
CloseDownload(k) ==
  /\ handler[k].doing = "download"
  /\ ~More(handler[k].idx, handler[k].count) \/ Gone(k)
  /\ Becomes(k, NoHandler)
  /\ UNCHANGED <<disk, toServer, toClient, client, made, closing, disturbed, snap>>

\* One round of transmitData of the upload: whatever frame comes next is data.
TakeBuffer(k) ==
  LET h == handler[k]
      f == Head(toServer[k])
  IN
  /\ h.doing = "upload" /\ More(h.idx, h.count) /\ ToServerSees(k, {"chunk", "junk", "quit"})
  /\ Becomes(k, [h EXCEPT !.idx = @ + 1, !.buf = @ \o f.bytes,
                          !.good = IF f.kind = "chunk" /\ @ = h.idx THEN @ + 1 ELSE @])
  /\ ServerTakes(k)
  /\ UNCHANGED <<disk, toClient, client, made, closing, disturbed, snap>>

\* The file after the bytes are written at a position of their own, wherever its end is.
Written(pos, bytes) ==
  IF bytes = <<>> THEN disk
  ELSE [i \in 1..(IF Len(disk) > pos + Len(bytes) THEN Len(disk) ELSE pos + Len(bytes)) |->
          IF i \in pos + 1 .. pos + Len(bytes) THEN bytes[i - pos]
          ELSE IF i <= Len(disk) THEN disk[i] ELSE Nowhere]

\* The stream writes some of what it holds.
Flush(k) ==
  LET h == handler[k] IN
  /\ h.doing = "upload"
  /\ \E n \in 1..Len(h.buf) :
       /\ disk' = Written(h.pos, SubSeq(h.buf, 1, n))
       /\ Becomes(k, [h EXCEPT !.pos = @ + n, !.buf = SubSeq(@, n + 1, Len(@))])
  /\ Disturbs(k)
  /\ UNCHANGED <<toServer, toClient, client, made, closing, snap>>

\* MUTANT: the handler returns and its stream is not closed.
CloseUploadUnflushed(k) ==
  LET h == handler[k] IN
  /\ h.doing = "upload"
  /\ ~More(h.idx, h.count) \/ (Gone(k) /\ toServer[k] = <<>>)
  /\ Becomes(k, NoHandler)
  /\ UNCHANGED <<disk, toServer, toClient, client, made, closing, disturbed, snap>>

\* transmitData of the upload has returned, or failed because the stream of the
\* connection ended; closeFile then writes the rest.
CloseUpload(k) ==
  LET h == handler[k] IN
  /\ h.doing = "upload"
  /\ ~More(h.idx, h.count) \/ (Gone(k) /\ toServer[k] = <<>>)
  /\ disk' = Written(h.pos, h.buf)
  /\ Becomes(k, NoHandler)
  /\ IF h.buf # <<>> THEN Disturbs(k) ELSE UNCHANGED disturbed
  /\ UNCHANGED <<toServer, toClient, client, made, closing, snap>>

\* The session reads Quit, the end of the stream, or, after an interrupted upload, data
\* where a request should be.
EndSession(k) ==
  /\ handler[k].doing = "none"
  /\ ToServerSees(k, {"quit", "chunk", "junk"}) \/ (Gone(k) /\ toServer[k] = <<>>)
  /\ Becomes(k, [NoHandler EXCEPT !.doing = "ended"])
  /\ toServer' = [toServer EXCEPT ![k] = <<>>]
  /\ UNCHANGED <<disk, toClient, client, made, closing, disturbed, snap>>

-----------------------------------------------------------------------------

ClientStep(k) ==
  ReadReply(k) \/ Download(k) \/ Upload(k) \/ Finish(k) \/ (closing[k] /\ Exit(k))

ServerStep(k) ==
  \/ Refuse(k) \/ OpenDownload(k) \/ OpenUpload(k) \/ SendBuffer(k) \/ CloseDownload(k)
  \/ TakeBuffer(k) \/ CloseUpload(k) \/ EndSession(k)

Next ==
  \E k \in Sessions :
    \/ StartDownload(k) \/ StartUpload(k) \/ ReadReply(k) \/ Download(k) \/ Upload(k)
    \/ Finish(k) \/ Interrupt(k) \/ Tear(k) \/ Exit(k)
    \/ ServerStep(k) \/ Flush(k)

Spec == Init /\ [][Next]_vars

\* Both programs run on; what nobody waits for (a key, a flush) may never come.
FairSpec ==
  Spec /\ \A k \in Sessions : WF_vars(ClientStep(k)) /\ WF_vars(ServerStep(k))

-----------------------------------------------------------------------------
(* Properties.                                                             *)

\* Types of the state.
TypeOK ==
  /\ disk \in Seq(Byte)
  /\ toServer \in [Sessions -> Seq(ToServerFrames)]
  /\ toClient \in [Sessions -> Seq(ToClientFrames)]
  /\ client \in [Sessions -> Transfers]
  /\ made \in [Sessions -> 0..MaxTransfers]
  /\ closing \in [Sessions -> BOOLEAN]
  /\ handler \in [Sessions -> Handlers]
  /\ disturbed \in [Sessions -> BOOLEAN]
  /\ snap \in [Sessions -> Seq(Byte)]

\* A download that succeeded while nobody else touched the file has the file as it was
\* when the server opened it, whatever its size and the size of the buffers: nothing is
\* missing and nothing of the server's unshortened last buffer is left in it.
DownloadExact ==
  \A k \in Sessions :
    client[k].result = "downloaded" /\ ~disturbed[k] => client[k].out = snap[k]

\* downloadNextBuffer writes as many bytes as it has computed, not as many as it has
\* read: the buffer read is never shorter, even when the file was truncated meanwhile
\* (the write would read past its end).
ReadsWithinBuffer ==
  \A k \in Sessions :
    client[k].at = "loading" /\ client[k].op = "download" /\ ToClientSees(k, "chunk")
      => Len(Head(toClient[k]).bytes) >= Length(k)

\* As long as the user does not press Ctrl-C both sides agree on where a transfer ends:
\* the server never finds data where a request should be nor a request where it wants
\* data, and the client waits for a response only when the next frame is one.
Aligned ==
  \A k \in Sessions :
    ~closing[k] =>
      /\ handler[k].doing = "none" => ~ToServerSees(k, {"chunk", "junk", "quit"})
      /\ handler[k].doing = "upload" /\ More(handler[k].idx, handler[k].count)
           => ~ToServerSees(k, {"get", "set"})
      /\ client[k].at \in {"idle", "asked"} => ~ToClientSees(k, "chunk")
      /\ client[k].at = "loading" => ~ToClientSees(k, "reply")

\* When the server closes an upload that no other session has disturbed, the file has
\* every buffer that was received before Ctrl-C or the end of the client, in its place,
\* and is the client's file when all of them were.
UploadStored ==
  [][\A k \in Sessions :
       LET h == handler[k]
           n == Lesser(h.good * h.buffer, h.size)
       IN
       h.doing = "upload" /\ handler'[k].doing = "none" /\ ~disturbed[k]
         => /\ Len(disk') >= n /\ SubSeq(disk', 1, n) = Source(k, n)
            /\ h.good = h.count => disk' = Source(k, h.size)]_vars

\* A transfer that was started ends, and the prompt comes back unless the client exits.
TransferEnds(k) ==
  client[k].at \in {"asked", "loading"} ~> client[k].at \in {"idle", "torn", "gone"}

\* No handler is left with an open file: neither when the client is killed, nor when it
\* is interrupted in the middle of a buffer.
HandlerEnds(k) ==
  handler[k].doing \in {"upload", "download"} ~> handler[k].doing \in {"none", "ended"}
=============================================================================
