-------------------------------- MODULE Wire --------------------------------
(***************************************************************************)
(* The TCP connections between the clients and the server, as the programs *)
(* use them: two FIFO queues of frames per connection and, for each end,   *)
(* whether its process still holds the socket open.                        *)
(*                                                                         *)
(* A close discards what the closing side had not read.  When there was    *)
(* something unread TCP resets the connection, and the other side may then *)
(* lose what was sent to it and not read yet: both outcomes are allowed.   *)
(***************************************************************************)
EXTENDS Protocol, Sequences

CONSTANT Conns   \* the connections that may ever be made (a bound on connects)

VARIABLES
  toServer,    \* frames sent by the client and not read by the session
  toClient,    \* frames sent by the session and not read by the client
  clientEnd,   \* the client's socket
  serverEnd,   \* the session's socket
  listening    \* the server process is alive and accepts connections

wireVars == <<toServer, toClient, clientEnd, serverEnd, listening>>

EndStates == {"unused", "open", "closed"}

WireTypeOK ==
  /\ toServer  \in [Conns -> Seq(ToServerFrames)]
  /\ toClient  \in [Conns -> Seq(ToClientFrames)]
  /\ clientEnd \in [Conns -> EndStates]
  /\ serverEnd \in [Conns -> EndStates]
  /\ listening \in BOOLEAN

WireInit ==
  /\ toServer  = [k \in Conns |-> <<>>]
  /\ toClient  = [k \in Conns |-> <<>>]
  /\ clientEnd = [k \in Conns |-> "unused"]
  /\ serverEnd = [k \in Conns |-> "unused"]
  /\ listening = TRUE

-----------------------------------------------------------------------------
(* The server's side.  Each operator constrains only the variables named.  *)

\* A write to a peer that is gone reaches nobody.  Constrains toClient'.
ServerSends(k, f) ==
  toClient' = IF clientEnd[k] = "open"
              THEN [toClient EXCEPT ![k] = Append(@, f)]
              ELSE toClient

\* Constrains toServer'.
ServerTakes(k) == toServer' = [toServer EXCEPT ![k] = Tail(@)]

\* The next frame to read is there and is of this kind.
ServerSees(k, kind) == toServer[k] # <<>> /\ Head(toServer[k]).kind = kind

\* End of stream: nothing left to read and the client has closed.
ServerSeesEnd(k) == toServer[k] = <<>> /\ clientEnd[k] = "closed"

\* Constrains serverEnd', toServer' and toClient'.
ServerCloses(k) ==
  /\ serverEnd' = [serverEnd EXCEPT ![k] = "closed"]
  /\ toServer'  = [toServer EXCEPT ![k] = <<>>]
  /\ \/ toClient' = toClient
     \/ toServer[k] # <<>> /\ toClient' = [toClient EXCEPT ![k] = <<>>]

\* The process dies: the system closes every socket it held.
ServerDies ==
  /\ listening' = FALSE
  /\ serverEnd' = [k \in Conns |-> IF serverEnd[k] = "open" THEN "closed" ELSE serverEnd[k]]
  /\ toServer'  = [k \in Conns |-> <<>>]
  /\ \E lost \in SUBSET {k \in Conns : toServer[k] # <<>>} :
       toClient' = [k \in Conns |-> IF k \in lost THEN <<>> ELSE toClient[k]]
  /\ UNCHANGED clientEnd

-----------------------------------------------------------------------------
(* The client's side.                                                      *)

\* Constrains toServer'.
ClientSends(k, f) ==
  toServer' = IF serverEnd[k] = "open"
              THEN [toServer EXCEPT ![k] = Append(@, f)]
              ELSE toServer

\* Constrains toClient'.
ClientTakes(k) == toClient' = [toClient EXCEPT ![k] = Tail(@)]

ClientSees(k, kind) == toClient[k] # <<>> /\ Head(toClient[k]).kind = kind

ClientSeesEnd(k) == toClient[k] = <<>> /\ serverEnd[k] = "closed"

\* Close after a last write that leaves the queues to the server at "out", with
\* "unread" what the client has not read.  Constrains clientEnd', toClient', toServer'.
ClientCloses(k, out, unread) ==
  /\ clientEnd' = [clientEnd EXCEPT ![k] = "closed"]
  /\ toClient'  = [toClient EXCEPT ![k] = <<>>]
  /\ \/ toServer' = out
     \/ unread # <<>> /\ toServer' = [out EXCEPT ![k] = <<>>]

\* A connection never made before is established and the welcome frame written.
\* Constrains clientEnd', serverEnd' and toServer'.
ClientOpens(k) ==
  /\ listening
  /\ clientEnd[k] = "unused"
  /\ clientEnd' = [clientEnd EXCEPT ![k] = "open"]
  /\ serverEnd' = [serverEnd EXCEPT ![k] = "open"]
  /\ toServer'  = [toServer EXCEPT ![k] = <<Welcome>>]
=============================================================================
