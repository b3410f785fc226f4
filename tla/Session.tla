------------------------------ MODULE Session ------------------------------
(***************************************************************************)
(* The SSH front of the server (main.go): the accept loop, the password   *)
(* check of the handshake, handleChannels and handleChannel.  Each client *)
(* opens one connection and on it one channel, then sends out-of-band     *)
(* requests on that channel; a goroutine per channel replies to them      *)
(* while server.Serve runs the SFTP session.  A panic in any goroutine    *)
(* ends the process, and with it every client's connection.               *)
(*                                                                         *)
(* A request's payload is abstracted to its length and to what            *)
(* req.Payload[4:] reads when the payload is that long.                   *)
(***************************************************************************)
EXTENDS Naturals, Sequences

CONSTANTS
  Clients,     \* SSH clients, one connection each
  Creds,       \* credentials a client may present
  GoodCreds,   \* those equal to cfg.ProxyUser and cfg.ProxyPassword
  ChanTypes,   \* channel types a client may open
  Requests,    \* requests a client may send: [type, len, name]
  MaxReqs      \* bound: requests per client

ASSUME /\ GoodCreds \subseteq Creds /\ "session" \in ChanTypes
       /\ \A r \in Requests : r.len \in Nat
       /\ MaxReqs \in Nat

VARIABLES
  up,        \* the server process runs
  conn,      \* conn[c]: "none", "open" (handshake done) or "refused"
  chType,    \* chType[c]: the type of the channel c opened
  ch,        \* ch[c]: "none", "new", "rejected", "closed", "serving", "ended", "killed"
  inbox,     \* inbox[c]: requests c sent that the request goroutine has not read
  sent,      \* requests c has sent
  replies    \* replies[c]: the req.Reply values c received, in order

vars == <<up, conn, chType, ch, inbox, sent, replies>>

\* The PasswordCallback: the user and password are the configured ones.
CredOK(cr) == cr \in GoodCreds

\* listener.Accept and ssh.NewServerConn: the handshake fails on a wrong
\* password or a broken connection, and the loop goes on to the next.
Accept(c, cr) ==
  /\ up /\ conn[c] = "none"
  /\ \/ CredOK(cr) /\ conn' = [conn EXCEPT ![c] = "open"]
     \/ conn' = [conn EXCEPT ![c] = "refused"]
  /\ UNCHANGED <<up, chType, ch, inbox, sent, replies>>

\* The client opens a channel of type t; handleChannels receives it.
OpenChannel(c, t) ==
  /\ conn[c] = "open" /\ ch[c] = "none"
  /\ ch' = [ch EXCEPT ![c] = "new"]
  /\ chType' = [chType EXCEPT ![c] = t]
  /\ UNCHANGED <<up, conn, inbox, sent, replies>>

\* handleChannel: a channel that is not a session is rejected; Accept may
\* fail; otherwise the request goroutine starts and server.Serve runs,
\* whatever the requests will say.
HandleChannel(c) ==
  /\ up /\ ch[c] = "new"
  /\ \/ chType[c] # "session" /\ ch' = [ch EXCEPT ![c] = "rejected"]
     \/ chType[c] = "session" /\ ch' = [ch EXCEPT ![c] = "closed"]
     \/ chType[c] = "session" /\ ch' = [ch EXCEPT ![c] = "serving"]
  /\ UNCHANGED <<up, conn, chType, inbox, sent, replies>>

\* The client sends an out-of-band request on its accepted channel.
SendRequest(c, r) ==
  /\ ch[c] = "serving" /\ sent[c] < MaxReqs
  /\ inbox' = [inbox EXCEPT ![c] = Append(@, r)]
  /\ sent' = [sent EXCEPT ![c] = @ + 1]
  /\ UNCHANGED <<up, conn, chType, ch, replies>>

\* req.Payload[4:] is out of range: the goroutine panics.
Panics(r) == r.type = "subsystem" /\ r.len < 4

\* The request goroutine reads the next request.  A subsystem request is
\* accepted when its payload past the length prefix is "sftp", any other
\* refused; a payload shorter than 4 bytes panics and the process exits.
HandleRequest(c) ==
  LET r == Head(inbox[c]) IN
  /\ up /\ ch[c] = "serving" /\ inbox[c] # <<>>
  /\ inbox' = [inbox EXCEPT ![c] = Tail(@)]
  /\ IF Panics(r)
     THEN /\ up' = FALSE
          /\ ch' = [d \in Clients |-> IF ch[d] \in {"new", "serving"} THEN "killed" ELSE ch[d]]
          /\ UNCHANGED replies
     ELSE /\ replies' = [replies EXCEPT ![c] =
                           Append(@, r.type = "subsystem" /\ r.name = "sftp")]
          /\ UNCHANGED <<up, ch>>
  /\ UNCHANGED <<conn, chType, sent>>

\* server.Serve returns: the client exited (io.EOF, then Close) or the
\* session failed.
ServeEnd(c) ==
  /\ up /\ ch[c] = "serving"
  /\ ch' = [ch EXCEPT ![c] = "ended"]
  /\ UNCHANGED <<up, conn, chType, inbox, sent, replies>>

Init ==
  /\ up = TRUE
  /\ conn = [c \in Clients |-> "none"]
  /\ chType = [c \in Clients |-> "session"]
  /\ ch = [c \in Clients |-> "none"]
  /\ inbox = [c \in Clients |-> <<>>]
  /\ sent = [c \in Clients |-> 0]
  /\ replies = [c \in Clients |-> <<>>]

Next ==
  \E c \in Clients :
    \/ \E cr \in Creds : Accept(c, cr)
    \/ \E t \in ChanTypes : OpenChannel(c, t)
    \/ HandleChannel(c) \/ HandleRequest(c) \/ ServeEnd(c)
    \/ \E r \in Requests : SendRequest(c, r)

Spec == Init /\ [][Next]_vars

-----------------------------------------------------------------------------
TypeOK ==
  /\ up \in BOOLEAN
  /\ conn \in [Clients -> {"none", "open", "refused"}]
  /\ chType \in [Clients -> ChanTypes]
  /\ ch \in [Clients -> {"none", "new", "rejected", "closed", "serving", "ended", "killed"}]
  /\ inbox \in [Clients -> Seq(Requests)] /\ sent \in [Clients -> 0..MaxReqs]
  /\ replies \in [Clients -> Seq(BOOLEAN)]

\* Spec 7: errors are returned, not thrown.  A client's SFTP session ends
\* only when its own Serve returns or through a request of its own, never
\* because of a request another client sent (handleChannel's
\* req.Payload[4:] on a short subsystem payload, main.go:154).
SessionsIsolated ==
  [][\A c \in Clients :
       (ch[c] = "serving" /\ ch'[c] # "serving") => ch'[c] = "ended" \/ inbox'[c] # inbox[c]]_vars
=============================================================================
