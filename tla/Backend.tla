------------------------------- MODULE Backend -------------------------------
(***************************************************************************)
(* The SFTP connection pool and the provider on top of it (package        *)
(* backend: pool.go, provider.go).  The pool is a buffered channel of idle *)
(* connections; Get takes one or dials a new one, Put returns one or       *)
(* closes it when the channel is full.  Each provider call (ReadFile,      *)
(* ReadDir, Stat) runs on the caller's goroutine: Get, the SFTP operation, *)
(* then Put, or after a failed operation a ping that decides between      *)
(* Close and Put.  The network may break an open connection at any time.   *)
(***************************************************************************)
EXTENDS Naturals, Sequences, FiniteSets

CONSTANTS
  Clients,     \* goroutines calling the provider (the requester's workers)
  Capacity,    \* capacity of p.conns (32 in NewProvider)
  MaxConns,    \* bound: connections ever dialed
  MaxBreaks    \* bound: connections broken by the network

ASSUME /\ Capacity \in Nat \ {0} /\ MaxConns \in Nat /\ MaxBreaks \in Nat

Conns == 1..MaxConns
NoConn == 0
Ops == {"ReadFile", "ReadDir", "Stat"}
\* none: not dialed yet; broken: the SSH transport is dead but not closed
Status == {"none", "open", "broken", "closed"}

VARIABLES
  idle,        \* p.conns: the idle connections, in channel order
  status,      \* state of each connection
  dialed,      \* connections dialed so far
  breaks,      \* connections broken so far
  pc,          \* client program counter
  op,          \* the provider method the client is in
  held         \* the connection the client got from the pool

vars == <<idle, status, dialed, breaks, pc, op, held>>

-----------------------------------------------------------------------------
(* pool.go                                                                 *)

\* c := <-p.conns
TakeIdle(q) == Tail(q)

\* conn.Close()
CloseConn(c) == status' = [status EXCEPT ![c] = "closed"]

\* mutant: a full channel drops the connection without closing it
PutDropWhenFull(c) ==
  /\ idle' = IF Len(idle) < Capacity THEN Append(idle, c) ELSE idle
  /\ UNCHANGED status

\* Put: send on p.conns, or close when the channel is full (select default).
PutConn(c) ==
  IF Len(idle) < Capacity
  THEN idle' = Append(idle, c) /\ UNCHANGED status
  ELSE CloseConn(c) /\ UNCHANGED idle

\* mutant: the connection is closed and also put back
HandleOpErrorNoElse(c) ==
  /\ CloseConn(c)
  /\ idle' = IF Len(idle) < Capacity THEN Append(idle, c) ELSE idle

\* mutant: `defer p.p.Put(c)` registered right after Get, before the
\* operation's error check, so the error path's Close or Put is followed
\* by a second Put of the same connection
HandleOpErrorDoublePut(c) ==
  LET first == IF status[c] # "broken" /\ Len(idle) < Capacity
               THEN Append(idle, c) ELSE idle
      closedFirst == first = idle
      fits == Len(first) < Capacity
  IN /\ idle' = IF fits THEN Append(first, c) ELSE first
     /\ status' = IF closedFirst \/ ~fits
                  THEN [status EXCEPT ![c] = "closed"] ELSE status

\* After a failed operation: ping the SSH connection, Close it if the
\* ping fails, otherwise Put it back.
HandleOpError(c) ==
  IF status[c] = "broken"
  THEN CloseConn(c) /\ UNCHANGED idle
  ELSE PutConn(c)

-----------------------------------------------------------------------------
(* provider.go: one client goroutine                                       *)

Release(cl) ==
  /\ pc' = [pc EXCEPT ![cl] = "idle"]
  /\ held' = [held EXCEPT ![cl] = NoConn]

\* The client calls ReadFile, ReadDir or Stat.
Call(cl, o) ==
  /\ pc[cl] = "idle"
  /\ pc' = [pc EXCEPT ![cl] = "get"]
  /\ op' = [op EXCEPT ![cl] = o]
  /\ UNCHANGED <<idle, status, dialed, breaks, held>>

\* Get: an idle connection is ready on the channel.
GetIdle(cl) ==
  /\ pc[cl] = "get" /\ idle # <<>>
  /\ held' = [held EXCEPT ![cl] = Head(idle)]
  /\ idle' = TakeIdle(idle)
  /\ pc' = [pc EXCEPT ![cl] = "op"]
  /\ UNCHANGED <<status, dialed, breaks, op>>

\* Get: no idle connection, newConn succeeds.
GetDial(cl) ==
  LET c == dialed + 1 IN
  /\ pc[cl] = "get" /\ idle = <<>> /\ dialed < MaxConns
  /\ dialed' = c
  /\ status' = [status EXCEPT ![c] = "open"]
  /\ held' = [held EXCEPT ![cl] = c]
  /\ pc' = [pc EXCEPT ![cl] = "op"]
  /\ UNCHANGED <<idle, breaks, op>>

\* Get: no idle connection, ssh.Dial or sftp.NewClient fails (the SSH
\* client is closed again); the call returns the error.
GetDialFail(cl) ==
  /\ pc[cl] = "get" /\ idle = <<>>
  /\ pc' = [pc EXCEPT ![cl] = "idle"]
  /\ UNCHANGED <<idle, status, dialed, breaks, op, held>>

\* ReadFile: Open succeeds; the deferred Put and Close are registered and
\* the call goes on to read the file.
OpenOk(cl) ==
  /\ pc[cl] = "op" /\ op[cl] = "ReadFile" /\ status[held[cl]] = "open"
  /\ pc' = [pc EXCEPT ![cl] = "write"]
  /\ UNCHANGED <<idle, status, dialed, breaks, op, held>>

\* ReadDir or Stat succeeds: Put the connection and return the result.
QueryOk(cl) ==
  /\ pc[cl] = "op" /\ op[cl] # "ReadFile" /\ status[held[cl]] = "open"
  /\ PutConn(held[cl])
  /\ Release(cl)
  /\ UNCHANGED <<dialed, breaks, op>>

\* The SFTP operation fails: always on a broken connection, and on an open
\* one for a missing path or a permission error.
OpFail(cl) ==
  /\ pc[cl] = "op"
  /\ pc' = [pc EXCEPT ![cl] = "ping"]
  /\ UNCHANGED <<idle, status, dialed, breaks, op, held>>

\* SendRequest("ping"), then Close or Put; the call returns the error.
Ping(cl) ==
  /\ pc[cl] = "ping"
  /\ HandleOpError(held[cl])
  /\ Release(cl)
  /\ UNCHANGED <<dialed, breaks, op>>

\* ReadFile: file.WriteTo(buf), successful or not, then the deferred
\* file.Close() and p.p.Put(c).
WriteTo(cl) ==
  /\ pc[cl] = "write"
  /\ PutConn(held[cl])
  /\ Release(cl)
  /\ UNCHANGED <<dialed, breaks, op>>

\* The network breaks an open connection, idle or in use.
Break(c) ==
  /\ status[c] = "open" /\ breaks < MaxBreaks
  /\ status' = [status EXCEPT ![c] = "broken"]
  /\ breaks' = breaks + 1
  /\ UNCHANGED <<idle, dialed, pc, op, held>>

-----------------------------------------------------------------------------
Init ==
  /\ idle = <<>>
  /\ status = [c \in Conns |-> "none"]
  /\ dialed = 0
  /\ breaks = 0
  /\ pc = [cl \in Clients |-> "idle"]
  /\ op = [cl \in Clients |-> "Stat"]
  /\ held = [cl \in Clients |-> NoConn]

Next ==
  \/ \E cl \in Clients :
        \/ \E o \in Ops : Call(cl, o)
        \/ GetIdle(cl) \/ GetDial(cl) \/ GetDialFail(cl)
        \/ OpenOk(cl) \/ QueryOk(cl) \/ OpFail(cl) \/ Ping(cl) \/ WriteTo(cl)
  \/ \E c \in Conns : Break(c)

Spec == Init /\ [][Next]_vars

-----------------------------------------------------------------------------
(* Properties                                                              *)

Holding(cl) == pc[cl] \in {"op", "write", "ping"}

IdleSet == {idle[i] : i \in DOMAIN idle}

\* The provider's promise (provider.go, comment on Provider): no two
\* concurrent calls share a connection.  A connection in use is held by
\* one client only and is not idle in the pool at the same time, and no
\* connection sits in the pool twice.
ExclusiveUse ==
  /\ \A c1, c2 \in Clients :
       (c1 # c2 /\ Holding(c1) /\ Holding(c2)) => held[c1] # held[c2]
  /\ \A cl \in Clients : Holding(cl) => held[cl] \notin IdleSet
  /\ Len(idle) = Cardinality(IdleSet)

\* No connection leaks: every dialed connection that was not closed is
\* either idle in the pool or in use by a call, so its SSH session can
\* still be closed by someone (Put's default branch, the ping path).
NoLeak ==
  \A c \in Conns :
    status[c] \in {"open", "broken"} =>
      c \in IdleSet \/ \E cl \in Clients : Holding(cl) /\ held[cl] = c

\* A closed connection is never handed out again: it is neither in the
\* pool nor in use (Close is called on a connection no one else holds).
NoClosedReuse ==
  \A c \in Conns :
    status[c] = "closed" =>
      c \notin IdleSet /\ \A cl \in Clients : Holding(cl) => held[cl] # c

\* Spec section 5: after a failed backend operation the connection is
\* probed and, if the probe fails, discarded rather than returned.  No
\* step of a call whose operation ran on a dead connection (Open, ReadDir
\* or Stat failing, or ReadFile's WriteTo) puts that connection back in
\* the pool.
FailedNotReturned ==
  [][\A cl \in Clients :
       (pc[cl] \in {"write", "ping"} /\ status[held[cl]] = "broken")
         => held[cl] \notin {idle'[i] : i \in DOMAIN idle'}]_vars

=============================================================================
