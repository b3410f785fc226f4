------------------------------ MODULE MCSession ------------------------------
(* Two clients, a good and a bad password, a session and a forwarding     *)
(* channel type, and three requests: "subsystem sftp" with its 4-byte     *)
(* length prefix, a subsystem request with a 2-byte payload, and a        *)
(* "pty-req" with an empty one.                                           *)
EXTENDS Session, TLC

CONSTANTS c1, c2, good, bad

MCClients == {c1, c2}
MCCreds == {good, bad}
MCGoodCreds == {good}
MCChanTypes == {"session", "direct-tcpip"}
MCRequests ==
  { [type |-> "subsystem", len |-> 8, name |-> "sftp"],
    [type |-> "subsystem", len |-> 2, name |-> "none"],
    [type |-> "pty-req", len |-> 0, name |-> "none"] }
MCMaxReqs == 2
\* clients differ in nothing but their name
MCSymmetry == Permutations(MCClients)
=============================================================================
