----------------------------- MODULE MCFileStore -----------------------------
(* A small instance of FileStore: a server process with a plain session, a  *)
(* session in proxy mode and a forwarder of its own, and a second process   *)
(* that only forwards.                                                      *)
EXTENDS FileStore, TLC

CONSTANTS s1, s2, f1, f2, server, client

Sessions   == {s1, s2}
Forwarders == {f1, f2}
Processes  == {server, client}
Hosts      == (s1 :> server @@ s2 :> server @@ f1 :> server @@ f2 :> client)
=============================================================================
