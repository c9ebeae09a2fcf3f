--------------------------- MODULE MCServerProtocol ---------------------------
(* Small instances of ServerProtocol: configurations and peers.              *)
EXTENDS ServerProtocol

\* the message-transfer commands alone
Transfer == {"EHLO", "MAIL", "RCPT", "DATA", "."}

\* a peer that pipelines DATA messages, to a store
Pipelining == [proxy |-> FALSE, chunking |-> FALSE, patient |-> FALSE,
               lines |-> Transfer \cup {"RSET", "VRFY"}]

\* a peer that pipelines, to a proxy
Proxying == [proxy |-> TRUE, chunking |-> FALSE, patient |-> FALSE, lines |-> Transfer]

\* every command, one at a time, BDAT included
Chatting(p) == [proxy |-> p, chunking |-> TRUE, patient |-> TRUE, lines |-> Line]

Sessions == {Pipelining, Proxying, Chatting(FALSE), Chatting(TRUE)}
=============================================================================
