--------------------------- MODULE MCClientProtocol ---------------------------
(* Small instances of ClientProtocol: queues, configurations and servers.    *)
EXTENDS ClientProtocol

\* the recipients of the messages of a queue
TwoTwo   == <<2, 2>>
OneThreeTwo == <<1, 3, 2>>

Plain == [all |-> FALSE, pipelining |-> FALSE, bdat |-> FALSE, cut |-> FALSE,
          tls |-> "never", mechanisms |-> 0]

\* neither pipelining nor BDAT: TLS and authentication in all their combinations,
\* and both ways of dealing with a recipient that is refused
Lockstep == [all : BOOLEAN, pipelining : {FALSE}, bdat : {FALSE}, cut : {FALSE},
             tls : {"never", "maybe", "must"}, mechanisms : {0, 2}]

\* pipelining or BDAT, and content that ends in the middle of a line
Extended == [all : BOOLEAN, pipelining : BOOLEAN, bdat : BOOLEAN, cut : BOOLEAN,
             tls : {"maybe"}, mechanisms : {0}]

Both    == Lockstep \cup Extended
Default == {[Plain EXCEPT !.all = TRUE]}
=============================================================================
