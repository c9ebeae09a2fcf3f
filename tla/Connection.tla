----------------------------- MODULE Connection -----------------------------
(***************************************************************************)
(* One TCP connection as src/src/gnet runs it, below the protocols: the    *)
(* client that resolves, connects and goes through a SOCKS server (Client, *)
(* Socks), the bytes that the socket did not take (SocketProtocol), its    *)
(* TLS layer, which may want to read in order to write and the other way   *)
(* round, and the output that the SMTP server keeps while it is blocked    *)
(* (GSmtp::ServerPeer).  The TLS library, the kernel's buffers and the     *)
(* peer are external: they are what the code's results allow.              *)
(*                                                                         *)
(* A handler is several steps, one for each call of the system, the TLS    *)
(* library or the user, and next says which one comes; the peer and the    *)
(* kernel act in between, other handlers of the process do not.            *)
(***************************************************************************)
EXTENDS Integers, Sequences

CONSTANTS
    MaxUnits,     \* how much the user sends: half lines, numbered from 1
    Room,         \* what the kernel takes before it blocks the writer
    MaxIn,        \* what the peer sends before it is read
    Patient       \* the peer asks for TLS when it has had all its replies

ASSUME BoundsAssumption == MaxUnits \in Nat /\ Room \in Nat /\ Room >= 2 /\ MaxIn \in Nat
ASSUME PatientAssumption == Patient \in BOOLEAN

VARIABLES
    role,         \* "server" (ServerPeer, from accept()) or "client" (Client)
    phase,        \* Client's m_state; a server's is "connected"; "closed" at the end
    small,        \* G_LIB_SMALL: the read buffer is smaller than a TLS record
    socks,        \* Socks: what has become of the request
    timers,       \* the running timers of Client and its SocketProtocol
    tls,          \* SocketProtocol's m_state
    reads,        \* the socket's m_read_added
    writes,       \* and m_write_added
    residue,      \* m_segments from m_position on: what send() could not send
    failed,       \* m_failed
    shaking,      \* the library is in the middle of another handshake
    pending,      \* the library has decrypted more than was read
    blocked,      \* the user waits for onSendComplete(): m_output_blocked
    buffer,       \* m_output_buffer
    next,         \* what the running handler does next; "wait": none is running
    asked,        \* history: how much the user has sent
    out,          \* the kernel's send buffer
    in,           \* what the peer has sent, to be read
    got,          \* history: what the peer has received
    net           \* "up", "fin": the peer sends no more, "lost": reset

user    == <<blocked, buffer, asked>>
library == <<shaking, pending>>
socket  == <<tls, reads, writes, residue, failed, library>>
opening == <<role, small, phase, socks, timers>>
network == <<out, in, got, net>>
vars    == <<opening, socket, user, next, network>>

Phase == {"idle", "resolving", "connecting", "socksing", "connected", "closed"}
Timer == {"start", "connect", "connected", "secure"}
Item  == {"line", "go", "granted", "refused", "shake", "record", "big", "rekey"}

TypeOK ==
    /\ role \in {"server", "client"} /\ small \in BOOLEAN /\ phase \in Phase /\ timers \subseteq Timer
    /\ socks \in {"none", "wanted", "sending", "asked", "granted", "unanswered"}
    /\ tls \in {"raw", "connecting", "accepting", "writing", "idle"}
    /\ reads \in BOOLEAN /\ writes \in BOOLEAN /\ failed \in BOOLEAN
    /\ shaking \in BOOLEAN /\ pending \in BOOLEAN /\ blocked \in BOOLEAN
    /\ next \in {"wait", "data", "read", "complete", "upgrade", "secure", "handshake"}
    /\ asked \in Nat
    /\ residue \in Seq(Nat) /\ buffer \in Seq(Nat) /\ out \in Seq(Nat) /\ got \in Seq(Nat)
    /\ in \in Seq(Item) /\ net \in {"up", "fin", "lost"}

Init ==
    /\ role \in {"server", "client"} /\ small \in BOOLEAN
    /\ phase = IF role = "server" THEN "connected" ELSE "idle"
    /\ socks \in IF role = "server" THEN {"none"} ELSE {"none", "wanted"}
    /\ timers = IF role = "server" THEN {} ELSE {"start"}
    /\ tls = "raw" /\ reads = (role = "server") /\ writes = FALSE /\ residue = <<>>
    /\ failed = FALSE /\ shaking = FALSE /\ pending = FALSE
    /\ blocked = FALSE /\ buffer = <<>> /\ asked = 0
    /\ next \in IF role = "server" THEN {"wait", "secure"} ELSE {"wait"}
    /\ out = <<>> /\ in = <<>> /\ got = <<>> /\ net = "up"

\* an exception: the owner deletes the object, and with it the socket
Close ==
    /\ phase' = "closed" /\ timers' = {} /\ tls' = "raw" /\ reads' = FALSE /\ writes' = FALSE
    /\ residue' = <<>> /\ failed' = FALSE /\ shaking' = FALSE /\ pending' = FALSE
    /\ blocked' = FALSE /\ buffer' = <<>> /\ next' = "wait" /\ asked' = 0
    /\ out' = <<>> /\ in' = <<>> /\ got' = <<>> /\ UNCHANGED <<role, small, socks, net>>

Open == phase = "connected"
At(step) == Open /\ next = step

Readable  == reads /\ (in # <<>> \/ net # "up")
Writeable == writes /\ (Len(out) < Room \/ net = "lost")
\* with TLS a read event and a write event mean the same: try again
Woken == At("wait") /\ (Readable \/ Writeable)

-----------------------------------------------------------------------------
(* GNet::Client: resolving and connecting.                                 *)

\* one timer covers name lookup and connecting
SetState(p, running) ==
    /\ phase' = p
    /\ timers' = IF p \in {"resolving", "connecting"} THEN running ELSE running \ {"connect"}

\* startConnecting(): connect() fails, succeeds at once or takes its time
StartConnecting(running) ==
    \/ Close
    \/ \E immediate \in BOOLEAN :
         /\ SetState("connecting", running \cup (IF immediate THEN {"connected"} ELSE {}))
         /\ writes' = ~immediate
         /\ UNCHANGED <<role, small, socks, tls, reads, residue, failed, library, user, next, network>>

\* connect(), from the start timer; the name is looked up now or in another thread
StartTimeout ==
    /\ "start" \in timers
    /\ \/ StartConnecting({"connect"})
       \/ SetState("resolving", {"connect"}) /\ UNCHANGED <<role, small, socks, socket, user, next, network>>

Resolved == phase = "resolving" /\ StartConnecting(timers)

\* onConnect(): TLS at once, or the protocol begins
OnConnect(answer) ==
    /\ SetState("connected", timers \ {"connected"})
    /\ socks' = answer /\ reads' = TRUE /\ writes' = FALSE /\ next' \in {"wait", "upgrade"}
    /\ UNCHANGED <<role, small, tls, residue, failed, library, user>>

\* onWriteable(), from the socket or, for an immediate connection, from a timer: a
\* SOCKS request may not go out as a whole
OnWriteable ==
    /\ phase = "connecting" /\ (writes \/ "connected" \in timers)
    /\ \/ Close
       \/ socks = "none" /\ OnConnect("none") /\ UNCHANGED network
       \/ /\ socks = "wanted" /\ socks' \in {"asked", "sending"}
          /\ SetState("socksing", timers \ {"connected"})
          /\ reads' = (socks' = "asked") /\ writes' = (socks' = "sending")
          /\ UNCHANGED <<role, small, tls, residue, failed, library, user, next, network>>

\* the rest of the request goes out; this path does not wait for the answer, which
\* the protocol will read
SocksWrite ==
    /\ phase = "socksing" /\ socks = "sending" /\ writes
    /\ Close \/ (OnConnect("unanswered") /\ UNCHANGED network)

SocksRead ==
    /\ phase = "socksing" /\ socks = "asked" /\ Readable
    /\ IF in # <<>> /\ Head(in) = "granted"
       THEN OnConnect("granted") /\ in' = Tail(in) /\ UNCHANGED <<out, got, net>>
       ELSE Close

ConnectTimeout == "connect" \in timers /\ Close

-----------------------------------------------------------------------------
(* SocketProtocol: sending.                                                *)

\* the library can go on with its handshake, if it is in one
ShakeHere == in # <<>> /\ Head(in) = "shake"
Ready == shaking => ShakeHere
Shakes == shaking' = (shaking /\ ~ShakeHere) /\ in' = IF shaking /\ ShakeHere THEN Tail(in) ELSE in

\* (mutant: the position within the line is forgotten)
Rest_Whole(data, n) == IF n = Len(data) THEN <<>> ELSE data

\* what is left of the data when n have been sent
Rest(data, n) == SubSeq(data, n + 1, Len(data))

\* rawSendImp(): as much as the kernel takes
RawWrite(data) ==
    LET n == IF Len(data) <= Room - Len(out) THEN Len(data) ELSE Room - Len(out)
    IN  out' = out \o SubSeq(data, 1, n) /\ residue' = Rest(data, n)

\* (mutant: no write handler is added)
RawSend_Unarmed(data) ==
    /\ tls = "raw" /\ RawWrite(data)
    /\ UNCHANGED <<tls, writes, failed, library, in>>

\* rawSend(): the handler is there while something is left
RawSend(data) ==
    /\ tls = "raw" /\ RawWrite(data)
    /\ writes' = (writes \/ residue' # <<>>)
    /\ UNCHANGED <<tls, failed, library, in>>

\* sslSendImp(): all of it, or the library waits for one direction or the other
SslWrite(data) ==
    /\ Shakes
    /\ IF Ready /\ Len(out) < Room
       THEN tls' = "idle" /\ out' = out \o data /\ residue' = <<>> /\ UNCHANGED writes
       ELSE tls' = "writing" /\ residue' = data /\ writes' = Ready /\ UNCHANGED out
    /\ UNCHANGED <<failed, pending>>

SslSend(data) == tls = "idle" /\ SslWrite(data)

\* nothing can be written: reset, or the library waits for a handshake that never comes
Broken == net = "lost" \/ (net = "fin" /\ shaking /\ in = <<>>)

\* send() throws while something is left, in a handshake and when the connection is broken
MaySend == residue = <<>> /\ tls \in {"raw", "idle"} /\ ~Broken

\* the user sends: a ServerPeer directly, or behind what it has waiting
Line == <<asked + 1, asked + 2>>
ProtocolSend ==
    /\ asked' = asked + 2
    /\ \/ /\ role = "server" /\ blocked
          /\ buffer' = buffer \o Line
          /\ UNCHANGED <<blocked, tls, writes, residue, failed, library, out, in>>
       \/ /\ ~blocked /\ MaySend
          /\ RawSend(Line) \/ SslSend(Line)
          /\ blocked' = (residue' # <<>>) /\ UNCHANGED buffer
    /\ UNCHANGED <<opening, got, net>>

\* rawWriteEvent()
RawWriteEvent ==
    /\ At("wait") /\ Writeable /\ tls = "raw"
    /\ IF net = "lost" THEN Close
       ELSE /\ RawWrite(residue)
            /\ writes' = (residue' # <<>>)
            /\ next' = IF residue' = <<>> THEN "complete" ELSE "wait"
            /\ UNCHANGED <<opening, tls, reads, failed, library, user, in, got, net>>

\* sslSendImp() from an event: an error is kept, and not thrown
SslWriteEvent ==
    /\ Woken /\ tls = "writing"
    /\ \/ /\ Broken
          /\ tls' = "idle" /\ failed' = TRUE /\ writes' = FALSE
          /\ UNCHANGED <<next, residue, library, out, in>>
       \/ /\ ~Broken /\ SslWrite(residue)
          /\ next' = IF residue' = <<>> THEN "complete" ELSE "wait"
    /\ UNCHANGED <<opening, reads, user, got, net>>

\* onSendComplete(): a ServerPeer sends its buffer, a client's protocol goes on
SendComplete ==
    /\ At("complete")
    /\ \/ /\ role = "client" \/ buffer = <<>>
          /\ blocked' = FALSE
          /\ next' = IF role = "client" THEN "data" ELSE "wait"
          /\ UNCHANGED <<tls, writes, residue, failed, library, buffer, out, in>>
       \/ /\ buffer # <<>> /\ MaySend
          /\ RawSend(buffer) \/ SslSend(buffer)
          /\ buffer' = <<>> /\ blocked' = (residue' # <<>>) /\ next' = "wait"
    /\ UNCHANGED <<opening, reads, asked, got, net>>
SendFails ==
    /\ At("complete") /\ buffer # <<>> /\ ~MaySend
    /\ Close

-----------------------------------------------------------------------------
(* SocketProtocol: reading.                                                *)

\* rawReadEvent()
RawReadEvent ==
    /\ At("wait") /\ Readable /\ tls = "raw"
    /\ IF in = <<>> THEN Close
       ELSE /\ in' = Tail(in)
            /\ next' = IF Head(in) = "go" THEN "upgrade" ELSE "data"
            /\ UNCHANGED <<opening, socket, user, out, got, net>>

\* sslReadImp(), from an event or again because there was more; data puts an end to
\* what the state was
SslRead ==
    /\ (Woken /\ tls = "idle") \/ At("read")
    /\ \/ /\ pending                                                    \* ok
          /\ pending' = FALSE /\ tls' = "idle" /\ writes' = FALSE /\ next' = "data"
          /\ UNCHANGED <<shaking, in>>
       \/ /\ ~pending /\ in # <<>> /\ Head(in) \in {"record", "big"}    \* ok, more
          /\ pending' = (Head(in) = "big") /\ in' = Tail(in)
          /\ tls' = "idle" /\ writes' = FALSE /\ next' = "data" /\ UNCHANGED shaking
       \/ /\ ~pending /\ in # <<>> /\ Head(in) = "rekey"                \* read, write
          /\ writes' = (Len(out) >= Room) /\ shaking' = ~writes'
          /\ in' = IF writes' THEN in ELSE Tail(in)
          /\ next' = "wait" /\ UNCHANGED <<tls, pending>>
       \/ /\ ~pending /\ (IF in = <<>> THEN net = "up" ELSE ShakeHere)  \* read
          /\ Shakes /\ writes' = FALSE /\ next' = "wait" /\ UNCHANGED <<tls, pending>>
    /\ UNCHANGED <<opening, reads, residue, failed, user, out, got, net>>
SslReadFails ==
    /\ (Woken /\ tls = "idle") \/ At("read")
    /\ ~pending /\ in = <<>> /\ net # "up"
    /\ Close

\* onData(), or another event of the user's: it answers or not, and a server that
\* has more than it wants to read stops reading
OnData ==
    /\ At("data")
    /\ next' = IF pending THEN "read" ELSE "wait"
    /\ \/ /\ reads' \in (IF role = "server" THEN {reads, FALSE} ELSE {reads})
          /\ UNCHANGED <<opening, tls, writes, residue, failed, library, user, network>>
       \/ /\ asked + 2 <= MaxUnits /\ (role = "client" => ~blocked)
          /\ ProtocolSend /\ UNCHANGED reads

\* the user has done, or may not send
OnDataEnds ==
    /\ At("data") \/ (At("upgrade") /\ role = "server" /\ ~blocked /\ ~MaySend)
    /\ Close

-----------------------------------------------------------------------------
(* SocketProtocol: the handshake.                                          *)

\* STARTTLS: a server says that it is ready
GoAhead ==
    /\ At("upgrade") /\ role = "server"
    /\ ProtocolSend /\ next' = "secure" /\ UNCHANGED reads

\* (mutant: the timer is not started)
Started_Untimed == timers

\* secureConnect()
Started == timers \cup (IF role = "client" THEN {"secure"} ELSE {})

\* secureAccept(), secureConnect(): what has not been sent is discarded
Secure ==
    /\ At("secure") \/ (At("upgrade") /\ role = "client")
    /\ tls' = (IF role = "client" THEN "connecting" ELSE "accepting")
    /\ residue' = <<>> /\ writes' = FALSE /\ timers' = Started
    /\ next' = "handshake"
    /\ UNCHANGED <<role, small, phase, socks, reads, failed, library, user, network>>

\* secureConnectImp(), secureAcceptImp(): what comes must be of the handshake
Shaking == tls \in {"connecting", "accepting"} /\ (Woken \/ At("handshake"))
Handshake ==
    /\ Shaking /\ (IF in = <<>> THEN net = "up" ELSE ShakeHere)
    /\ IF Len(out) < Room /\ ShakeHere
       THEN /\ in' = Tail(in) /\ tls' = "idle" /\ writes' = FALSE
            /\ timers' = timers \ {"secure"} /\ next' = "data"
       ELSE /\ writes' = (Len(out) >= Room) /\ next' = "wait"
            /\ UNCHANGED <<in, tls, timers>>
    /\ UNCHANGED <<role, small, phase, socks, reads, residue, failed, library, user, out, got, net>>
HandshakeFails ==
    /\ Shaking /\ (IF in = <<>> THEN net # "up" ELSE ~ShakeHere)
    /\ Close

SecureTimeout == At("wait") /\ "secure" \in timers /\ Close

-----------------------------------------------------------------------------
(* The user, between events.                                               *)

\* a filter, a timer, the next message
UserEvent ==
    /\ At("wait") /\ tls \in {"raw", "idle", "writing"}
    /\ \A i \in 1..Len(in) : in[i] # "go"
    /\ next' = "data"
    /\ UNCHANGED <<opening, socket, user, network>>

\* onFlow(): the server has dealt with its input
FlowOn ==
    /\ At("wait") /\ role = "server" /\ ~reads
    /\ reads' = TRUE
    /\ UNCHANGED <<opening, tls, writes, residue, failed, library, user, next, network>>

\* the idle and response timers, the end of the process
Timeout == At("wait") /\ Close

-----------------------------------------------------------------------------
(* The peer and the network.                                               *)

\* nothing is on its way to the peer
Quiet == out = <<>> /\ residue = <<>> /\ buffer = <<>> /\ in = <<>> /\ next = "wait"

\* what the peer may send now
Sent == IF phase = "socksing" THEN {"granted", "refused"}
        ELSE IF tls = "raw"
        THEN {i \in {"line", "go"} : i = "go" /\ (Patient \/ role = "client") => Quiet}
        ELSE IF tls \in {"connecting", "accepting"}
        THEN {i \in {"line", "shake"} : i = "shake" /\ Patient => out = <<>>}
        ELSE IF shaking THEN {"shake"}
        ELSE {i \in {"record", "rekey", "big"} : i = "big" => small}

PeerSends(item) ==
    /\ phase \in {"socksing", "connected"} /\ net = "up" /\ Len(in) < MaxIn
    /\ item \in Sent
    /\ \A i \in 1..Len(in) : in[i] \notin {"go", "shake", "rekey", "granted", "refused"}
    /\ next \notin {"upgrade", "secure"}
    /\ in' = Append(in, item)
    /\ UNCHANGED <<opening, socket, user, next, out, got, net>>

PeerReceives ==
    /\ out # <<>>
    /\ got' = Append(got, Head(out)) /\ out' = Tail(out)
    /\ UNCHANGED <<opening, socket, user, next, in, net>>

PeerGoes ==
    /\ phase \in {"socksing", "connected"} /\ net # "lost"
    /\ \/ net = "up" /\ net' = "fin" /\ UNCHANGED <<in, out>>
       \/ net' = "lost" /\ in' = <<>> /\ out' = <<>>
    /\ UNCHANGED <<opening, socket, user, next, got>>

-----------------------------------------------------------------------------
Opens == StartTimeout \/ Resolved \/ OnWriteable \/ SocksWrite \/ SocksRead \/ ConnectTimeout
Works == \/ RawWriteEvent \/ SslWriteEvent \/ SendComplete \/ SendFails
         \/ RawReadEvent \/ SslRead \/ SslReadFails \/ OnData \/ OnDataEnds
         \/ GoAhead \/ Secure \/ Handshake \/ HandshakeFails
Others == UserEvent \/ FlowOn \/ Timeout \/ SecureTimeout \/ PeerReceives \/ PeerGoes

Next == Opens \/ Works \/ Others \/ \E i \in Item : PeerSends(i)

Spec == Init /\ [][Next]_vars

\* a handler that runs goes on, and the event loop serves every timer, and every event
\* that keeps coming back, whatever else the user has to do; a server goes on with its
\* input, and a peer reads what it is sent and ends a handshake that it began
FairSpec ==
    /\ Spec
    /\ WF_vars(StartTimeout) /\ WF_vars(ConnectTimeout) /\ WF_vars(SecureTimeout)
    /\ WF_vars(Works)
    /\ SF_vars(RawWriteEvent) /\ SF_vars(SslWriteEvent) /\ SF_vars(SslReadFails)
    /\ SF_vars(FlowOn) /\ WF_vars(PeerReceives) /\ WF_vars(shaking /\ PeerSends("shake"))

-----------------------------------------------------------------------------
(* What a connection guarantees.                                           *)

\* Whatever the kernel takes at a time, and wherever the rest of it waits, in the
\* kernel, in the SocketProtocol or in the ServerPeer, the peer gets what the user
\* has sent, in that order, once (rawSend, sslSend, protocolSend, onSendComplete).
InOrder ==
    Open /\ net # "lost" => got \o out \o residue \o buffer = [i \in 1..asked |-> i]

\* What has not been sent is not forgotten: an event that will send it is awaited, and
\* the user waits for nothing else.
ResidueIsArmed ==
    /\ blocked <=> residue # <<>> \/ next = "complete"
    /\ next = "complete" => residue = <<>>
    /\ buffer # <<>> => blocked
    /\ residue # <<>> => \/ tls = "raw" /\ writes
                         \/ tls = "writing" /\ (writes \/ shaking)
                         \/ failed /\ Broken
    /\ tls = "writing" => residue # <<>>

\* A handshake begins with nothing left behind, and no connection waits for a name, a
\* peer or a handshake without a timer; a SOCKS server has been heard, but for the path
\* on which its request was sent in two pieces.
HandshakeIsClean ==
    /\ tls \in {"connecting", "accepting"} => ~blocked /\ residue = <<>>
    /\ Open => (tls = "connecting" <=> "secure" \in timers)
    /\ phase \in {"resolving", "connecting"} => "connect" \in timers
    /\ Open => socks \in {"none", "granted", "unanswered"}
    /\ ~small => next # "read"

ConnectionInv == TypeOK /\ (Open /\ ~small => ResidueIsArmed) /\ HandshakeIsClean

\* A user that is told to wait is told to go on, or its connection ends; connecting
\* and a client's handshake end.
EveryWaitEnds ==
    /\ blocked /\ ~small ~> ~blocked
    /\ phase \in {"idle", "resolving", "connecting"} ~> phase \in {"socksing", "connected", "closed"}
    /\ tls = "connecting" ~> tls # "connecting"
=============================================================================
