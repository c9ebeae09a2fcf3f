-------------------------- MODULE ConnectionProofs --------------------------
(***************************************************************************)
(* That what the user of a connection sends arrives in order, and that     *)
(* whatever waits has an event or a timer that will end the wait, for any  *)
(* room in the kernel's buffer, any number of lines and whatever the peer  *)
(* does, if it asks for TLS when it has had its replies.                   *)
(***************************************************************************)
EXTENDS Connection, SequenceTheorems, TLAPS

PatientPeer == Patient

\* A connection that is not open has nothing of what belongs to one.
ClosedInv ==
    ~Open => /\ tls = "raw" /\ ~blocked /\ residue = <<>> /\ buffer = <<>> /\ out = <<>>
             /\ ~failed /\ ~shaking /\ ~pending /\ next = "wait" /\ "secure" \notin timers
             /\ \A i \in 1..Len(in) : in[i] # "go"

\* The client's timers and what it knows of the SOCKS server.
OpeningInv ==
    /\ "start" \in timers => phase = "idle"
    /\ phase \in {"resolving", "connecting"} => "connect" \in timers
    /\ Open => socks \in {"none", "granted", "unanswered"}
    /\ Open => (tls = "connecting" <=> "secure" \in timers)

\* What is left over is sent by the next event, unless TLS is read while it is written.
SendingInv ==
    /\ tls = "raw" \/ ~small => ResidueIsArmed
    /\ Open /\ tls = "raw" => Len(out) <= Room /\ (writes => residue # <<>>)
    /\ tls = "writing" => residue # <<>>
    /\ buffer # <<>> => blocked /\ role = "server"

\* What the library knows it knows since the handshake, and only a small buffer leaves
\* it with more than was read.
LibraryInv ==
    /\ tls \notin {"idle", "writing"} => ~pending /\ ~shaking /\ ~failed /\ next # "read"
    /\ (pending \/ next = "read" \/ \E i \in 1..Len(in) : in[i] = "big") => small
    /\ net = "lost" => in = <<>>

\* When TLS is agreed upon, and until the handshake is over, nothing is on its way.
HandshakeInv ==
    /\ next = "upgrade" => /\ tls = "raw" /\ ~blocked /\ residue = <<>> /\ buffer = <<>>
                           /\ out = <<>>
    /\ next = "secure" => tls = "raw" /\ ~blocked /\ residue = <<>> /\ buffer = <<>> /\ role = "server"
    /\ next = "handshake" => tls \in {"connecting", "accepting"}
    /\ tls \in {"connecting", "accepting"} =>
           ~blocked /\ residue = <<>> /\ buffer = <<>> /\ next \in {"wait", "handshake"}
    /\ \A i \in 1..Len(in) : in[i] = "go" =>
           /\ Len(in) = 1 /\ tls = "raw" /\ next = "wait" /\ ~blocked /\ residue = <<>>
           /\ buffer = <<>> /\ out = <<>>

Inv == TypeOK /\ ClosedInv /\ OpeningInv /\ SendingInv /\ LibraryInv /\ HandshakeInv

-----------------------------------------------------------------------------
(* Sequences.                                                              *)

\* Something has been taken from what the peer sent.
LEMMA Taken ==
    ASSUME Inv, in # <<>>
    PROVE  /\ Head(in) \in Item /\ Head(in) = in[1] /\ 1 \in 1..Len(in)
           /\ Tail(in) \in Seq(Item)
           /\ \A i \in 1..Len(Tail(in)) : Tail(in)[i] # "go"
           /\ (\E i \in 1..Len(Tail(in)) : Tail(in)[i] = "big") => small
  <1>1. in \in Seq(Item) /\ Len(in) \in Nat
    BY DEF Inv, TypeOK
  <1>2. /\ Head(in) = in[1] /\ Head(in) \in Item /\ Tail(in) \in Seq(Item) /\ Len(in) >= 1
        /\ Len(Tail(in)) = Len(in) - 1
        /\ \A i \in 1..Len(Tail(in)) : Tail(in)[i] = in[i + 1]
    BY <1>1, HeadTailProperties, EmptySeq
  <1>3. \A i \in 1..Len(Tail(in)) : i + 1 \in 1..Len(in) /\ Len(in) # 1
    BY <1>1, <1>2
  <1> QED BY <1>2, <1>3 DEF Inv, HandshakeInv, LibraryInv

\* What rawSendImp() leaves behind.
LEMMA RawWriteType ==
    ASSUME NEW data \in Seq(Nat), out \in Seq(Nat), Len(out) <= Room, RawWrite(data)
    PROVE  /\ out' \in Seq(Nat) /\ residue' \in Seq(Nat) /\ Len(out') <= Room
           /\ out = <<>> /\ Len(data) = 2 => residue' = <<>>
  <1> DEFINE n == IF Len(data) <= Room - Len(out) THEN Len(data) ELSE Room - Len(out)
  <1>1. Room \in Nat /\ Room >= 2 /\ Len(data) \in Nat /\ Len(out) \in Nat
    BY BoundsAssumption
  <1>2. n \in 0..Len(data) /\ Len(out) + n <= Room
    BY <1>1
  <1>3. out' = out \o SubSeq(data, 1, n) /\ residue' = SubSeq(data, n + 1, Len(data))
    BY DEF RawWrite, Rest
  <1> HIDE DEF n
  <1>4. \A i \in 1..Len(data) : data[i] \in Nat
    BY ElementOfSeq
  <1>5. SubSeq(data, 1, n) \in Seq(Nat) /\ Len(SubSeq(data, 1, n)) = n
    BY <1>1, <1>2, <1>4, SubSeqProperties
  <1>6. residue' \in Seq(Nat)
    BY <1>1, <1>2, <1>3, <1>4, SubSeqProperties
  <1>7. out' \in Seq(Nat) /\ Len(out') = Len(out) + n
    BY <1>1, <1>3, <1>5, ConcatProperties
  <1>8. out = <<>> /\ Len(data) = 2 => n = 2
    BY <1>1 DEF n
  <1>9. out = <<>> /\ Len(data) = 2 => residue' = <<>>
    BY <1>3, <1>8, SubSeqEmpty
  <1> QED BY <1>1, <1>2, <1>6, <1>7, <1>9

\* What an owner deletes leaves nothing.
LEMMA CloseInv == ASSUME Inv, Close PROVE Inv'
  <1> USE DEF Close, Inv
  <1>0. <<>> \in Seq(Nat) /\ <<>> \in Seq(Item) /\ Len(<<>>) = 0 /\ 0 \in Nat
    BY EmptySeq
  <1>1. TypeOK'
    BY <1>0 DEF TypeOK, Phase
  <1>2. ClosedInv' /\ OpeningInv'
    BY <1>0 DEF ClosedInv, OpeningInv, Open
  <1>3. SendingInv' /\ LibraryInv' /\ HandshakeInv'
    BY <1>0 DEF SendingInv, ResidueIsArmed, LibraryInv, HandshakeInv, Open
  <1> QED BY <1>1, <1>2, <1>3

LEMMA InitInv == ASSUME Init PROVE Inv
  <1> USE DEF Init
  <1>0. <<>> \in Seq(Nat) /\ <<>> \in Seq(Item) /\ Len(<<>>) = 0 /\ 0 \in Nat /\ Len(<<>>) <= Room
    BY EmptySeq, BoundsAssumption
  <1>1. TypeOK
    BY <1>0 DEF TypeOK, Phase, Timer
  <1>2. ClosedInv /\ OpeningInv
    BY <1>0 DEF ClosedInv, OpeningInv, Open
  <1>3. SendingInv /\ LibraryInv /\ HandshakeInv
    BY <1>0 DEF SendingInv, ResidueIsArmed, LibraryInv, HandshakeInv, Open
  <1> QED BY <1>1, <1>2, <1>3 DEF Inv

-----------------------------------------------------------------------------
(* Resolving and connecting.                                               *)

LEMMA ConnectingInv ==
    ASSUME Inv, ~Open, NEW running \in SUBSET Timer, "connect" \in running,
           "start" \notin running, "secure" \notin running, StartConnecting(running)
    PROVE  Inv'
  <1>1. CASE Close
    BY <1>1, CloseInv
  <1>2. ASSUME NEW immediate \in BOOLEAN,
               SetState("connecting", running \cup (IF immediate THEN {"connected"} ELSE {})),
               writes' = ~immediate,
               UNCHANGED <<role, small, socks, tls, reads, residue, failed, library, user, next, network>>
        PROVE  Inv'
    <2> USE <1>2 DEF Inv, SetState, library, user, network
    <2>1. TypeOK'
      BY DEF TypeOK, Phase, Timer
    <2>2. ClosedInv' /\ OpeningInv'
      BY DEF ClosedInv, OpeningInv, Open
    <2>3. SendingInv' /\ LibraryInv' /\ HandshakeInv'
      BY DEF ClosedInv, SendingInv, ResidueIsArmed, LibraryInv, HandshakeInv, Open, Broken
    <2> QED BY <2>1, <2>2, <2>3
  <1> QED BY <1>1, <1>2 DEF StartConnecting

LEMMA StartTimeoutInv == ASSUME Inv, StartTimeout PROVE Inv'
  <1>1. phase = "idle" /\ ~Open
    BY DEF StartTimeout, Inv, OpeningInv, Open
  <1>2. CASE StartConnecting({"connect"})
    BY <1>1, <1>2, ConnectingInv DEF Timer
  <1>3. CASE SetState("resolving", {"connect"}) /\ UNCHANGED <<role, small, socks, socket, user, next, network>>
    <2> USE <1>1, <1>3 DEF Inv, SetState, socket, library, user, network
    <2>1. TypeOK'
      BY DEF TypeOK, Phase, Timer
    <2>2. ClosedInv' /\ OpeningInv'
      BY DEF ClosedInv, OpeningInv, Open
    <2>3. SendingInv' /\ LibraryInv' /\ HandshakeInv'
      BY DEF ClosedInv, SendingInv, ResidueIsArmed, LibraryInv, HandshakeInv, Open, Broken
    <2> QED BY <2>1, <2>2, <2>3
  <1> QED BY <1>2, <1>3 DEF StartTimeout

LEMMA ResolvedInv == ASSUME Inv, Resolved PROVE Inv'
  <1>1. /\ ~Open /\ timers \in SUBSET Timer /\ "connect" \in timers
        /\ "start" \notin timers /\ "secure" \notin timers
    BY DEF Resolved, Inv, TypeOK, ClosedInv, OpeningInv, Open
  <1> QED BY <1>1, ConnectingInv DEF Resolved

\* A connection begins, and answer is what is known of the SOCKS server.
LEMMA OnConnectInv ==
    ASSUME Inv, phase \in {"connecting", "socksing"}, NEW answer \in {"none", "granted", "unanswered"},
           OnConnect(answer), in' \in {in} \cup (IF in = <<>> THEN {} ELSE {Tail(in)}),
           UNCHANGED <<out, got, net>>
    PROVE  Inv'
  <1> USE DEF Inv, OnConnect, SetState, library, user
  <1>0. ~Open /\ "start" \notin timers
    BY DEF Open, OpeningInv
  <1>1. /\ in' \in Seq(Item) /\ \A i \in 1..Len(in') : in'[i] # "go"
        /\ (\E i \in 1..Len(in') : in'[i] = "big") => small
        /\ net = "lost" => in' = <<>>
    BY <1>0, Taken DEF ClosedInv, LibraryInv, TypeOK
  <1>2. TypeOK'
    <2>1. /\ phase' \in Phase /\ timers' \subseteq Timer
          /\ socks' \in {"none", "wanted", "sending", "asked", "granted", "unanswered"}
          /\ next' \in {"wait", "data", "read", "complete", "upgrade", "secure", "handshake"}
          /\ reads' \in BOOLEAN /\ writes' \in BOOLEAN
      BY DEF TypeOK, Phase, Timer
    <2>2. /\ UNCHANGED <<role, small, tls, residue, failed, shaking, pending, blocked, buffer>>
          /\ UNCHANGED <<asked, out, got, net>>
      OBVIOUS
    <2> QED BY <1>1, <2>1, <2>2 DEF TypeOK
  <1>3. ClosedInv' /\ OpeningInv'
    BY <1>0, <1>1 DEF ClosedInv, OpeningInv, Open
  <1>4. SendingInv'
    <2>1. Len(<<>>) <= Room
      BY BoundsAssumption
    <2> QED BY <1>0, <1>1, <2>1 DEF ClosedInv, SendingInv, ResidueIsArmed, Open
  <1>5. LibraryInv' /\ HandshakeInv'
    BY <1>0, <1>1 DEF ClosedInv, LibraryInv, HandshakeInv, Open
  <1> QED BY <1>2, <1>3, <1>4, <1>5

LEMMA OnWriteableInv == ASSUME Inv, OnWriteable PROVE Inv'
  <1>1. CASE Close
    BY <1>1, CloseInv
  <1>2. CASE socks = "none" /\ OnConnect("none") /\ UNCHANGED network
    BY <1>2, OnConnectInv DEF OnWriteable, network
  <1>3. CASE /\ socks = "wanted" /\ socks' \in {"asked", "sending"}
             /\ SetState("socksing", timers \ {"connected"})
             /\ reads' = (socks' = "asked") /\ writes' = (socks' = "sending")
             /\ UNCHANGED <<role, small, tls, residue, failed, library, user, next, network>>
    <2> USE <1>3 DEF Inv, SetState, library, user, network, OnWriteable
    <2>0. ~Open /\ "start" \notin timers
      BY DEF Open, OpeningInv
    <2>1. TypeOK'
      BY DEF TypeOK, Phase, Timer
    <2>2. ClosedInv' /\ OpeningInv'
      BY <2>0 DEF ClosedInv, OpeningInv, Open
    <2>3. SendingInv' /\ LibraryInv' /\ HandshakeInv'
      BY <2>0 DEF ClosedInv, SendingInv, ResidueIsArmed, LibraryInv, HandshakeInv, Open
    <2> QED BY <2>1, <2>2, <2>3
  <1> QED BY <1>1, <1>2, <1>3 DEF OnWriteable

LEMMA SocksWriteInv == ASSUME Inv, SocksWrite PROVE Inv'
  <1>1. CASE Close
    BY <1>1, CloseInv
  <1>2. CASE OnConnect("unanswered") /\ UNCHANGED network
    BY <1>2, OnConnectInv DEF SocksWrite, network
  <1> QED BY <1>1, <1>2 DEF SocksWrite

LEMMA SocksReadInv == ASSUME Inv, SocksRead PROVE Inv'
  <1>1. CASE Close
    BY <1>1, CloseInv
  <1>2. CASE in # <<>> /\ OnConnect("granted") /\ in' = Tail(in) /\ UNCHANGED <<out, got, net>>
    BY <1>2, OnConnectInv DEF SocksRead
  <1> QED BY <1>1, <1>2 DEF SocksRead

-----------------------------------------------------------------------------
(* Sending.                                                                *)

\* A sequence that the user sends.
LEMMA LineType ==
    ASSUME Inv PROVE Line \in Seq(Nat) /\ Len(Line) = 2 /\ Line # <<>> /\ asked + 2 \in Nat
  BY DEF Inv, TypeOK, Line

\* What the library does with what it is given to write.
LEMMA SslWriteType ==
    ASSUME Inv, tls \in {"idle", "writing"}, NEW data \in Seq(Nat), data # <<>>, SslWrite(data)
    PROVE  /\ out' \in Seq(Nat) /\ residue' \in Seq(Nat) /\ in' \in Seq(Item)
           /\ \/ tls' = "idle" /\ residue' = <<>> /\ writes' = writes
              \/ tls' = "writing" /\ residue' = data /\ (writes' \/ shaking')
           /\ writes' \in BOOLEAN /\ shaking' \in BOOLEAN
           /\ \A i \in 1..Len(in') : in'[i] # "go"
           /\ (\E i \in 1..Len(in') : in'[i] = "big") => small
           /\ net = "lost" => in' = <<>>
           /\ UNCHANGED <<failed, pending>>
  <1> USE DEF Inv
  <1>1. in' = in \/ (in # <<>> /\ in' = Tail(in))
    BY DEF SslWrite, Shakes, ShakeHere
  <1>2. /\ in' \in Seq(Item) /\ \A i \in 1..Len(in') : in'[i] # "go"
        /\ (\E i \in 1..Len(in') : in'[i] = "big") => small
        /\ net = "lost" => in' = <<>>
    BY <1>1, Taken DEF TypeOK, HandshakeInv, LibraryInv
  <1>3. out \o data \in Seq(Nat) /\ <<>> \in Seq(Nat)
    BY ConcatProperties, EmptySeq DEF TypeOK
  <1>4. shaking \in BOOLEAN /\ writes \in BOOLEAN /\ out \in Seq(Nat)
    BY DEF TypeOK
  <1>5. shaking' \in BOOLEAN /\ writes' \in BOOLEAN
    BY <1>4 DEF SslWrite, Shakes, Ready, ShakeHere
  <1>6. out' \in Seq(Nat) /\ residue' \in Seq(Nat)
    BY <1>3, <1>4 DEF SslWrite
  <1>7. \/ tls' = "idle" /\ residue' = <<>> /\ writes' = writes
        \/ tls' = "writing" /\ residue' = data /\ (writes' \/ shaking')
    BY DEF SslWrite, Shakes, Ready
  <1> QED BY <1>2, <1>5, <1>6, <1>7 DEF SslWrite

\* The user sends, when nothing is left over.
LEMMA SendInv ==
    ASSUME Inv, Open, MaySend, NEW data \in Seq(Nat), data # <<>>, RawSend(data) \/ SslSend(data),
           blocked' = (residue' # <<>>), buffer' = <<>>, asked' \in Nat,
           buffer = <<>> \/ next # "upgrade",
           next \in {"data", "complete", "upgrade"}, next' \in {"wait", "read", "secure"},
           next' = "read" => pending,
           next' = "secure" => next = "upgrade" /\ role = "server" /\ Len(data) = 2,
           UNCHANGED <<opening, reads, got, net>>
    PROVE  Inv'
  <1> USE DEF Inv, opening, MaySend
  <1>0. <<>> \in Seq(Nat) /\ residue = <<>>
    BY EmptySeq
  <1>1. CASE RawSend(data)
    <2>1. tls = "raw" /\ tls' = "raw" /\ out \in Seq(Nat) /\ Len(out) <= Room /\ writes = FALSE
      BY <1>1, <1>0 DEF RawSend, TypeOK, SendingInv
    <2>2. /\ out' \in Seq(Nat) /\ residue' \in Seq(Nat) /\ Len(out') <= Room
          /\ out = <<>> /\ Len(data) = 2 => residue' = <<>>
      BY <1>1, <2>1, RawWriteType DEF RawSend
    <2>3. writes' = (residue' # <<>>) /\ UNCHANGED <<failed, shaking, pending, in>>
      BY <1>1, <2>1 DEF RawSend, library
    <2>4. \A i \in 1..Len(in) : in[i] # "go"
      BY DEF HandshakeInv
    <2>5. TypeOK'
      BY <1>0, <2>1, <2>2, <2>3 DEF TypeOK
    <2>6. ClosedInv' /\ OpeningInv'
      BY <2>1, <2>3 DEF OpeningInv, ClosedInv, Open
    <2>7. next' # "read"
      BY <2>1 DEF LibraryInv
    <2>8. next' = "secure" => residue' = <<>>
      BY <2>2 DEF HandshakeInv
    <2>9. SendingInv'
      BY <2>1, <2>2, <2>3 DEF SendingInv, ResidueIsArmed, Open
    <2>10. LibraryInv' /\ HandshakeInv'
      BY <2>1, <2>3, <2>4, <2>7, <2>8 DEF LibraryInv, HandshakeInv
    <2> QED BY <2>5, <2>6, <2>9, <2>10
  <1>2. CASE SslSend(data)
    <2>1. tls = "idle" /\ SslWrite(data)
      BY <1>2 DEF SslSend
    <2>2. /\ out' \in Seq(Nat) /\ residue' \in Seq(Nat) /\ in' \in Seq(Item)
          /\ \/ tls' = "idle" /\ residue' = <<>> /\ writes' = writes
             \/ tls' = "writing" /\ residue' = data /\ (writes' \/ shaking')
          /\ writes' \in BOOLEAN /\ shaking' \in BOOLEAN
          /\ \A i \in 1..Len(in') : in'[i] # "go"
          /\ (\E i \in 1..Len(in') : in'[i] = "big") => small
          /\ net = "lost" => in' = <<>>
          /\ UNCHANGED <<failed, pending>>
      BY <2>1, SslWriteType
    <2>3. TypeOK'
      BY <1>0, <2>2 DEF TypeOK
    <2>4. ClosedInv' /\ OpeningInv'
      BY <2>1, <2>2 DEF OpeningInv, ClosedInv, Open
    <2>5. next' # "secure"
      BY <2>1 DEF HandshakeInv
    <2>6. SendingInv'
      BY <2>1, <2>2, <2>5 DEF SendingInv, ResidueIsArmed, Open
    <2>7. LibraryInv' /\ HandshakeInv'
      BY <2>1, <2>2, <2>5 DEF LibraryInv, HandshakeInv
    <2> QED BY <2>3, <2>4, <2>6, <2>7
  <1> QED BY <1>1, <1>2

\* The user sends, to the connection or behind what waits.
LEMMA ProtocolSendInv ==
    ASSUME Inv, Open, ProtocolSend, UNCHANGED reads,
           next \in {"data", "upgrade"}, next' \in {"wait", "read", "secure"},
           next' = "read" <=> next = "data" /\ pending,
           next' = "secure" <=> next = "upgrade", next = "upgrade" => role = "server",
           role = "client" => ~blocked
    PROVE  Inv'
  <1> USE DEF Inv, ProtocolSend
  <1>0. Line \in Seq(Nat) /\ Len(Line) = 2 /\ Line # <<>> /\ asked' \in Nat
    BY LineType
  <1>1. CASE /\ role = "server" /\ blocked
             /\ buffer' = buffer \o Line
             /\ UNCHANGED <<blocked, tls, writes, residue, failed, library, out, in, opening, got, net>>
    <2> USE <1>1 DEF opening, library
    <2>1. buffer' \in Seq(Nat)
      BY <1>0, ConcatProperties DEF TypeOK
    <2>2. next = "data"
      BY DEF HandshakeInv
    <2>3. TypeOK'
      BY <1>0, <2>1 DEF TypeOK
    <2>4. ClosedInv' /\ OpeningInv'
      BY DEF OpeningInv, ClosedInv, Open
    <2>5. SendingInv'
      BY <2>2 DEF SendingInv, ResidueIsArmed, Open, Broken
    <2>6. LibraryInv' /\ HandshakeInv'
      BY <2>2 DEF LibraryInv, HandshakeInv
    <2> QED BY <2>3, <2>4, <2>5, <2>6
  <1>2. CASE ~blocked /\ MaySend /\ (RawSend(Line) \/ SslSend(Line)) /\ blocked' = (residue' # <<>>)
             /\ UNCHANGED <<buffer, opening, got, net>>
    <2>2. buffer = <<>>
      BY <1>2 DEF SendingInv
    <2>3. buffer' = <<>>
      BY <1>2, <2>2
    <2> QED BY <1>0, <1>2, <2>2, <2>3, SendInv DEF opening
  <1> QED BY <1>1, <1>2

LEMMA RawWriteEventInv == ASSUME Inv, RawWriteEvent PROVE Inv'
  <1>1. CASE Close
    BY <1>1, CloseInv
  <1>2. CASE /\ RawWrite(residue) /\ writes' = (residue' # <<>>)
             /\ next' = IF residue' = <<>> THEN "complete" ELSE "wait"
             /\ UNCHANGED <<opening, tls, reads, failed, library, user, in, got, net>>
    <2> USE <1>2 DEF Inv, opening, library, user
    <2>1. Open /\ next = "wait" /\ tls = "raw" /\ Len(out) <= Room /\ residue # <<>> /\ blocked
      BY DEF RawWriteEvent, At, Writeable, SendingInv, ResidueIsArmed
    <2>2. out' \in Seq(Nat) /\ residue' \in Seq(Nat) /\ Len(out') <= Room
      BY <2>1, RawWriteType DEF TypeOK
    <2>3. TypeOK'
      BY <2>2 DEF TypeOK
    <2>4. ClosedInv' /\ OpeningInv'
      BY <2>1 DEF OpeningInv, ClosedInv, Open
    <2>5. SendingInv'
      BY <2>1, <2>2 DEF SendingInv, ResidueIsArmed, Open
    <2>6. LibraryInv' /\ HandshakeInv'
      BY <2>1 DEF LibraryInv, HandshakeInv
    <2> QED BY <2>3, <2>4, <2>5, <2>6
  <1> QED BY <1>1, <1>2 DEF RawWriteEvent

LEMMA SslWriteEventInv == ASSUME Inv, SslWriteEvent PROVE Inv'
  <1> USE DEF Inv, SslWriteEvent, opening, user
  <1>0. /\ Open /\ next = "wait" /\ tls = "writing" /\ residue # <<>> /\ residue \in Seq(Nat)
        /\ (~small => blocked)
    BY DEF Woken, At, SendingInv, ResidueIsArmed, TypeOK
  <1>1. CASE /\ Broken /\ tls' = "idle" /\ failed' = TRUE /\ writes' = FALSE
             /\ UNCHANGED <<next, residue, library, out, in>>
    <2> USE <1>1 DEF library
    <2>1. TypeOK'
      <3>1. failed' \in BOOLEAN /\ writes' \in BOOLEAN
        OBVIOUS
      <3>2. UNCHANGED <<role, small, phase, socks, timers, reads, residue, shaking, pending, next, out, in>>
        OBVIOUS
      <3>3. UNCHANGED <<blocked, buffer, asked, got, net>>
        OBVIOUS
      <3> QED BY <3>1, <3>2, <3>3 DEF TypeOK
    <2>2. ClosedInv' /\ OpeningInv'
      BY <1>0 DEF OpeningInv, ClosedInv, Open
    <2>3. SendingInv'
      BY <1>0 DEF SendingInv, ResidueIsArmed, Broken, Open
    <2>4. LibraryInv' /\ HandshakeInv'
      BY <1>0 DEF LibraryInv, HandshakeInv
    <2> QED BY <2>1, <2>2, <2>3, <2>4
  <1>2. CASE SslWrite(residue) /\ next' = IF residue' = <<>> THEN "complete" ELSE "wait"
    <2>1. /\ out' \in Seq(Nat) /\ residue' \in Seq(Nat) /\ in' \in Seq(Item)
          /\ \/ tls' = "idle" /\ residue' = <<>> /\ writes' = writes
             \/ tls' = "writing" /\ residue' = residue /\ (writes' \/ shaking')
          /\ writes' \in BOOLEAN /\ shaking' \in BOOLEAN
          /\ \A i \in 1..Len(in') : in'[i] # "go"
          /\ (\E i \in 1..Len(in') : in'[i] = "big") => small
          /\ net = "lost" => in' = <<>>
          /\ UNCHANGED <<failed, pending>>
      BY <1>0, <1>2, SslWriteType
    <2>2. TypeOK'
      BY <1>2, <2>1 DEF TypeOK
    <2>3. ClosedInv' /\ OpeningInv'
      BY <1>0, <2>1 DEF OpeningInv, ClosedInv, Open
    <2>4. SendingInv'
      BY <1>0, <1>2, <2>1 DEF SendingInv, ResidueIsArmed, Open
    <2>5. LibraryInv' /\ HandshakeInv'
      BY <1>0, <1>2, <2>1 DEF LibraryInv, HandshakeInv
    <2> QED BY <2>2, <2>3, <2>4, <2>5
  <1> QED BY <1>1, <1>2

LEMMA SendCompleteInv == ASSUME Inv, SendComplete PROVE Inv'
  <1> USE DEF Inv, SendComplete, opening, At
  <1>1. CASE /\ role = "client" \/ buffer = <<>>
             /\ blocked' = FALSE /\ next' = IF role = "client" THEN "data" ELSE "wait"
             /\ UNCHANGED <<tls, writes, residue, failed, library, buffer, out, in>>
    <2> USE <1>1 DEF library
    <2>1. TypeOK'
      <3>1. blocked' \in BOOLEAN /\ next' \in {"data", "wait"}
        OBVIOUS
      <3>2. UNCHANGED <<role, small, phase, socks, timers, tls, reads, writes, residue, failed, shaking, pending>>
        OBVIOUS
      <3>3. UNCHANGED <<buffer, asked, out, in, got, net>>
        OBVIOUS
      <3> QED BY <3>1, <3>2, <3>3 DEF TypeOK
    <2>2. ClosedInv' /\ OpeningInv'
      BY DEF OpeningInv, ClosedInv, Open
    <2>3. SendingInv'
      BY DEF SendingInv, ResidueIsArmed, Open, Broken
    <2>4. LibraryInv' /\ HandshakeInv'
      BY DEF LibraryInv, HandshakeInv
    <2> QED BY <2>1, <2>2, <2>3, <2>4
  <1>2. CASE /\ buffer # <<>> /\ MaySend /\ (RawSend(buffer) \/ SslSend(buffer))
             /\ buffer' = <<>> /\ blocked' = (residue' # <<>>) /\ next' = "wait"
    <2>1. buffer \in Seq(Nat) /\ asked' \in Nat
      BY DEF TypeOK
    <2> QED BY <1>2, <2>1, SendInv DEF opening
  <1> QED BY <1>1, <1>2

-----------------------------------------------------------------------------
(* Reading.                                                                *)

LEMMA RawReadEventInv == ASSUME Inv, RawReadEvent PROVE Inv'
  <1>1. CASE Close
    BY <1>1, CloseInv
  <1>2. CASE /\ in # <<>> /\ in' = Tail(in)
             /\ next' = IF Head(in) = "go" THEN "upgrade" ELSE "data"
             /\ UNCHANGED <<opening, socket, user, out, got, net>>
    <2> USE <1>2, Taken DEF Inv, opening, socket, library, user
    <2>1. Open /\ next = "wait" /\ tls = "raw" /\ ~failed
      BY DEF RawReadEvent, At, LibraryInv
    <2>2. TypeOK'
      BY DEF TypeOK
    <2>3. ClosedInv' /\ OpeningInv'
      BY <2>1 DEF OpeningInv, ClosedInv, Open
    <2>4. SendingInv'
      BY <2>1 DEF SendingInv, ResidueIsArmed, Open
    <2>5. LibraryInv' /\ HandshakeInv'
      BY <2>1 DEF LibraryInv, HandshakeInv
    <2> QED BY <2>2, <2>3, <2>4, <2>5
  <1> QED BY <1>1, <1>2 DEF RawReadEvent

\* A handler reads what the library has, or the library waits.
LEMMA SslReadInv == ASSUME Inv, SslRead PROVE Inv'
  <1> USE DEF Inv, opening, user
  <1>0. /\ Open /\ tls \in {"idle", "writing"} /\ next \in {"wait", "read"}
        /\ tls = "writing" \/ next = "read" => small
        /\ UNCHANGED <<role, small, phase, socks, timers, reads, residue, failed>>
        /\ UNCHANGED <<blocked, buffer, asked, out, got, net>>
    BY DEF SslRead, Woken, At, LibraryInv, TypeOK
  <1>1. /\ in' = in \/ (in # <<>> /\ in' = Tail(in))
        /\ writes' \in BOOLEAN /\ shaking' \in BOOLEAN /\ pending' \in BOOLEAN
        /\ tls' \in {"idle", tls} /\ next' \in {"data", "wait"} /\ (pending' => small)
    <2>1. writes \in BOOLEAN /\ shaking \in BOOLEAN /\ pending \in BOOLEAN
      BY DEF TypeOK
    <2>2. in # <<>> /\ Head(in) = "big" => small
      BY Taken DEF LibraryInv
    <2>3. pending => small
      BY DEF LibraryInv
    <2>4. CASE pending /\ pending' = FALSE /\ tls' = "idle" /\ writes' = FALSE /\ next' = "data" /\ UNCHANGED <<shaking, in>>
      BY <2>1, <2>4
    <2>5. CASE /\ in # <<>> /\ pending' = (Head(in) = "big") /\ in' = Tail(in)
               /\ tls' = "idle" /\ writes' = FALSE /\ next' = "data" /\ UNCHANGED shaking
      BY <2>1, <2>2, <2>5
    <2>6. CASE /\ in # <<>> /\ writes' = (Len(out) >= Room) /\ shaking' = ~writes'
               /\ in' = (IF writes' THEN in ELSE Tail(in)) /\ next' = "wait" /\ UNCHANGED <<tls, pending>>
      BY <2>1, <2>3, <2>6
    <2>7. CASE Shakes /\ writes' = FALSE /\ next' = "wait" /\ UNCHANGED <<tls, pending>>
      <3>1. /\ in' = in \/ (in # <<>> /\ in' = Tail(in))
            /\ shaking' = (shaking /\ ~ShakeHere)
        BY <2>7 DEF Shakes, ShakeHere
      <3>2. shaking' \in BOOLEAN
        BY <3>1, <2>1
      <3> QED BY <2>1, <2>3, <2>7, <3>1, <3>2
    <2> QED BY <2>4, <2>5, <2>6, <2>7 DEF SslRead
  <1>2. /\ in' \in Seq(Item) /\ \A i \in 1..Len(in') : in'[i] # "go"
        /\ (\E i \in 1..Len(in') : in'[i] = "big") => small
        /\ net = "lost" => in' = <<>>
    BY <1>0, <1>1, Taken DEF TypeOK, HandshakeInv, LibraryInv
  <1>3. ~small => residue = <<>>
    <2> SUFFICES ASSUME ~small, residue # <<>> PROVE FALSE
      OBVIOUS
    <2>1. tls = "idle" /\ failed /\ Broken /\ ~pending
      BY <1>0 DEF SendingInv, ResidueIsArmed, LibraryInv
    <2>2. in = <<>> /\ net # "up"
      BY <2>1 DEF Broken, LibraryInv
    <2> QED BY <2>1, <2>2 DEF SslRead
  <1>a. UNCHANGED <<role, small, phase, socks, timers, reads, residue, failed>>
    BY <1>0
  <1>b. UNCHANGED <<blocked, buffer, asked, out, got, net>>
    BY <1>0
  <1>c. writes' \in BOOLEAN /\ shaking' \in BOOLEAN /\ pending' \in BOOLEAN /\ next' \in {"data", "wait"}
    BY <1>1
  <1>d. tls' \in {"idle", "writing"} /\ (tls' = "idle" \/ tls' = tls)
    BY <1>0, <1>1
  <1>4. TypeOK'
    BY <1>a, <1>b, <1>c, <1>d, <1>2 DEF TypeOK
  <1>5. ClosedInv' /\ OpeningInv'
    BY <1>0, <1>a, <1>b, <1>c, <1>d DEF OpeningInv, ClosedInv, Open
  <1>6. SendingInv'
    <2>1. CASE small
      BY <1>0, <1>a, <1>b, <1>c, <1>d, <2>1 DEF SendingInv, ResidueIsArmed, Open
    <2>2. CASE ~small
      BY <1>0, <1>a, <1>b, <1>c, <1>d, <1>3, <2>2 DEF SendingInv, ResidueIsArmed, Open
    <2> QED BY <2>1, <2>2
  <1>7. LibraryInv'
    BY <1>0, <1>a, <1>b, <1>c, <1>d, <1>1, <1>2 DEF LibraryInv
  <1>8. HandshakeInv'
    BY <1>0, <1>a, <1>b, <1>c, <1>d, <1>2 DEF HandshakeInv
  <1> QED BY <1>4, <1>5, <1>6, <1>7, <1>8

LEMMA OnDataInv == ASSUME Inv, OnData PROVE Inv'
  <1> USE DEF Inv, OnData, opening, At
  <1>0. Open /\ next = "data" /\ next' = IF pending THEN "read" ELSE "wait"
    OBVIOUS
  <1>1. CASE /\ reads' \in (IF role = "server" THEN {reads, FALSE} ELSE {reads})
             /\ UNCHANGED <<opening, tls, writes, residue, failed, library, user, network>>
    <2> USE <1>0, <1>1 DEF library, user, network
    <2>1. TypeOK'
      <3>1. reads' \in BOOLEAN /\ next' \in {"read", "wait"}
        BY DEF TypeOK
      <3>2. UNCHANGED <<role, small, phase, socks, timers, tls, writes, residue, failed, shaking, pending>>
        OBVIOUS
      <3>3. UNCHANGED <<blocked, buffer, asked, out, in, got, net>>
        OBVIOUS
      <3> QED BY <3>1, <3>2, <3>3 DEF TypeOK
    <2>2. ClosedInv' /\ OpeningInv'
      BY DEF OpeningInv, ClosedInv, Open
    <2>3. SendingInv'
      BY DEF SendingInv, ResidueIsArmed, Open, Broken
    <2>4. LibraryInv' /\ HandshakeInv'
      BY DEF LibraryInv, HandshakeInv
    <2> QED BY <2>1, <2>2, <2>3, <2>4
  <1>2. CASE (role = "client" => ~blocked) /\ ProtocolSend /\ UNCHANGED reads
    BY <1>0, <1>2, ProtocolSendInv
  <1> QED BY <1>1, <1>2

-----------------------------------------------------------------------------
(* The handshake.                                                          *)

LEMMA GoAheadInv == ASSUME Inv, GoAhead PROVE Inv'
  BY ProtocolSendInv DEF GoAhead, At

LEMMA SecureInv == ASSUME Inv, Secure PROVE Inv'
  <1> USE DEF Inv, Secure, Started, user, library, network
  <1>1. /\ Open /\ tls = "raw" /\ ~blocked /\ residue = <<>> /\ buffer = <<>>
        /\ \A i \in 1..Len(in) : in[i] # "go"
        /\ role = "client" \/ (role = "server" /\ next = "secure")
    BY DEF At, HandshakeInv
  <1>2. "secure" \notin timers /\ ~shaking /\ ~pending /\ ~failed
    BY <1>1 DEF OpeningInv, LibraryInv
  <1>3. TypeOK'
    BY <1>1 DEF TypeOK, Timer
  <1>4. ClosedInv' /\ OpeningInv'
    BY <1>1, <1>2 DEF OpeningInv, ClosedInv, Open
  <1>5. SendingInv'
    BY <1>1, <1>2 DEF SendingInv, ResidueIsArmed, Open
  <1>6. LibraryInv' /\ HandshakeInv'
    BY <1>1, <1>2 DEF LibraryInv, HandshakeInv
  <1> QED BY <1>3, <1>4, <1>5, <1>6

LEMMA HandshakeStepInv == ASSUME Inv, Handshake PROVE Inv'
  <1> USE DEF Inv, user, library
  <1>0. /\ Open /\ tls \in {"connecting", "accepting"} /\ ~blocked /\ residue = <<>> /\ buffer = <<>>
        /\ UNCHANGED <<role, small, phase, socks, reads, residue, failed, library, user, out, got, net>>
    BY DEF Handshake, Shaking, Woken, At, HandshakeInv
  <1>1. /\ writes' \in BOOLEAN
        /\ \/ in # <<>> /\ in' = Tail(in) /\ tls' = "idle" /\ timers' = timers \ {"secure"} /\ next' = "data"
           \/ in' = in /\ tls' = tls /\ timers' = timers /\ next' = "wait"
    <2>1. CASE Len(out) < Room /\ ShakeHere
      BY <2>1 DEF Handshake, ShakeHere
    <2>2. CASE ~(Len(out) < Room /\ ShakeHere)
      <3>1. writes' = (Len(out) >= Room) /\ next' = "wait" /\ UNCHANGED <<in, tls, timers>>
        BY <2>2 DEF Handshake
      <3>2. writes' \in BOOLEAN
        BY <3>1
      <3> QED BY <3>1, <3>2
    <2> QED BY <2>1, <2>2
  <1>2. /\ in' \in Seq(Item) /\ \A i \in 1..Len(in') : in'[i] # "go"
        /\ (\E i \in 1..Len(in') : in'[i] = "big") => small
        /\ net = "lost" => in' = <<>>
    BY <1>0, <1>1, Taken DEF TypeOK, HandshakeInv, LibraryInv
  <1>3. TypeOK'
    BY <1>0, <1>1, <1>2 DEF TypeOK
  <1>4. ClosedInv' /\ OpeningInv'
    BY <1>0, <1>1 DEF OpeningInv, ClosedInv, Open
  <1>5. SendingInv'
    BY <1>0, <1>1 DEF SendingInv, ResidueIsArmed, Open
  <1>6. LibraryInv' /\ HandshakeInv'
    BY <1>0, <1>1, <1>2 DEF LibraryInv, HandshakeInv
  <1> QED BY <1>3, <1>4, <1>5, <1>6

-----------------------------------------------------------------------------
(* The user, the peer and the network.                                     *)

LEMMA UserEventInv == ASSUME Inv, UserEvent PROVE Inv'
  <1> USE DEF Inv, UserEvent, At, opening, socket, library, user, network
  <1>1. TypeOK'
    BY DEF TypeOK
  <1>2. ClosedInv' /\ OpeningInv'
    BY DEF OpeningInv, ClosedInv, Open
  <1>3. SendingInv'
    BY DEF SendingInv, ResidueIsArmed, Open, Broken
  <1>4. LibraryInv' /\ HandshakeInv'
    BY DEF LibraryInv, HandshakeInv
  <1> QED BY <1>1, <1>2, <1>3, <1>4

LEMMA FlowOnInv == ASSUME Inv, FlowOn PROVE Inv'
  <1> USE DEF Inv, FlowOn, At, opening, library, user, network
  <1>1. TypeOK'
    BY DEF TypeOK
  <1>2. ClosedInv' /\ OpeningInv'
    BY DEF OpeningInv, ClosedInv, Open
  <1>3. SendingInv'
    BY DEF SendingInv, ResidueIsArmed, Open, Broken
  <1>4. LibraryInv' /\ HandshakeInv'
    BY DEF LibraryInv, HandshakeInv
  <1> QED BY <1>1, <1>2, <1>3, <1>4

\* The peer asks for TLS when nothing else is on its way.
LEMMA PeerSendsInv ==
    ASSUME PatientPeer, Inv, NEW item \in Item, PeerSends(item) PROVE Inv'
  <1> USE DEF Inv, PeerSends, opening, socket, library, user
  <1>0. /\ in \in Seq(Item) /\ Len(in) \in Nat /\ in' \in Seq(Item) /\ Len(in') = Len(in) + 1
        /\ in'[Len(in) + 1] = item /\ \A i \in 1..Len(in) : in'[i] = in[i] /\ in[i] # "go"
    BY AppendProperties, EmptySeq DEF TypeOK
  <1>1. \A i \in 1..Len(in') : i = Len(in) + 1 \/ i \in 1..Len(in)
    BY <1>0
  <1>2. item = "go" => /\ Open /\ tls = "raw" /\ next = "wait" /\ residue = <<>> /\ buffer = <<>>
                       /\ out = <<>> /\ in = <<>>
    BY DEF Sent, Quiet, PatientPeer, Open
  <1>3. item = "go" => ~blocked /\ Len(in') = 1
    <2>1. item = "go" => ~blocked
      BY <1>2 DEF SendingInv, ResidueIsArmed
    <2>2. Len(<<>>) = 0
      BY EmptySeq
    <2> QED BY <1>0, <1>2, <2>1, <2>2
  <1>4. item = "big" => small
    BY DEF Sent
  <1>5. TypeOK'
    BY <1>0 DEF TypeOK
  <1>6. ClosedInv' /\ OpeningInv'
    BY <1>0, <1>1, <1>2 DEF OpeningInv, ClosedInv, Open
  <1>7. SendingInv'
    BY DEF SendingInv, ResidueIsArmed, Open, Broken
  <1>8. LibraryInv'
    BY <1>0, <1>1, <1>4 DEF LibraryInv
  <1>9. HandshakeInv'
    BY <1>0, <1>1, <1>2, <1>3 DEF HandshakeInv
  <1> QED BY <1>5, <1>6, <1>7, <1>8, <1>9

LEMMA PeerReceivesInv == ASSUME Inv, PeerReceives PROVE Inv'
  <1> USE DEF Inv, PeerReceives, opening, socket, library, user
  <1>1. /\ Head(out) \in Nat /\ Tail(out) \in Seq(Nat) /\ Len(Tail(out)) = Len(out) - 1
        /\ Len(out) \in Nat /\ got' \in Seq(Nat) /\ Open
    BY HeadTailProperties, AppendProperties, EmptySeq DEF TypeOK, ClosedInv
  <1>2. TypeOK'
    BY <1>1 DEF TypeOK
  <1>3. ClosedInv' /\ OpeningInv'
    BY <1>1 DEF OpeningInv, ClosedInv, Open
  <1>4. SendingInv'
    <2>1. Room \in Nat
      BY BoundsAssumption
    <2>2. Len(out) <= Room => Len(out') <= Room
      BY <1>1, <2>1
    <2> QED BY <2>2 DEF SendingInv, ResidueIsArmed, Open, Broken
  <1>5. LibraryInv' /\ HandshakeInv'
    BY DEF LibraryInv, HandshakeInv
  <1> QED BY <1>2, <1>3, <1>4, <1>5

LEMMA PeerGoesInv == ASSUME Inv, PeerGoes PROVE Inv'
  <1> USE DEF Inv, PeerGoes, opening, socket, library, user
  <1>0. <<>> \in Seq(Nat) /\ <<>> \in Seq(Item) /\ Len(<<>>) = 0 /\ Len(<<>>) <= Room
    BY EmptySeq, BoundsAssumption
  <1>1. TypeOK'
    <2>1. in' \in Seq(Item) /\ out' \in Seq(Nat) /\ net' \in {"fin", "lost"}
      BY <1>0 DEF TypeOK
    <2>2. UNCHANGED <<role, small, phase, socks, timers, tls, reads, writes, residue, failed, shaking, pending>>
      OBVIOUS
    <2>3. UNCHANGED <<blocked, buffer, asked, next, got>>
      OBVIOUS
    <2> QED BY <2>1, <2>2, <2>3 DEF TypeOK
  <1>2. ClosedInv' /\ OpeningInv'
    BY <1>0 DEF OpeningInv, ClosedInv, Open
  <1>3. SendingInv'
    BY <1>0 DEF SendingInv, ResidueIsArmed, Open, Broken
  <1>4. LibraryInv' /\ HandshakeInv'
    BY <1>0 DEF LibraryInv, HandshakeInv
  <1> QED BY <1>1, <1>2, <1>3, <1>4

-----------------------------------------------------------------------------
(* The theorems.                                                           *)

LEMMA StutterInv == ASSUME Inv, UNCHANGED vars PROVE Inv'
  <1> USE DEF vars, opening, socket, library, user, network
  <1>1. TypeOK' /\ ClosedInv' /\ OpeningInv'
    BY DEF Inv, TypeOK, ClosedInv, OpeningInv, Open
  <1>2. SendingInv' /\ LibraryInv' /\ HandshakeInv'
    BY DEF Inv, SendingInv, ResidueIsArmed, LibraryInv, HandshakeInv, Open, Broken
  <1> QED BY <1>1, <1>2 DEF Inv

LEMMA StepInv == ASSUME PatientPeer, Inv, [Next]_vars PROVE Inv'
  <1>1. CASE Opens
    <2>1. CASE ConnectTimeout
      BY <2>1, CloseInv DEF ConnectTimeout
    <2> QED BY <1>1, <2>1, StartTimeoutInv, ResolvedInv, OnWriteableInv, SocksWriteInv, SocksReadInv DEF Opens
  <1>2. CASE Works
    <2>1. CASE SendFails \/ SslReadFails \/ OnDataEnds \/ HandshakeFails
      BY <2>1, CloseInv DEF SendFails, SslReadFails, OnDataEnds, HandshakeFails
    <2> QED BY <1>2, <2>1, RawWriteEventInv, SslWriteEventInv, SendCompleteInv, RawReadEventInv, SslReadInv,
               OnDataInv, GoAheadInv, SecureInv, HandshakeStepInv DEF Works
  <1>3. CASE Others
    <2>1. CASE Timeout \/ SecureTimeout
      BY <2>1, CloseInv DEF Timeout, SecureTimeout
    <2> QED BY <1>3, <2>1, UserEventInv, FlowOnInv, PeerReceivesInv, PeerGoesInv DEF Others
  <1>4. CASE \E i \in Item : PeerSends(i)
    BY <1>4, PeerSendsInv
  <1> QED BY <1>1, <1>2, <1>3, <1>4, StutterInv DEF Next

LEMMA Invariance == ASSUME PatientPeer PROVE Spec => []Inv
  BY InitInv, StepInv, PTL DEF Spec

\* The connection is type correct; what send() leaves over has a handler that will send it;
\* resolving, connecting and a client's handshake have a timer; a handshake begins with
\* nothing left behind (SocketProtocolImp, Client::onWriteable(), ServerPeer).
THEOREM Sound == ASSUME PatientPeer PROVE Spec => []ConnectionInv
  <1>1. Inv => ConnectionInv
    BY DEF Inv, SendingInv, LibraryInv, HandshakeInv, OpeningInv, ConnectionInv, HandshakeIsClean
  <1> QED BY <1>1, Invariance, PTL

-----------------------------------------------------------------------------
(* The order of what is sent.                                              *)

Stream == ((got \o out) \o residue) \o buffer

Numbers(n) == [i \in 1..n |-> i]

\* A connection that is not open has sent nothing.
OrderInv == (~Open => got = <<>> /\ asked = 0) /\ (Open /\ net # "lost" => Stream = Numbers(asked))

LEMMA Associative ==
    ASSUME NEW s \in Seq(Nat), NEW t \in Seq(Nat), NEW u \in Seq(Nat)
    PROVE  (s \o t) \o u = s \o (t \o u)
  BY ConcatAssociative

LEMMA NothingSent == got = <<>> /\ out = <<>> /\ residue = <<>> /\ buffer = <<>> => Stream = Numbers(0)
  <1> SUFFICES ASSUME got = <<>>, out = <<>>, residue = <<>>, buffer = <<>> PROVE Stream = Numbers(0)
    OBVIOUS
  <1>1. <<>> \in Seq(Nat)
    BY EmptySeq
  <1>2. Stream = <<>>
    BY <1>1, ConcatEmptySeq DEF Stream
  <1>3. Numbers(0) \in Seq(Nat) /\ Len(Numbers(0)) = 0
    BY DEF Numbers
  <1> QED BY <1>2, <1>3, EmptySeq

LEMMA NumbersGrow == ASSUME NEW n \in Nat PROVE Numbers(n) \o <<n + 1, n + 2>> = Numbers(n + 2)
  <1>1. Numbers(n) \in Seq(Nat) /\ Len(Numbers(n)) = n /\ \A i \in 1..n : Numbers(n)[i] = i
    BY DEF Numbers
  <1>2. <<n + 1, n + 2>> \in Seq(Nat) /\ Len(<<n + 1, n + 2>>) = 2
    OBVIOUS
  <1>3. Numbers(n + 2) \in Seq(Nat) /\ Len(Numbers(n + 2)) = n + 2 /\ \A i \in 1..(n + 2) : Numbers(n + 2)[i] = i
    BY DEF Numbers
  <1> DEFINE s == Numbers(n) \o <<n + 1, n + 2>>
  <1>4. /\ s \in Seq(Nat) /\ Len(s) = n + 2
        /\ \A i \in 1..(n + 2) : s[i] = IF i <= n THEN Numbers(n)[i] ELSE <<n + 1, n + 2>>[i - n]
    BY <1>1, <1>2, ConcatProperties
  <1>5. \A i \in 1..(n + 2) : s[i] = i
    <2> SUFFICES ASSUME NEW i \in 1..(n + 2) PROVE s[i] = i
      OBVIOUS
    <2> HIDE DEF s
    <2>0. i <= n \/ i = n + 1 \/ i = n + 2
      OBVIOUS
    <2>1. CASE i <= n
      <3>1. i \in 1..n
        BY <2>1
      <3> QED BY <1>1, <1>4, <2>1, <3>1
    <2>2. CASE i = n + 1
      <3>1. ~(i <= n) /\ i - n = 1 /\ <<n + 1, n + 2>>[1] = n + 1
        BY <2>2
      <3> QED BY <1>4, <2>2, <3>1
    <2>3. CASE i = n + 2
      <3>1. ~(i <= n) /\ i - n = 2 /\ <<n + 1, n + 2>>[2] = n + 2
        BY <2>3
      <3> QED BY <1>4, <2>3, <3>1
    <2> QED BY <2>0, <2>1, <2>2, <2>3
  <1> HIDE DEF s
  <1>6. s = Numbers(n + 2)
    BY <1>3, <1>4, <1>5, SeqEqual
  <1> QED BY <1>6 DEF s

\* Whatever the kernel or the library takes, the rest follows it.
LEMMA RawWriteKeeps ==
    ASSUME NEW data \in Seq(Nat), out \in Seq(Nat), Len(out) <= Room, RawWrite(data)
    PROVE  out' \o residue' = out \o data
  <1> DEFINE n == IF Len(data) <= Room - Len(out) THEN Len(data) ELSE Room - Len(out)
  <1>1. Room \in Nat /\ Len(data) \in Nat /\ Len(out) \in Nat
    BY BoundsAssumption
  <1>2. n \in 0..Len(data)
    BY <1>1
  <1>3. out' = out \o SubSeq(data, 1, n) /\ residue' = SubSeq(data, n + 1, Len(data))
    BY DEF RawWrite, Rest
  <1> HIDE DEF n
  <1>4. \A i \in 1..Len(data) : data[i] \in Nat
    BY ElementOfSeq
  <1>5. SubSeq(data, 1, n) \in Seq(Nat) /\ SubSeq(data, n + 1, Len(data)) \in Seq(Nat)
    BY <1>1, <1>2, <1>4, SubSeqProperties
  <1>6. SubSeq(data, 1, n) \o SubSeq(data, n + 1, Len(data)) = data
    <2>1. 1 \in 1..Len(data)+1 /\ n \in 1-1..Len(data) /\ Len(data) \in n..Len(data)
      BY <1>1, <1>2
    <2>2. SubSeq(data, 1, n) \o SubSeq(data, n + 1, Len(data)) = SubSeq(data, 1, Len(data))
      BY <2>1, ConcatAdjacentSubSeq
    <2> QED BY <2>2, SubSeqFull
  <1> DEFINE first == SubSeq(data, 1, n)
  <1> DEFINE rest == SubSeq(data, n + 1, Len(data))
  <1>7. first \in Seq(Nat) /\ rest \in Seq(Nat)
    BY <1>5
  <1>8. first \o rest = data /\ out' = out \o first /\ residue' = rest
    BY <1>3, <1>6
  <1> HIDE DEF first, rest
  <1>9. (out \o first) \o rest = out \o (first \o rest)
    BY <1>7, Associative
  <1> QED BY <1>8, <1>9

LEMMA SslWriteKeeps ==
    ASSUME NEW data \in Seq(Nat), out \in Seq(Nat), SslWrite(data)
    PROVE  out' \o residue' = out \o data
  <1>1. CASE out' = out \o data /\ residue' = <<>>
    <2>1. out \o data \in Seq(Nat)
      BY ConcatProperties
    <2> QED BY <1>1, <2>1, ConcatEmptySeq
  <1>2. CASE residue' = data /\ out' = out
    BY <1>2
  <1> QED BY <1>1, <1>2 DEF SslWrite

\* What is sent when nothing is left over follows what was sent before.
LEMMA SendKeeps ==
    ASSUME Inv, Open, MaySend, NEW data \in Seq(Nat), RawSend(data) \/ SslSend(data), got' = got
    PROVE  (got' \o out') \o residue' = ((got \o out) \o residue) \o data
  <1>0. out \in Seq(Nat) /\ got \in Seq(Nat)
    BY DEF Inv, TypeOK
  <1>1. residue = <<>> /\ out \in Seq(Nat) /\ got \in Seq(Nat) /\ got \o out \in Seq(Nat)
    BY <1>0, ConcatProperties DEF MaySend
  <1>2. /\ out' \o residue' = out \o data /\ out' \in Seq(Nat) /\ residue' \in Seq(Nat)
    <2>1. CASE RawSend(data)
      <3>1. Len(out) <= Room /\ RawWrite(data)
        BY <2>1 DEF RawSend, Inv, SendingInv
      <3> QED BY <1>1, <3>1, RawWriteKeeps, RawWriteType
    <2>2. CASE SslSend(data)
      <3>1. SslWrite(data) /\ out \o data \in Seq(Nat) /\ <<>> \in Seq(Nat)
        BY <2>2, <1>1, ConcatProperties, EmptySeq DEF SslSend
      <3>2. out' \in Seq(Nat) /\ residue' \in Seq(Nat)
        BY <1>1, <3>1 DEF SslWrite
      <3> QED BY <1>1, <3>1, <3>2, SslWriteKeeps
    <2> QED BY <2>1, <2>2
  <1>6. out' \in Seq(Nat) /\ residue' \in Seq(Nat)
    BY <1>2
  <1>3. (got \o out') \o residue' = got \o (out' \o residue')
    BY <1>0, <1>6, Associative
  <1>5. (got \o out) \o data = got \o (out \o data)
    BY <1>0, Associative
  <1>4. (got \o out) \o residue = got \o out
    BY <1>1, ConcatEmptySeq
  <1> QED BY <1>2, <1>3, <1>4, <1>5

\* The user's next line is the next of the stream, wherever it waits.
LEMMA ProtocolSendKeeps ==
    ASSUME Inv, OrderInv, Open, ProtocolSend PROVE OrderInv'
  <1>1. /\ Open' /\ net' = net /\ got' = got /\ asked' = asked + 2 /\ asked \in Nat
        /\ Line \in Seq(Nat) /\ Line = <<asked + 1, asked + 2>>
    BY LineType DEF ProtocolSend, opening, Open, Inv, TypeOK, Line
  <1>2. /\ got \in Seq(Nat) /\ out \in Seq(Nat) /\ residue \in Seq(Nat) /\ buffer \in Seq(Nat)
        /\ got \o out \in Seq(Nat) /\ (got \o out) \o residue \in Seq(Nat)
    BY ConcatProperties DEF Inv, TypeOK
  <1>3. Stream' = Stream \o Line
    <2>1. CASE buffer' = buffer \o Line /\ UNCHANGED <<residue, out>>
      <3> DEFINE sent == (got \o out) \o residue
      <3>1. Stream = sent \o buffer /\ Stream' = sent \o (buffer \o Line)
        BY <1>1, <2>1 DEF Stream
      <3>2. sent \in Seq(Nat) /\ buffer \in Seq(Nat) /\ Line \in Seq(Nat)
        BY <1>1, <1>2
      <3> HIDE DEF sent
      <3>3. (sent \o buffer) \o Line = sent \o (buffer \o Line)
        BY <3>2, Associative
      <3> QED BY <3>1, <3>3
    <2>2. CASE ~blocked /\ MaySend /\ (RawSend(Line) \/ SslSend(Line)) /\ buffer' = buffer
      <3>1. buffer = <<>>
        BY <2>2 DEF Inv, SendingInv
      <3>2. (got' \o out') \o residue' = ((got \o out) \o residue) \o Line
        BY <1>1, <2>2, SendKeeps
      <3>3. ((got \o out) \o residue) \o Line \in Seq(Nat)
        BY <1>1, <1>2, ConcatProperties
      <3> QED BY <1>2, <2>2, <3>1, <3>2, <3>3, ConcatEmptySeq DEF Stream
    <2> QED BY <2>1, <2>2 DEF ProtocolSend
  <1> QED BY <1>1, <1>3, NumbersGrow DEF OrderInv

LEMMA CloseKeeps == ASSUME Inv, Close PROVE OrderInv'
  BY DEF Close, OrderInv, Open

LEMMA OpensKeeps == ASSUME Inv, OrderInv, ~Open, Opens PROVE OrderInv'
  <1>1. CASE Close
    BY <1>1, CloseKeeps
  <1>2. CASE Open' /\ UNCHANGED <<out, got, net, blocked, buffer, asked, residue>>
    <2>1. got' = <<>> /\ out' = <<>> /\ residue' = <<>> /\ buffer' = <<>> /\ asked' = 0
      BY <1>2 DEF OrderInv, Inv, ClosedInv
    <2>2. Stream' = Numbers(0)
      BY <2>1, <1>2, NothingSent DEF OrderInv, Inv, ClosedInv, Stream
    <2> QED BY <1>2, <2>1, <2>2 DEF OrderInv
  <1>3. CASE phase' # "connected" /\ UNCHANGED <<got, asked>>
    BY <1>3 DEF OrderInv, Open
  <1>4. \/ Close
        \/ Open' /\ UNCHANGED <<out, got, net, blocked, buffer, asked, residue>>
        \/ phase' # "connected" /\ UNCHANGED <<got, asked>>
    <2>1. ASSUME NEW running, StartConnecting(running)
          PROVE  Close \/ (phase' # "connected" /\ UNCHANGED <<got, asked>>)
      BY <2>1 DEF StartConnecting, SetState, user, network
    <2>2. CASE StartTimeout
      BY <2>1, <2>2 DEF StartTimeout, SetState, user, network
    <2>3. CASE Resolved
      BY <2>1, <2>3 DEF Resolved
    <2>4. ASSUME NEW answer, OnConnect(answer)
          PROVE  Open' /\ UNCHANGED <<blocked, buffer, asked, residue>>
      BY <2>4 DEF OnConnect, SetState, Open, user
    <2>5. CASE OnWriteable
      <3>1. CASE OnConnect("none") /\ UNCHANGED network
        BY <3>1, <2>4 DEF network
      <3> QED BY <3>1, <2>5 DEF OnWriteable, SetState, user, network
    <2>6. CASE SocksWrite
      BY <2>4, <2>6 DEF SocksWrite, network
    <2>7. CASE SocksRead
      BY <2>4, <2>7 DEF SocksRead
    <2>8. CASE ConnectTimeout
      BY <2>8 DEF ConnectTimeout
    <2> QED BY <2>2, <2>3, <2>5, <2>6, <2>7, <2>8 DEF Opens
  <1> QED BY <1>1, <1>2, <1>3, <1>4

\* The steps that send nothing.
LEMMA SameKeeps ==
    ASSUME OrderInv, UNCHANGED <<phase, got, out, residue, buffer, asked, net>> PROVE OrderInv'
  BY DEF OrderInv, Open, Stream

LEMMA RawWriteEventKeeps == ASSUME Inv, OrderInv, RawWriteEvent PROVE OrderInv'
  <1>1. CASE Close
    BY <1>1, CloseKeeps
  <1>2. CASE RawWrite(residue) /\ UNCHANGED <<phase, got, buffer, asked, net>> /\ Open /\ tls = "raw"
    <2>0. Len(out) <= Room
      BY <1>2 DEF Inv, SendingInv
    <2>1. got \in Seq(Nat) /\ out \in Seq(Nat) /\ residue \in Seq(Nat)
      BY DEF Inv, TypeOK
    <2>2. out' \o residue' = out \o residue
      BY <1>2, <2>0, <2>1, RawWriteKeeps
    <2>6. out' \in Seq(Nat) /\ residue' \in Seq(Nat)
      BY <1>2, <2>0, <2>1, RawWriteType
    <2>3. (got \o out') \o residue' = got \o (out' \o residue')
      BY <2>1, <2>6, Associative
    <2>4. (got \o out) \o residue = got \o (out \o residue)
      BY <2>1, Associative
    <2>5. Stream' = Stream
      BY <1>2, <2>2, <2>3, <2>4 DEF Stream
    <2> QED BY <1>2, <2>5 DEF OrderInv, Open
  <1> QED BY <1>1, <1>2 DEF RawWriteEvent, At, opening, user

LEMMA SslWriteEventKeeps == ASSUME Inv, OrderInv, SslWriteEvent PROVE OrderInv'
  <1>1. CASE UNCHANGED <<residue, out>>
    BY <1>1, SameKeeps DEF SslWriteEvent, opening, user
  <1>2. CASE SslWrite(residue)
    <2>1. got \in Seq(Nat) /\ out \in Seq(Nat) /\ residue \in Seq(Nat) /\ <<>> \in Seq(Nat)
      BY EmptySeq DEF Inv, TypeOK
    <2>2. out' \o residue' = out \o residue
      BY <1>2, <2>1, SslWriteKeeps
    <2>3. out' \in Seq(Nat) /\ residue' \in Seq(Nat)
      BY <1>2, <2>1, ConcatProperties DEF SslWrite
    <2>4. (got \o out') \o residue' = got \o (out' \o residue')
      BY <2>1, <2>3, Associative
    <2>5. (got \o out) \o residue = got \o (out \o residue)
      BY <2>1, Associative
    <2>6. Stream' = Stream
      BY <2>2, <2>4, <2>5 DEF Stream, SslWriteEvent, user
    <2> QED BY <2>6 DEF OrderInv, Open, SslWriteEvent, opening, user
  <1> QED BY <1>1, <1>2 DEF SslWriteEvent

LEMMA SendCompleteKeeps == ASSUME Inv, OrderInv, SendComplete PROVE OrderInv'
  <1>1. CASE UNCHANGED <<residue, buffer, out>>
    BY <1>1, SameKeeps DEF SendComplete, opening
  <1>2. CASE MaySend /\ (RawSend(buffer) \/ SslSend(buffer)) /\ buffer' = <<>>
    <2>1. /\ Open /\ Open' /\ UNCHANGED <<got, net, asked>>
          /\ buffer \in Seq(Nat) /\ (got \o out) \o residue \in Seq(Nat)
      BY ConcatProperties DEF SendComplete, At, opening, Open, Inv, TypeOK
    <2>2. (got' \o out') \o residue' = Stream
      BY <1>2, <2>1, SendKeeps DEF Stream
    <2>3. Stream \in Seq(Nat)
      BY <2>1, ConcatProperties DEF Stream
    <2>4. Stream' = Stream
      BY <1>2, <2>2, <2>3, ConcatEmptySeq DEF Stream
    <2> QED BY <2>1, <2>4 DEF OrderInv
  <1> QED BY <1>1, <1>2 DEF SendComplete

\* What the kernel has goes to the peer from the front.
LEMMA PeerReceivesKeeps == ASSUME Inv, OrderInv, PeerReceives PROVE OrderInv'
  <1>1. out # <<>> /\ out \in Seq(Nat) /\ got \in Seq(Nat) /\ Open
    BY DEF PeerReceives, Inv, TypeOK, ClosedInv
  <1>2. Head(out) \in Nat /\ Tail(out) \in Seq(Nat) /\ Tail(out) = SubSeq(out, 2, Len(out)) /\ Head(out) = out[1]
        /\ Len(out) \in Nat /\ Len(out) >= 1
    BY <1>1, HeadTailProperties, EmptySeq
  <1>3. <<Head(out)>> \in Seq(Nat) /\ <<Head(out)>> \o Tail(out) = out
    <2> DEFINE s == <<Head(out)>> \o Tail(out)
    <2>1. <<Head(out)>> \in Seq(Nat) /\ Len(<<Head(out)>>) = 1 /\ <<Head(out)>>[1] = Head(out)
      BY <1>2
    <2>2. Len(Tail(out)) = Len(out) - 1 /\ \A i \in 1..Len(Tail(out)) : Tail(out)[i] = out[i + 1]
      BY <1>1, HeadTailProperties
    <2>3. /\ s \in Seq(Nat) /\ Len(s) = Len(out)
          /\ \A i \in 1..Len(out) : s[i] = IF i <= 1 THEN <<Head(out)>>[i] ELSE Tail(out)[i - 1]
      BY <1>2, <2>1, <2>2, ConcatProperties
    <2> HIDE DEF s
    <2>4. ASSUME NEW i \in 1..Len(out) PROVE s[i] = out[i]
      <3>1. CASE i = 1
        BY <1>2, <2>1, <2>3, <3>1
      <3>2. CASE i # 1
        <4>1. i - 1 \in 1..Len(Tail(out)) /\ (i - 1) + 1 = i /\ ~(i <= 1)
          BY <1>2, <2>2, <3>2
        <4> QED BY <2>2, <2>3, <4>1
      <3> QED BY <3>1, <3>2
    <2>5. s = out
      BY <1>1, <2>3, <2>4, SeqEqual
    <2> QED BY <2>1, <2>5 DEF s
  <1>4. Append(got, Head(out)) = got \o <<Head(out)>>
    BY <1>1, <1>2, AppendIsConcat
  <1>5. (got \o <<Head(out)>>) \o Tail(out) = got \o (<<Head(out)>> \o Tail(out))
    BY <1>1, <1>2, <1>3, Associative
  <1>6. Stream' = Stream /\ UNCHANGED <<phase, asked, net>>
    BY <1>3, <1>4, <1>5 DEF PeerReceives, Stream, opening, socket, user
  <1> QED BY <1>1, <1>6 DEF OrderInv, Open

LEMMA StepKeeps == ASSUME Inv, OrderInv, [Next]_vars PROVE OrderInv'
  <1> DEFINE Same == UNCHANGED <<phase, got, out, residue, buffer, asked, net>>
  <1>1. CASE Opens
    <2>1. CASE ConnectTimeout
      BY <2>1, CloseKeeps DEF ConnectTimeout
    <2>2. CASE StartTimeout \/ Resolved \/ OnWriteable \/ SocksWrite \/ SocksRead
      <3>1. ~Open
        BY <2>2 DEF StartTimeout, Resolved, OnWriteable, SocksWrite, SocksRead, Open, Inv, OpeningInv
      <3> QED BY <1>1, <3>1, OpensKeeps
    <2> QED BY <1>1, <2>1, <2>2 DEF Opens
  <1>2. CASE Works
    <2>1. CASE SendFails \/ SslReadFails \/ OnDataEnds \/ HandshakeFails
      BY <2>1, CloseKeeps DEF SendFails, SslReadFails, OnDataEnds, HandshakeFails
    <2>2. CASE RawReadEvent
      <3>1. Close \/ Same
        BY <2>2 DEF RawReadEvent, opening, socket, user
      <3> QED BY <3>1, CloseKeeps, SameKeeps
    <2>3. CASE SslRead
      <3>1. Same
        BY <2>3 DEF SslRead, opening, user
      <3> QED BY <3>1, SameKeeps
    <2>4. CASE OnData
      <3>1. Same \/ ProtocolSend
        BY <2>4 DEF OnData, opening, user, network
      <3> QED BY <2>4, <3>1, SameKeeps, ProtocolSendKeeps DEF OnData, At
    <2>5. CASE GoAhead
      BY <2>5, ProtocolSendKeeps DEF GoAhead, At
    <2>6. CASE Secure
      <3>1. residue = <<>>
        BY <2>6 DEF Secure, At, Inv, HandshakeInv
      <3>2. Same
        BY <2>6, <3>1 DEF Secure, user, network
      <3> QED BY <3>2, SameKeeps
    <2>7. CASE Handshake
      <3>1. Same
        BY <2>7 DEF Handshake, user
      <3> QED BY <3>1, SameKeeps
    <2> QED BY <1>2, <2>1, <2>2, <2>3, <2>4, <2>5, <2>6, <2>7, RawWriteEventKeeps, SslWriteEventKeeps,
               SendCompleteKeeps DEF Works
  <1>3. CASE Others
    <2>1. CASE Timeout \/ SecureTimeout
      BY <2>1, CloseKeeps DEF Timeout, SecureTimeout
    <2>2. CASE UserEvent \/ FlowOn
      <3>1. Same
        BY <2>2 DEF UserEvent, FlowOn, opening, socket, user, network
      <3> QED BY <3>1, SameKeeps
    <2>3. CASE PeerGoes
      <3>1. UNCHANGED <<phase, got, asked, residue, buffer>> /\ net # "lost"
        BY <2>3 DEF PeerGoes, opening, socket, user
      <3>2. net' = "lost" \/ out' = out
        BY <2>3 DEF PeerGoes
      <3> QED BY <3>1, <3>2 DEF OrderInv, Open, Stream
    <2> QED BY <1>3, <2>1, <2>2, <2>3, PeerReceivesKeeps DEF Others
  <1>4. CASE \E i \in Item : PeerSends(i)
    <2>1. Same
      BY <1>4 DEF PeerSends, opening, socket, user
    <2> QED BY <2>1, SameKeeps
  <1>5. CASE UNCHANGED vars
    <2>1. Same
      BY <1>5 DEF vars, opening, socket, user, network
    <2> QED BY <2>1, SameKeeps
  <1> QED BY <1>1, <1>2, <1>3, <1>4, <1>5 DEF Next

\* The peer gets what the user sends, in order and once, in however many pieces the kernel
\* takes it and wherever the rest of it waits (rawSend(), sslSend(), protocolSend()).
THEOREM Ordered == ASSUME PatientPeer PROVE Spec => []InOrder
  <1>1. Init => OrderInv
    BY NothingSent DEF Init, OrderInv, Open
  <1>2. Inv /\ OrderInv /\ [Next]_vars => OrderInv'
    BY StepKeeps
  <1>3. OrderInv => InOrder
    BY DEF OrderInv, InOrder, Stream, Numbers
  <1> QED BY <1>1, <1>2, <1>3, Invariance, PTL DEF Spec
=============================================================================
