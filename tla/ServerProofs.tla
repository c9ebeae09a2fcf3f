------------------------------ MODULE ServerProofs ------------------------------
(***************************************************************************)
(* That a server session answers truthfully, and in order, and that it     *)
(* loses nothing that it is at work on, whatever its verifiers, filters,   *)
(* forwarding clients and peer do and when, for any limits, any batches of *)
(* input and any number of messages.  Most of it holds of every peer; what *)
(* does not is stated for the peers of which it does.                      *)
(***************************************************************************)
EXTENDS ServerProtocol, SequenceTheorems, TLAPS

\* The session is not busy after BDAT LAST, so only a peer that does not use BDAT, or that
\* waits for its replies, is sure to be given them in order ...
Ordered(v) == v.patient \/ ~v.chunking

\* ... and only then, or if there is no forwarding client, is clear() sure to end the
\* work on a message.
Calm(v) == Ordered(v) \/ ~v.proxy

\* Nor is it busy during the TLS handshake, which a peer that does not wait may disturb.
Sheltered(v) == v.patient \/ "STARTTLS" \notin v.lines

\* a message is being filtered or forwarded
Working == {"Processing", "BdatProcessing"}
\* nothing is at work
Resting == {"Start", "Idle", "Auth", "GotMail", "GotRcpt", "Data", "BdatData",
            "BdatDataLast", "BdatIdle", "BdatChecking", "MustReset"}
Chunking == {"BdatData", "BdatDataLast", "BdatIdle", "BdatChecking", "BdatProcessing"}
\* there is a message, and a recipient
WithMessage == {"GotMail", "GotRcpt", "VrfyGotMail", "VrfyGotRcpt", "RcptTo1", "RcptTo2",
                "Data", "BdatData", "BdatDataLast", "BdatIdle"}
WithRecipient == {"GotRcpt", "VrfyGotRcpt", "RcptTo2", "Data", "BdatData", "BdatDataLast",
                  "BdatIdle"}

Fate == {"unused", "open", "rolledBack", "committed", "abandoned", "delivered"}
Stored == {"committed", "abandoned", "delivered"}
NotSent == IF setup.proxy THEN {"rolledBack", "committed", "abandoned"} ELSE {"rolledBack"}

\* nothing is left of a session that has ended
EndInv ==
    state = "End" => /\ ~verifier /\ ~filter /\ client = "none" /\ ~doomed /\ ~armed
                     /\ carried = 0 /\ cur = 0 /\ txn = 0 /\ due = "none"
                     /\ inbuf = <<>> /\ drain = "no" /\ timer = "off"

\* the input buffer: what is in it, and that it has the timer that it needs
InputInv ==
    /\ open => errors < ErrorLimit
    /\ open /\ drain = "no" => Len(inbuf) < Hard
    /\ drain = "data" => flow
    /\ NothingIsStranded
    /\ inbuf \in Seq(setup.lines)
    /\ setup.patient => /\ Len(inbuf) <= 1
                        /\ due # "none" \/ state = "StartingTls" => inbuf = <<>>
    /\ state \in Chunking => setup.chunking

\* what the state waits for, and who is at work on it
WorkInv ==
    /\ state \in Verifying \cup Working => due # "none"
    /\ state \in Working => cur # 0
    /\ verifier <=> state \in Verifying
    /\ filter => state \in Working /\ txn = cur
    /\ state \in Working => (filter \/ client = "busy" \/ doomed) /\ armed = setup.proxy
    /\ state \in Working /\ ~filter => txn = 0 /\ fate[cur] = "committed"

\* the forwarding client, and the message that it has
ForwardInv ==
    /\ client \in {"none", "idle", "busy"} /\ doomed \in BOOLEAN /\ armed \in BOOLEAN
    /\ carried \in Message \cup {0}
    /\ client # "none" \/ armed => setup.proxy
    /\ doomed => client # "none"
    /\ client = "busy" <=> carried # 0
    /\ carried # 0 => fate[carried] \in Stored

\* the message that is open
FateInv ==
    /\ state \in WithMessage => txn # 0
    /\ state \in WithRecipient => named
    /\ filter => txn # 0 /\ named
    /\ \A m \in Message : fate[m] = "open" <=> m = txn

\* what the session owes, if it answers in order
OrderInv ==
    Ordered(setup) => /\ due # "none" => state \in Verifying \cup Working
                      /\ cur # 0 => state \in Working
                      /\ jumped = {}

\* what works on the message, and what submitters have been told, if clear() ends the work
CalmInv ==
    Calm(setup) => /\ client = "busy" \/ armed => state \in Working
                   /\ client = "busy" => carried = cur /\ ~filter
                   /\ state \in Working => cur \notin accepted \cup refused
                   /\ \A m \in accepted : fate[m] \in Stored
                   /\ \A m \in refused : fate[m] \in NotSent

\* that no event is unexpected, if nothing disturbs the TLS handshake either
StrayInv ==
    /\ state = "StartingTls" => "STARTTLS" \in setup.lines
    /\ Sheltered(setup) /\ tls = "handshake" /\ open => state = "StartingTls"
    /\ Calm(setup) /\ Sheltered(setup) => ~stray

Inv ==
    /\ TypeOK /\ EndInv /\ InputInv /\ WorkInv /\ ForwardInv /\ FateInv
    /\ OrderInv /\ CalmInv /\ StrayInv

Ready == drain # "no" /\ ~Busy /\ inbuf # <<>>

\* what Goto does besides setting the state
Taken == Consume /\ UNCHANGED <<buffer, stray>>

-----------------------------------------------------------------------------
(* The state in which a line is applied.                                   *)

\* Little is at work when a line is applied, and nothing if the session is in order.
LEMMA ReadyFacts ==
    ASSUME Inv, Ready
    PROVE  /\ state \in Resting \cup {"StartingTls", "BdatProcessing"}
           /\ setup \in Setup /\ errors < ErrorLimit /\ errors \in Nat
           /\ ~verifier /\ open
           /\ state \in Resting => ~filter
           /\ Ordered(setup) => due = "none" /\ cur = 0 /\ state # "BdatProcessing"
           /\ Calm(setup) => ~armed /\ client # "busy" /\ carried = 0
           /\ Sheltered(setup) => tls # "handshake" /\ state # "StartingTls"
  <1>1. setup \in Setup
    BY ConstantsAssumption DEF Inv, TypeOK
  <1>2. open /\ inbuf # <<>>
    BY DEF Inv, EndInv, Ready, open
  <1>3. state \in Resting \cup {"StartingTls", "BdatProcessing"}
    BY <1>2 DEF Inv, TypeOK, Ready, Busy, open, State, Resting, Verifying
  <1>4. state \notin Verifying /\ (state \in Working => state = "BdatProcessing")
        /\ (state \in Resting => state \notin Working)
    BY <1>3 DEF Resting, Verifying, Working
  <1>5. errors < ErrorLimit /\ errors \in Nat
    BY <1>2, ConstantsAssumption DEF Inv, InputInv, TypeOK
  <1>6. ~verifier /\ (state \in Resting => ~filter)
    BY <1>4 DEF Inv, WorkInv
  <1>7. setup.patient => due = "none" /\ state # "StartingTls" /\ state # "BdatProcessing"
    BY <1>2 DEF Inv, InputInv, WorkInv, Working
  <1>8. Ordered(setup) => state \notin Working
    BY <1>4, <1>7 DEF Ordered, Inv, InputInv, Chunking
  <1>9. Ordered(setup) => due = "none" /\ cur = 0 /\ state # "BdatProcessing"
    BY <1>4, <1>8 DEF Inv, OrderInv, Working
  <1>10. Calm(setup) => ~armed /\ client # "busy" /\ carried = 0
    BY <1>8 DEF Calm, Inv, CalmInv, ForwardInv
  <1>11. Sheltered(setup) => state # "StartingTls"
    BY <1>7 DEF Sheltered, Inv, StrayInv
  <1>12. Sheltered(setup) => tls # "handshake"
    BY <1>2, <1>11 DEF Inv, StrayInv
  <1> QED BY <1>1, <1>2, <1>3, <1>5, <1>6, <1>9, <1>10, <1>11, <1>12

\* The buffer after a line has been taken from it.
LEMMA TailFacts ==
    ASSUME Inv, inbuf # <<>>
    PROVE  /\ Tail(inbuf) \in Seq(Line) /\ Tail(inbuf) \in Seq(setup.lines)
           /\ Len(Tail(inbuf)) <= Hard + MaxBatch
           /\ Head(inbuf) \in Line /\ Head(inbuf) \in setup.lines
           /\ setup.patient => Tail(inbuf) = <<>> /\ Len(Tail(inbuf)) <= 1
  <1>1. inbuf \in Seq(Line) /\ inbuf \in Seq(setup.lines) /\ Len(inbuf) <= Hard + MaxBatch
    BY DEF Inv, TypeOK, InputInv
  <1>2. Len(Tail(inbuf)) = Len(inbuf) - 1 /\ Len(inbuf) \in Nat \ {0}
    BY <1>1
  <1>3. Hard + MaxBatch \in Nat
    BY ConstantsAssumption
  <1>4. setup.patient => Len(inbuf) <= 1
    BY DEF Inv, InputInv
  <1>5. Tail(inbuf) \in Seq(Line) /\ Tail(inbuf) \in Seq(setup.lines)
    BY <1>1
  <1>6. Len(Tail(inbuf)) = 0 => Tail(inbuf) = <<>>
    BY <1>5, EmptySeq
  <1>7. Head(inbuf) \in Line /\ Head(inbuf) \in setup.lines
    BY <1>1
  <1> QED BY <1>1, <1>2, <1>3, <1>4, <1>5, <1>6, <1>7

\* What the next line is taken for says something of the session.
LEMMA EventFacts ==
    ASSUME Inv, inbuf # <<>>
    PROVE  /\ Event \in {"BDAT", "BDATLAST", "BDATZERO"} => setup.chunking
           /\ Event = "STARTTLS" => "STARTTLS" \in setup.lines
           /\ Event = "Eot" \/ Event = "DataContent" => state = "Data"
           /\ Event = "AuthData" => state = "Auth"
  <1>1. Head(inbuf) \in Line /\ Head(inbuf) \in setup.lines
    BY TailFacts
  <1>2. Event = "STARTTLS" => Head(inbuf) = "STARTTLS"
    BY DEF Event
  <1>3. Event \in {"BDAT", "BDATLAST", "BDATZERO"} => setup.chunking
    BY DEF Event
  <1>4. Event = "Eot" \/ Event = "DataContent" => state = "Data"
    BY <1>1 DEF Event, Line
  <1>5. Event = "AuthData" => state = "Auth"
    BY <1>1 DEF Event, Line
  <1> QED BY <1>1, <1>2, <1>3, <1>4, <1>5

LEMMA GotoIsTaken == ASSUME NEW s, Goto(s) PROVE state' = s /\ Taken
  BY DEF Goto, Taken

LEMMA ApplyIsReady == ASSUME NEW e, Apply(e) PROVE Ready /\ Event = e
  BY DEF Apply, Ready

\* A line that is answered, or is not, jumps no queue if there is none.
LEMMA AnswerInOrder ==
    ASSUME Inv, Ready, Answer \/ UNCHANGED jumped
    PROVE  jumped' \subseteq Line /\ (Ordered(setup) => jumped' = {})
  <1>1. jumped \subseteq Line /\ Head(inbuf) \in Line
    BY TailFacts DEF Inv, TypeOK, Ready
  <1>2. Ordered(setup) => due = "none" /\ jumped = {}
    BY ReadyFacts DEF Inv, OrderInv
  <1> QED BY <1>1, <1>2 DEF Answer

\* The forwarding client is unaffected by a change of other messages.
LEMMA ForwardKept ==
    ASSUME Inv, UNCHANGED <<client, doomed, carried, armed, setup>>,
           \A m \in Message : fate[m] \in Stored => fate'[m] \in Stored
    PROVE  ForwardInv'
  BY DEF Inv, ForwardInv, Stored

-----------------------------------------------------------------------------
(* What a line has to do to keep the invariant.                            *)

\* The input buffer after a line that leaves the session open.
LEMMA GotoInput ==
    ASSUME Inv, Ready, state' \in State, state' # "End", Taken,
           setup' = setup, errors' < ErrorLimit,
           state' \in Chunking => setup.chunking
    PROVE  InputInv' /\ EndInv'
  <1>1. inbuf' = Tail(inbuf) /\ drain' = drain /\ flow' = flow
    BY DEF Taken, buffer, Consume
  <1>2. drain # "no" /\ inbuf # <<>> /\ (drain = "data" => flow)
    BY DEF Ready, Inv, InputInv
  <1>3. /\ Tail(inbuf) \in Seq(setup.lines)
        /\ setup.patient => Tail(inbuf) = <<>> /\ Len(Tail(inbuf)) <= 1
    BY <1>2, TailFacts
  <1>4. NothingIsStranded'
    BY <1>1, <1>2 DEF NothingIsStranded
  <1> QED BY <1>1, <1>2, <1>3, <1>4 DEF InputInv, EndInv, open

\* A line keeps the types if what it changes has its type.
LEMMA TypeKept ==
    ASSUME Inv, Ready, Taken, state' \in State, setup' = setup, errors' \in Nat, errors' < ErrorLimit,
           authed' \in BOOLEAN, tls' \in {"plain", "handshake", "secure"},
           Answer \/ UNCHANGED jumped, verifier' \in BOOLEAN, filter' \in BOOLEAN,
           due' \in Line \cup {"none"}, cur' \in Message \cup {0}, ForwardInv',
           txn' \in Message \cup {0}, named' \in BOOLEAN, binary' \in BOOLEAN,
           fate' \in [Message -> Fate],
           accepted' \subseteq Message, refused' \subseteq Message
    PROVE  TypeOK'
  <1>1. /\ inbuf' = Tail(inbuf) /\ drain' = drain /\ flow' = flow
        /\ timer' = timer /\ stray' = stray
    BY DEF Taken, buffer, Consume
  <1>2. inbuf' \in Seq(Line) /\ Len(inbuf') <= Hard + MaxBatch
    BY <1>1, TailFacts DEF Ready
  <1>3. errors' \in 0..ErrorLimit
    BY ConstantsAssumption
  <1>4. jumped' \subseteq Line
    BY AnswerInOrder
  <1>5. /\ client' \in {"none", "idle", "busy"} /\ doomed' \in BOOLEAN /\ armed' \in BOOLEAN
        /\ carried' \in Message \cup {0}
    BY DEF ForwardInv
  <1> QED BY <1>1, <1>2, <1>3, <1>4, <1>5 DEF Inv, TypeOK, Fate

\* A line that is dealt with at once: it leaves nothing at work.
LEMMA LineInv ==
    ASSUME Inv, Ready, state' \in Resting \cup {"StartingTls"}, Taken,
           setup' = setup, errors' \in Nat, errors' < ErrorLimit, authed' \in BOOLEAN,
           tls' \in {"plain", "handshake", "secure"},
           Sheltered(setup) /\ tls' = "handshake" => state' = "StartingTls",
           state' \in Chunking => setup.chunking, state' = "StartingTls" => "STARTTLS" \in setup.lines,
           Answer \/ UNCHANGED jumped,
           verifier' = FALSE, filter' = FALSE, due' = due, cur' = cur, ForwardInv',
           Calm(setup) => armed' = FALSE /\ client' # "busy",
           txn' \in Message \cup {0}, named' \in BOOLEAN, binary' \in BOOLEAN,
           fate' \in [Message -> Fate],
           state' \in WithMessage => txn' # 0, state' \in WithRecipient => named',
           \A m \in Message : fate'[m] = "open" <=> m = txn',
           accepted' \subseteq Message, refused' \subseteq Message,
           Calm(setup) => /\ \A m \in accepted' : fate'[m] \in Stored
                          /\ \A m \in refused' : fate'[m] \in NotSent
    PROVE  Inv'
  <1>1. state' \in State /\ state' # "End" /\ state' \notin Verifying \cup Working
    BY DEF Resting, State, Verifying, Working
  <1>2. InputInv' /\ EndInv'
    BY <1>1, GotoInput
  <1>3. /\ inbuf' = Tail(inbuf) /\ drain' = drain /\ flow' = flow
        /\ timer' = timer /\ stray' = stray
    BY DEF Taken, buffer, Consume
  <1>4. due \in Line \cup {"none"} /\ cur \in Message \cup {0}
    BY DEF Inv, TypeOK
  <1>5. TypeOK'
    BY <1>1, <1>4, TypeKept
  <1>6. WorkInv'
    BY <1>1 DEF WorkInv
  <1>7. FateInv'
    BY DEF FateInv
  <1>8. OrderInv'
    BY ReadyFacts, AnswerInOrder DEF OrderInv
  <1>9. CalmInv'
    <2>1. NotSent' = NotSent
      BY DEF NotSent
    <2> QED BY <1>1, <2>1 DEF CalmInv
  <1>10. StrayInv'
    BY <1>3 DEF Inv, StrayInv, open
  <1> QED BY <1>2, <1>5, <1>6, <1>7, <1>8, <1>9, <1>10 DEF Inv

\* What clear() does to the messages: an open one is rolled back, the others stay.
LEMMA DropFate ==
    ASSUME NEW f \in [Message -> Fate], Drop(f)
    PROVE  /\ fate' \in [Message -> Fate] /\ txn' = 0 /\ named' = FALSE /\ binary' = FALSE
           /\ verifier' = FALSE /\ filter' = FALSE
           /\ \A m \in Message : fate'[m] = "open" <=> m = txn'
           /\ \A m \in Message : f[m] # "open" => fate'[m] = f[m]
           /\ \A m \in Message : f[m] = "open" => fate'[m] = "rolledBack"
           /\ \A m \in Message : f[m] \in Stored => fate'[m] \in Stored
           /\ \A m \in Message : f[m] \in NotSent \cup {"open"} => fate'[m] \in NotSent
  <1>1. \A m \in Message : fate'[m] = IF f[m] = "open" THEN "rolledBack" ELSE f[m]
    BY DEF Drop
  <1>2. 0 \notin Message
    BY DEF Message
  <1> QED BY <1>1, <1>2 DEF Drop, Fate, Stored, NotSent

\* A line that leaves the message and what works on it alone.
LEMMA PlainInv ==
    ASSUME Inv, Ready, state \in Resting, state' \in Resting \cup {"StartingTls"}, Taken,
           setup' = setup, errors' \in Nat, errors' < ErrorLimit, authed' \in BOOLEAN,
           tls' \in {"plain", "handshake", "secure"},
           Sheltered(setup) /\ tls' = "handshake" => state' = "StartingTls",
           state' \in Chunking => setup.chunking, state' = "StartingTls" => "STARTTLS" \in setup.lines,
           Answer \/ UNCHANGED jumped, UNCHANGED <<verifier, txn, binary, filter, fate, answers>>,
           named' \in BOOLEAN, UNCHANGED forwarding,
           state' \in WithMessage => txn # 0, state' \in WithRecipient => named'
    PROVE  Inv'
  <1>1. /\ verifier' = FALSE /\ filter' = FALSE
        /\ due' = due /\ cur' = cur /\ accepted' = accepted /\ refused' = refused
    BY ReadyFacts DEF answers, Inv, TypeOK
  <1>2. /\ txn' \in Message \cup {0} /\ binary' \in BOOLEAN
        /\ fate' \in [Message -> Fate]
        /\ accepted' \subseteq Message /\ refused' \subseteq Message
        /\ \A m \in Message : fate'[m] = "open" <=> m = txn'
    BY <1>1 DEF Inv, TypeOK, Fate, FateInv
  <1>3. /\ ForwardInv'
        /\ Calm(setup) => armed' = FALSE /\ client' # "busy"
    <2>1. UNCHANGED <<client, doomed, carried, armed>>
      BY DEF forwarding
    <2>2. ForwardInv'
      BY <2>1, ForwardKept
    <2>3. Calm(setup) => armed = FALSE /\ client # "busy"
      BY ReadyFacts
    <2> QED BY <2>1, <2>2, <2>3
  <1>4. Calm(setup) => /\ \A m \in accepted' : fate'[m] \in Stored
                       /\ \A m \in refused' : fate'[m] \in NotSent
    BY <1>1 DEF Inv, CalmInv
  <1>5. state' \in WithMessage => txn' # 0
    OBVIOUS
  <1> QED BY <1>1, <1>2, <1>3, <1>4, <1>5, LineInv

\* A line that changes nothing but the count of errors, whatever is at work.
LEMMA StayInv ==
    ASSUME Inv, Ready, state' = state, Taken, Answer, errors' \in Nat, errors' < ErrorLimit,
           UNCHANGED <<setup, authed, tls, verifier, message, forwarding, answers>>
    PROVE  Inv'
  <1>1. UNCHANGED <<txn, named, binary, filter, fate, client, doomed, carried, armed,
                    due, cur, accepted, refused, stray>>
    BY DEF message, forwarding, answers, Taken
  <1>2. state \in State /\ state # "End"
    BY ReadyFacts DEF Inv, TypeOK, open
  <1>3. InputInv' /\ EndInv'
    <2>1. state' \in Chunking => setup.chunking
      BY DEF Inv, InputInv
    <2> QED BY <1>2, <2>1, GotoInput
  <1>4. ForwardInv'
    BY <1>1, ForwardKept
  <1>5. TypeOK'
    <2>1. /\ verifier' \in BOOLEAN /\ filter' \in BOOLEAN /\ authed' \in BOOLEAN
          /\ tls' \in {"plain", "handshake", "secure"} /\ named' \in BOOLEAN /\ binary' \in BOOLEAN
      BY <1>1 DEF Inv, TypeOK
    <2>2. /\ due' \in Line \cup {"none"} /\ cur' \in Message \cup {0} /\ txn' \in Message \cup {0}
          /\ fate' \in [Message -> Fate] /\ accepted' \subseteq Message /\ refused' \subseteq Message
      BY <1>1 DEF Inv, TypeOK, Fate
    <2> QED BY <1>2, <1>4, <2>1, <2>2, TypeKept
  <1>6. WorkInv'
    BY <1>1 DEF Inv, WorkInv
  <1>7. FateInv'
    BY <1>1 DEF Inv, FateInv
  <1>8. OrderInv'
    BY <1>1, ReadyFacts, AnswerInOrder DEF OrderInv
  <1>9. CalmInv'
    BY <1>1 DEF Inv, CalmInv, NotSent
  <1>10. StrayInv'
    BY <1>1 DEF Inv, StrayInv, open
  <1> QED BY <1>3, <1>4, <1>5, <1>6, <1>7, <1>8, <1>9, <1>10 DEF Inv

\* A line that clears the message, which may have failed.
LEMMA ClearInv ==
    ASSUME Inv, Ready, state' \in {"Start", "Idle", "BdatChecking"}, Taken,
           state' = "BdatChecking" => setup.chunking,
           Answer, Clear,
           setup' = setup, errors' = errors, authed' \in BOOLEAN, tls' = tls,
           due' = due, cur' = cur, accepted' = accepted,
           refused' = refused \/ (txn # 0 /\ refused' = refused \cup {txn}),
           armed' \in {armed, FALSE},
           \/ client' = client /\ doomed' = doomed /\ carried' = carried
           \/ client' = "none" /\ doomed' = FALSE /\ carried' = 0
    PROVE  Inv'
  <1>1. fate \in [Message -> Fate] /\ Drop(fate)
    BY DEF Inv, TypeOK, Fate, Clear
  <1>2. /\ fate' \in [Message -> Fate] /\ txn' = 0 /\ named' = FALSE /\ binary' = FALSE
        /\ verifier' = FALSE /\ filter' = FALSE
        /\ \A m \in Message : fate'[m] = "open" <=> m = txn'
        /\ \A m \in Message : fate[m] \in Stored => fate'[m] \in Stored
        /\ \A m \in Message : fate[m] \in NotSent \cup {"open"} => fate'[m] \in NotSent
    BY <1>1, DropFate
  <1>3. /\ accepted' \subseteq Message /\ refused' \subseteq Message
        /\ Calm(setup) => /\ \A m \in accepted' : fate'[m] \in Stored
                          /\ \A m \in refused' : fate'[m] \in NotSent
    <2>1. accepted \subseteq Message /\ refused \subseteq Message /\ txn \in Message \cup {0}
      BY DEF Inv, TypeOK
    <2>2. /\ Calm(setup) => /\ \A m \in accepted : fate[m] \in Stored
                            /\ \A m \in refused : fate[m] \in NotSent
          /\ txn # 0 => fate[txn] = "open"
      BY <2>1 DEF Inv, FateInv, CalmInv
    <2> QED BY <1>2, <2>1, <2>2
  <1>4. state' \in Resting /\ state' \notin WithMessage /\ state' \notin WithRecipient
        /\ state' # "StartingTls" /\ (state' \in Chunking => setup.chunking)
    BY DEF Resting, WithMessage, WithRecipient, Chunking
  <1>5. /\ errors' \in Nat /\ errors' < ErrorLimit
        /\ tls' \in {"plain", "handshake", "secure"} /\ (Sheltered(setup) => tls' # "handshake")
    BY ReadyFacts DEF Inv, TypeOK
  <1>6. txn' \in Message \cup {0} /\ named' \in BOOLEAN /\ binary' \in BOOLEAN
    BY <1>2
  <1>7. ForwardInv' /\ (Calm(setup) => armed' = FALSE /\ client' # "busy")
    <2>1. Calm(setup) => ~armed /\ client # "busy"
      BY ReadyFacts
    <2>2. armed' \in BOOLEAN /\ (armed' => armed /\ setup.proxy)
      <3>1. armed \in BOOLEAN /\ (armed => setup.proxy)
        BY DEF Inv, ForwardInv
      <3>2. CASE armed' = armed
        BY <3>1, <3>2
      <3>3. CASE armed' = FALSE
        BY <3>3
      <3> QED BY <3>2, <3>3
    <2>3. CASE client' = client /\ doomed' = doomed /\ carried' = carried
      <3>1. ForwardInv'
        BY <1>2, <2>2, <2>3 DEF Inv, ForwardInv
      <3> QED BY <2>1, <2>2, <2>3, <3>1
    <2>4. CASE client' = "none" /\ doomed' = FALSE /\ carried' = 0
      <3>1. ForwardInv'
        BY <2>2, <2>4 DEF ForwardInv
      <3> QED BY <2>1, <2>2, <2>4, <3>1
    <2> QED BY <2>3, <2>4
  <1> QED BY <1>2, <1>3, <1>4, <1>5, <1>6, <1>7, LineInv

\* A session that ends leaves nothing behind, whatever the last event did to a message.
LEMMA EndingInv ==
    ASSUME Inv, NEW f \in [Message -> Fate], End(f), Calm(setup) => f = fate,
           UNCHANGED setup, errors' \in 0..ErrorLimit, authed' \in BOOLEAN,
           tls' \in {"plain", "handshake", "secure"},
           jumped' \subseteq Line, Ordered(setup) => jumped' = {},
           stray' \in BOOLEAN, Calm(setup) /\ Sheltered(setup) => ~stray',
           UNCHANGED <<accepted, refused>>
    PROVE  Inv'
  <1>1. Drop(f)
    BY DEF End
  <1>2. /\ fate' \in [Message -> Fate] /\ txn' = 0 /\ named' = FALSE /\ binary' = FALSE
        /\ verifier' = FALSE /\ filter' = FALSE
        /\ \A m \in Message : fate'[m] = "open" <=> m = txn'
        /\ \A m \in Message : f[m] \in Stored => fate'[m] \in Stored
        /\ \A m \in Message : f[m] \in NotSent \cup {"open"} => fate'[m] \in NotSent
    BY <1>1, DropFate
  <1>3. /\ state' = "End" /\ inbuf' = <<>> /\ timer' = "off" /\ flow' = TRUE /\ drain' = "no"
        /\ client' = "none" /\ doomed' = FALSE /\ carried' = 0 /\ armed' = FALSE
        /\ due' = "none" /\ cur' = 0
    BY DEF End
  <1>4. "End" \notin Verifying \cup Working \cup Chunking \cup WithMessage \cup WithRecipient
    BY DEF Verifying, Working, Chunking, WithMessage, WithRecipient
  <1>5. Len(<<>>) = 0 /\ \A S : <<>> \in Seq(S)
    OBVIOUS
  <1>6. TypeOK'
    <2>1. Len(inbuf') <= Hard + MaxBatch /\ inbuf' \in Seq(Line)
      BY <1>3, <1>5, ConstantsAssumption
    <2> QED BY <1>2, <1>3, <2>1 DEF Inv, TypeOK, State, Fate
  <1>7. EndInv'
    BY <1>2, <1>3 DEF EndInv
  <1>8. InputInv'
    BY <1>3, <1>4, <1>5 DEF InputInv, NothingIsStranded, open
  <1>9. WorkInv'
    BY <1>2, <1>3, <1>4 DEF WorkInv
  <1>10. ForwardInv'
    BY <1>3 DEF ForwardInv
  <1>11. FateInv'
    BY <1>2, <1>3, <1>4 DEF FateInv
  <1>12. OrderInv'
    BY <1>3 DEF OrderInv
  <1>13. CalmInv'
    <2>1. NotSent' = NotSent
      BY DEF NotSent
    <2>2. accepted \subseteq Message /\ refused \subseteq Message
      BY DEF Inv, TypeOK
    <2>3. Calm(setup) => /\ \A m \in accepted : fate'[m] \in Stored
                         /\ \A m \in refused : fate'[m] \in NotSent
      BY <1>2, <2>2 DEF Inv, CalmInv
    <2> QED BY <1>3, <1>4, <2>1, <2>3 DEF CalmInv
  <1>14. StrayInv'
    BY <1>3 DEF StrayInv, open
  <1> QED BY <1>6, <1>7, <1>8, <1>9, <1>10, <1>11, <1>12, <1>13, <1>14 DEF Inv

LEMMA CloseInv ==
    ASSUME Inv, Close, UNCHANGED setup, errors' \in 0..ErrorLimit, authed' \in BOOLEAN,
           tls' \in {"plain", "handshake", "secure"},
           jumped' \subseteq Line, Ordered(setup) => jumped' = {},
           UNCHANGED <<accepted, refused, stray>>
    PROVE  Inv'
  <1>1. fate \in [Message -> Fate] /\ stray' \in BOOLEAN
    BY DEF Inv, TypeOK, Fate
  <1>2. Calm(setup) /\ Sheltered(setup) => ~stray'
    BY DEF Inv, StrayInv
  <1>3. End(fate)
    BY DEF Close
  <1> QED BY <1>1, <1>2, <1>3, EndingInv

\* A line that is handed to the verifier.
LEMMA VerifyInv ==
    ASSUME Inv, Ready, state \in Resting, state' \in Verifying, Taken,
           UNCHANGED <<session, jumped, txn, named, binary, filter, fate, forwarding, cur,
                       accepted, refused>>,
           verifier' = TRUE, due' \in Line,
           state' \in WithMessage => txn # 0, state' \in WithRecipient => named
    PROVE  Inv'
  <1>1. state' \in State /\ state' # "End" /\ state' \notin Working /\ state' \notin Chunking
        /\ state' # "StartingTls"
    BY DEF Verifying, Working, Chunking, State
  <1>2. UNCHANGED <<setup, errors, authed, tls, client, doomed, carried, armed, stray>>
    BY DEF session, forwarding, Taken
  <1>3. errors' < ErrorLimit /\ errors' \in Nat /\ ~filter
    BY <1>2, ReadyFacts
  <1>4. InputInv' /\ EndInv'
    BY <1>1, <1>2, <1>3, GotoInput
  <1>5. ForwardInv'
    BY <1>2, ForwardKept
  <1>6. TypeOK'
    <2>1. /\ verifier' \in BOOLEAN /\ filter' \in BOOLEAN /\ authed' \in BOOLEAN
          /\ tls' \in {"plain", "handshake", "secure"} /\ named' \in BOOLEAN /\ binary' \in BOOLEAN
      BY <1>2 DEF Inv, TypeOK
    <2>2. /\ due' \in Line \cup {"none"} /\ cur' \in Message \cup {0} /\ txn' \in Message \cup {0}
          /\ fate' \in [Message -> Fate] /\ accepted' \subseteq Message /\ refused' \subseteq Message
      BY DEF Inv, TypeOK, Fate
    <2> QED BY <1>1, <1>2, <1>3, <1>5, <2>1, <2>2, TypeKept
  <1>7. due' # "none"
    BY DEF Line
  <1>8. WorkInv'
    BY <1>1, <1>3, <1>7 DEF WorkInv
  <1>9. FateInv'
    BY <1>3 DEF Inv, FateInv
  <1>10. OrderInv'
    BY <1>2, ReadyFacts DEF OrderInv, Inv
  <1>11. CalmInv'
    BY <1>1, <1>2, ReadyFacts DEF Inv, CalmInv, NotSent
  <1>12. StrayInv'
    BY <1>1, <1>2, ReadyFacts DEF Inv, StrayInv
  <1> QED BY <1>4, <1>5, <1>6, <1>8, <1>9, <1>10, <1>11, <1>12 DEF Inv

\* process(): the message is now being filtered, and its submitter waits.
LEMMA SubmitInv ==
    ASSUME Inv, Ready, state \in Resting, NEW s \in Working, Submit(s), UNCHANGED session,
           s = "BdatProcessing" => setup.chunking,
           txn # 0, named
    PROVE  Inv'
  <1>1. s \in State /\ s # "End" /\ s \notin Verifying /\ s # "StartingTls"
        /\ s \notin WithMessage /\ s \notin WithRecipient /\ (s \in Chunking => setup.chunking)
    BY DEF Verifying, Working, Chunking, State, WithMessage, WithRecipient
  <1>2. /\ state' = s /\ Taken /\ stray' = stray
        /\ filter' = TRUE /\ armed' = setup.proxy /\ due' = Head(inbuf) /\ cur' = txn
        /\ UNCHANGED <<verifier, txn, named, binary, fate, client, doomed, carried,
                       jumped, accepted, refused>>
    BY DEF Submit, Goto, Taken
  <1>3. UNCHANGED <<setup, errors, authed, tls>> /\ errors' < ErrorLimit /\ errors' \in Nat /\ ~verifier
    BY ReadyFacts DEF session
  <1>4. due' \in Line /\ due' # "none"
    BY <1>2, TailFacts DEF Ready, Line
  <1>5. InputInv' /\ EndInv'
    BY <1>1, <1>2, <1>3, GotoInput
  <1>6. setup.proxy \in BOOLEAN /\ txn \in Message /\ fate[txn] = "open"
    BY ReadyFacts DEF Setup, Inv, TypeOK, FateInv
  <1>7. ForwardInv'
    BY <1>2, <1>3, <1>6 DEF Inv, ForwardInv
  <1>8. TypeOK'
    <2>1. /\ verifier' \in BOOLEAN /\ filter' \in BOOLEAN /\ authed' \in BOOLEAN
          /\ tls' \in {"plain", "handshake", "secure"} /\ named' \in BOOLEAN /\ binary' \in BOOLEAN
      BY <1>2, <1>3 DEF Inv, TypeOK
    <2>2. /\ cur' \in Message \cup {0} /\ txn' \in Message \cup {0}
          /\ fate' \in [Message -> Fate] /\ accepted' \subseteq Message /\ refused' \subseteq Message
      BY <1>2, <1>6 DEF Inv, TypeOK, Fate
    <2> QED BY <1>1, <1>2, <1>3, <1>4, <1>7, <2>1, <2>2, TypeKept
  <1>9. WorkInv'
    BY <1>1, <1>2, <1>3, <1>4 DEF WorkInv
  <1>10. FateInv'
    BY <1>1, <1>2 DEF Inv, FateInv
  <1>11. OrderInv'
    BY <1>2, <1>3, ReadyFacts DEF OrderInv, Inv
  <1>12. CalmInv'
    <2>1. Calm(setup) => txn \notin accepted /\ txn \notin refused
      BY <1>6 DEF Inv, CalmInv, Stored, NotSent
    <2>2. Calm(setup) => client # "busy"
      BY ReadyFacts
    <2> QED BY <1>2, <1>3, <2>1, <2>2 DEF Inv, CalmInv, NotSent
  <1>13. StrayInv'
    BY <1>1, <1>2, <1>3, ReadyFacts DEF Inv, StrayInv
  <1> QED BY <1>5, <1>7, <1>8, <1>9, <1>10, <1>11, <1>12, <1>13 DEF Inv
-----------------------------------------------------------------------------
(* The lines, one at a time.                                               *)

\* What the state of the session says of its message.
LEMMA Here ==
    ASSUME Inv
    PROVE  /\ state \in WithMessage => txn # 0
           /\ state \in WithRecipient => named
           /\ state \in Chunking => setup.chunking
           /\ authed \in BOOLEAN /\ named \in BOOLEAN /\ tls \in {"plain", "handshake", "secure"}
  BY DEF Inv, TypeOK, InputInv, FateInv

\* A line that only changes the state.
LEMMA MoveInv ==
    ASSUME Inv, Ready, state \in Resting, state' \in Resting, Taken, Answer \/ UNCHANGED jumped,
           UNCHANGED <<setup, errors, tls, verifier, message, forwarding, answers>>,
           authed' \in BOOLEAN,
           state' \in Chunking => setup.chunking,
           state' \in WithMessage => txn # 0, state' \in WithRecipient => named
    PROVE  Inv'
  <1>1. /\ errors' \in Nat /\ errors' < ErrorLimit
        /\ tls' \in {"plain", "handshake", "secure"} /\ (Sheltered(setup) => tls' # "handshake")
    BY ReadyFacts, Here
  <1>2. /\ UNCHANGED <<verifier, txn, binary, filter, fate, answers>>
        /\ named' = named /\ named' \in BOOLEAN
    BY Here DEF message
  <1>3. state' \in Resting \cup {"StartingTls"} /\ state' # "StartingTls"
    BY DEF Resting
  <1> QED BY <1>1, <1>2, <1>3, PlainInv

\* A line that is refused; the last refusal that is tolerated ends the session.
LEMMA ProtestInv ==
    ASSUME Inv, Ready, NEW s, Protest(s),
           s = state \/ (state \in Resting /\ s \in Resting \ (WithMessage \cup WithRecipient \cup Chunking))
    PROVE  Inv'
  <1>1. Answer /\ errors' = errors + 1 /\ UNCHANGED <<setup, authed, tls, accepted, refused>>
    BY DEF Protest
  <1>2. errors \in Nat /\ errors < ErrorLimit /\ ErrorLimit \in Nat
        /\ (Sheltered(setup) => tls # "handshake")
    BY ReadyFacts, ConstantsAssumption
  <1>3. CASE errors + 1 = ErrorLimit
    <2>1. Close /\ UNCHANGED stray /\ errors' \in 0..ErrorLimit
      BY <1>1, <1>2, <1>3 DEF Protest
    <2>2. jumped' \subseteq Line /\ (Ordered(setup) => jumped' = {})
      BY <1>1, AnswerInOrder
    <2> QED BY <1>1, <2>1, <2>2, Here, CloseInv
  <1>4. CASE errors + 1 # ErrorLimit
    <2>1. /\ Goto(s) /\ UNCHANGED <<verifier, message, forwarding, due, cur>>
      BY <1>4 DEF Protest
    <2>2. /\ errors' \in Nat /\ errors' < ErrorLimit /\ setup' = setup /\ authed' \in BOOLEAN
          /\ tls' \in {"plain", "handshake", "secure"} /\ (Sheltered(setup) => tls' # "handshake")
      BY <1>1, <1>2, <1>4, Here
    <2>3. /\ UNCHANGED <<verifier, txn, binary, filter, fate, answers>> /\ UNCHANGED forwarding
          /\ named' = named /\ named' \in BOOLEAN
      BY <1>1, <2>1, Here DEF message, answers
    <2>4. state' = s /\ Taken
      BY <2>1, GotoIsTaken
    <2>5. CASE s = state
      BY <1>1, <2>1, <2>2, <2>3, <2>4, <2>5, StayInv
    <2>6. CASE state \in Resting /\ s \in Resting \ (WithMessage \cup WithRecipient \cup Chunking)
      <3>1. /\ state' \in Resting \cup {"StartingTls"} /\ state' # "StartingTls"
            /\ state' \notin WithMessage /\ state' \notin WithRecipient /\ state' \notin Chunking
        BY <2>4, <2>6 DEF Resting
      <3> QED BY <1>1, <2>2, <2>3, <2>4, <2>6, <3>1, PlainInv
    <2> QED BY <2>5, <2>6
  <1> QED BY <1>3, <1>4

LEMMA OutOfSequenceInv == ASSUME Inv, OutOfSequence PROVE Inv'
  <1>1. Ready /\ Protest(state)
    BY DEF OutOfSequence, Apply, Ready
  <1> QED BY <1>1, ProtestInv

LEMMA UnknownInv == ASSUME Inv, Unknown PROVE Inv'
  <1>1. Ready /\ Protest(state)
    BY DEF Unknown, Apply, Ready
  <1> QED BY <1>1, ProtestInv

LEMMA NoopInv == ASSUME Inv, Noop PROVE Inv'
  <1>1. Ready /\ Goto(state) /\ Answer /\ UNCHANGED <<session, verifier, message, forwarding, answers>>
    BY DEF Noop, Apply, Ready
  <1>2. state' = state /\ Taken /\ UNCHANGED <<setup, authed, tls>>
        /\ errors' \in Nat /\ errors' < ErrorLimit
    BY <1>1, ReadyFacts DEF Goto, Taken, session
  <1> QED BY <1>1, <1>2, StayInv

LEMMA HelloInv == ASSUME Inv, Hello PROVE Inv'
  <1>1. Ready /\ Answer /\ UNCHANGED <<setup, errors, tls, forwarding, answers>>
    BY DEF Hello, Apply, Ready
  <1>2. CASE Goto("Idle") /\ Clear /\ authed' = (authed /\ Event # "EHLO")
    <2>1. state' = "Idle" /\ Taken /\ authed' \in BOOLEAN
      BY <1>2 DEF Goto, Taken
    <2>2. /\ armed' = armed /\ client' = client /\ doomed' = doomed /\ carried' = carried
          /\ due' = due /\ cur' = cur /\ accepted' = accepted /\ refused' = refused
      BY <1>1 DEF forwarding, answers
    <2> QED BY <1>1, <1>2, <2>1, <2>2, ClearInv
  <1>3. CASE Goto(state) /\ UNCHANGED <<authed, verifier, message>>
    <2>1. state' = state /\ Taken /\ errors' \in Nat /\ errors' < ErrorLimit
      BY <1>1, <1>3, ReadyFacts DEF Goto, Taken
    <2> QED BY <1>1, <1>3, <2>1, StayInv
  <1> QED BY <1>2, <1>3 DEF Hello

LEMMA RsetInv == ASSUME Inv, Rset PROVE Inv'
  <1>1. Ready /\ Answer /\ Clear /\ client' = "none" /\ doomed' = FALSE /\ carried' = 0
        /\ UNCHANGED <<session, armed, answers>>
    BY DEF Rset, Apply, Ready
  <1>2. Goto(IF state = "Start" THEN "Start" ELSE "Idle")
    BY DEF Rset
  <1>3. state' \in {"Start", "Idle"} /\ Taken
    BY <1>2 DEF Goto, Taken
  <1>4. /\ setup' = setup /\ errors' = errors /\ tls' = tls /\ authed' \in BOOLEAN
        /\ armed' = armed /\ due' = due /\ cur' = cur /\ accepted' = accepted /\ refused' = refused
    BY <1>1, Here DEF session, answers
  <1> QED BY <1>1, <1>3, <1>4, ClearInv

LEMMA QuitInv == ASSUME Inv, Quit PROVE Inv'
  <1>1. Ready /\ Answer /\ Close /\ UNCHANGED <<session, accepted, refused, stray>>
    BY DEF Quit, Apply, Ready
  <1>2. jumped' \subseteq Line /\ (Ordered(setup) => jumped' = {})
    BY <1>1, AnswerInOrder
  <1>3. /\ UNCHANGED setup /\ errors' \in 0..ErrorLimit /\ authed' \in BOOLEAN
        /\ tls' \in {"plain", "handshake", "secure"}
    BY <1>1 DEF session, Inv, TypeOK
  <1> QED BY <1>1, <1>2, <1>3, CloseInv

LEMMA AuthInv == ASSUME Inv, Auth PROVE Inv'
  <1>1. Ready /\ "Idle" \in Resting /\ "Auth" \in Resting /\ state \in Resting
    BY DEF Auth, Apply, Ready, Resting
  <1>2. {"Idle", "Auth"} \cap (WithMessage \cup WithRecipient \cup Chunking) = {}
    BY DEF WithMessage, WithRecipient, Chunking
  <1>3. CASE authed
    <2>1. Protest("Idle")
      BY <1>3 DEF Auth
    <2> QED BY <1>1, <1>2, <2>1, ProtestInv
  <1>4. CASE ~authed
    <2>1. \/ Goto("Auth") /\ UNCHANGED authed
          \/ Goto("Idle") /\ authed' \in BOOLEAN
      BY <1>4 DEF Auth
    <2>2. Answer /\ UNCHANGED <<setup, errors, tls, verifier, message, forwarding, answers>>
      BY <1>4 DEF Auth
    <2>3. state' \in {"Idle", "Auth"} /\ Taken /\ authed' \in BOOLEAN
      BY <2>1, Here DEF Goto, Taken
    <2> QED BY <1>1, <1>2, <2>2, <2>3, MoveInv
  <1> QED BY <1>3, <1>4

LEMMA AuthDataInv == ASSUME Inv, AuthData PROVE Inv'
  <1>1. Ready /\ "Idle" \in Resting /\ "Auth" \in Resting /\ state \in Resting
    BY EventFacts DEF AuthData, Apply, Ready, Resting
  <1>2. {"Idle", "Auth"} \cap (WithMessage \cup WithRecipient \cup Chunking) = {}
    BY DEF WithMessage, WithRecipient, Chunking
  <1>3. state' \in {"Idle", "Auth"} /\ Taken /\ authed' \in BOOLEAN
    BY Here DEF AuthData, Goto, Taken
  <1>4. Answer /\ UNCHANGED <<setup, errors, tls, verifier, message, forwarding, answers>>
    BY DEF AuthData
  <1> QED BY <1>1, <1>2, <1>3, <1>4, MoveInv

LEMMA StartTlsInv == ASSUME Inv, StartTls PROVE Inv'
  <1>1. Ready /\ Event = "STARTTLS" /\ state \in Resting
    BY DEF StartTls, Apply, Ready, Resting
  <1>2. CASE tls = "secure"
    <2>1. Protest("Idle")
      BY <1>2 DEF StartTls
    <2>2. "Idle" \in Resting /\ "Idle" \notin WithMessage \cup WithRecipient \cup Chunking
      BY DEF Resting, WithMessage, WithRecipient, Chunking
    <2> QED BY <1>1, <2>1, <2>2, ProtestInv
  <1>3. CASE tls # "secure"
    <2>1. /\ Goto("StartingTls") /\ Answer /\ tls' = "handshake"
          /\ UNCHANGED <<setup, errors, authed, verifier, message, forwarding, answers>>
      BY <1>3 DEF StartTls
    <2>2. "STARTTLS" \in setup.lines
      BY <1>1, EventFacts DEF Ready
    <2>3. state' = "StartingTls" /\ Taken
      BY <2>1 DEF Goto, Taken
    <2>4. "StartingTls" \notin WithMessage \cup WithRecipient \cup Chunking
      BY DEF WithMessage, WithRecipient, Chunking
    <2>5. /\ UNCHANGED <<verifier, txn, binary, filter, fate, answers>> /\ UNCHANGED forwarding
          /\ named' = named /\ named' \in BOOLEAN /\ authed' \in BOOLEAN /\ setup' = setup
          /\ errors' \in Nat /\ errors' < ErrorLimit
      BY <1>1, <2>1, Here, ReadyFacts DEF message
    <2> QED BY <1>1, <2>1, <2>2, <2>3, <2>4, <2>5, PlainInv
  <1> QED BY <1>2, <1>3

LEMMA VrfyInv == ASSUME Inv, Vrfy PROVE Inv'
  <1>1. Ready /\ UNCHANGED <<session, message, forwarding, cur, accepted, refused>>
        /\ state \in {"Start", "Idle", "GotMail", "GotRcpt"} /\ state \in Resting
    BY DEF Vrfy, Apply, Ready, From, Resting
  <1>2. CASE Goto(state) /\ Answer /\ UNCHANGED <<verifier, due>>
    <2>1. state' = state /\ Taken /\ state \in Resting
      BY <1>1, <1>2, ReadyFacts DEF Goto, Taken
    <2>2. UNCHANGED <<setup, errors, tls, verifier, message, forwarding, answers>> /\ authed' = authed
      BY <1>1, <1>2 DEF session, answers
    <2> QED BY <1>1, <1>2, <2>1, <2>2, Here, MoveInv
  <1>3. CASE Goto(VrfyState[state]) /\ verifier' = TRUE /\ due' = "VRFY" /\ UNCHANGED jumped
    <2>1. state' = VrfyState[state] /\ Taken
      BY <1>3 DEF Goto, Taken
    <2>2. /\ state' \in Verifying
          /\ state' \in WithMessage => state \in WithMessage
          /\ state' \in WithRecipient => state \in WithRecipient
      BY <1>1, <2>1 DEF VrfyState, Verifying, WithMessage, WithRecipient
    <2>3. due' \in Line
      BY <1>3 DEF Line
    <2>4. UNCHANGED <<session, jumped, txn, named, binary, filter, fate, forwarding, cur,
                      accepted, refused>>
      BY <1>1, <1>3 DEF message
    <2> QED BY <1>1, <1>3, <2>1, <2>2, <2>3, <2>4, Here, VerifyInv
  <1> QED BY <1>2, <1>3 DEF Vrfy

LEMMA MailInv == ASSUME Inv, Mail PROVE Inv'
  <1>1. Ready /\ Answer /\ UNCHANGED <<session, forwarding, answers>>
    BY DEF Mail, Apply, Ready
  <1>2. /\ setup' = setup /\ errors' = errors /\ tls' = tls /\ authed' = authed
        /\ armed' = armed /\ client' = client /\ doomed' = doomed /\ carried' = carried
        /\ due' = due /\ cur' = cur /\ accepted' = accepted /\ refused' = refused
    BY <1>1 DEF session, forwarding, answers
  <1>3. CASE Goto("Idle") /\ Clear
    <2>1. state' = "Idle" /\ Taken
      BY <1>3 DEF Goto, Taken
    <2> QED BY <1>1, <1>2, <1>3, <2>1, Here, ClearInv
  <1>4. ASSUME NEW m \in Message, fate[m] = "unused", Goto("GotMail"), txn' = m,
               fate' = [k \in Message |-> IF k = m THEN "open"
                                          ELSE IF fate[k] = "open" THEN "rolledBack" ELSE fate[k]],
               named' = FALSE, binary' \in BOOLEAN, filter' = FALSE, UNCHANGED verifier
        PROVE  Inv'
    <2>1. state' = "GotMail" /\ Taken
      BY <1>4 DEF Goto, Taken
    <2>2. /\ state' \in Resting \cup {"StartingTls"} /\ state' \notin Chunking /\ state' # "StartingTls"
          /\ state' \notin WithRecipient
      BY <2>1 DEF Resting, Chunking, WithRecipient
    <2>3. fate \in [Message -> Fate]
      BY DEF Inv, TypeOK, Fate
    <2>4. m # 0 /\ txn' # 0 /\ txn' \in Message \cup {0}
      BY <1>4 DEF Message
    <2>5. /\ fate' \in [Message -> Fate]
          /\ \A k \in Message : fate'[k] = "open" <=> k = txn'
          /\ \A k \in Message : fate[k] \in Stored => fate'[k] \in Stored
          /\ \A k \in Message : fate[k] \in NotSent => fate'[k] \in NotSent
      BY <1>4, <2>3 DEF Fate, Stored, NotSent
    <2>6. /\ accepted' \subseteq Message /\ refused' \subseteq Message
          /\ Calm(setup) => /\ \A k \in accepted' : fate'[k] \in Stored
                            /\ \A k \in refused' : fate'[k] \in NotSent
      BY <1>2, <2>5 DEF Inv, TypeOK, CalmInv
    <2>7. /\ errors' \in Nat /\ errors' < ErrorLimit /\ authed' \in BOOLEAN
          /\ tls' \in {"plain", "handshake", "secure"} /\ (Sheltered(setup) => tls' # "handshake")
          /\ verifier' = FALSE
          /\ Calm(setup) => armed' = FALSE /\ client' # "busy"
      BY <1>1, <1>2, <1>4, Here, ReadyFacts
    <2>8. ForwardInv'
      BY <1>2, <2>5, ForwardKept
    <2>9. named' \in BOOLEAN
      BY <1>4
    <2> QED BY <1>1, <1>2, <1>4, <2>1, <2>2, <2>4, <2>5, <2>6, <2>7, <2>8, <2>9, LineInv
  <1> QED BY <1>3, <1>4 DEF Mail

LEMMA RcptInv == ASSUME Inv, Rcpt PROVE Inv'
  <1>1. Ready /\ UNCHANGED <<session, txn, binary, filter, fate, forwarding, cur, accepted, refused>>
        /\ state \in {"GotMail", "GotRcpt"}
    BY DEF Rcpt, Apply, Ready, From
  <1>2. state \in WithMessage /\ state \in Resting
    BY <1>1 DEF WithMessage, Resting
  <1>3. setup' = setup /\ errors' = errors /\ tls' = tls /\ authed' = authed
    BY <1>1 DEF session
  <1>4. CASE Goto(state) /\ Answer /\ UNCHANGED <<verifier, named, due>>
    <2>1. state' = state /\ Taken
      BY <1>4 DEF Goto, Taken
    <2>2. UNCHANGED <<setup, errors, tls, verifier, message, forwarding, answers>>
      BY <1>1, <1>3, <1>4 DEF message, answers
    <2> QED BY <1>1, <1>2, <1>3, <1>4, <2>1, <2>2, Here, MoveInv
  <1>5. CASE Goto("GotRcpt") /\ Answer /\ named' = TRUE /\ UNCHANGED <<verifier, due>>
    <2>1. state' = "GotRcpt" /\ Taken
      BY <1>5 DEF Goto, Taken
    <2>2. state' \in Resting \cup {"StartingTls"} /\ state' # "StartingTls" /\ state' \notin Chunking
      BY <2>1 DEF Resting, Chunking
    <2>3. UNCHANGED <<verifier, txn, binary, filter, fate, answers>> /\ UNCHANGED forwarding
      BY <1>1, <1>5 DEF answers
    <2>4. /\ errors' \in Nat /\ errors' < ErrorLimit /\ authed' \in BOOLEAN
          /\ tls' \in {"plain", "handshake", "secure"} /\ (Sheltered(setup) => tls' # "handshake")
      BY <1>1, <1>3, ReadyFacts, Here
    <2>5. named' \in BOOLEAN /\ named'
      BY <1>5
    <2> QED BY <1>1, <1>2, <1>3, <1>5, <2>1, <2>2, <2>3, <2>4, <2>5, Here, PlainInv
  <1>6. CASE /\ Goto(IF state = "GotMail" THEN "RcptTo1" ELSE "RcptTo2")
             /\ verifier' = TRUE /\ due' = "RCPT" /\ UNCHANGED <<jumped, named>>
    <2>1. state' = (IF state = "GotMail" THEN "RcptTo1" ELSE "RcptTo2") /\ Taken
      BY <1>6 DEF Goto, Taken
    <2>2. state' \in Verifying /\ (state' \in WithRecipient => state \in WithRecipient)
      BY <1>1, <2>1 DEF Verifying, WithRecipient
    <2>3. due' \in Line
      BY <1>6 DEF Line
    <2>4. UNCHANGED <<session, jumped, txn, named, binary, filter, fate, forwarding, cur,
                      accepted, refused>>
      BY <1>1, <1>6
    <2> QED BY <1>1, <1>2, <1>6, <2>1, <2>2, <2>3, <2>4, Here, VerifyInv
  <1> QED BY <1>4, <1>5, <1>6 DEF Rcpt

LEMMA DataInv == ASSUME Inv, Data PROVE Inv'
  <1>1. Ready /\ state \in {"GotMail", "GotRcpt"} /\ state \in Resting
    BY DEF Data, Apply, Ready, From, Resting
  <1>2. CASE binary
    <2>1. Protest("MustReset")
      BY <1>2 DEF Data
    <2>2. "MustReset" \in Resting /\ "MustReset" \notin WithMessage \cup WithRecipient \cup Chunking
      BY DEF Resting, WithMessage, WithRecipient, Chunking
    <2> QED BY <1>1, <2>1, <2>2, ProtestInv
  <1>3. CASE ~binary
    <2>1. /\ Goto(IF state = "GotRcpt" THEN "Data" ELSE "Idle") /\ Answer
          /\ UNCHANGED <<session, verifier, message, forwarding, answers>>
      BY <1>3 DEF Data
    <2>2. state' = (IF state = "GotRcpt" THEN "Data" ELSE "Idle") /\ Taken
      BY <2>1 DEF Goto, Taken
    <2>3. /\ state' \in Resting /\ state' \notin Chunking
          /\ state' \in WithMessage => state \in WithMessage
          /\ state' \in WithRecipient => state \in WithRecipient
      BY <1>1, <2>2 DEF Resting, WithMessage, WithRecipient, Chunking
    <2> QED BY <1>1, <2>1, <2>2, <2>3, Here, MoveInv DEF session
  <1> QED BY <1>2, <1>3

LEMMA DataContentInv == ASSUME Inv, DataContent PROVE Inv'
  <1>1. Ready /\ Goto("Data") /\ UNCHANGED <<session, verifier, message, forwarding, answers, jumped>>
        /\ Event = "DataContent"
    BY DEF DataContent, Apply, Ready
  <1>2. state = "Data" /\ state' = "Data" /\ Taken
    BY <1>1, EventFacts DEF Goto, Taken, Ready
  <1>3. state \in Resting
    BY <1>2 DEF Resting
  <1> QED BY <1>1, <1>2, <1>3, Here, MoveInv DEF session

\* The content failed, or could not be processed.
LEMMA SpoilInv ==
    ASSUME Inv, Ready, NEW s \in {"Idle", "BdatChecking"}, Spoil(s),
           s = "BdatChecking" => setup.chunking, UNCHANGED session, txn # 0
    PROVE  Inv'
  <1>1. /\ Goto(s) /\ Answer /\ Clear /\ refused' = refused \cup {txn} /\ armed' \in {armed, FALSE}
        /\ UNCHANGED <<client, doomed, carried, due, cur, accepted>>
    BY DEF Spoil
  <1>2. state' = s /\ Taken /\ state' \in {"Start", "Idle", "BdatChecking"}
    BY <1>1 DEF Goto, Taken
  <1>3. setup' = setup /\ errors' = errors /\ tls' = tls /\ authed' = authed
    BY DEF session
  <1> QED BY <1>1, <1>2, <1>3, Here, ClearInv

LEMMA EotInv == ASSUME Inv, Eot PROVE Inv'
  <1>1. Ready /\ Event = "Eot" /\ UNCHANGED session
    BY DEF Eot, Apply, Ready
  <1>2. state = "Data" /\ state \in Resting
    BY <1>1, EventFacts DEF Ready, Resting
  <1>3. txn # 0 /\ named
    BY <1>2, Here DEF WithMessage, WithRecipient
  <1>4. CASE Submit("Processing")
    <2>1. "Processing" \in Working
      BY DEF Working
    <2> QED BY <1>1, <1>2, <1>3, <1>4, <2>1, SubmitInv
  <1>5. CASE Spoil("Idle")
    BY <1>1, <1>3, <1>5, SpoilInv
  <1> QED BY <1>4, <1>5 DEF Eot

LEMMA BdatInv == ASSUME Inv, Bdat PROVE Inv'
  <1>1. Ready /\ setup.chunking /\ state \in Resting
    BY EventFacts DEF Bdat, Apply, Ready, From, Resting
  <1>2. /\ "MustReset" \in Resting /\ "MustReset" \notin WithMessage \cup WithRecipient \cup Chunking
        /\ "Idle" \in Resting /\ "Idle" \notin WithMessage \cup WithRecipient \cup Chunking
        /\ "BdatData" \in Resting
        /\ {"GotRcpt", "BdatIdle"} \subseteq WithMessage \cap WithRecipient
    BY DEF Resting, WithMessage, WithRecipient, Chunking
  <1>3. CASE Protest("MustReset")
    BY <1>1, <1>2, <1>3, ProtestInv
  <1>4. CASE /\ state = "GotMail" /\ Goto("Idle") /\ Answer
             /\ UNCHANGED <<session, verifier, message, forwarding, answers>>
    <2>1. state' = "Idle" /\ Taken
      BY <1>4 DEF Goto, Taken
    <2> QED BY <1>1, <1>2, <1>4, <2>1, Here, MoveInv DEF session
  <1>5. CASE /\ state \in {"GotRcpt", "BdatIdle"}
             /\ \/ Goto("BdatData") /\ UNCHANGED jumped
                \/ Goto("MustReset") /\ Answer
             /\ UNCHANGED <<session, verifier, message, forwarding, answers>>
    <2>1. state' \in {"BdatData", "MustReset"} /\ Taken /\ (Answer \/ UNCHANGED jumped)
      BY <1>5 DEF Goto, Taken
    <2>2. txn # 0 /\ named
      BY <1>2, <1>5, Here
    <2> QED BY <1>1, <1>2, <1>5, <2>1, <2>2, Here, MoveInv DEF session
  <1> QED BY <1>3, <1>4, <1>5 DEF Bdat

LEMMA BdatLastInv == ASSUME Inv, BdatLast PROVE Inv'
  <1>1. /\ Ready /\ setup.chunking /\ state \in Resting
        /\ UNCHANGED <<session, verifier, message, forwarding, answers>>
    BY EventFacts DEF BdatLast, Apply, Ready, From, Resting
  <1>2. /\ "MustReset" \in Resting /\ "MustReset" \notin WithMessage \cup WithRecipient \cup Chunking
        /\ "Idle" \in Resting /\ "Idle" \notin WithMessage \cup WithRecipient \cup Chunking
        /\ "BdatDataLast" \in Resting
        /\ {"GotRcpt", "BdatIdle"} \subseteq WithMessage \cap WithRecipient
    BY DEF Resting, WithMessage, WithRecipient, Chunking
  <1>3. /\ state' \in {"Idle", "BdatDataLast", "MustReset"} /\ Taken
        /\ Answer \/ UNCHANGED jumped
        /\ state' = "BdatDataLast" => state \in {"GotRcpt", "BdatIdle"}
    BY DEF BdatLast, Goto, Taken
  <1>4. state' = "BdatDataLast" => txn # 0 /\ named
    BY <1>2, <1>3, Here
  <1>5. Answer \/ UNCHANGED jumped
    BY DEF BdatLast
  <1> QED BY <1>1, <1>2, <1>3, <1>4, <1>5, Here, MoveInv DEF session

LEMMA BdatLastZeroInv == ASSUME Inv, BdatLastZero PROVE Inv'
  <1>1. Ready /\ setup.chunking /\ state \in Resting /\ UNCHANGED session
    BY EventFacts DEF BdatLastZero, Apply, Ready, From, Resting
  <1>2. /\ "Idle" \in Resting /\ "Idle" \notin WithMessage \cup WithRecipient \cup Chunking
        /\ {"GotRcpt", "BdatIdle"} \subseteq WithMessage \cap WithRecipient
        /\ "BdatProcessing" \in Working
    BY DEF Resting, WithMessage, WithRecipient, Chunking, Working
  <1>3. CASE /\ state = "GotMail" /\ Goto("Idle") /\ Answer
             /\ UNCHANGED <<verifier, message, forwarding, answers>>
    <2>1. state' = "Idle" /\ Taken
      BY <1>3 DEF Goto, Taken
    <2> QED BY <1>1, <1>2, <1>3, <2>1, Here, MoveInv DEF session
  <1>4. CASE /\ state \in {"GotRcpt", "BdatIdle"}
             /\ Submit("BdatProcessing") \/ Spoil("BdatChecking") \/ Spoil("Idle")
    <2>1. txn # 0 /\ named
      BY <1>2, <1>4, Here
    <2>2. CASE Submit("BdatProcessing")
      BY <1>1, <1>2, <2>1, <2>2, SubmitInv
    <2>3. CASE Spoil("BdatChecking")
      BY <1>1, <2>1, <2>3, SpoilInv
    <2>4. CASE Spoil("Idle")
      BY <1>1, <2>1, <2>4, SpoilInv
    <2> QED BY <1>4, <2>2, <2>3, <2>4
  <1> QED BY <1>3, <1>4 DEF BdatLastZero

LEMMA BdatContentInv == ASSUME Inv, BdatContent PROVE Inv'
  <1>1. /\ Ready /\ state = "BdatData"
        /\ UNCHANGED <<session, verifier, message, forwarding, answers>>
        /\ Answer \/ UNCHANGED jumped
    BY DEF BdatContent, Apply, Ready
  <1>2. Answer \/ UNCHANGED jumped
    BY <1>1
  <1>3. state' \in {"BdatData", "BdatIdle"} /\ Taken
    BY DEF BdatContent, Goto, Taken
  <1>4. state \in Resting /\ state' \in Resting /\ state \in WithMessage \cap WithRecipient \cap Chunking
    BY <1>1, <1>3 DEF Resting, WithMessage, WithRecipient, Chunking
  <1> QED BY <1>1, <1>2, <1>3, <1>4, Here, MoveInv DEF session

LEMMA BdatContentLastInv == ASSUME Inv, BdatContentLast PROVE Inv'
  <1>1. Ready /\ state = "BdatDataLast" /\ UNCHANGED session
    BY DEF BdatContentLast, Apply, Ready
  <1>2. /\ state \in Resting /\ state \in WithMessage \cap WithRecipient \cap Chunking
        /\ "BdatProcessing" \in Working
    BY <1>1 DEF Resting, WithMessage, WithRecipient, Chunking, Working
  <1>3. txn # 0 /\ named /\ setup.chunking
    BY <1>2, Here
  <1>4. CASE /\ Goto("BdatDataLast")
             /\ UNCHANGED <<jumped, verifier, message, forwarding, answers>>
    <2>1. state' = state /\ Taken
      BY <1>1, <1>4 DEF Goto, Taken
    <2> QED BY <1>1, <1>2, <1>3, <1>4, <2>1, Here, MoveInv DEF session
  <1>5. CASE Submit("BdatProcessing")
    BY <1>1, <1>2, <1>3, <1>5, SubmitInv
  <1>6. CASE Spoil("Idle")
    BY <1>1, <1>3, <1>6, SpoilInv
  <1> QED BY <1>4, <1>5, <1>6 DEF BdatContentLast

LEMMA ApplyLineInv == ASSUME Inv, ApplyLine PROVE Inv'
  BY OutOfSequenceInv, UnknownInv, NoopInv, HelloInv, RsetInv, QuitInv, AuthInv, AuthDataInv,
     StartTlsInv, VrfyInv, MailInv, RcptInv, DataInv, DataContentInv, EotInv, BdatInv,
     BdatLastInv, BdatLastZeroInv, BdatContentInv, BdatContentLastInv DEF ApplyLine


-----------------------------------------------------------------------------
(* Completions: the reports of what the session waits for.                 *)

\* A state with work under way is not one of the others.
LEMMA WorkingFacts ==
    ASSUME Inv, state \in Working
    PROVE  /\ open /\ state \notin Verifying /\ state # "StartingTls"
           /\ cur \in Message /\ armed = setup.proxy /\ setup.proxy \in BOOLEAN
           /\ filter \/ client = "busy" \/ doomed
           /\ filter => txn = cur /\ fate[cur] = "open"
           /\ ~filter => fate[cur] = "committed"
           /\ Calm(setup) => cur \notin accepted /\ cur \notin refused
  <1>1. open /\ state \notin Verifying /\ state # "StartingTls"
    BY DEF Working, Verifying, open
  <1>2. setup.proxy \in BOOLEAN
    BY ConstantsAssumption DEF Inv, TypeOK, Setup
  <1>3. cur \in Message
    BY DEF Inv, TypeOK, WorkInv
  <1> QED BY <1>1, <1>2, <1>3 DEF Inv, WorkInv, FateInv, CalmInv

\* The buffer is right after a completion, in which the timer is hurried.
LEMMA ChangeInput ==
    ASSUME Inv, open, drain = "no", Change, UNCHANGED <<setup, inbuf, flow, drain, errors>>,
           state' \notin Verifying \cup {"Processing", "StartingTls"},
           state' \in Chunking => setup.chunking, due' = "none"
    PROVE  InputInv'
  <1>1. ~Busy'
    BY DEF Busy
  <1>2. timer' = IF timer = "off" THEN "off" ELSE "zero"
    BY DEF Change
  <1>3. timer = "off" => inbuf = <<>> /\ flow
    BY DEF Inv, InputInv, NothingIsStranded
  <1>4. NothingIsStranded'
    BY <1>1, <1>2, <1>3 DEF NothingIsStranded
  <1> QED BY <1>4 DEF Inv, InputInv, open

\* The reply to the message: the session is idle again.
LEMMA DoneInv ==
    ASSUME Inv, state \in Working, drain = "no",
           NEW ok \in BOOLEAN, NEW f \in [Message -> Fate], Done(ok, f),
           Calm(setup) => /\ \A m \in Message : m # cur => f[m] = fate[m]
                          /\ ok => f[cur] \in Stored
                          /\ ~ok => f[cur] \in NotSent \cup {"open"}
                          /\ client' # "busy",
           client' \in {"none", "idle", "busy"}, doomed' \in BOOLEAN, carried' \in Message \cup {0},
           client' # "none" => setup.proxy, doomed' => client' # "none",
           client' = "busy" <=> carried' # 0, carried' # 0 => f[carried'] \in Stored,
           UNCHANGED <<session, jumped>>
    PROVE  Inv'
  <1>1. /\ state' = "Idle" /\ Drop(f) /\ Change /\ due' = "none" /\ cur' = 0 /\ armed' = FALSE
        /\ UNCHANGED <<inbuf, flow, drain, stray>>
        /\ accepted' = IF ok THEN accepted \cup {cur} ELSE accepted
        /\ refused'  = IF ok THEN refused ELSE refused \cup {cur}
    BY DEF Done
  <1>2. /\ fate' \in [Message -> Fate] /\ txn' = 0 /\ named' = FALSE /\ binary' = FALSE
        /\ verifier' = FALSE /\ filter' = FALSE
        /\ \A m \in Message : fate'[m] = "open" <=> m = txn'
        /\ \A m \in Message : f[m] \in Stored => fate'[m] \in Stored
        /\ \A m \in Message : f[m] \in NotSent \cup {"open"} => fate'[m] \in NotSent
    BY <1>1, DropFate
  <1>3. setup' = setup /\ errors' = errors /\ tls' = tls /\ authed' = authed /\ open /\ cur \in Message
        /\ state # "StartingTls"
    BY WorkingFacts DEF session
  <1>4. "Idle" \notin Verifying \cup Working \cup Chunking \cup WithMessage \cup WithRecipient
    BY DEF Verifying, Working, Chunking, WithMessage, WithRecipient
  <1>5. InputInv'
    BY <1>1, <1>3, <1>4, ChangeInput
  <1>6. EndInv'
    BY <1>1 DEF EndInv
  <1>7. accepted' \subseteq Message /\ refused' \subseteq Message
    BY <1>1, <1>3 DEF Inv, TypeOK
  <1>8. TypeOK'
    <2>1. timer' \in {"off", "limit", "zero"}
      BY <1>1 DEF Change
    <2> QED BY <1>1, <1>2, <1>3, <1>7, <2>1 DEF Inv, TypeOK, State, Fate
  <1>9. WorkInv'
    BY <1>1, <1>2, <1>4 DEF WorkInv
  <1>10. ForwardInv'
    BY <1>1, <1>2, <1>3 DEF ForwardInv
  <1>11. FateInv'
    BY <1>1, <1>2, <1>4 DEF FateInv
  <1>12. OrderInv'
    BY <1>1, <1>3 DEF Inv, OrderInv
  <1>13. CalmInv'
    <2> SUFFICES ASSUME Calm(setup) PROVE CalmInv'
      BY <1>3 DEF CalmInv
    <2>1. NotSent' = NotSent
      BY <1>3 DEF NotSent
    <2>2. /\ accepted \subseteq Message /\ refused \subseteq Message
          /\ cur \notin accepted /\ cur \notin refused
          /\ \A m \in accepted : fate[m] \in Stored
          /\ \A m \in refused : fate[m] \in NotSent
      BY WorkingFacts DEF Inv, TypeOK, CalmInv
    <2>3. \A m \in accepted' : fate'[m] \in Stored
      <3> SUFFICES ASSUME NEW m \in accepted' PROVE fate'[m] \in Stored
        OBVIOUS
      <3>1. CASE m = cur /\ ok
        BY <1>2, <1>3, <3>1
      <3>2. CASE m \in accepted
        BY <1>2, <2>2, <3>2
      <3> QED BY <1>1, <3>1, <3>2
    <2>4. \A m \in refused' : fate'[m] \in NotSent
      <3> SUFFICES ASSUME NEW m \in refused' PROVE fate'[m] \in NotSent
        OBVIOUS
      <3>1. CASE m = cur /\ ~ok
        BY <1>2, <1>3, <3>1
      <3>2. CASE m \in refused
        BY <1>2, <2>2, <3>2
      <3> QED BY <1>1, <3>1, <3>2
    <2> QED BY <1>1, <1>4, <2>1, <2>3, <2>4 DEF CalmInv
  <1>14. StrayInv'
    BY <1>1, <1>3 DEF Inv, StrayInv, open
  <1> QED BY <1>5, <1>6, <1>8, <1>9, <1>10, <1>11, <1>12, <1>13, <1>14 DEF Inv

\* While a message is at work the processed signal gets through.
LEMMA ProcessedIsDone ==
    ASSUME Inv, state \in Working, NEW ok, NEW f, NEW c, NEW d, NEW m,
           Processed(ok, f, c, d, m)
    PROVE  Done(ok, f) /\ client' = c /\ doomed' = d /\ carried' = m
  <1>1. ~(setup.proxy /\ ~armed)
    BY WorkingFacts
  <1>2. state \in {"Processing", "BdatProcessing"}
    BY DEF Working
  <1> QED BY <1>1, <1>2 DEF Processed, Client

\* A late report of the forwarding client, when no message is at work, changes nothing in
\* the session, unless it comes after clear() has gone on without it.
LEMMA LateInv ==
    ASSUME Inv, state \notin Working, client # "none", drain = "no",
           NEW ok, NEW f \in [Message -> Fate],
           NEW c \in {"none", "idle"}, Processed(ok, f, c, FALSE, 0),
           \A m \in Message : f[m] = "open" <=> fate[m] = "open",
           Calm(setup) => f = fate,
           UNCHANGED <<session, jumped>>
    PROVE  Inv'
  <1>1. setup.proxy /\ state # "End" /\ (Calm(setup) => ~armed) /\ ~filter
    BY DEF Inv, ForwardInv, EndInv, CalmInv, WorkInv
  <1>2. UNCHANGED <<setup, errors, authed, tls>> /\ jumped' = jumped
    BY DEF session
  <1>3. CASE armed
    <2>1. stray' = TRUE /\ End(f) /\ UNCHANGED <<accepted, refused>>
      BY <1>3 DEF Processed, Stray, Working
    <2>2. ~Calm(setup)
      BY <1>1, <1>3
    <2>3. /\ errors' \in 0..ErrorLimit /\ authed' \in BOOLEAN /\ stray' \in BOOLEAN
          /\ tls' \in {"plain", "handshake", "secure"} /\ jumped' \subseteq Line
      BY <1>2, <2>1 DEF Inv, TypeOK
    <2>4. ~Ordered(setup)
      BY <2>2 DEF Calm
    <2> QED BY <1>2, <2>1, <2>2, <2>3, <2>4, EndingInv
  <1>4. CASE ~armed
    <2>1. /\ client' = c /\ doomed' = FALSE /\ carried' = 0 /\ fate' = f
          /\ UNCHANGED <<state, verifier, inbuf, timer, flow, drain, txn, named, binary, filter,
                         armed, due, cur, accepted, refused, stray>>
      BY <1>1, <1>4 DEF Processed, Client, buffer, answers
    <2>2. TypeOK'
      <3>1. /\ authed' \in BOOLEAN /\ verifier' \in BOOLEAN /\ flow' \in BOOLEAN /\ named' \in BOOLEAN
            /\ binary' \in BOOLEAN /\ filter' \in BOOLEAN /\ doomed' \in BOOLEAN
            /\ armed' \in BOOLEAN /\ stray' \in BOOLEAN
        BY <1>2, <2>1 DEF Inv, TypeOK
      <3>2. /\ inbuf' \in Seq(Line) /\ Len(inbuf') <= Hard + MaxBatch
            /\ timer' \in {"off", "limit", "zero"} /\ drain' \in {"no", "data", "timer"}
        BY <2>1 DEF Inv, TypeOK
      <3> QED BY <1>2, <2>1, <3>1, <3>2 DEF Inv, TypeOK, Fate
    <2>3. InputInv' /\ EndInv'
      BY <1>1, <1>2, <2>1 DEF Inv, InputInv, EndInv, NothingIsStranded, Busy, open
    <2>4. WorkInv'
      BY <1>1, <2>1 DEF Inv, WorkInv
    <2>5. ForwardInv'
      <3>1. armed' \in BOOLEAN /\ doomed' \in BOOLEAN /\ setup' = setup
        BY <1>2, <2>1 DEF Inv, ForwardInv
      <3>2. client' \in {"none", "idle"} /\ client' # "busy" /\ carried' = 0 /\ ~doomed' /\ setup'.proxy
        BY <1>1, <1>2, <2>1
      <3> QED BY <3>1, <3>2 DEF ForwardInv
    <2>6. FateInv'
      BY <2>1 DEF Inv, FateInv
    <2>7. OrderInv'
      BY <1>2, <2>1 DEF Inv, OrderInv
    <2>8. CalmInv'
      BY <1>2, <1>4, <2>1 DEF Inv, CalmInv, NotSent
    <2>9. StrayInv'
      BY <1>2, <2>1 DEF Inv, StrayInv, open
    <2> QED BY <2>2, <2>3, <2>4, <2>5, <2>6, <2>7, <2>8, <2>9 DEF Inv
  <1> QED BY <1>3, <1>4 DEF Inv, ForwardInv

LEMMA VerifyDoneInv == ASSUME Inv, VerifyDone PROVE Inv'
  <1>1. verifier /\ drain = "no" /\ state \in Verifying /\ UNCHANGED <<session, jumped>>
    BY DEF VerifyDone, Inv, WorkInv
  <1>2. CASE Close /\ UNCHANGED <<accepted, refused, stray>>
    <2>1. /\ UNCHANGED setup /\ errors' \in 0..ErrorLimit /\ authed' \in BOOLEAN
          /\ tls' \in {"plain", "handshake", "secure"}
          /\ jumped' \subseteq Line /\ (Ordered(setup) => jumped' = {})
      BY <1>1 DEF session, Inv, TypeOK, OrderInv
    <2> QED BY <1>2, <2>1, CloseInv
  <1>3. ASSUME NEW valid \in BOOLEAN,
               state' = CASE state = "VrfyStart"   -> "Start"
                          [] state = "VrfyIdle"    -> "Idle"
                          [] state = "VrfyGotMail" -> "GotMail"
                          [] state = "RcptTo1"     -> IF valid THEN "GotRcpt" ELSE "GotMail"
                          [] OTHER                 -> "GotRcpt",
               named' = (named \/ (valid /\ state \in {"RcptTo1", "RcptTo2"})),
               verifier' = FALSE, due' = "none", Change,
               UNCHANGED <<inbuf, flow, drain, txn, binary, filter, fate, forwarding,
                           cur, accepted, refused, stray>>
        PROVE  Inv'
    <2>1. setup' = setup /\ errors' = errors /\ tls' = tls /\ authed' = authed
      BY <1>1 DEF session
    <2>2. state \in {"VrfyStart", "VrfyIdle", "VrfyGotMail", "VrfyGotRcpt", "RcptTo1", "RcptTo2"}
      BY <1>1 DEF Verifying
    <2>3. /\ state' \in {"Start", "Idle", "GotMail", "GotRcpt"}
          /\ state' \in {"GotMail", "GotRcpt"} => state \in WithMessage
          /\ state' = "GotRcpt" => named'
      <3>1. state \in {"VrfyGotRcpt", "RcptTo2"} => named
        BY Here DEF WithRecipient
      <3> QED BY <1>3, <2>2, <3>1 DEF WithMessage
    <2>4. /\ state' \notin Verifying \cup Working \cup Chunking \cup {"StartingTls", "End", "Processing"}
          /\ state' \in State
          /\ state' \in WithMessage => state' \in {"GotMail", "GotRcpt"}
          /\ state' \in WithRecipient => state' = "GotRcpt"
      BY <2>3 DEF Verifying, Working, Chunking, WithMessage, WithRecipient, State
    <2>5. state \notin Working /\ open /\ state # "StartingTls"
      BY <2>2 DEF Working, open
    <2>6. InputInv'
      BY <1>1, <1>3, <2>1, <2>4, <2>5, ChangeInput
    <2>7. EndInv'
      BY <2>4 DEF EndInv
    <2>8. named' \in BOOLEAN
      BY <1>3
    <2>9. TypeOK'
      <3>1. timer' \in {"off", "limit", "zero"}
        BY <1>3 DEF Change
      <3>2. UNCHANGED <<client, doomed, carried, armed, jumped>>
        BY <1>1, <1>3 DEF forwarding
      <3>3. /\ authed' \in BOOLEAN /\ verifier' \in BOOLEAN /\ flow' \in BOOLEAN /\ named' \in BOOLEAN
            /\ binary' \in BOOLEAN /\ filter' \in BOOLEAN /\ doomed' \in BOOLEAN
            /\ armed' \in BOOLEAN /\ stray' \in BOOLEAN
        BY <1>3, <2>1, <2>4, <2>8, <3>1, <3>2 DEF Inv, TypeOK
      <3>4. /\ inbuf' \in Seq(Line) /\ Len(inbuf') <= Hard + MaxBatch
            /\ timer' \in {"off", "limit", "zero"} /\ drain' \in {"no", "data", "timer"}
        BY <1>3, <2>1, <2>4, <2>8, <3>1, <3>2 DEF Inv, TypeOK
      <3> QED BY <1>3, <2>1, <2>4, <2>8, <3>1, <3>2, <3>3, <3>4 DEF Inv, TypeOK
    <2>10. UNCHANGED <<client, doomed, carried, armed, fate, cur, jumped, accepted, refused>>
      BY <1>1, <1>3 DEF forwarding
    <2>11. ~filter /\ ~filter'
      BY <1>3, <2>5 DEF Inv, WorkInv
    <2>12. WorkInv'
      BY <1>3, <2>4, <2>11 DEF WorkInv
    <2>13. ForwardInv'
      BY <2>1, <2>10, ForwardKept
    <2>14. FateInv'
      BY <1>3, <2>3, <2>4, <2>11, Here DEF Inv, FateInv
    <2>15. OrderInv'
      BY <1>3, <2>1, <2>5, <2>10 DEF Inv, OrderInv
    <2>16. CalmInv'
      BY <2>1, <2>4, <2>5, <2>10 DEF Inv, CalmInv, NotSent
    <2>17. StrayInv'
      BY <1>3, <2>1, <2>4, <2>5 DEF Inv, StrayInv, open
    <2> QED BY <2>6, <2>7, <2>9, <2>12, <2>13, <2>14, <2>15, <2>16, <2>17 DEF Inv
  <1> QED BY <1>1, <1>2, <1>3 DEF VerifyDone

LEMMA FilterDoneInv == ASSUME Inv, FilterDone PROVE Inv'
  <1>1. filter /\ drain = "no" /\ state \in Working /\ UNCHANGED <<session, jumped>>
    BY DEF FilterDone, Inv, WorkInv
  <1>2. /\ cur \in Message /\ txn = cur /\ fate \in [Message -> Fate]
        /\ fate[cur] = "open" /\ (Calm(setup) => client # "busy")
    BY <1>1, WorkingFacts DEF Inv, TypeOK, Fate, CalmInv
  <1>3. /\ client \in {"none", "idle", "busy"} /\ doomed \in BOOLEAN /\ carried \in Message \cup {0}
        /\ client # "none" => setup.proxy
        /\ doomed => client # "none"
        /\ client = "busy" <=> carried # 0
        /\ carried # 0 => carried # cur /\ fate[carried] \in Stored
    BY <1>2 DEF Inv, ForwardInv, Stored
  <1>4. PICK result \in {"committed", "abandoned", "rolledBack"} :
          LET f == [fate EXCEPT ![txn] = result] IN
          \/ Processed(result # "rolledBack", f, client, doomed, carried)
          \/ setup.proxy /\ result = "committed" /\ Processed(FALSE, f, client, doomed, carried)
          \/ /\ setup.proxy /\ result = "committed" /\ client # "busy"
             /\ Drop(f) /\ Client("busy", doomed, txn)
             /\ UNCHANGED <<state, inbuf, buffer, armed, answers, stray>>
    BY DEF FilterDone
  <1> DEFINE f == [fate EXCEPT ![txn] = result]
  <1>5. /\ f \in [Message -> Fate] /\ f[cur] = result
        /\ \A m \in Message : m # cur => f[m] = fate[m]
    BY <1>2 DEF Fate
  <1> HIDE DEF f
  <1>6. carried # 0 => f[carried] \in Stored
    BY <1>3, <1>5
  <1>7. CASE Processed(result # "rolledBack", f, client, doomed, carried)
    <2> DEFINE ok == result # "rolledBack"
    <2>1. Done(ok, f) /\ client' = client /\ doomed' = doomed /\ carried' = carried
      BY <1>1, <1>7, ProcessedIsDone
    <2>2. ok \in BOOLEAN /\ (ok => f[cur] \in Stored) /\ (~ok => f[cur] \in NotSent \cup {"open"})
      BY <1>5 DEF Stored, NotSent
    <2> HIDE DEF ok
    <2> QED BY <1>1, <1>2, <1>3, <1>5, <1>6, <2>1, <2>2, DoneInv
  <1>8. CASE setup.proxy /\ result = "committed" /\ Processed(FALSE, f, client, doomed, carried)
    <2>1. Done(FALSE, f) /\ client' = client /\ doomed' = doomed /\ carried' = carried
      BY <1>1, <1>8, ProcessedIsDone
    <2>2. f[cur] \in NotSent \cup {"open"}
      BY <1>5, <1>8 DEF NotSent
    <2> QED BY <1>1, <1>2, <1>3, <1>5, <1>6, <2>1, <2>2, DoneInv
  <1>9. CASE /\ setup.proxy /\ result = "committed" /\ client # "busy"
             /\ Drop(f) /\ Client("busy", doomed, txn)
             /\ UNCHANGED <<state, inbuf, buffer, armed, answers, stray>>
    <2>1. /\ fate' \in [Message -> Fate] /\ txn' = 0 /\ named' = FALSE /\ binary' = FALSE
          /\ verifier' = FALSE /\ filter' = FALSE
          /\ \A m \in Message : fate'[m] = "open" <=> m = txn'
          /\ \A m \in Message : f[m] # "open" => fate'[m] = f[m]
          /\ \A m \in Message : f[m] \in Stored => fate'[m] \in Stored
          /\ \A m \in Message : f[m] \in NotSent \cup {"open"} => fate'[m] \in NotSent
      BY <1>5, <1>9, DropFate
    <2>2. client' = "busy" /\ doomed' = doomed /\ carried' = cur
          /\ UNCHANGED <<setup, errors, authed, tls, jumped, state, inbuf, timer, flow, drain, armed,
                         due, cur, accepted, refused, stray>>
      BY <1>1, <1>2, <1>9 DEF Client, session, buffer, answers
    <2>3. state \notin WithMessage /\ state \notin WithRecipient /\ state # "End" /\ state \notin Verifying
      BY <1>1 DEF Working, WithMessage, WithRecipient, Verifying
    <2>4. TypeOK'
      BY <1>2, <2>1, <2>2 DEF Inv, TypeOK, Fate
    <2>5. InputInv'
      BY <1>1, <2>2 DEF Inv, InputInv, NothingIsStranded, Busy, open
    <2>6. EndInv'
      BY <2>2, <2>3 DEF EndInv
    <2>7. fate'[cur] = "committed" /\ cur # 0
      BY <1>2, <1>5, <1>9, <2>1 DEF Message
    <2>8. WorkInv'
      BY <1>1, <2>1, <2>2, <2>3, <2>7 DEF Inv, WorkInv
    <2>9. ForwardInv'
      BY <1>2, <1>9, <2>2, <2>7 DEF Inv, ForwardInv, Stored
    <2>10. FateInv'
      BY <2>1, <2>2, <2>3 DEF FateInv
    <2>11. OrderInv'
      BY <2>2 DEF Inv, OrderInv
    <2>12. CalmInv'
      <3> SUFFICES ASSUME Calm(setup) PROVE CalmInv'
        BY <2>2 DEF CalmInv
      <3>1. NotSent' = NotSent
        BY <2>2 DEF NotSent
      <3>2. /\ \A m \in accepted : m # cur /\ m \in Message /\ fate[m] \in Stored
            /\ \A m \in refused : m # cur /\ m \in Message /\ fate[m] \in NotSent
        BY <1>1, WorkingFacts DEF Inv, TypeOK, CalmInv
      <3>3. /\ \A m \in accepted : fate'[m] \in Stored
            /\ \A m \in refused : fate'[m] \in NotSent
        BY <1>5, <2>1, <3>2
      <3> QED BY <1>1, <2>1, <2>2, <3>1, <3>2, <3>3 DEF CalmInv
    <2>13. StrayInv'
      BY <2>2 DEF Inv, StrayInv, open
    <2> QED BY <2>4, <2>5, <2>6, <2>8, <2>9, <2>10, <2>11, <2>12, <2>13 DEF Inv
  <1> QED BY <1>4, <1>7, <1>8, <1>9 DEF f

LEMMA ForwardDoneInv == ASSUME Inv, ForwardDone PROVE Inv'
  <1>1. client = "busy" /\ drain = "no" /\ UNCHANGED <<session, jumped>>
    BY DEF ForwardDone
  <1>2. /\ carried \in Message /\ setup.proxy /\ fate[carried] \in Stored
        /\ fate \in [Message -> Fate]
    BY <1>1 DEF Inv, ForwardInv, TypeOK, Fate
  <1>3. /\ Calm(setup) => state \in Working /\ carried = cur /\ ~filter
        /\ Calm(setup) => fate[cur] = "committed"
    BY <1>1 DEF Inv, CalmInv, WorkInv
  <1>4. CASE Processed(TRUE, [fate EXCEPT ![carried] = "delivered"], "idle", FALSE, 0)
    <2> DEFINE f == [fate EXCEPT ![carried] = "delivered"]
    <2>1. /\ f \in [Message -> Fate] /\ f[carried] \in Stored
          /\ \A m \in Message : m # carried => f[m] = fate[m]
          /\ \A m \in Message : f[m] = "open" <=> fate[m] = "open"
      BY <1>2 DEF Fate, Stored
    <2> HIDE DEF f
    <2>2. CASE state \in Working
      <3>1. Done(TRUE, f) /\ client' = "idle" /\ doomed' = FALSE /\ carried' = 0
        BY <1>4, <2>2, ProcessedIsDone DEF f
      <3> QED BY <1>1, <1>2, <1>3, <2>1, <2>2, <3>1, DoneInv
    <2>3. CASE state \notin Working
      <3>1. Processed(TRUE, f, "idle", FALSE, 0)
        BY <1>4 DEF f
      <3> QED BY <1>1, <1>3, <2>1, <2>3, <3>1, LateInv
    <2> QED BY <2>2, <2>3
  <1>5. CASE Processed(FALSE, fate, "idle", FALSE, 0)
    <2>1. CASE state \in Working
      <3>1. Done(FALSE, fate) /\ client' = "idle" /\ doomed' = FALSE /\ carried' = 0
        BY <1>5, <2>1, ProcessedIsDone
      <3>2. Calm(setup) => fate[cur] \in NotSent \cup {"open"}
        BY <1>2, <1>3 DEF NotSent
      <3> QED BY <1>1, <1>2, <2>1, <3>1, <3>2, DoneInv
    <2>2. CASE state \notin Working
      BY <1>1, <1>2, <1>5, <2>2, LateInv
    <2> QED BY <2>1, <2>2
  <1> QED BY <1>4, <1>5 DEF ForwardDone

LEMMA ForwardGoneInv == ASSUME Inv, ForwardGone PROVE Inv'
  <1>1. doomed /\ drain = "no" /\ Processed(FALSE, fate, "none", FALSE, 0)
        /\ UNCHANGED <<session, jumped>>
    BY DEF ForwardGone
  <1>2. setup.proxy /\ client # "none" /\ fate \in [Message -> Fate]
    BY <1>1 DEF Inv, ForwardInv, TypeOK, Fate
  <1>3. CASE state \in Working
    <2>1. Done(FALSE, fate) /\ client' = "none" /\ doomed' = FALSE /\ carried' = 0
      BY <1>1, <1>3, ProcessedIsDone
    <2>2. fate[cur] \in NotSent \cup {"open"}
      BY <1>2, <1>3, WorkingFacts DEF NotSent
    <2> QED BY <1>1, <1>2, <1>3, <2>1, <2>2, DoneInv
  <1>4. CASE state \notin Working
    BY <1>1, <1>2, <1>4, LateInv
  <1> QED BY <1>3, <1>4

LEMMA ClientLostInv == ASSUME Inv, ClientLost PROVE Inv'
  <1>1. /\ client # "none" /\ ~doomed /\ drain = "no"
        /\ client' = "idle" /\ doomed' = TRUE /\ carried' = 0
        /\ UNCHANGED <<state, setup, errors, authed, tls, verifier, inbuf, timer, flow, drain, txn,
                       named, binary, filter, fate, armed, due, cur, accepted, refused, jumped, stray>>
    BY DEF ClientLost, Client, session, buffer, message, answers
  <1>2. state # "End"
    BY <1>1 DEF Inv, EndInv
  <1>3. TypeOK'
    BY <1>1 DEF Inv, TypeOK
  <1>4. InputInv' /\ EndInv'
    BY <1>1, <1>2 DEF Inv, InputInv, EndInv, NothingIsStranded, Busy, open
  <1>5. WorkInv' /\ FateInv'
    BY <1>1 DEF Inv, WorkInv, FateInv
  <1>6. ForwardInv'
    BY <1>1 DEF Inv, ForwardInv
  <1>7. OrderInv' /\ StrayInv'
    BY <1>1 DEF Inv, OrderInv, StrayInv, open
  <1>8. CalmInv'
    BY <1>1 DEF Inv, CalmInv, NotSent
  <1> QED BY <1>3, <1>4, <1>5, <1>6, <1>7, <1>8 DEF Inv

LEMMA SecureInv == ASSUME Inv, Secure PROVE Inv'
  <1>1. /\ tls = "handshake" /\ drain = "no" /\ open /\ tls' = "secure"
        /\ UNCHANGED <<setup, errors, authed, jumped>>
    BY DEF Secure
  <1>2. CASE state = "StartingTls"
    <2>1. /\ state' = "Idle"
          /\ UNCHANGED <<inbuf, timer, flow, drain, verifier, txn, named, binary, filter, fate, client,
                         doomed, carried, armed, due, cur, accepted, refused, stray>>
      BY <1>2 DEF Secure, buffer, message, forwarding, answers
    <2>2. {"Idle", "StartingTls"} \cap (Verifying \cup Working \cup Chunking \cup WithMessage
                                           \cup WithRecipient) = {}
      BY DEF Verifying, Working, Chunking, WithMessage, WithRecipient
    <2>3. TypeOK'
      BY <1>1, <2>1 DEF Inv, TypeOK, State
    <2>4. InputInv' /\ EndInv'
      BY <1>1, <1>2, <2>1, <2>2 DEF Inv, InputInv, EndInv, NothingIsStranded, Busy, open
    <2>5. WorkInv' /\ FateInv'
      BY <1>2, <2>1, <2>2 DEF Inv, WorkInv, FateInv
    <2>6. ForwardInv'
      BY <1>1, <2>1, ForwardKept
    <2>7. OrderInv' /\ StrayInv'
      BY <1>1, <1>2, <2>1, <2>2 DEF Inv, OrderInv, StrayInv
    <2>8. CalmInv'
      BY <1>1, <1>2, <2>1, <2>2 DEF Inv, CalmInv, NotSent
    <2> QED BY <2>3, <2>4, <2>5, <2>6, <2>7, <2>8 DEF Inv
  <1>3. CASE state # "StartingTls"
    <2>1. stray' = TRUE /\ End(fate) /\ UNCHANGED <<accepted, refused>>
      BY <1>3 DEF Secure, Stray
    <2>2. ~Sheltered(setup)
      BY <1>1, <1>3 DEF Inv, StrayInv
    <2>3. /\ errors' \in 0..ErrorLimit /\ authed' \in BOOLEAN /\ stray' \in BOOLEAN
          /\ tls' \in {"plain", "handshake", "secure"} /\ fate \in [Message -> Fate]
          /\ jumped' \subseteq Line /\ (Ordered(setup) => jumped' = {})
      BY <1>1, <2>1 DEF Inv, TypeOK, OrderInv, Fate
    <2> QED BY <1>1, <2>1, <2>2, <2>3, EndingInv
  <1> QED BY <1>2, <1>3

\* A close that comes from outside the state machine.
LEMMA ClosedInv ==
    ASSUME Inv, Close, UNCHANGED <<session, accepted, refused, jumped, stray>> PROVE Inv'
  <1>1. /\ UNCHANGED setup /\ errors' \in 0..ErrorLimit /\ authed' \in BOOLEAN
        /\ tls' \in {"plain", "handshake", "secure"}
        /\ jumped' \subseteq Line /\ (Ordered(setup) => jumped' = {})
    BY DEF session, Inv, TypeOK, OrderInv
  <1> QED BY <1>1, CloseInv

LEMMA DisconnectInv == ASSUME Inv, Disconnect PROVE Inv'
  BY ClosedInv DEF Disconnect

-----------------------------------------------------------------------------
(* The input buffer.                                                       *)

\* A step of the buffer leaves the rest of the session alone.
LEMMA RestInv ==
    ASSUME Inv, Rest, InputInv', open,
           inbuf' \in Seq(Line), Len(inbuf') <= Hard + MaxBatch,
           timer' \in {"off", "limit", "zero"}, flow' \in BOOLEAN, drain' \in {"no", "data", "timer"}
    PROVE  Inv'
  <1>1. UNCHANGED <<state, setup, errors, authed, tls, verifier, txn, named, binary, filter, fate,
                    client, doomed, carried, armed, due, cur, accepted, refused, jumped, stray>>
    BY DEF Rest, session, message, forwarding, answers
  <1>2. TypeOK'
    BY <1>1 DEF Inv, TypeOK
  <1>3. EndInv'
    BY <1>1 DEF EndInv, open
  <1>4. WorkInv' /\ FateInv'
    BY <1>1 DEF Inv, WorkInv, FateInv
  <1>5. ForwardInv'
    BY <1>1, ForwardKept
  <1>6. OrderInv' /\ StrayInv'
    BY <1>1 DEF Inv, OrderInv, StrayInv, open
  <1>7. CalmInv'
    BY <1>1 DEF Inv, CalmInv, NotSent
  <1> QED BY <1>2, <1>3, <1>4, <1>5, <1>6, <1>7 DEF Inv

LEMMA ReceiveInv == ASSUME Inv, Receive PROVE Inv'
  <1>1. open /\ drain = "no" /\ flow
        /\ (setup.patient => inbuf = <<>> /\ due = "none" /\ state # "StartingTls")
    BY DEF Receive
  <1>0. PICK n \in 1..MaxBatch : \E batch \in [1..n -> setup.lines] :
          LET b == inbuf \o batch IN
          /\ setup.patient => n = 1
          /\ IF ~ Busy THEN drain' = "data" /\ inbuf' = b /\ Rest /\ UNCHANGED <<timer, flow>>
             ELSE IF Overflows(b) THEN Close /\ UNCHANGED <<session, accepted, refused, jumped, stray>>
             ELSE /\ inbuf' = b
                  /\ flow' = (flow /\ ~ (timer # "off" /\ Len(b) >= Soft))
                  /\ Rest /\ UNCHANGED <<timer, drain>>
    BY DEF Receive
  <1>2. PICK batch \in [1..n -> setup.lines] :
          LET b == inbuf \o batch IN
          /\ setup.patient => n = 1
          /\ IF ~ Busy THEN drain' = "data" /\ inbuf' = b /\ Rest /\ UNCHANGED <<timer, flow>>
             ELSE IF Overflows(b) THEN Close /\ UNCHANGED <<session, accepted, refused, jumped, stray>>
             ELSE /\ inbuf' = b
                  /\ flow' = (flow /\ ~ (timer # "off" /\ Len(b) >= Soft))
                  /\ Rest /\ UNCHANGED <<timer, drain>>
    BY <1>0
  <1> DEFINE b == inbuf \o batch
  <1>3. /\ inbuf \in Seq(Line) /\ inbuf \in Seq(setup.lines) /\ Len(inbuf) < Hard
        /\ setup.lines \subseteq Line
        /\ Hard \in Nat /\ MaxBatch \in Nat /\ n \in Nat /\ n <= MaxBatch
    BY <1>1, ConstantsAssumption DEF Inv, InputInv, TypeOK, Setup
  <1>4. /\ batch \in Seq(setup.lines) /\ Len(batch) = n
    BY <1>3, LenProperties
  <1>5. /\ b \in Seq(setup.lines) /\ b \in Seq(Line) /\ Len(b) = Len(inbuf) + n
        /\ Len(inbuf) \in Nat
    BY <1>3, <1>4
  <1>6. Len(b) <= Hard + MaxBatch /\ (setup.patient => Len(b) <= 1)
    BY <1>1, <1>2, <1>3, <1>5
  <1> HIDE DEF b
  <1>7. CASE ~Busy
    <2>1. drain' = "data" /\ inbuf' = b /\ Rest /\ UNCHANGED <<timer, flow>>
      BY <1>2, <1>7 DEF b
    <2>2. UNCHANGED <<state, setup, errors, due>>
      BY <2>1 DEF Rest, session, answers
    <2>3. NothingIsStranded'
      BY <2>1 DEF NothingIsStranded
    <2>4. InputInv'
      BY <1>1, <1>5, <1>6, <2>1, <2>2, <2>3 DEF Inv, InputInv, open
    <2> QED BY <1>1, <1>5, <1>6, <2>1, <2>4, RestInv DEF Inv, TypeOK
  <1>8. CASE Busy /\ Overflows(b)
    BY <1>2, <1>8, ClosedInv DEF b
  <1>9. CASE Busy /\ ~Overflows(b)
    <2>1. /\ inbuf' = b /\ flow' \in BOOLEAN /\ Rest /\ UNCHANGED <<timer, drain>>
      BY <1>2, <1>9 DEF b
    <2>2. UNCHANGED <<state, setup, errors, due>>
      BY <2>1 DEF Rest, session, answers
    <2>3. ~setup.patient /\ timer = "limit"
      BY <1>1, <1>9 DEF Inv, InputInv, WorkInv, NothingIsStranded, Busy, Working
    <2>4. Len(b) < Hard
      BY <1>3, <1>5, <1>9 DEF Overflows
    <2>5. NothingIsStranded'
      BY <1>9, <2>1, <2>2, <2>3 DEF NothingIsStranded, Busy
    <2>6. InputInv'
      BY <1>1, <1>5, <1>6, <2>1, <2>2, <2>3, <2>4, <2>5 DEF Inv, InputInv, open
    <2> QED BY <1>1, <1>5, <1>6, <2>1, <2>6, RestInv DEF Inv, TypeOK
  <1> QED BY <1>7, <1>8, <1>9

LEMMA SuspendInv == ASSUME Inv, Suspend PROVE Inv'
  <1>1. drain # "no" /\ Busy /\ open
    BY DEF Suspend, Busy, Verifying, open
  <1>2. CASE Overflows(inbuf)
    BY <1>2, ClosedInv DEF Suspend
  <1>3. CASE ~Overflows(inbuf)
    <2>1. /\ timer' = "limit" /\ drain' = "no" /\ flow' \in BOOLEAN /\ UNCHANGED inbuf /\ Rest
      BY <1>3 DEF Suspend
    <2>2. UNCHANGED <<state, setup, errors, due>>
      BY <2>1 DEF Rest, session, answers
    <2>3. Len(inbuf) < Hard
      <3>1. inbuf \in Seq(Line) /\ Hard \in Nat
        BY ConstantsAssumption DEF Inv, TypeOK
      <3> QED BY <1>3, <3>1 DEF Overflows
    <2>4. NothingIsStranded'
      BY <1>1, <2>1, <2>2 DEF NothingIsStranded, Busy
    <2>5. InputInv'
      BY <2>1, <2>2, <2>3, <2>4 DEF Inv, InputInv, open
    <2> QED BY <1>1, <2>1, <2>5, RestInv DEF Inv, TypeOK
  <1> QED BY <1>2, <1>3

LEMMA DrainedInv == ASSUME Inv, Drained PROVE Inv'
  <1>1. /\ drain # "no" /\ ~Busy /\ inbuf = <<>> /\ timer' = "off" /\ drain' = "no"
        /\ flow' = (flow \/ drain = "timer") /\ UNCHANGED inbuf /\ Rest
    BY DEF Drained
  <1>2. drain \in {"data", "timer"} /\ open
    BY <1>1 DEF Inv, TypeOK, EndInv, open
  <1>3. flow' = TRUE
    BY <1>1, <1>2 DEF Inv, InputInv
  <1>4. UNCHANGED <<state, setup, errors, due>>
    BY <1>1 DEF Rest, session, answers
  <1>5. Len(inbuf) < Hard
    BY <1>1, ConstantsAssumption
  <1>6. NothingIsStranded'
    BY <1>1, <1>3, <1>4 DEF NothingIsStranded, Busy
  <1>7. InputInv'
    BY <1>1, <1>3, <1>4, <1>5, <1>6 DEF Inv, InputInv, open
  <1> QED BY <1>1, <1>2, <1>3, <1>7, RestInv DEF Inv, TypeOK

LEMMA ResumeInv == ASSUME Inv, Resume PROVE Inv'
  <1>1. timer = "zero" /\ drain = "no" /\ timer' = "off" /\ UNCHANGED inbuf /\ Rest
    BY DEF Resume
  <1>2. open /\ ~Busy
    BY <1>1 DEF Inv, InputInv, EndInv, NothingIsStranded, open
  <1>3. drain' = "timer" /\ flow' = flow /\ flow \in BOOLEAN
    <2>1. drain' = "timer" /\ flow' = (flow \/ FALSE) /\ flow \in BOOLEAN
      BY <1>2 DEF Resume, Inv, TypeOK
    <2> QED BY <2>1
  <1>4. UNCHANGED <<state, setup, errors, due>>
    BY <1>1 DEF Rest, session, answers
  <1>5. NothingIsStranded'
    BY <1>3 DEF NothingIsStranded
  <1>6. InputInv'
    BY <1>1, <1>3, <1>4, <1>5 DEF Inv, InputInv, open
  <1> QED BY <1>1, <1>2, <1>3, <1>6, RestInv DEF Inv, TypeOK

-----------------------------------------------------------------------------
(* The theorems.                                                           *)

LEMMA InitInv == Init => Inv
  <1> SUFFICES ASSUME Init PROVE Inv
    OBVIOUS
  <1>1. TypeOK
    <2>1. inbuf \in Seq(Line) /\ Len(inbuf) <= Hard + MaxBatch /\ 0 \in 0..ErrorLimit
      BY ConstantsAssumption, EmptySeq DEF Init
    <2> QED BY <2>1 DEF Init, TypeOK, State
  <1>2. "Start" \notin Verifying \cup Working \cup Chunking \cup WithMessage \cup WithRecipient
    BY DEF Verifying, Working, Chunking, WithMessage, WithRecipient
  <1>3. EndInv
    BY DEF Init, EndInv
  <1>4. InputInv
    <2>1. <<>> \in Seq(setup.lines) /\ Len(<<>>) = 0
      BY EmptySeq
    <2> QED BY <1>2, <2>1, ConstantsAssumption DEF Init, InputInv, NothingIsStranded, Busy, open
  <1>5. WorkInv /\ ForwardInv
    BY <1>2 DEF Init, WorkInv, ForwardInv
  <1>6. FateInv
    BY <1>2 DEF Init, FateInv, Message
  <1>7. OrderInv /\ CalmInv /\ StrayInv
    BY DEF Init, OrderInv, CalmInv, StrayInv
  <1> QED BY <1>1, <1>3, <1>4, <1>5, <1>6, <1>7 DEF Inv

LEMMA StepInv == ASSUME Inv, [Next]_vars PROVE Inv'
  <1>1. CASE Next
    BY <1>1, ApplyLineInv, VerifyDoneInv, FilterDoneInv, ForwardDoneInv, ForwardGoneInv, ClientLostInv,
       SecureInv, DisconnectInv, ReceiveInv, SuspendInv, DrainedInv, ResumeInv DEF Next, Completion
  <1>2. CASE UNCHANGED vars
    BY <1>2 DEF vars, Inv, TypeOK, EndInv, InputInv, WorkInv, ForwardInv, FateInv, OrderInv, CalmInv,
                StrayInv, NotSent, NothingIsStranded, Busy, open
  <1> QED BY <1>1, <1>2

\* The inductive invariant: what the state of the session says of the work under way, of
\* its message, of its replies and of its input is true after every step, whatever the peer
\* sends and when.
THEOREM Invariance == Spec => []Inv
  <1>1. Inv /\ [Next]_vars => Inv'
    BY StepInv
  <1> QED BY InitInv, <1>1, PTL DEF Spec

\* Every variable of a session has its type.
THEOREM TypeCorrect == Spec => []TypeOK
  <1>1. Inv => TypeOK
    BY DEF Inv
  <1> QED BY Invariance, <1>1, PTL

\* No peer can make a session wait for an event that nobody will emit, put content where
\* there is no message or recipients for it, or leave its input without the timer that it
\* needs (GSmtp::ServerProtocol::inBusyState(), the assertions on m_new_msg,
\* GSmtp::ServerBufferIn::applySome()).
THEOREM NothingForgotten == Spec => [](WaitingIsAnswered /\ MessageIsOpen /\ NothingIsStranded)
  <1>1. Inv => WaitingIsAnswered
    BY DEF Inv, WorkInv, Working, WaitingIsAnswered
  <1>2. Inv => MessageIsOpen
    BY DEF Inv, FateInv, WithMessage, WithRecipient, MessageIsOpen
  <1>3. Inv => NothingIsStranded
    BY DEF Inv, InputInv
  <1> QED BY Invariance, <1>1, <1>2, <1>3, PTL

\* No line is answered before an earlier one (GSmtp::ServerProtocol::apply()).  A peer that
\* pipelines may not use BDAT: the session is not busy in BdatProcessing.
THEOREM InOrder == ASSUME \A v \in Setups : Ordered(v) PROVE Spec => []RepliesInOrder
  <1>1. Inv => RepliesInOrder
    BY DEF Inv, TypeOK, OrderInv, RepliesInOrder
  <1> QED BY Invariance, <1>1, PTL

\* What has been acknowledged is stored or sent, and what has been refused was not sent,
\* nor stored if there is no forwarding client, whatever is lost or late
\* (GSmtp::ServerProtocol::doComplete()).  A peer that pipelines may use BDAT if the
\* session has no forwarding client, which clear() would leave at work.
THEOREM RepliesAreTrue == ASSUME \A v \in Setups : Calm(v) PROVE Spec => []ReplyIsTrue
  <1>1. Inv => ReplyIsTrue
    <2> SUFFICES ASSUME Inv PROVE ReplyIsTrue
      OBVIOUS
    <2>1. /\ \A m \in accepted : fate[m] \in Stored
          /\ \A m \in refused : fate[m] \in NotSent
      BY DEF Inv, TypeOK, CalmInv
    <2>2. AcceptedIsStored
      BY <2>1 DEF Stored, AcceptedIsStored
    <2>3. RefusedIsNotDelivered
      BY <2>1 DEF NotSent, RefusedIsNotDelivered
    <2> QED BY <2>2, <2>3 DEF ReplyIsTrue
  <1> QED BY Invariance, <1>1, PTL

\* What a session waits for is at work, what is at work is waited for, and its message
\* and its input are never left behind (GSmtp::ServerProtocol::clear(), and the protocol
\* errors of GSmtp::ServerProtocol's state machine).  A peer that does not wait for the
\* TLS handshake could make its end unexpected.
THEOREM Consistent == ASSUME \A v \in Setups : Calm(v) /\ Sheltered(v) PROVE Spec => []SessionInv
  <1>1. Inv => SessionInv
    <2> SUFFICES ASSUME Inv PROVE SessionInv
      OBVIOUS
    <2>1. Calm(setup) /\ Sheltered(setup)
      BY DEF Inv, TypeOK
    <2>2. ClearTerminates
      BY <2>1 DEF Inv, WorkInv, CalmInv, Working, ClearTerminates
    <2>3. WaitingIsAnswered
      BY DEF Inv, WorkInv, Working, WaitingIsAnswered
    <2>4. MessageIsOpen
      BY DEF Inv, FateInv, WithMessage, WithRecipient, MessageIsOpen
    <2>5. NothingIsStranded /\ NoStrayEvent
      BY <2>1 DEF Inv, InputInv, StrayInv, NoStrayEvent
    <2> QED BY <2>2, <2>3, <2>4, <2>5 DEF SessionInv
  <1> QED BY Invariance, <1>1, PTL
=============================================================================
