------------------------------ MODULE ClientProofs ------------------------------
(***************************************************************************)
(* What a client connection reports of its messages, whatever the server   *)
(* answers or fails to answer and when, for any number of messages,        *)
(* recipients, chunks and AUTH mechanisms; and that no client sends an     *)
(* envelope before its session is what it was told to make it.             *)
(*                                                                         *)
(* A client is in step (Inv), or it pipelines and is behind (Behind).      *)
(* In step, the invariant says what is on its way between the two in each  *)
(* state: one command or its reply, two when the greeting comes after the  *)
(* client has stopped waiting for it, or what is left of a batch, MAIL and *)
(* its recipients sent together.  When the MAIL of a batch is refused the  *)
(* client goes on without reading the other replies.  From then on it      *)
(* takes the reply to one command for the reply to another and does not    *)
(* catch up: Behind says what that can and cannot do.                      *)
(***************************************************************************)
EXTENDS ClientProtocol, SequenceTheorems, TLAPS

\* the current message's envelope has not been answered
Early == {"Init", "Started", "SentEhlo", "SentHelo", "StartTls", "SentTlsEhlo", "Auth",
          "Filtering", "SentMail"}
\* all the recipients' replies have come
Content == {"SentData", "Data", "SentDot", "SentBdatMore", "SentBdatLast"}
\* after the session has been set up
Transfer == {"Filtering", "SentMail", "SentRcpt", "SentDataStub", "MessageDone"} \cup Content
\* something is to be read, the greeting and what may come behind it aside
Waiting == {"SentHelo", "StartTls", "SentTlsEhlo", "Auth", "SentMail", "SentRcpt", "SentData",
            "SentDataStub", "SentDot", "SentBdatMore", "SentBdatLast"}

Silent          == wire = <<>> /\ replies = <<>>
\* a command, and the codes that can answer it
Pending(c, X)   == \/ wire = <<c>> /\ replies = <<>>
                   \/ wire = <<>> /\ \E x \in X : replies = <<<<c, x>>>>
\* two of them, because the first one's answer is late
Late(c, X, d)   == \/ wire = <<c, d>> /\ replies = <<>>
                   \/ wire = <<d>> /\ \E x \in X : replies = <<<<c, x>>>>
                   \/ wire = <<>> /\ \E x \in X, y \in Codes : replies = <<<<c, x>>, <<d, y>>>>
Connecting == <<"CONNECT", 0, 0>>
Greetings  == {"220", "550"}
Due(v)     == <<v, cur, IF state = "SentRcpt" THEN toIndex ELSE 0>>

\* what is set when
StateInv ==
    /\ cur = 0 => state \in {"SentBdatMore", "MessageDone", "Gone"}
    /\ state \in {"MessageDone", "Gone"} => cur = 0
    /\ filter <=> state = "Filtering"
    /\ handshake => state = "StartTls"
    /\ blocked <=> state = "Data"

\* the commands of a message up to its last recipient are sent together
Batched == pipe /\ state \in {"SentMail", "SentRcpt"}

\* one command at a time
ExchangeInv ==
    /\ state = "Started" => Pending(Connecting, Greetings)
    /\ state = "SentEhlo" => Pending(Due("EHLO"), Codes) \/ Late(Connecting, Greetings, Due("EHLO"))
    /\ state \in Waiting /\ ~handshake /\ cur # 0 /\ ~Batched => \E v \in Awaits[state] : Pending(Due(v), Codes)
    /\ handshake \/ cur = 0 \/ state \in {"Init", "Filtering", "Data"} => Silent

\* the replies that have come are counted
Counted(n) == /\ accepted \in 0..n /\ rejected \subseteq 1..n
              /\ rejected = {} <=> accepted = n

\* the transaction of the current message, at the client and at the server
TransactionInv ==
    /\ cur # 0 => rcpts[cur] = Rcpts(cur) /\ told[cur] = {}
    /\ cur # 0 /\ state \in Early =>
            /\ toIndex = 0 /\ accepted = 0 /\ rejected = {} /\ taken[cur] = {}
            /\ refused[cur] = {} \/ (pipe /\ state = "SentMail")
    /\ state = "SentMail" /\ ~pipe /\ replies # <<>> =>
            IF code = "250" THEN srvFrom = cur /\ srvTo = {} ELSE code = "550"
    /\ state = "SentRcpt" => toIndex \in Rcpts(cur) /\ Counted(toIndex - 1) /\ srvFrom = cur /\ taken[cur] = {}
    /\ state = "SentRcpt" /\ ~pipe =>
            IF replies = <<>>
            THEN srvTo = (1..(toIndex - 1)) \ rejected /\ refused[cur] = rejected
            ELSE IF code = "250"
            THEN srvTo = (1..toIndex) \ rejected /\ refused[cur] = rejected
            ELSE /\ code = "550" /\ srvTo = (1..(toIndex - 1)) \ rejected
                 /\ refused[cur] = rejected \cup {toIndex}
    /\ state \in Content \cup {"SentDataStub"} /\ cur # 0 =>
            Counted(To[cur]) /\ toIndex = To[cur] /\ refused[cur] = rejected
    /\ state = "SentDataStub" => taken[cur] = {}
    /\ state \in Content /\ cur # 0 =>
            /\ setup.all => rejected = {}
            /\ IF state \in {"SentDot", "SentBdatLast"} /\ replies # <<>>
               THEN IF code = "250" THEN taken[cur] = Rcpts(cur) \ rejected
                                    ELSE code = "550" /\ taken[cur] = {}
               ELSE srvFrom = cur /\ srvTo = Rcpts(cur) \ rejected /\ taken[cur] = {}

\* The commands of a batch: MAIL, which is number 0, and one RCPT for each recipient.
Nth(i)      == IF i = 0 THEN <<"MAIL", cur, 0>> ELSE <<"RCPT", cur, i>>
\* the recipients whose replies have come and have not been read
Answered(c) == {i \in Rcpts(cur) : /\ toIndex <= i /\ i < toIndex + Len(replies)
                                   /\ replies[i - toIndex + 1][2] = c}

\* What is left of a batch is on its way, in its order, and the server has dealt with those
\* whose replies have been read or have come.
BatchInv == Batched =>
    /\ Len(replies) + Len(wire) = To[cur] + 1 - toIndex
    /\ \A j \in 1..Len(replies) : replies[j][1] = Nth(toIndex + j - 1) /\ replies[j][2] \in {"250", "550"}
    /\ \A j \in 1..Len(wire) : wire[j] = Nth(toIndex + Len(replies) + j - 1)
    /\ IF state = "SentMail" /\ (replies = <<>> \/ code = "550")
       THEN refused[cur] = {} /\ (replies # <<>> => srvFrom = 0 /\ srvTo = {})
       ELSE /\ srvFrom = cur
            /\ srvTo = ((1..(toIndex - 1)) \ rejected) \cup Answered("250")
            /\ refused[cur] = rejected \cup Answered("550")

\* a message: before, during and after
MessageInv(m) ==
    /\ outcome[m] = "sending" <=> m = cur
    /\ outcome[m] = "queued" =>
           rcpts[m] = Rcpts(m) /\ taken[m] = {} /\ refused[m] = {} /\ told[m] = {}
    /\ outcome[m] = "destroyed" => taken[m] = Rcpts(m)
    /\ outcome[m] \in {"failed", "unlocked"} => refused[m] \subseteq rcpts[m] /\ rcpts[m] \cap told[m] = {}
    /\ setup.all => taken[m] \in {{}, Rcpts(m)}
QueueInv == \A m \in Message : MessageInv(m)

\* the session that the configuration demands
SecureInv ==
    /\ state \in Transfer \cup {"Auth"} => (setup.tls = "must" => secure)
    /\ state \in Transfer => (setup.mechanisms > 0 => authed)
    /\ filter => state = "Filtering"
    /\ handshake => state = "StartTls"

\* the client is in step
Inv == TypeOK /\ StateInv /\ ExchangeInv /\ TransactionInv /\ BatchInv /\ QueueInv

(* A client that pipelines and whose MAIL was refused is behind: the replies to the       *)
(* recipients of that message are still to come, and it takes them for others.            *)

\* the recipients of a message come right behind their MAIL or are those of the message
\* that the server has in hand, which has only recipients of its own
BehindWire ==
    /\ srvTo \subseteq (IF srvFrom = 0 THEN {} ELSE Rcpts(srvFrom))
    /\ \A i \in 1..Len(wire) :
         /\ wire[i][1] # "EOT"
         /\ wire[i][1] = "RCPT" =>
              /\ wire[i][2] \in Message /\ wire[i][3] \in Rcpts(wire[i][2])
              /\ IF i = 1 THEN srvFrom \in {0, wire[i][2]}
                 ELSE wire[i - 1][1] \in {"MAIL", "RCPT"} /\ wire[i - 1][2] = wire[i][2]

BehindState ==
    /\ pipe /\ ~handshake /\ ~blocked
    /\ state \in {"Filtering", "SentMail", "SentRcpt", "SentDataStub", "MessageDone", "Gone"} \cup
                 (IF setup.bdat THEN {"SentBdatMore", "SentBdatLast"} ELSE {"SentData"})
    /\ cur = 0 => state \in {"SentBdatMore", "MessageDone", "Gone"}
    /\ state \in {"MessageDone", "Gone"} => cur = 0
    /\ filter <=> state = "Filtering"
    /\ state \in {"Filtering", "SentMail"} => toIndex = 0 /\ accepted = 0 /\ rejected = {}
    /\ state = "SentRcpt" => toIndex \in Rcpts(cur) /\ accepted \in 0..(toIndex - 1)
    /\ cur # 0 => rejected \subseteq Rcpts(cur)

\* Without BDAT a client that is behind never catches up, so that no content is sent.
Unread == Len(replies) + Len(wire)
BehindCount ==
    /\ \A i \in 1..Len(wire) :
         /\ wire[i][1] \in {"MAIL", "RCPT", "RSET", "DATA"}
         /\ wire[i][1] = "DATA" => state = "SentData" /\ i = Len(wire)
    /\ \A i \in 1..Len(replies) :
         replies[i][2] = "354" => state = "SentData" /\ i = Len(replies) /\ wire = <<>>
    /\ state \in {"Filtering", "MessageDone"} => Unread >= 1
    /\ state = "SentMail" => Unread >= To[cur] + 2
    /\ state = "SentRcpt" => Unread >= To[cur] - toIndex + 2
    /\ state \in {"SentDataStub", "SentData"} => Unread >= 2
BehindQueue == \A m \in Message :
    /\ outcome[m] = "destroyed" => taken[m] = Rcpts(m)
    /\ setup.all => taken[m] \in {{}, Rcpts(m)}

Behind == TypeOK /\ BehindState /\ BehindWire /\ (~setup.bdat => BehindCount /\ BehindQueue)
ClientInv == Inv \/ Behind
-----------------------------------------------------------------------------
(* Facts.                                                                  *)

\* The messages and their recipients.
LEMMA Names ==
    /\ 0 \notin Message /\ 1 \in Message
    /\ \A m \in Message : /\ To[m] \in Nat \ {0} /\ Rcpts(m) \subseteq Rcpt
                          /\ 1 \in Rcpts(m) /\ To[m] \in Rcpts(m)
    /\ Rcpt \subseteq Nat
  <1>1. To \in Seq(Nat \ {0}) /\ Len(To) > 0 /\ Message = 1..Len(To)
    BY ConstantsAssumption DEF Message
  <1>2. \A m \in Message : To[m] \in Nat \ {0}
    BY <1>1
  <1> QED BY <1>1, <1>2 DEF Rcpts, Rcpt

\* Every command and reply that the lemmas below speak of is one.
LEMMA Commands ==
    ASSUME TypeOK
    PROVE  /\ \A v \in {"EHLO", "HELO", "STARTTLS", "AUTH", "RESPONSE", "MAIL", "DATA", "RSET", "EOT",
                        "BDAT", "BDATLAST"} : <<v, cur, 0>> \in Command
           /\ \A i \in Rcpt : <<"RCPT", cur, i>> \in Command
           /\ Connecting \in Command
  BY DEF TypeOK, Command, Connecting

\* One reply.
LEMMA Single ==
    ASSUME NEW c, NEW X, Pending(c, X), replies # <<>>
    PROVE  wire = <<>> /\ Tail(replies) = <<>> /\ Len(replies) = 1 /\ code \in X /\ Head(replies)[1] = c
  <1>1. PICK x \in X : replies = <<<<c, x>>>> /\ wire = <<>>
    BY DEF Pending
  <1> QED BY <1>1 DEF code

\* A reply that is read, unless it is a late one, is the only one, and nothing else
\* is on its way.
LEMMA OneReply ==
    ASSUME Inv, replies # <<>>, ~Batched,
           state \in Waiting \cup {"Started"} \/ (state = "SentEhlo" /\ code \in {"250", "502"})
    PROVE  /\ wire = <<>> /\ Tail(replies) = <<>> /\ Len(replies) = 1
           /\ ~handshake /\ cur # 0 /\ cur \in Message /\ code \in Codes
  <1> USE DEF Inv, ExchangeInv, StateInv, Silent
  <1>1. ~handshake /\ cur # 0 /\ cur \in Message
    BY DEF TypeOK, Waiting
  <1>2. CASE state = "Started"
    BY <1>1, <1>2, Single DEF Greetings, Codes
  <1>3. CASE state \in Waiting
    BY <1>1, <1>3, Single
  <1>4. CASE state = "SentEhlo" /\ code \in {"250", "502"}
    <2>1. Pending(Due("EHLO"), Codes)
      BY <1>4, <1>1 DEF Late, Greetings, code
    <2> QED BY <2>1, <1>1, Single
  <1> QED BY <1>2, <1>3, <1>4

\* Nothing has been read of what has not been asked: the state's command is the one
\* that the server has not answered.
LEMMA OneCommand ==
    ASSUME Inv, wire # <<>>, ~Batched, state # "Started", state # "SentEhlo"
    PROVE  /\ state \in Waiting /\ ~handshake /\ cur \in Message /\ replies = <<>>
           /\ \E v \in Awaits[state] : wire = <<Due(v)>>
  <1> USE DEF Inv, ExchangeInv, StateInv, Silent
  <1>1. ~handshake /\ cur # 0 /\ state \notin {"Init", "Filtering", "Data"}
    OBVIOUS
  <1>2. state \in Waiting
    BY <1>1 DEF TypeOK, State, Waiting
  <1> QED BY <1>1, <1>2 DEF Pending, TypeOK

-----------------------------------------------------------------------------
(* What several actions have in common.                                    *)

\* No batch is under way.
LEMMA NoBatch == ASSUME state' \notin {"SentMail", "SentRcpt"} PROVE BatchInv'
  BY DEF BatchInv, Batched

\* The client is deleted.
LEMMA GoneInv ==
    ASSUME Inv, NEW r \in {"failed", "unlocked"}, Gone(r)
    PROVE  Inv'
  <1> USE DEF Gone, Goto
  <1>1. TypeOK'
    <2>1. wire' \in Seq(Command) /\ replies' \in Seq(Command \X Codes)
      OBVIOUS
    <2>2. outcome' \in [Message -> {"queued", "sending", "destroyed", "failed", "unlocked"}]
      BY DEF Inv, TypeOK
    <2> QED BY <2>1, <2>2 DEF Inv, TypeOK, message, session, server, State
  <1>2. StateInv'
    BY DEF Inv, StateInv, session
  <1>3. ExchangeInv'
    BY DEF ExchangeInv, Silent, Waiting
  <1>4. TransactionInv'
    BY DEF TransactionInv, Content, Early
  <1>5. QueueInv'
    <2> SUFFICES ASSUME NEW m \in Message PROVE MessageInv(m)'
      BY DEF QueueInv
    <2>1. MessageInv(m) /\ (cur # 0 => rcpts[cur] = Rcpts(cur) /\ told[cur] = {}) /\ 0 \notin Message
      BY Names DEF Inv, QueueInv, TransactionInv
    <2>2. outcome'[m] = IF m = cur THEN r ELSE outcome[m]
      BY Names DEF Inv, TypeOK
    <2>3. refused[m] \subseteq Rcpts(m)
      BY DEF Inv, TypeOK
    <2> QED BY <2>1, <2>2, <2>3 DEF MessageInv, session, server, Rcpts
  <1> QED BY <1>1, <1>2, <1>3, <1>4, <1>5, NoBatch DEF Inv

\* The session is set up: nothing happens to a message.
LEMMA EarlyInv ==
    ASSUME Inv, state \in Early, state # "SentMail", cur # 0, Same, UNCHANGED <<setup, message, server>>,
           state' \in Early, state' = "SentMail" => replies' = <<>>
    PROVE  TransactionInv' /\ QueueInv'
  <1>1. TransactionInv'
    BY DEF Inv, TransactionInv, Same, store, message, server, Early, Content, Rcpts
  <1>2. QueueInv'
    BY DEF Inv, QueueInv, MessageInv, Same, store, server, Rcpts
  <1> QED BY <1>1, <1>2

\* A command is sent when all that was sent before has been answered.
LEMMA SendInv ==
    ASSUME NEW v, Inv, wire = <<>>, replies' = <<>>,
           Send(<<<<v, cur, IF state' = "SentRcpt" THEN toIndex' ELSE 0>>>>),
           state' \in Waiting \cup {"SentEhlo"},
           v \in (IF state' = "SentEhlo" THEN {"EHLO"} ELSE Awaits[state']),
           cur' = cur, cur # 0, ~handshake'
    PROVE  ExchangeInv'
  <1>1. wire' = <<Due(v)'>> /\ replies' = <<>>
    BY DEF Send, Due
  <1>2. Pending(Due(v), Codes)'
    BY <1>1 DEF Pending
  <1> QED BY <1>2 DEF ExchangeInv, Waiting, Awaits

\* The message is done with, whatever has become of it: nothing more is heard of it.
LEMMA ReportInv ==
    ASSUME Inv, cur # 0, NEW sent \in BOOLEAN, NEW by \in SUBSET Rcpts(cur), Report(sent, by),
           UNCHANGED <<setup, message, server>>,
           sent => taken[cur] = Rcpts(cur),
           ~sent => refused[cur] \subseteq rejected /\ rejected \subseteq Rcpts(cur)
                     /\ (by # {} => rejected # {} /\ by \cap rejected = {}),
           setup.all => taken[cur] \in {{}, Rcpts(cur)},
           state' \in {"MessageDone", "SentBdatMore"}
    PROVE  TransactionInv' /\ QueueInv'
  <1> USE DEF Report
  <1>1. TransactionInv'
    BY DEF TransactionInv, Early, Content
  <1>2. QueueInv'
    <2> SUFFICES ASSUME NEW m \in Message PROVE MessageInv(m)'
      BY DEF QueueInv
    <2>1. MessageInv(m) /\ rcpts[cur] = Rcpts(cur) /\ cur \in Message /\ 0 \notin Message
      BY Names DEF Inv, QueueInv, TransactionInv, TypeOK
    <2>2. outcome'[m] = IF m = cur THEN IF sent THEN "destroyed" ELSE "failed" ELSE outcome[m]
      BY <2>1 DEF Inv, TypeOK
    <2>3. /\ rcpts'[m] = IF m # cur THEN rcpts[m]
                       ELSE IF sent THEN {} ELSE IF rejected = {} THEN rcpts[m] ELSE rejected
          /\ told'[m] = IF m = cur THEN by ELSE told[m]
      BY <2>1 DEF Inv, TypeOK
    <2> QED BY <2>1, <2>2, <2>3 DEF MessageInv, server, Rcpts
  <1> QED BY <1>1, <1>2

\* The types of the store after that.
LEMMA ReportTypes ==
    ASSUME TypeOK, cur # 0, NEW sent \in BOOLEAN, NEW by \in SUBSET Rcpts(cur), Report(sent, by),
           rejected \subseteq Rcpts(cur)
    PROVE  /\ cur' \in Message \cup {0} /\ timer' \in {"off", "ready", "response"}
           /\ outcome' \in [Message -> {"queued", "sending", "destroyed", "failed", "unlocked"}]
           /\ rcpts' \in [Message -> SUBSET Rcpt] /\ told' \in [Message -> SUBSET Rcpt]
           /\ \A m \in Message : rcpts'[m] \subseteq Rcpts(m) /\ told'[m] \subseteq Rcpts(m)
  <1>1. cur \in Message /\ Rcpts(cur) \subseteq Rcpt
    BY Names DEF TypeOK
  <1> QED BY <1>1 DEF TypeOK, Report

-----------------------------------------------------------------------------
(* The session.  The lemma of each action says that the action preserves   *)
(* the invariant.                                                          *)

LEMMA ConnectInv == ASSUME Inv, Connect PROVE Inv'
  <1> USE DEF Connect, Goto, Quiet, Same, store
  <1>1. cur # 0 /\ state \in Early /\ replies = <<>>
    BY DEF Inv, StateInv, ExchangeInv, Silent, Early
  <1>2. TypeOK'
    <2>1. wire' \in Seq(Command)
      BY Commands DEF Inv, Connecting
    <2> QED BY <2>1 DEF Inv, TypeOK, message, session, server, State
  <1>3. StateInv'
    BY <1>1 DEF Inv, StateInv, session
  <1>4. ExchangeInv'
    BY <1>1 DEF Inv, StateInv, ExchangeInv, Pending, Connecting, Waiting
  <1>5. TransactionInv' /\ QueueInv'
    BY <1>1, EarlyInv DEF session, Early
  <1> QED BY <1>2, <1>3, <1>4, <1>5, NoBatch DEF Inv

LEMMA GreetingInv == ASSUME Inv, Greeting PROVE Inv'
  <1> USE DEF Greeting, Goto, Quiet, Same, store
  <1>1. wire = <<>> /\ replies' = <<>> /\ cur # 0 /\ state \in Early /\ ~handshake
    BY OneReply DEF Batched, On, Early, code
  <1>2. wire' = <<<<"EHLO", cur, 0>>>> /\ timer' = "response"
    BY <1>1 DEF Send, Verb
  <1>3. TypeOK'
    <2>1. wire' \in Seq(Command)
      BY <1>2, Commands DEF Inv
    <2> QED BY <1>1, <1>2, <2>1 DEF Inv, TypeOK, message, session, server, State
  <1>4. StateInv'
    BY <1>1 DEF Inv, StateInv, session, On
  <1>5. ExchangeInv'
    BY <1>1, SendInv DEF Verb
  <1>6. TransactionInv' /\ QueueInv'
    BY <1>1, EarlyInv DEF session, Early, On
  <1> QED BY <1>3, <1>4, <1>5, <1>6, NoBatch DEF Inv

LEMMA HeloInsteadInv == ASSUME Inv, HeloInstead PROVE Inv'
  <1> USE DEF HeloInstead, Goto, Quiet, Same, store
  <1>1. wire = <<>> /\ replies' = <<>> /\ cur # 0 /\ state \in Early /\ ~handshake
    BY OneReply DEF Batched, On, Early, code
  <1>2. wire' = <<<<"HELO", cur, 0>>>> /\ timer' = "response"
    BY <1>1 DEF Send, Verb
  <1>3. TypeOK'
    <2>1. wire' \in Seq(Command)
      BY <1>2, Commands DEF Inv
    <2> QED BY <1>1, <1>2, <2>1 DEF Inv, TypeOK, message, session, server, State
  <1>4. StateInv'
    BY <1>1 DEF Inv, StateInv, session, On
  <1>5. ExchangeInv'
    BY <1>1, SendInv DEF Verb, Waiting, Awaits
  <1>6. TransactionInv' /\ QueueInv'
    BY <1>1, EarlyInv DEF session, Early, On
  <1> QED BY <1>3, <1>4, <1>5, <1>6, NoBatch DEF Inv

LEMMA HelloInv == ASSUME Inv, Hello PROVE Inv'
  <1> USE DEF Hello, Goto, Same, store
  <1>1. wire = <<>> /\ replies' = <<>> /\ cur # 0 /\ state \in Early /\ ~handshake
    BY OneReply DEF Batched, On, Early, code, Waiting
  <1>2. setup \in Setup /\ setup.pipelining \in BOOLEAN
    BY ConstantsAssumption DEF Inv, TypeOK, Setup
  <1>3. \/ /\ state' = "StartTls" /\ Send(Verb("STARTTLS")) /\ UNCHANGED filter
        \/ /\ state' = "Auth" /\ Send(Verb("AUTH")) /\ UNCHANGED filter
        \/ /\ state' = "Filtering" /\ filter' = TRUE /\ timer' = "off" /\ UNCHANGED wire
    OBVIOUS
  <1>4. /\ wire' \in {<<<<"STARTTLS", cur, 0>>>>, <<<<"AUTH", cur, 0>>>>, <<>>}
        /\ timer' \in {"response", "off"} /\ state' \in {"StartTls", "Auth", "Filtering"}
    BY <1>1, <1>3 DEF Send, Verb
  <1>5. TypeOK'
    <2>1. wire' \in Seq(Command)
      <3>1. <<"STARTTLS", cur, 0>> \in Command /\ <<"AUTH", cur, 0>> \in Command
        BY Commands DEF Inv
      <3>2. <<>> \in Seq(Command) /\ \A c \in Command : <<c>> \in Seq(Command)
        OBVIOUS
      <3> QED BY <1>4, <3>1, <3>2
    <2>2. secure' \in BOOLEAN
      BY Zenon DEF Hello
    <2>3. pipe' \in BOOLEAN /\ authed' \in BOOLEAN
      BY <1>2
    <2>4. mech' \in 0..setup.mechanisms
      BY <1>2 DEF Setup
    <2>5. filter' \in BOOLEAN
      BY <1>3 DEF Inv, TypeOK
    <2> QED BY <1>1, <1>4, <2>1, <2>2, <2>3, <2>4, <2>5 DEF Inv, TypeOK, message, server, State
  <1>6. StateInv'
    <2>1. filter' <=> state' = "Filtering"
      BY <1>3 DEF Inv, StateInv, On
    <2> QED BY <1>1, <1>4, <2>1 DEF Inv, StateInv, On
  <1>7. ExchangeInv'
    <2>1. CASE state' = "Filtering"
      BY <1>1, <1>3, <2>1 DEF ExchangeInv, Silent, Waiting
    <2>2. CASE state' \in {"StartTls", "Auth"}
      BY <1>1, <1>3, <2>2, SendInv DEF Verb, Waiting, Awaits
    <2> QED BY <1>4, <2>1, <2>2
  <1>8. TransactionInv' /\ QueueInv'
    BY <1>1, <1>4, EarlyInv DEF Early, On
  <1> QED BY <1>5, <1>6, <1>7, <1>8, NoBatch DEF Inv

LEMMA StartTlsInv == ASSUME Inv, StartTls PROVE Inv'
  <1> USE DEF StartTls, Same, store
  <1>1. wire = <<>> /\ replies' = <<>> /\ cur # 0 /\ state \in Early
    BY OneReply DEF Batched, On, Early, code, Waiting
  <1>2. TypeOK'
    BY <1>1 DEF Inv, TypeOK, message, session, server
  <1>3. StateInv'
    BY <1>1 DEF Inv, StateInv, session, On
  <1>4. ExchangeInv'
    BY <1>1 DEF ExchangeInv, Silent, On
  <1>5. TransactionInv' /\ QueueInv'
    BY <1>1, EarlyInv DEF session, Early, On
  <1> QED BY <1>2, <1>3, <1>4, <1>5, NoBatch DEF Inv, On

LEMMA HandshakeInv == ASSUME Inv, Handshake PROVE Inv'
  <1>1. CASE Throw
    BY <1>1, GoneInv DEF Throw
  <1>2. ASSUME handshake, handshake' = FALSE, Goto("SentTlsEhlo"), Send(Verb("EHLO")), Same,
               UNCHANGED <<message, session, filter, blocked, replies, server>>
        PROVE  Inv'
    <2> USE <1>2 DEF Goto, Same, store
    <2>1. wire = <<>> /\ replies' = <<>> /\ cur # 0 /\ state \in Early /\ state = "StartTls"
      BY DEF Inv, ExchangeInv, StateInv, Silent, Early
    <2>2. wire' = <<<<"EHLO", cur, 0>>>> /\ timer' = "response"
      BY <2>1 DEF Send, Verb
    <2>3. TypeOK'
      <3>1. wire' \in Seq(Command)
        BY <2>2, Commands DEF Inv
      <3> QED BY <2>1, <2>2, <3>1 DEF Inv, TypeOK, message, session, server, State
    <2>4. StateInv'
      BY <2>1 DEF Inv, StateInv, session
    <2>5. ExchangeInv'
      BY <2>1, SendInv DEF Verb, Waiting, Awaits
    <2>6. TransactionInv' /\ QueueInv'
      BY <2>1, EarlyInv DEF session, Early
    <2> QED BY <2>3, <2>4, <2>5, <2>6, NoBatch DEF Inv
  <1> QED BY <1>1, <1>2 DEF Handshake, Inv, TypeOK

LEMMA AuthChallengeInv == ASSUME Inv, AuthChallenge PROVE Inv'
  <1> USE DEF AuthChallenge, Quiet, Same, store
  <1>1. wire = <<>> /\ replies' = <<>> /\ cur # 0 /\ state \in Early /\ ~handshake
    BY OneReply DEF Batched, On, Early, code, Waiting
  <1>2. wire' = <<<<"RESPONSE", cur, 0>>>> /\ timer' = "response"
    BY <1>1 DEF Send, Verb
  <1>3. TypeOK'
    <2>1. wire' \in Seq(Command)
      BY <1>2, Commands DEF Inv
    <2> QED BY <1>1, <1>2, <2>1 DEF Inv, TypeOK, message, session, server, State
  <1>4. StateInv'
    BY <1>1 DEF Inv, StateInv, session, On
  <1>5. ExchangeInv'
    BY <1>1, SendInv DEF Verb, Waiting, Awaits, On
  <1>6. TransactionInv' /\ QueueInv'
    BY <1>1, EarlyInv DEF session, Early, On
  <1> QED BY <1>3, <1>4, <1>5, <1>6, NoBatch DEF Inv, On

LEMMA AuthOkInv == ASSUME Inv, AuthOk PROVE Inv'
  <1> USE DEF AuthOk, Goto, Same, store
  <1>1. wire' = <<>> /\ replies' = <<>> /\ cur # 0 /\ state \in Early /\ ~handshake
    BY OneReply DEF Batched, On, Early, code, Waiting
  <1>2. TypeOK'
    BY <1>1 DEF Inv, TypeOK, message, server, State
  <1>3. StateInv'
    BY <1>1 DEF Inv, StateInv, On
  <1>4. ExchangeInv'
    BY <1>1 DEF ExchangeInv, Silent, Waiting
  <1>5. TransactionInv' /\ QueueInv'
    BY <1>1, EarlyInv DEF Early, On
  <1> QED BY <1>2, <1>3, <1>4, <1>5, NoBatch DEF Inv

LEMMA AuthNextInv == ASSUME Inv, AuthNext PROVE Inv'
  <1> USE DEF AuthNext, Same, store
  <1>1. wire = <<>> /\ replies' = <<>> /\ cur # 0 /\ state \in Early /\ ~handshake
    BY OneReply DEF Batched, On, Early, code, Waiting
  <1>2. wire' = <<<<"AUTH", cur, 0>>>> /\ timer' = "response"
    BY <1>1 DEF Send, Verb
  <1>3. TypeOK'
    <2>1. wire' \in Seq(Command)
      BY <1>2, Commands DEF Inv
    <2>2. mech' \in 0..setup.mechanisms
      BY ConstantsAssumption DEF Inv, TypeOK, Setup
    <2> QED BY <1>1, <1>2, <2>1, <2>2 DEF Inv, TypeOK, message, server, State
  <1>4. StateInv'
    BY <1>1 DEF Inv, StateInv, On
  <1>5. ExchangeInv'
    BY <1>1, SendInv DEF Verb, Waiting, Awaits, On
  <1>6. TransactionInv' /\ QueueInv'
    BY <1>1, EarlyInv DEF Early, On
  <1> QED BY <1>3, <1>4, <1>5, <1>6, NoBatch DEF Inv, On

-----------------------------------------------------------------------------
(* A message: its beginning and its end.                                   *)

LEMMA StartInv == ASSUME Inv, Start PROVE Inv'
  <1> USE DEF Start, Goto, Fresh
  <1>1. PICK m \in Message : /\ outcome[m] = "queued" /\ cur' = m
                             /\ outcome' = [outcome EXCEPT ![m] = "sending"]
    BY DEF IsNext
  <1>2. cur = 0 /\ Silent /\ Silent'
    BY DEF Inv, StateInv, ExchangeInv, Silent, channel
  <1>3. TypeOK'
    <2>1. cur' \in Message /\ outcome' \in [Message -> {"queued", "sending", "destroyed", "failed", "unlocked"}]
      BY <1>1 DEF Inv, TypeOK
    <2>2. chunk' \in 0..MaxChunks
      BY ConstantsAssumption
    <2> QED BY <2>1, <2>2 DEF Inv, TypeOK, session, channel, server, State
  <1>4. StateInv'
    BY <1>1, Names DEF Inv, StateInv, session
  <1>5. ExchangeInv'
    BY <1>2 DEF ExchangeInv, Silent, Waiting
  <1>6. TransactionInv'
    <2>1. rcpts[cur'] = Rcpts(cur') /\ told[cur'] = {} /\ refused[cur'] = {} /\ taken[cur'] = {}
      BY <1>1 DEF Inv, QueueInv, MessageInv
    <2> QED BY <1>1, <2>1 DEF TransactionInv, Content, server, Rcpts
  <1>7. QueueInv'
    <2> SUFFICES ASSUME NEW k \in Message PROVE MessageInv(k)'
      BY DEF QueueInv
    <2>1. MessageInv(k) /\ 0 \notin Message
      BY Names DEF Inv, QueueInv
    <2>2. outcome'[k] = IF k = cur' THEN "sending" ELSE outcome[k]
      BY <1>1 DEF Inv, TypeOK
    <2> QED BY <1>1, <1>2, <2>1, <2>2 DEF MessageInv, session, server, Rcpts
  <1> QED BY <1>3, <1>4, <1>5, <1>6, <1>7, NoBatch DEF Inv

LEMMA StartFailsInv == ASSUME Inv, StartFails PROVE Inv'
  <1> USE DEF StartFails, Quiet, Fresh
  <1>1. PICK m \in Message : outcome[m] = "queued" /\ outcome' = [outcome EXCEPT ![m] = "failed"]
    BY DEF IsNext
  <1>2. cur = 0 /\ cur' = 0 /\ state = "SentBdatMore" /\ Silent /\ Silent'
    BY DEF Inv, ExchangeInv, Silent, channel
  <1>3. TypeOK'
    <2>1. outcome' \in [Message -> {"queued", "sending", "destroyed", "failed", "unlocked"}]
      BY <1>1 DEF Inv, TypeOK
    <2>2. chunk' \in 0..MaxChunks
      BY ConstantsAssumption
    <2> QED BY <2>1, <2>2 DEF Inv, TypeOK, session, channel, server
  <1>4. StateInv'
    BY DEF Inv, StateInv, session
  <1>5. ExchangeInv'
    BY <1>2 DEF ExchangeInv, Silent
  <1>6. TransactionInv'
    BY <1>2 DEF TransactionInv, Content, Early
  <1>7. QueueInv'
    <2> SUFFICES ASSUME NEW k \in Message PROVE MessageInv(k)'
      BY DEF QueueInv
    <2>1. MessageInv(k) /\ 0 \notin Message
      BY Names DEF Inv, QueueInv
    <2>2. outcome'[k] = IF k = m THEN "failed" ELSE outcome[k]
      BY <1>1 DEF Inv, TypeOK
    <2> QED BY <1>1, <1>2, <2>1, <2>2 DEF MessageInv, session, server, Rcpts
  <1> QED BY <1>3, <1>4, <1>5, <1>6, <1>7, NoBatch DEF Inv

\* The message is done with before anything has been said of it.
LEMMA UnsentInv ==
    ASSUME Inv, cur # 0, Unsent, UNCHANGED <<message, session, server>>,
           state' \in {"MessageDone", "SentBdatMore"},
           Silent', filter' = FALSE, handshake' = FALSE, blocked' = FALSE,
           refused[cur] \subseteq rejected, rejected \subseteq Rcpts(cur), taken[cur] = {}
    PROVE  Inv'
  <1> USE DEF Unsent
  <1>1. TypeOK'
    <2>1. /\ cur' \in Message \cup {0} /\ timer' \in {"off", "ready", "response"}
          /\ outcome' \in [Message -> {"queued", "sending", "destroyed", "failed", "unlocked"}]
          /\ rcpts' \in [Message -> SUBSET Rcpt] /\ told' \in [Message -> SUBSET Rcpt]
          /\ \A m \in Message : rcpts'[m] \subseteq Rcpts(m) /\ told'[m] \subseteq Rcpts(m)
      BY ReportTypes DEF Inv
    <2>2. wire' \in Seq(Command) /\ replies' \in Seq(Command \X Codes)
      BY DEF Silent
    <2> QED BY <2>1, <2>2 DEF Inv, TypeOK, message, session, server, State
  <1>2. StateInv'
    BY DEF Inv, StateInv, session, Report
  <1>3. ExchangeInv'
    BY DEF ExchangeInv, Report, Silent
  <1>4. TransactionInv' /\ QueueInv'
    BY ReportInv DEF session
  <1> QED BY <1>1, <1>2, <1>3, <1>4, NoBatch DEF Inv

LEMMA FilteringFacts ==
    ASSUME Inv, filter
    PROVE  /\ state = "Filtering" /\ Silent /\ cur # 0 /\ cur \in Message /\ ~handshake /\ ~blocked
           /\ rejected = {} /\ refused[cur] = {} /\ taken[cur] = {} /\ handshake = FALSE /\ blocked = FALSE
  <1>1. /\ state = "Filtering" /\ cur # 0 /\ ~handshake /\ ~blocked /\ cur \in Message
        /\ handshake = FALSE /\ blocked = FALSE
    BY DEF Inv, StateInv, TypeOK
  <1> QED BY <1>1 DEF Inv, ExchangeInv, TransactionInv, Early

LEMMA FilterFailsInv == ASSUME Inv, FilterFails PROVE Inv'
  <1>1. Silent'
    BY FilteringFacts DEF FilterFails, Silent, channel
  <1> QED BY <1>1, FilteringFacts, UnsentInv DEF FilterFails, Goto

LEMMA FilterAbandonInv == ASSUME Inv, FilterAbandon PROVE Inv'
  <1> USE DEF FilterAbandon, Goto
  <1>1. /\ state = "Filtering" /\ cur # 0 /\ cur \in Message /\ Silent' /\ ~handshake /\ ~blocked
        /\ rejected = {} /\ refused[cur] = {} /\ taken[cur] = {}
    BY FilteringFacts DEF Silent, channel
  <1>2. TypeOK'
    <2>1. outcome' \in [Message -> {"queued", "sending", "destroyed", "failed", "unlocked"}]
      BY DEF Inv, TypeOK
    <2>2. wire' \in Seq(Command) /\ replies' \in Seq(Command \X Codes)
      BY <1>1 DEF Silent
    <2> QED BY <2>1, <2>2 DEF Inv, TypeOK, message, session, server, State
  <1>3. StateInv'
    BY <1>1 DEF Inv, StateInv, session
  <1>4. ExchangeInv'
    BY <1>1 DEF ExchangeInv, Silent, Waiting
  <1>5. TransactionInv'
    BY DEF TransactionInv, Content, Early
  <1>6. QueueInv'
    <2> SUFFICES ASSUME NEW m \in Message PROVE MessageInv(m)'
      BY DEF QueueInv
    <2>1. MessageInv(m) /\ rcpts[cur] = Rcpts(cur) /\ told[cur] = {} /\ 0 \notin Message
      BY <1>1, Names DEF Inv, QueueInv, TransactionInv
    <2>2. outcome'[m] = IF m = cur THEN "unlocked" ELSE outcome[m]
      BY DEF Inv, TypeOK
    <2> QED BY <1>1, <2>1, <2>2 DEF MessageInv, session, server, Rcpts
  <1> QED BY <1>2, <1>3, <1>4, <1>5, <1>6, NoBatch DEF Inv

LEMMA FilterOkInv == ASSUME Inv, ~pipe, FilterOk PROVE Inv'
  <1> USE DEF FilterOk, Goto
  <1>1. /\ state = "Filtering" /\ cur # 0 /\ cur \in Message /\ Silent /\ ~handshake /\ ~blocked
        /\ rejected = {} /\ refused[cur] = {} /\ taken[cur] = {} /\ handshake = FALSE /\ blocked = FALSE
    BY FilteringFacts
  <1>2. CASE state' = "MessageDone" /\ Unsent /\ UNCHANGED wire
    BY <1>1, <1>2, UnsentInv DEF Silent
  <1>3. ASSUME state' = "SentMail", Same,
               Send(Verb("MAIL") \o IF pipe THEN [i \in Rcpts(cur) |-> <<"RCPT", cur, i>>] ELSE <<>>)
        PROVE  Inv'
    <2> USE <1>3 DEF Same, store
    <2>1. pipe = FALSE /\ ~Batched'
      BY DEF Inv, TypeOK, Batched, session
    <2>2. wire' = <<<<"MAIL", cur, 0>>>> /\ timer' = "response" /\ replies' = <<>>
      BY <1>1, <2>1 DEF Send, Verb, Silent
    <2>3. TypeOK'
      <3>1. wire' \in Seq(Command)
        BY <2>2, Commands DEF Inv
      <3> QED BY <2>2, <3>1 DEF Inv, TypeOK, message, session, server, State
    <2>4. StateInv'
      BY <1>1 DEF Inv, StateInv, session
    <2>5. ExchangeInv'
      <3>1. Pending(Due("MAIL"), Codes)'
        BY <2>2 DEF Pending, Due
      <3> QED BY <1>1, <3>1 DEF ExchangeInv, Waiting, Awaits
    <2>6. TransactionInv' /\ QueueInv'
      BY <1>1, <2>2, EarlyInv DEF session, Early
    <2> QED BY <2>1, <2>3, <2>4, <2>5, <2>6 DEF Inv, BatchInv
  <1> QED BY <1>2, <1>3

LEMMA MailFailsInv == ASSUME Inv, ~Batched, MailFails PROVE Inv'
  <1>1. /\ wire = <<>> /\ Tail(replies) = <<>> /\ replies' = <<>> /\ cur # 0 /\ cur \in Message
        /\ ~handshake /\ state = "SentMail"
    BY OneReply DEF MailFails, On, Waiting
  <1>2. Silent'
    BY <1>1 DEF MailFails, Silent
  <1>3. rejected = {} /\ refused[cur] = {} /\ taken[cur] = {}
    BY <1>1 DEF Inv, TransactionInv, Early, Batched
  <1>4. filter' = FALSE /\ handshake' = FALSE /\ blocked' = FALSE
    BY <1>1 DEF MailFails, Quiet, Inv, StateInv, TypeOK
  <1> QED BY <1>1, <1>2, <1>3, <1>4, UnsentInv DEF MailFails, Goto

LEMMA RcptRejectedInv == ASSUME Inv, RcptRejected PROVE Inv'
  <1>1. /\ wire = <<>> /\ Tail(replies) = <<>> /\ replies' = <<>> /\ cur # 0 /\ cur \in Message
        /\ ~handshake /\ state = "SentDataStub"
    BY OneReply DEF Batched, RcptRejected, On, Waiting
  <1>2. Silent'
    BY <1>1 DEF RcptRejected, Silent
  <1>3. rejected \subseteq Rcpts(cur) /\ refused[cur] = rejected /\ taken[cur] = {}
    BY <1>1 DEF Inv, TransactionInv, Counted, Rcpts
  <1>4. filter' = FALSE /\ handshake' = FALSE /\ blocked' = FALSE
    BY <1>1 DEF RcptRejected, Quiet, Inv, StateInv, TypeOK
  <1> QED BY <1>1, <1>2, <1>3, <1>4, UnsentInv DEF RcptRejected, Goto

LEMMA ChunkFailsInv == ASSUME Inv, ChunkFails PROVE Inv'
  <1>1. /\ wire = <<>> /\ Tail(replies) = <<>> /\ replies' = <<>> /\ cur # 0 /\ cur \in Message
        /\ ~handshake /\ state = "SentBdatMore"
    BY OneReply DEF Batched, ChunkFails, On, Waiting
  <1>2. Silent'
    BY <1>1 DEF ChunkFails, Silent
  <1>3. rejected \subseteq Rcpts(cur) /\ refused[cur] = rejected /\ taken[cur] = {}
    BY <1>1 DEF Inv, TransactionInv, Counted, Rcpts, Content
  <1>4. filter' = FALSE /\ handshake' = FALSE /\ blocked' = FALSE
    BY <1>1 DEF ChunkFails, Quiet, Inv, StateInv, TypeOK
  <1> QED BY <1>1, <1>2, <1>3, <1>4, UnsentInv DEF ChunkFails

LEMMA ContentReplyInv == ASSUME Inv, ContentReply PROVE Inv'
  <1> DEFINE sent == code \in Final /\ accepted >= To[cur]
             by   == IF code \in Final THEN Rcpts(cur) \ rejected ELSE {}
  <1> USE DEF ContentReply, Goto, Quiet
  <1>1. /\ wire = <<>> /\ replies # <<>> /\ replies' = <<>> /\ cur # 0 /\ cur \in Message
        /\ ~handshake /\ state \in {"SentDot", "SentBdatLast"}
    BY OneReply DEF Batched, On, Waiting
  <1>2. /\ Counted(To[cur]) /\ refused[cur] = rejected /\ (setup.all => rejected = {})
        /\ IF code = "250" THEN taken[cur] = Rcpts(cur) \ rejected ELSE code = "550" /\ taken[cur] = {}
    BY <1>1 DEF Inv, TransactionInv, Content
  <1>3. rejected \subseteq Rcpts(cur) /\ (accepted >= To[cur] <=> rejected = {})
    BY <1>1, <1>2, Names DEF Counted, Rcpts
  <1>4. /\ sent => taken[cur] = Rcpts(cur)
        /\ ~sent /\ by # {} => rejected # {}
        /\ setup.all => taken[cur] \in {{}, Rcpts(cur)}
    BY <1>2, <1>3 DEF Final
  <1>5. Report(sent, by) /\ sent \in BOOLEAN /\ by \in SUBSET Rcpts(cur) /\ by \cap rejected = {}
    OBVIOUS
  <1>6. UNCHANGED <<message, session, server>> /\ state' = "MessageDone"
    OBVIOUS
  <1> HIDE DEF sent, by
  <1>7. TypeOK'
    <2>1. /\ cur' \in Message \cup {0} /\ timer' \in {"off", "ready", "response"}
          /\ outcome' \in [Message -> {"queued", "sending", "destroyed", "failed", "unlocked"}]
          /\ rcpts' \in [Message -> SUBSET Rcpt] /\ told' \in [Message -> SUBSET Rcpt]
          /\ \A m \in Message : rcpts'[m] \subseteq Rcpts(m) /\ told'[m] \subseteq Rcpts(m)
      BY <1>1, <1>3, <1>5, ReportTypes DEF Inv
    <2> QED BY <1>1, <1>6, <2>1 DEF Inv, TypeOK, message, session, server, State
  <1>8. StateInv'
    BY <1>1, <1>5, <1>6 DEF Inv, StateInv, session, Report
  <1>9. ExchangeInv'
    BY <1>1, <1>6 DEF ExchangeInv, Silent, Waiting
  <1>10. TransactionInv' /\ QueueInv'
    BY <1>1, <1>2, <1>3, <1>4, <1>5, <1>6, ReportInv DEF session
  <1> QED BY <1>7, <1>8, <1>9, <1>10, NoBatch DEF Inv

-----------------------------------------------------------------------------
(* A message: its recipients and its content.                              *)

LEMMA MailOkInv == ASSUME Inv, ~Batched, MailOk PROVE Inv'
  <1> USE DEF MailOk, Goto, Quiet, Same, store
  <1>1. /\ wire = <<>> /\ replies # <<>> /\ replies' = <<>> /\ cur # 0 /\ cur \in Message
        /\ ~handshake /\ state = "SentMail" /\ code = "250" /\ pipe = FALSE
    BY OneReply DEF Batched, On, Waiting, code, Inv, StateInv
  <1>2. /\ toIndex = 0 /\ accepted = 0 /\ rejected = {} /\ refused[cur] = {} /\ taken[cur] = {}
        /\ srvFrom = cur /\ srvTo = {}
    BY <1>1 DEF Inv, TransactionInv, Early
  <1>3. toIndex' = 1 /\ wire' = <<<<"RCPT", cur, 1>>>> /\ timer' = "response"
    BY <1>1, <1>2 DEF SendRcpt, Send
  <1>4. TypeOK'
    <2>1. wire' \in Seq(Command) /\ 1 \in Rcpt
      BY <1>1, <1>3, Commands, Names DEF Inv
    <2> QED BY <1>1, <1>3, <2>1 DEF Inv, TypeOK, session, server, State
  <1>5. StateInv'
    BY <1>1 DEF Inv, StateInv, session
  <1>6. ExchangeInv'
    <2>1. Pending(Due("RCPT"), Codes)'
      BY <1>1, <1>3 DEF Pending, Due
    <2> QED BY <1>1, <2>1 DEF ExchangeInv, Waiting, Awaits
  <1>7. TransactionInv'
    BY <1>1, <1>2, <1>3, Names DEF Inv, TransactionInv, Counted, Early, Content, server, Rcpts
  <1>8. QueueInv'
    BY DEF Inv, QueueInv, MessageInv, session, server, Rcpts
  <1>9. BatchInv'
    BY <1>1 DEF BatchInv, Batched, session
  <1> QED BY <1>4, <1>5, <1>6, <1>7, <1>8, <1>9 DEF Inv

\* One more reply to a recipient has been counted.
LEMMA CountFacts ==
    ASSUME Inv, ~Batched, state = "SentRcpt", replies # <<>>, Count
    PROVE  /\ cur \in Message /\ toIndex \in Rcpts(cur) /\ toIndex \in Nat
           /\ accepted' \in 0..toIndex /\ rejected' \subseteq 1..toIndex
           /\ rejected' = {} <=> accepted' = toIndex
           /\ srvFrom = cur /\ srvTo = (1..toIndex) \ rejected' /\ refused[cur] = rejected' /\ taken[cur] = {}
  <1>1. cur \in Message /\ cur # 0
    BY DEF Inv, StateInv, TypeOK
  <1>2. /\ toIndex \in Rcpts(cur) /\ Counted(toIndex - 1) /\ srvFrom = cur /\ taken[cur] = {}
        /\ IF code = "250" THEN srvTo = (1..toIndex) \ rejected /\ refused[cur] = rejected
                           ELSE /\ code = "550" /\ srvTo = (1..(toIndex - 1)) \ rejected
                                /\ refused[cur] = rejected \cup {toIndex}
    BY DEF Inv, TransactionInv, Batched
  <1>3. toIndex \in Nat \ {0}
    BY <1>1, <1>2, Names DEF Rcpts
  <1>4. /\ accepted \in 0..(toIndex - 1) /\ rejected \subseteq 1..(toIndex - 1)
        /\ rejected = {} <=> accepted = toIndex - 1
    BY <1>2 DEF Counted
  <1>5. CASE code = "250"
    <2>1. accepted' = accepted + 1 /\ rejected' = rejected
      BY <1>5 DEF Count, Positive, Final
    <2> QED BY <1>1, <1>2, <1>3, <1>4, <1>5, <2>1
  <1>6. CASE code # "250"
    <2>1. code = "550" /\ accepted' = accepted /\ rejected' = rejected \cup {toIndex}
      BY <1>2, <1>6 DEF Count, Positive, Final
    <2>2. srvTo = (1..toIndex) \ rejected'
      BY <1>2, <1>3, <1>4, <1>6, <2>1
    <2> QED BY <1>1, <1>2, <1>3, <1>4, <1>6, <2>1, <2>2
  <1> QED BY <1>5, <1>6

LEMMA RcptMoreInv == ASSUME Inv, ~Batched, RcptMore PROVE Inv'
  <1> USE DEF RcptMore, Quiet, Same, store
  <1>1. /\ wire = <<>> /\ replies # <<>> /\ replies' = <<>> /\ cur # 0 /\ cur \in Message
        /\ ~handshake /\ state = "SentRcpt" /\ pipe = FALSE
    BY OneReply DEF Batched, On, Waiting, Inv, StateInv
  <1>2. /\ toIndex \in Rcpts(cur) /\ toIndex \in Nat
        /\ accepted' \in 0..toIndex /\ rejected' \subseteq 1..toIndex
        /\ rejected' = {} <=> accepted' = toIndex
        /\ srvFrom = cur /\ srvTo = (1..toIndex) \ rejected' /\ refused[cur] = rejected' /\ taken[cur] = {}
    BY <1>1, CountFacts
  <1>3. toIndex' = toIndex + 1 /\ wire' = <<<<"RCPT", cur, toIndex'>>>> /\ timer' = "response"
    BY <1>1 DEF SendRcpt, Send
  <1>4. toIndex' \in Rcpts(cur) /\ toIndex' - 1 = toIndex
    BY <1>1, <1>2, <1>3, Names DEF Rcpts
  <1>5. TypeOK'
    <2>1. wire' \in Seq(Command) /\ toIndex' \in Rcpt
      BY <1>1, <1>3, <1>4, Commands, Names DEF Inv
    <2>2. accepted' \in Rcpt \cup {0} /\ rejected' \subseteq Rcpt
      <3>1. 1..toIndex \subseteq Rcpts(cur) /\ Rcpts(cur) \subseteq Rcpt
        BY <1>1, <1>2, Names DEF Rcpts
      <3> QED BY <1>2, <3>1
    <2> QED BY <1>1, <1>3, <2>1, <2>2 DEF Inv, TypeOK, session, server, State
  <1>6. StateInv'
    BY <1>1 DEF Inv, StateInv, session
  <1>7. ExchangeInv'
    <2>1. Pending(Due("RCPT"), Codes)'
      BY <1>1, <1>3 DEF Pending, Due
    <2> QED BY <1>1, <2>1 DEF ExchangeInv, Waiting, Awaits
  <1>8. TransactionInv'
    <2>1. Counted(toIndex - 1)'
      BY <1>2, <1>4 DEF Counted
    <2> QED BY <1>1, <1>2, <1>4, <2>1 DEF Inv, TransactionInv, Early, Content, server, Rcpts
  <1>9. QueueInv'
    BY DEF Inv, QueueInv, MessageInv, session, server, Rcpts
  <1>10. BatchInv'
    BY <1>1 DEF BatchInv, Batched, session
  <1> QED BY <1>5, <1>6, <1>7, <1>8, <1>9, <1>10 DEF Inv

\* The content is sent, all of it or as much as the socket takes.
LEMMA SendContentInv ==
    ASSUME Inv, SendContent, wire = <<>>, replies' = <<>>, cur # 0,
           state \in {"SentData", "Data"}, handshake = FALSE
    PROVE  Inv'
  <1> USE DEF SendContent, Goto, Same, store
  <1>1. /\ cur \in Message /\ Counted(To[cur]) /\ toIndex = To[cur] /\ refused[cur] = rejected
        /\ (setup.all => rejected = {}) /\ srvFrom = cur /\ srvTo = Rcpts(cur) \ rejected /\ taken[cur] = {}
    BY DEF Inv, TypeOK, TransactionInv, Content
  <1>2. /\ UNCHANGED <<cur, store, message, session, handshake, filter, server>> /\ timer' = "response"
        /\ \/ state' = "SentDot" /\ wire' = <<<<"EOT", cur, 0>>>> /\ blocked' = FALSE
           \/ state' = "Data" /\ wire' = <<>> /\ blocked' = TRUE
    BY DEF Send, Verb
  <1> HIDE DEF SendContent
  <1>3. TypeOK'
    <2>1. wire' \in Seq(Command)
      <3>1. <<"EOT", cur, 0>> \in Command
        BY Commands DEF Inv
      <3>2. <<<<"EOT", cur, 0>>>> \in Seq(Command) /\ <<>> \in Seq(Command)
        BY <3>1
      <3> QED BY <1>2, <3>2
    <2>2. state' \in State /\ blocked' \in BOOLEAN
      BY <1>2 DEF State
    <2> QED BY <1>2, <2>1, <2>2 DEF Inv, TypeOK, message, session, server
  <1>4. StateInv'
    BY <1>2 DEF Inv, StateInv, session
  <1>5. ExchangeInv'
    <2>1. CASE state' = "Data"
      BY <1>2, <2>1 DEF ExchangeInv, Silent, Waiting
    <2>2. CASE state' = "SentDot"
      <3>1. Pending(Due("EOT"), Codes)'
        BY <1>2, <2>2 DEF Pending, Due
      <3> QED BY <1>2, <2>2, <3>1 DEF ExchangeInv, Waiting, Awaits
    <2> QED BY <1>2, <2>1, <2>2
  <1>6. TransactionInv'
    BY <1>1, <1>2 DEF Inv, TransactionInv, Early, Content, message, server, session, Counted, Rcpts
  <1>7. QueueInv'
    BY <1>2 DEF Inv, QueueInv, MessageInv, session, server, Rcpts
  <1> QED BY <1>2, <1>3, <1>4, <1>5, <1>6, <1>7, NoBatch DEF Inv

LEMMA DataOkInv == ASSUME Inv, DataOk PROVE Inv'
  <1>1. CASE On({"SentData"}, {"354"}) /\ SendContent
    <2>1. wire = <<>> /\ replies' = <<>> /\ cur # 0 /\ state = "SentData" /\ handshake = FALSE
      BY <1>1, OneReply DEF Batched, On, Waiting, Inv, TypeOK
    <2> QED BY <1>1, <2>1, SendContentInv
  <1>2. CASE LastLineBlocked
    BY <1>2, GoneInv DEF LastLineBlocked, Throw
  <1> QED BY <1>1, <1>2 DEF DataOk

LEMMA UnblockedInv == ASSUME Inv, Unblocked PROVE Inv'
  <1>1. CASE state = "Data" /\ SendContent /\ UNCHANGED replies
    <2>1. wire = <<>> /\ replies' = <<>> /\ cur # 0 /\ handshake = FALSE
      BY <1>1 DEF Inv, ExchangeInv, StateInv, Silent, TypeOK
    <2> QED BY <1>1, <2>1, SendContentInv
  <1>2. CASE LastLineBlocked
    BY <1>2, GoneInv DEF LastLineBlocked, Throw
  <1> QED BY <1>1, <1>2 DEF Unblocked

LEMMA ChunkOkInv == ASSUME Inv, ChunkOk PROVE Inv'
  <1> USE DEF ChunkOk, Goto, Quiet, Same, store
  <1>1. /\ wire = <<>> /\ replies # <<>> /\ replies' = <<>> /\ cur # 0 /\ cur \in Message
        /\ ~handshake /\ state = "SentBdatMore"
    BY OneReply DEF Batched, On, Waiting
  <1>2. /\ Counted(To[cur]) /\ toIndex = To[cur] /\ refused[cur] = rejected
        /\ (setup.all => rejected = {}) /\ srvFrom = cur /\ srvTo = Rcpts(cur) \ rejected /\ taken[cur] = {}
    BY <1>1 DEF Inv, TransactionInv, Content
  <1>3. /\ timer' = "response"
        /\ \/ state' = "SentBdatLast" /\ wire' = <<<<"BDATLAST", cur, 0>>>>
           \/ state' = "SentBdatMore" /\ wire' = <<<<"BDAT", cur, 0>>>>
    BY <1>1 DEF Send, Verb
  <1>4. TypeOK'
    <2>1. wire' \in Seq(Command)
      <3>1. <<"BDATLAST", cur, 0>> \in Command /\ <<"BDAT", cur, 0>> \in Command
        BY Commands DEF Inv
      <3>2. <<<<"BDATLAST", cur, 0>>>> \in Seq(Command) /\ <<<<"BDAT", cur, 0>>>> \in Seq(Command)
        BY <3>1
      <3> QED BY <1>3, <3>2
    <2>2. state' \in State /\ chunk' \in 0..MaxChunks
      BY <1>3, ConstantsAssumption DEF State, Inv, TypeOK
    <2> QED BY <1>1, <1>3, <2>1, <2>2 DEF Inv, TypeOK, session, server
  <1>5. StateInv'
    BY <1>1, <1>3 DEF Inv, StateInv, session
  <1>6. ExchangeInv'
    <2>1. CASE state' = "SentBdatLast"
      <3>1. Pending(Due("BDATLAST"), Codes)'
        BY <1>1, <1>3, <2>1 DEF Pending, Due
      <3> QED BY <1>1, <2>1, <3>1 DEF ExchangeInv, Waiting, Awaits
    <2>2. CASE state' = "SentBdatMore"
      <3>1. Pending(Due("BDAT"), Codes)'
        BY <1>1, <1>3, <2>2 DEF Pending, Due
      <3> QED BY <1>1, <2>2, <3>1 DEF ExchangeInv, Waiting, Awaits
    <2> QED BY <1>3, <2>1, <2>2
  <1>7. TransactionInv'
    BY <1>1, <1>2, <1>3 DEF Inv, TransactionInv, Early, Content, server, session, Counted, Rcpts
  <1>8. QueueInv'
    BY DEF Inv, QueueInv, MessageInv, session, server, Rcpts
  <1> QED BY <1>3, <1>4, <1>5, <1>6, <1>7, <1>8, NoBatch DEF Inv

-----------------------------------------------------------------------------
(* Time, the server and the end.                                           *)

\* Sequences of two.
LEMMA Pair == ASSUME NEW S, NEW a \in S, NEW b \in S PROVE <<a>> \o <<b>> = <<a, b>>
  <1>1. <<a>> \in Seq(S) /\ <<b>> \in Seq(S) /\ <<a, b>> \in Seq(S) /\ Len(<<a, b>>) = 2
    OBVIOUS
  <1>2. Len(<<a>> \o <<b>>) = 2 /\ <<a>> \o <<b>> \in Seq(S)
    BY <1>1
  <1>3. (<<a>> \o <<b>>)[1] = a /\ (<<a>> \o <<b>>)[2] = b
    BY <1>1
  <1>4. \A i \in 1..2 : (<<a>> \o <<b>>)[i] = <<a, b>>[i]
    BY <1>3
  <1> QED BY <1>1, <1>2, <1>4, SeqEqual

LEMMA AppendPair == ASSUME NEW S, NEW a \in S, NEW b \in S PROVE Append(<<a>>, b) = <<a, b>>
  <1>1. <<a>> \in Seq(S) /\ <<a, b>> \in Seq(S) /\ Len(<<a, b>>) = 2
    OBVIOUS
  <1>2. Len(Append(<<a>>, b)) = 2 /\ Append(<<a>>, b) \in Seq(S)
    BY <1>1
  <1>3. Append(<<a>>, b)[1] = a /\ Append(<<a>>, b)[2] = b
    BY <1>1
  <1>4. \A i \in 1..2 : Append(<<a>>, b)[i] = <<a, b>>[i]
    BY <1>3
  <1> QED BY <1>1, <1>2, <1>4, SeqEqual

LEMMA TimeoutInv == ASSUME Inv, Timeout PROVE Inv'
  <1>1. CASE Throw
    <2>1. Gone("failed")
      BY <1>1 DEF Throw
    <2> QED BY <2>1, GoneInv
  <1>2. ASSUME state = "Started", Goto("SentEhlo"), Send(Verb("EHLO")), Quiet, Same,
               UNCHANGED <<message, session, replies, server>>
        PROVE  Inv'
    <2> USE <1>2 DEF Goto, Quiet, Same, store
    <2>1. cur # 0 /\ cur \in Message /\ ~handshake /\ Pending(Connecting, Greetings)
      BY DEF Inv, ExchangeInv, StateInv, TypeOK
    <2>2. wire' = wire \o <<<<"EHLO", cur, 0>>>> /\ timer' = "response"
      BY DEF Send, Verb
    <2>3. TypeOK'
      <3>1. wire' \in Seq(Command)
        <4>1. <<<<"EHLO", cur, 0>>>> \in Seq(Command)
          <5>1. <<"EHLO", cur, 0>> \in Command
            BY Commands DEF Inv
          <5> QED BY <5>1
        <4>2. wire \in Seq(Command)
          BY DEF Inv, TypeOK
        <4> QED BY <2>2, <4>1, <4>2
      <3> QED BY <2>2, <3>1 DEF Inv, TypeOK, message, session, server, State
    <2>4. StateInv'
      BY <2>1 DEF Inv, StateInv, session
    <2>5. ExchangeInv'
      <3>1. Late(Connecting, Greetings, Due("EHLO"))'
        <4>1. CASE wire = <<Connecting>> /\ replies = <<>>
          <5>1. Connecting \in Command /\ <<"EHLO", cur, 0>> \in Command
            BY Commands DEF Inv
          <5>2. wire' = <<Connecting, <<"EHLO", cur, 0>>>>
            BY <2>2, <4>1, <5>1, Pair
          <5> QED BY <4>1, <5>2 DEF Late, Due
        <4>2. CASE wire = <<>> /\ \E x \in Greetings : replies = <<<<Connecting, x>>>>
          BY <2>2, <4>2 DEF Late, Due
        <4> QED BY <2>1, <4>1, <4>2 DEF Pending
      <3> QED BY <2>1, <3>1 DEF ExchangeInv, Waiting
    <2>6. TransactionInv' /\ QueueInv'
      BY <2>1, EarlyInv DEF session, Early
    <2> QED BY <2>3, <2>4, <2>5, <2>6, NoBatch DEF Inv
  <1> QED BY <1>1, <1>2 DEF Timeout

\* What the server does with a command, the current message's transaction aside.
LEMMA ServeTypes ==
    ASSUME Inv, Serve
    PROVE  /\ \E x \in Codes : replies' = Append(replies, <<Head(wire), x>>)
           /\ Head(wire) \in Command /\ wire' = Tail(wire)
           /\ wire' \in Seq(Command) /\ replies' \in Seq(Command \X Codes)
  <1>1. /\ Head(wire) \in Command /\ Tail(wire) \in Seq(Command)
        /\ replies \in Seq(Command \X Codes) /\ wire' = Tail(wire)
    BY DEF Inv, TypeOK, Serve
  <1>2. PICK x \in Answers(Head(wire)[1], Head(wire)[3]) : replies' = Append(replies, <<Head(wire), x>>)
    BY DEF Serve
  <1>3. Answers(Head(wire)[1], Head(wire)[3]) \subseteq Codes
    BY DEF Answers, Codes
  <1>4. x \in Codes
    BY <1>2, <1>3
  <1> QED BY <1>1, <1>2, <1>4

\* The server answers what was sent before anything is said of the message.
LEMMA ServeFirst ==
    ASSUME Inv, Serve, state \in {"Started", "SentEhlo"}
    PROVE  /\ ExchangeInv' /\ taken' = taken /\ refused' = refused
           /\ srvFrom' \in Message \cup {0} /\ srvTo' \subseteq Rcpt
  <1> USE DEF Serve, message, session, store
  <1>1. ~handshake /\ cur # 0
    BY DEF Inv, StateInv
  <1>2. PICK x \in Answers(Head(wire)[1], Head(wire)[3]) :
            replies' = Append(replies, <<Head(wire), x>>) /\ wire' = Tail(wire)
    OBVIOUS
  <1>3. x \in Codes
    BY DEF Answers, Codes
  <1>4. Due("EHLO")' = Due("EHLO") /\ Due("EHLO")[1] = "EHLO" /\ Connecting[1] = "CONNECT"
    BY DEF Due, Connecting
  <1>5. CASE state = "Started"
    <2>1. wire = <<Connecting>> /\ replies = <<>>
      BY <1>5 DEF Inv, ExchangeInv, Pending
    <2>2. Head(wire) = Connecting /\ Head(wire)[1] = "CONNECT" /\ x \in Greetings
      BY <2>1, <1>2, <1>4 DEF Answers, Greetings
    <2>3. wire' = <<>> /\ replies' = <<<<Connecting, x>>>>
      BY <2>1, <2>2, <1>2
    <2>4. Pending(Connecting, Greetings)'
      BY <2>2, <2>3 DEF Pending
    <2>5. ExchangeInv'
      BY <1>1, <1>5, <2>4 DEF ExchangeInv, Waiting
    <2> QED BY <2>2, <2>5 DEF Inv, TypeOK
  <1>6. CASE state = "SentEhlo"
    <2>1. CASE Pending(Due("EHLO"), Codes)
      <3>1. wire = <<Due("EHLO")>> /\ replies = <<>>
        BY <2>1 DEF Pending
      <3>2. Head(wire) = Due("EHLO") /\ Head(wire)[1] = "EHLO"
        BY <3>1, <1>4
      <3>3. wire' = <<>> /\ replies' = <<<<Due("EHLO"), x>>>>
        BY <3>1, <3>2, <1>2
      <3>4. Pending(Due("EHLO"), Codes)'
        BY <1>3, <1>4, <3>3 DEF Pending
      <3>5. ExchangeInv'
        BY <1>1, <1>6, <3>4 DEF ExchangeInv, Waiting
      <3> QED BY <3>2, <3>5 DEF Inv, TypeOK
    <2>2. CASE wire = <<Connecting, Due("EHLO")>> /\ replies = <<>>
      <3>1. Head(wire) = Connecting /\ Head(wire)[1] = "CONNECT" /\ x \in Greetings
        BY <2>2, <1>2, <1>4 DEF Answers, Greetings
      <3>2. wire' = <<Due("EHLO")>> /\ replies' = <<<<Connecting, x>>>>
        BY <2>2, <3>1, <1>2
      <3>3. Late(Connecting, Greetings, Due("EHLO"))'
        BY <1>4, <3>1, <3>2 DEF Late
      <3>4. ExchangeInv'
        BY <1>1, <1>6, <3>3 DEF ExchangeInv, Waiting
      <3> QED BY <3>1, <3>4 DEF Inv, TypeOK
    <2>3. CASE wire = <<Due("EHLO")>> /\ \E y \in Greetings : replies = <<<<Connecting, y>>>>
      <3>1. PICK y \in Greetings : replies = <<<<Connecting, y>>>>
        BY <2>3
      <3>2. Head(wire) = Due("EHLO") /\ Head(wire)[1] = "EHLO"
        BY <2>3, <1>4
      <3>3. wire' = <<>> /\ replies' = <<<<Connecting, y>>, <<Due("EHLO"), x>>>>
        <4>1. <<Connecting, y>> \in Command \X Codes /\ <<Due("EHLO"), x>> \in Command \X Codes
          BY <3>1, <1>3, Commands DEF Inv, Due, Greetings, Codes
        <4>2. wire' = <<>>
          BY <2>3, <1>2
        <4> QED BY <3>1, <3>2, <1>2, <4>1, <4>2, AppendPair
      <3>4. Late(Connecting, Greetings, Due("EHLO"))'
        BY <1>3, <1>4, <3>3 DEF Late
      <3>5. ExchangeInv'
        BY <1>1, <1>6, <3>4 DEF ExchangeInv, Waiting
      <3> QED BY <3>2, <3>5 DEF Inv, TypeOK
    <2> QED BY <1>6, <2>1, <2>2, <2>3 DEF Inv, ExchangeInv, Late
  <1> QED BY <1>5, <1>6

LEMMA ServeInv == ASSUME Inv, ~Batched, Serve PROVE Inv'
  <1> USE DEF message, session, store
  <1>0. UNCHANGED <<state, cur, message, session, handshake, filter, timer, blocked, store>>
    BY DEF Serve
  <1>1. StateInv'
    BY <1>0 DEF Inv, StateInv
  <1>4. BatchInv'
    BY <1>0 DEF BatchInv, Batched
  <1>2. CASE state \in {"Started", "SentEhlo"}
    <2>1. /\ ExchangeInv' /\ taken' = taken /\ refused' = refused
          /\ srvFrom' \in Message \cup {0} /\ srvTo' \subseteq Rcpt
      BY <1>2, ServeFirst
    <2>2. TypeOK'
      BY <1>0, <2>1, ServeTypes DEF Inv, TypeOK
    <2>3. TransactionInv'
      BY <1>0, <1>2, <2>1 DEF Inv, TransactionInv, Early, Content, Rcpts
    <2>4. QueueInv'
      BY <1>0, <2>1 DEF Inv, QueueInv, MessageInv, Rcpts
    <2> QED BY <1>1, <2>1, <2>2, <2>3, <2>4, <1>4 DEF Inv
  <1>3. CASE state \notin {"Started", "SentEhlo"}
    <2>1. state \in Waiting /\ ~handshake /\ cur \in Message /\ cur # 0 /\ replies = <<>>
      BY <1>3, OneCommand, Names DEF Serve
    <2>2. PICK v \in Awaits[state] : wire = <<Due(v)>>
      BY <1>3, OneCommand DEF Serve
    <2>3. Head(wire) = Due(v) /\ Due(v)[1] = v /\ Due(v)[2] = cur
          /\ (state = "SentRcpt" => Due(v)[3] = toIndex)
      BY <2>2 DEF Due
    <2>4. PICK x \in Answers(v, Due(v)[3]) :
            /\ replies' = <<<<Due(v), x>>>> /\ wire' = <<>>
            /\ srvFrom' = CASE v = "MAIL" -> IF x = "250" THEN cur ELSE 0
                            [] v \in {"RSET", "EOT", "BDATLAST", "EHLO"} -> 0
                            [] OTHER -> srvFrom
            /\ srvTo' = CASE v = "RCPT" /\ x = "250" -> srvTo \cup {Due(v)[3]}
                          [] v \in {"MAIL", "RSET", "EOT", "BDATLAST", "EHLO"} -> {}
                          [] OTHER -> srvTo
            /\ taken' = IF v \in {"EOT", "BDATLAST"} /\ x = "250"
                        THEN [taken EXCEPT ![srvFrom] = srvTo] ELSE taken
            /\ refused' = IF v = "RCPT" /\ x # "250" /\ srvFrom # 0
                          THEN [refused EXCEPT ![cur] = @ \cup {Due(v)[3]}] ELSE refused
      <3>1. PICK x \in Answers(v, Due(v)[3]) :
            /\ replies' = Append(replies, <<Due(v), x>>) /\ wire' = Tail(wire)
            /\ srvFrom' = CASE v = "MAIL" -> IF x = "250" THEN cur ELSE 0
                            [] v \in {"RSET", "EOT", "BDATLAST", "EHLO"} -> 0
                            [] OTHER -> srvFrom
            /\ srvTo' = CASE v = "RCPT" /\ x = "250" -> srvTo \cup {Due(v)[3]}
                          [] v \in {"MAIL", "RSET", "EOT", "BDATLAST", "EHLO"} -> {}
                          [] OTHER -> srvTo
            /\ taken' = IF v \in {"EOT", "BDATLAST"} /\ x = "250"
                        THEN [taken EXCEPT ![srvFrom] = srvTo] ELSE taken
            /\ refused' = IF v = "RCPT" /\ x # "250" /\ srvFrom # 0
                          THEN [refused EXCEPT ![cur] = @ \cup {Due(v)[3]}] ELSE refused
        BY <2>3 DEF Serve
      <3>2. Append(replies, <<Due(v), x>>) = <<<<Due(v), x>>>> /\ Tail(wire) = <<>>
        BY <2>1, <2>2
      <3> QED BY <3>1, <3>2
    <2>5. /\ code' = x /\ replies' # <<>> /\ x \in Codes
          /\ v \in {"MAIL", "EOT", "BDATLAST"} => x \in {"250", "550"}
          /\ v = "RCPT" /\ srvFrom # 0 => x \in {"250", "550"}
      BY <2>4 DEF code, Answers, Codes
    <2> HIDE DEF Due
    <2>6. ExchangeInv'
      <3>1. Due(v)' = Due(v)
        BY <1>0 DEF Due
      <3>2. Pending(Due(v), Codes)'
        BY <2>4, <2>5, <3>1 DEF Pending
      <3>3. state' = state /\ v \in Awaits[state'] /\ handshake' = handshake /\ cur' = cur
        BY <1>0
      <3> QED BY <1>3, <2>1, <3>2, <3>3 DEF ExchangeInv, Waiting
    <2>7. CASE state = "SentRcpt"
      <3>1. /\ toIndex \in Rcpts(cur) /\ Counted(toIndex - 1) /\ srvFrom = cur /\ taken[cur] = {}
            /\ srvTo = (1..(toIndex - 1)) \ rejected /\ refused[cur] = rejected
        BY <2>1, <2>7 DEF Inv, TransactionInv, Batched
      <3>2. v = "RCPT"
        BY <2>7 DEF Awaits
      <3>3. /\ taken' = taken /\ srvFrom' = srvFrom
            /\ srvTo' = IF x = "250" THEN srvTo \cup {toIndex} ELSE srvTo
            /\ refused' = IF x = "250" THEN refused ELSE [refused EXCEPT ![cur] = @ \cup {toIndex}]
            /\ x \in {"250", "550"}
        BY <2>1, <2>3, <2>4, <2>5, <2>7, <3>1, <3>2
      <3>4. TypeOK'
        <4>1. toIndex \in Rcpt
          BY <2>1, <3>1, Names
        <4>2. srvTo' \subseteq Rcpt /\ refused' \in [Message -> SUBSET Rcpt]
          BY <3>3, <4>1 DEF Inv, TypeOK
        <4>3. \A m \in Message : refused'[m] \subseteq Rcpts(m)
          BY <2>1, <3>1, <3>3 DEF Inv, TypeOK
        <4> QED BY <1>0, <3>3, <4>2, <4>3, ServeTypes DEF Inv, TypeOK, Rcpts
      <3>5. TransactionInv'
        <4>1. toIndex \in Nat \ {0} /\ rejected \subseteq 1..(toIndex - 1)
          BY <2>1, <3>1, Names DEF Rcpts, Counted
        <4>2. IF x = "250" THEN srvTo' = (1..toIndex) \ rejected /\ refused'[cur] = rejected
              ELSE srvTo' = (1..(toIndex - 1)) \ rejected /\ refused'[cur] = rejected \cup {toIndex}
          BY <2>1, <3>1, <3>3, <4>1 DEF Inv, TypeOK
        <4> QED BY <1>0, <2>1, <2>5, <2>7, <3>1, <3>3, <4>2
                DEF Inv, TransactionInv, Early, Content, Counted, Rcpts
      <3>6. QueueInv'
        <4> SUFFICES ASSUME NEW m \in Message PROVE MessageInv(m)'
          BY DEF QueueInv
        <4>1. MessageInv(m)
          BY DEF Inv, QueueInv
        <4>2. m # cur => refused'[m] = refused[m]
          BY <3>3 DEF Inv, TypeOK
        <4> QED BY <1>0, <2>1, <3>3, <4>1, <4>2 DEF MessageInv, Rcpts
      <3> QED BY <1>1, <2>6, <3>4, <3>5, <3>6, <1>4 DEF Inv
    <2>8. CASE state \in {"SentDot", "SentBdatLast"}
      <3>1. /\ srvFrom = cur /\ srvTo = Rcpts(cur) \ rejected /\ taken[cur] = {} /\ (setup.all => rejected = {})
        BY <2>1, <2>8 DEF Inv, TransactionInv, Content
      <3>2. v \in {"EOT", "BDATLAST"}
        BY <2>8 DEF Awaits
      <3>3. /\ refused' = refused /\ srvFrom' = 0 /\ srvTo' = {}
            /\ taken' = IF x = "250" THEN [taken EXCEPT ![cur] = Rcpts(cur) \ rejected] ELSE taken
            /\ x \in {"250", "550"}
        BY <2>4, <2>5, <3>1, <3>2
      <3>4. /\ taken'[cur] = IF x = "250" THEN Rcpts(cur) \ rejected ELSE {}
            /\ \A m \in Message \ {cur} : taken'[m] = taken[m]
        BY <2>1, <3>1, <3>3 DEF Inv, TypeOK
      <3>5. TypeOK'
        <4>1. Rcpts(cur) \ rejected \subseteq Rcpt
          BY <2>1, Names
        <4>2. taken' \in [Message -> SUBSET Rcpt]
          BY <3>3, <4>1 DEF Inv, TypeOK
        <4>3. \A m \in Message : taken'[m] \subseteq Rcpts(m)
          BY <2>1, <3>4 DEF Inv, TypeOK
        <4> QED BY <1>0, <3>3, <4>2, <4>3, ServeTypes DEF Inv, TypeOK, Rcpts
      <3>6. TransactionInv'
        BY <1>0, <2>1, <2>5, <2>8, <3>1, <3>3, <3>4 DEF Inv, TransactionInv, Early, Content, Counted, Rcpts
      <3>7. QueueInv'
        <4> SUFFICES ASSUME NEW m \in Message PROVE MessageInv(m)'
          BY DEF QueueInv
        <4>1. MessageInv(m)
          BY DEF Inv, QueueInv
        <4>2. setup.all => taken'[cur] \in {{}, Rcpts(cur)}
          BY <3>1, <3>4
        <4> QED BY <1>0, <2>1, <3>3, <3>4, <4>1, <4>2 DEF MessageInv, Rcpts
      <3> QED BY <1>1, <2>6, <3>5, <3>6, <3>7, <1>4 DEF Inv
    <2>9. CASE state \notin {"SentRcpt", "SentDot", "SentBdatLast"}
      <3>1. v \notin {"RCPT", "EOT", "BDATLAST"}
        BY <2>1, <2>9 DEF Waiting, Awaits
      <3>2. /\ taken' = taken /\ refused' = refused
            /\ srvTo' = IF v \in {"MAIL", "RSET", "EHLO"} THEN {} ELSE srvTo
            /\ srvFrom' = IF v = "MAIL" /\ x = "250" THEN cur
                          ELSE IF v \in {"MAIL", "RSET", "EHLO"} THEN 0 ELSE srvFrom
        BY <2>4, <3>1
      <3>3. TypeOK'
        <4>1. srvFrom' \in Message \cup {0} /\ srvTo' \subseteq Rcpt
          BY <2>1, <3>2 DEF Inv, TypeOK
        <4> QED BY <1>0, <3>2, <4>1, ServeTypes DEF Inv, TypeOK, Rcpts
      <3>4. /\ state = "SentMail" => v = "MAIL"
            /\ state \in Content => v \notin {"MAIL", "RSET", "EHLO"}
        BY <2>1, <2>9 DEF Waiting, Content, Awaits
      <3>5. TransactionInv'
        BY <1>0, <2>1, <2>5, <2>9, <3>2, <3>4 DEF Inv, TransactionInv, Early, Content, Counted, Rcpts
      <3>6. QueueInv'
        BY <1>0, <3>2 DEF Inv, QueueInv, MessageInv, Rcpts
      <3> QED BY <1>1, <2>6, <3>3, <3>5, <3>6, <1>4 DEF Inv
    <2> QED BY <2>7, <2>8, <2>9
  <1> QED BY <1>2, <1>3

-----------------------------------------------------------------------------
(* The commands of a batch, of which the replies come one after the other.                *)

\* What appending to a sequence and taking its head do.
LEMMA AppendFacts ==
    ASSUME NEW S, NEW s \in Seq(S), NEW e \in S
    PROVE  /\ Append(s, e) \in Seq(S) /\ Append(s, e) # <<>> /\ Len(Append(s, e)) = Len(s) + 1 /\ Len(s) \in Nat
           /\ Append(s, e)[Len(s) + 1] = e /\ \A j \in 1..Len(s) : Append(s, e)[j] = s[j]
  OBVIOUS

LEMMA TailFacts ==
    ASSUME NEW S, NEW s \in Seq(S), s # <<>>
    PROVE  /\ Tail(s) \in Seq(S) /\ Len(Tail(s)) = Len(s) - 1 /\ Len(s) \in Nat \ {0}
           /\ Head(s) = s[1] /\ \A j \in 1..(Len(s) - 1) : Tail(s)[j] = s[j + 1]
  OBVIOUS

LEMMA ConcatFacts ==
    ASSUME NEW S, NEW s \in Seq(S), NEW t \in Seq(S)
    PROVE  /\ s \o t \in Seq(S) /\ Len(s \o t) = Len(s) + Len(t) /\ Len(s) \in Nat /\ Len(t) \in Nat
           /\ \A j \in 1..Len(s) : (s \o t)[j] = s[j]
           /\ \A j \in (Len(s) + 1)..(Len(s) + Len(t)) : (s \o t)[j] = t[j - Len(s)]
  OBVIOUS

\* A batch that is under way.
LEMMA BatchFacts ==
    ASSUME Inv, Batched
    PROVE  /\ cur \in Message /\ cur # 0 /\ To[cur] \in Nat \ {0} /\ Rcpts(cur) = 1..To[cur]
           /\ toIndex \in 0..To[cur] /\ accepted \in 0..toIndex /\ rejected \subseteq 1..(toIndex - 1)
           /\ state = "SentRcpt" => toIndex # 0 /\ Counted(toIndex - 1) /\ srvFrom = cur
           /\ state # "SentRcpt" => state = "SentMail" /\ toIndex = 0 /\ accepted = 0 /\ rejected = {}
           /\ taken[cur] = {} /\ handshake = FALSE /\ filter = FALSE /\ blocked = FALSE /\ pipe = TRUE
           /\ wire \in Seq(Command) /\ Len(wire) \in Nat
           /\ replies \in Seq(Command \X Codes) /\ Len(replies) \in Nat
  <1>1. cur \in Message /\ cur # 0 /\ handshake = FALSE /\ filter = FALSE /\ blocked = FALSE /\ pipe = TRUE
    BY DEF Inv, TypeOK, StateInv, Batched
  <1>2. To[cur] \in Nat \ {0} /\ Rcpts(cur) = 1..To[cur]
    BY <1>1, Names DEF Rcpts
  <1>3. /\ wire \in Seq(Command) /\ Len(wire) \in Nat
        /\ replies \in Seq(Command \X Codes) /\ Len(replies) \in Nat
    BY DEF Inv, TypeOK
  <1>4. CASE state = "SentRcpt"
    <2>1. toIndex \in Rcpts(cur) /\ Counted(toIndex - 1) /\ srvFrom = cur /\ taken[cur] = {}
      BY <1>4 DEF Inv, TransactionInv
    <2>2. toIndex \in 1..To[cur] /\ accepted \in 0..(toIndex - 1) /\ rejected \subseteq 1..(toIndex - 1)
      BY <1>2, <2>1 DEF Counted
    <2> QED BY <1>1, <1>2, <1>3, <1>4, <2>1, <2>2
  <1>5. CASE state = "SentMail"
    <2>1. toIndex = 0 /\ accepted = 0 /\ rejected = {} /\ taken[cur] = {}
      BY <1>1, <1>5 DEF Inv, TransactionInv, Early
    <2> QED BY <1>1, <1>2, <1>3, <1>5, <2>1
  <1> QED BY <1>4, <1>5 DEF Batched

\* The batch is sent.
LEMMA FilterOkBatch == ASSUME Inv, pipe, FilterOk PROVE Inv'
  <1> USE DEF FilterOk, Goto
  <1>1. /\ state = "Filtering" /\ cur # 0 /\ cur \in Message /\ Silent /\ ~handshake /\ ~blocked
        /\ rejected = {} /\ refused[cur] = {} /\ taken[cur] = {} /\ handshake = FALSE /\ blocked = FALSE
    BY FilteringFacts
  <1>2. CASE state' = "MessageDone" /\ Unsent /\ UNCHANGED wire
    BY <1>1, <1>2, UnsentInv DEF Silent
  <1>3. ASSUME state' = "SentMail", Same,
               Send(Verb("MAIL") \o IF pipe THEN [i \in Rcpts(cur) |-> <<"RCPT", cur, i>>] ELSE <<>>)
        PROVE  Inv'
    <2> DEFINE rs == [i \in Rcpts(cur) |-> <<"RCPT", cur, i>>]
               ms == <<<<"MAIL", cur, 0>>>>
    <2> USE <1>3 DEF Same, store
    <2>1. To[cur] \in Nat \ {0} /\ Rcpts(cur) = 1..To[cur] /\ toIndex = 0 /\ accepted = 0
      BY <1>1, Names DEF Rcpts, Inv, TransactionInv, Early
    <2>2. rs \in Seq(Command) /\ Len(rs) = To[cur] /\ \A i \in 1..To[cur] : rs[i] = <<"RCPT", cur, i>>
      <3>1. \A i \in Rcpts(cur) : <<"RCPT", cur, i>> \in Command
        BY <1>1, Names, Commands DEF Inv
      <3> QED BY <2>1, <3>1
    <2>3. ms \in Seq(Command) /\ Len(ms) = 1 /\ ms[1] = <<"MAIL", cur, 0>>
      <3>1. <<"MAIL", cur, 0>> \in Command
        BY Commands DEF Inv
      <3> QED BY <3>1
    <2>4. wire' = <<>> \o (ms \o rs) /\ timer' = "response" /\ replies' = <<>>
      BY <1>1 DEF Send, Verb, Silent
    <2> HIDE DEF rs, ms
    <2>5. ms \o rs \in Seq(Command)
      BY <2>2, <2>3
    <2>6. wire' = ms \o rs
      BY <2>4, <2>5
    <2>7. /\ wire' \in Seq(Command) /\ Len(wire') = To[cur] + 1
          /\ \A j \in 1..(To[cur] + 1) : wire'[j] = Nth(j - 1)
      <3>0. /\ Len(ms \o rs) = Len(ms) + Len(rs) /\ \A j \in 1..Len(ms) : (ms \o rs)[j] = ms[j]
            /\ \A j \in (Len(ms) + 1)..(Len(ms) + Len(rs)) : (ms \o rs)[j] = rs[j - Len(ms)]
        BY <2>2, <2>3, ConcatFacts
      <3>1. Len(wire') = 1 + To[cur] /\ wire'[1] = ms[1]
        BY <2>1, <2>2, <2>3, <2>6, <3>0
      <3>2. \A j \in 2..(To[cur] + 1) : wire'[j] = rs[j - 1]
        BY <2>1, <2>2, <2>3, <2>6, <3>0
      <3>3. ASSUME NEW j \in 1..(To[cur] + 1) PROVE wire'[j] = Nth(j - 1)
        <4>1. CASE j = 1
          BY <2>3, <3>1, <4>1 DEF Nth
        <4>2. CASE j # 1
          <5>1. j \in 2..(To[cur] + 1) /\ j - 1 \in 1..To[cur] /\ j - 1 # 0
            BY <2>1, <4>2
          <5> QED BY <2>2, <3>2, <5>1 DEF Nth
        <4> QED BY <4>1, <4>2
      <3> QED BY <2>1, <2>5, <2>6, <3>1, <3>3
    <2>8. TypeOK'
      BY <2>4, <2>7 DEF Inv, TypeOK, message, session, server, State
    <2>9. StateInv'
      BY <1>1 DEF Inv, StateInv, session
    <2>10. ExchangeInv'
      BY <1>1 DEF ExchangeInv, Waiting, Batched, session
    <2>11. TransactionInv' /\ QueueInv'
      BY <1>1, <2>4, EarlyInv DEF session, Early
    <2>12. BatchInv'
      <3>1. UNCHANGED <<cur, toIndex, refused>>
        BY DEF message, server
      <3>2. \A i \in Nat : Nth(i)' = Nth(i)
        BY <3>1 DEF Nth
      <3>3. Len(replies') = 0 /\ \A j \in 1..Len(replies') : FALSE
        BY <2>4
      <3>4. Len(replies') + Len(wire') = To[cur'] + 1 - toIndex'
        BY <2>1, <2>7, <3>1, <3>3
      <3>5. \A j \in 1..Len(wire') : wire'[j] = Nth(toIndex + Len(replies) + j - 1)'
        BY <2>1, <2>7, <3>1, <3>2, <3>3
      <3> QED BY <1>1, <2>4, <3>1, <3>3, <3>4, <3>5 DEF BatchInv
    <2> QED BY <2>8, <2>9, <2>10, <2>11, <2>12 DEF Inv
  <1> QED BY <1>2, <1>3

\* The server answers the next command of a batch.
LEMMA ServeBatch == ASSUME Inv, Batched, Serve PROVE Inv'
  <1> DEFINE i == toIndex + Len(replies)
  <1> USE DEF message, session, store
  <1>1. UNCHANGED <<state, cur, message, session, handshake, filter, timer, blocked, store>>
    BY DEF Serve
  <1>2. /\ cur \in Message /\ cur # 0 /\ To[cur] \in Nat \ {0} /\ Rcpts(cur) = 1..To[cur]
        /\ toIndex \in 0..To[cur] /\ rejected \subseteq 1..(toIndex - 1)
        /\ state = "SentRcpt" => toIndex # 0 /\ srvFrom = cur
        /\ state # "SentRcpt" => state = "SentMail" /\ toIndex = 0 /\ rejected = {}
        /\ taken[cur] = {} /\ handshake = FALSE
        /\ wire \in Seq(Command) /\ Len(wire) \in Nat
        /\ replies \in Seq(Command \X Codes) /\ Len(replies) \in Nat
    BY BatchFacts
  <1>3. /\ Len(replies) + Len(wire) = To[cur] + 1 - toIndex
        /\ \A j \in 1..Len(replies) : replies[j][1] = Nth(toIndex + j - 1) /\ replies[j][2] \in {"250", "550"}
        /\ \A j \in 1..Len(wire) : wire[j] = Nth(toIndex + Len(replies) + j - 1)
    BY DEF Inv, BatchInv
  <1>4. /\ wire # <<>> /\ wire' = Tail(wire) /\ Tail(wire) \in Seq(Command) /\ Len(wire) >= 1
        /\ Len(wire') = Len(wire) - 1 /\ Head(wire) = wire[1]
        /\ \A j \in 1..Len(wire') : wire'[j] = wire[j + 1]
    BY <1>2 DEF Serve
  <1>5. i \in 0..To[cur] /\ Head(wire) = Nth(i)
    BY <1>2, <1>3, <1>4
  <1>6. PICK x \in Answers(Nth(i)[1], Nth(i)[3]) :
          /\ replies' = Append(replies, <<Nth(i), x>>)
          /\ srvFrom' = CASE Nth(i)[1] = "MAIL" -> IF x = "250" THEN Nth(i)[2] ELSE 0
                          [] Nth(i)[1] \in {"RSET", "EOT", "BDATLAST", "EHLO"} -> 0
                          [] OTHER -> srvFrom
          /\ srvTo' = CASE Nth(i)[1] = "RCPT" /\ x = "250" -> srvTo \cup {Nth(i)[3]}
                        [] Nth(i)[1] \in {"MAIL", "RSET", "EOT", "BDATLAST", "EHLO"} -> {}
                        [] OTHER -> srvTo
          /\ taken' = IF Nth(i)[1] \in {"EOT", "BDATLAST"} /\ x = "250"
                      THEN [taken EXCEPT ![srvFrom] = srvTo] ELSE taken
          /\ refused' = IF Nth(i)[1] = "RCPT" /\ x # "250" /\ srvFrom # 0
                        THEN [refused EXCEPT ![Nth(i)[2]] = @ \cup {Nth(i)[3]}] ELSE refused
    BY <1>5 DEF Serve
  <1> HIDE DEF i
  <1>7. /\ Nth(i)[2] = cur /\ taken' = taken
        /\ IF i = 0
           THEN /\ x \in {"250", "550"} /\ refused' = refused
                /\ srvFrom' = (IF x = "250" THEN cur ELSE 0) /\ srvTo' = {}
           ELSE /\ srvFrom' = srvFrom /\ srvTo' = (IF x = "250" THEN srvTo \cup {i} ELSE srvTo)
                /\ x \in (IF srvFrom = 0 THEN {"550"} ELSE {"250", "550"})
                /\ refused' = IF x # "250" /\ srvFrom # 0
                              THEN [refused EXCEPT ![cur] = @ \cup {i}] ELSE refused
    <2>1. CASE i = 0
      <3>1. Nth(i)[1] = "MAIL" /\ Nth(i)[2] = cur
        BY <2>1 DEF Nth
      <3> QED BY <1>6, <2>1, <3>1 DEF Answers
    <2>2. CASE i # 0
      <3>1. Nth(i)[1] = "RCPT" /\ Nth(i)[2] = cur /\ Nth(i)[3] = i
        BY <2>2 DEF Nth
      <3> QED BY <1>6, <2>2, <3>1 DEF Answers
    <2> QED BY <2>1, <2>2
  <1>8. x \in {"250", "550"} /\ x \in Codes /\ Nth(i) \in Command
    <2>1. Nth(i) \in Command
      BY <1>4, <1>5, <1>2
    <2> QED BY <1>7, <2>1 DEF Codes
  <1>9. /\ replies' \in Seq(Command \X Codes) /\ replies' # <<>> /\ Len(replies') = Len(replies) + 1
        /\ replies'[Len(replies) + 1] = <<Nth(i), x>> /\ \A j \in 1..Len(replies) : replies'[j] = replies[j]
    <2>1. <<Nth(i), x>> \in Command \X Codes
      BY <1>8
    <2> QED BY <1>2, <1>6, <2>1, AppendFacts
  <1>10. TypeOK'
    <2>1. srvFrom' \in Message \cup {0}
      BY <1>2, <1>7 DEF Inv, TypeOK
    <2>2. i # 0 => i \in Rcpts(cur) /\ i \in Rcpt
      BY <1>2, <1>5, Names
    <2>3. srvTo' \subseteq Rcpt
      BY <1>7, <2>2 DEF Inv, TypeOK
    <2>4. refused' \in [Message -> SUBSET Rcpt]
      BY <1>2, <1>7, <2>2 DEF Inv, TypeOK
    <2>5. \A m \in Message : refused'[m] \subseteq Rcpts(m)
      BY <1>2, <1>7, <2>2 DEF Inv, TypeOK
    <2> QED BY <1>1, <1>4, <1>7, <1>9, <2>1, <2>3, <2>4, <2>5 DEF Inv, TypeOK, Rcpts
  <1>11. StateInv'
    BY <1>1 DEF Inv, StateInv
  <1>12. ExchangeInv'
    BY <1>1, <1>2 DEF ExchangeInv, Waiting, Batched
  <1>13. \A j \in Nat : Nth(j)' = Nth(j)
    BY <1>1 DEF Nth
  <1>14. ASSUME NEW c PROVE Answered(c)' = Answered(c) \cup (IF i # 0 /\ c = x THEN {i} ELSE {})
    <2>1. \A k \in Rcpts(cur) : k \in Answered(c)' <=>
             /\ toIndex <= k /\ k < toIndex + Len(replies) + 1 /\ replies'[k - toIndex + 1][2] = c
      <3>1. \A k \in Rcpts(cur) : k \in Answered(c)' <=>
               /\ toIndex <= k /\ k < toIndex + Len(replies') /\ replies'[k - toIndex + 1][2] = c
        BY <1>1, Zenon DEF Answered, Rcpts
      <3>2. toIndex + Len(replies') = toIndex + Len(replies) + 1
        BY <1>2, <1>9
      <3> QED BY <3>1, <3>2
    <2>2. ASSUME NEW k \in Rcpts(cur), k # i PROVE k \in Answered(c)' <=> k \in Answered(c)
      <3>1. k \in Nat /\ i \in Nat /\ toIndex \in Nat /\ Len(replies) \in Nat /\ i = toIndex + Len(replies)
        BY <1>2, <1>5 DEF i
      <3>2. ASSUME toIndex <= k, k < toIndex + Len(replies)
            PROVE  replies'[k - toIndex + 1] = replies[k - toIndex + 1]
        <4>1. k - toIndex + 1 \in 1..Len(replies)
          BY <3>1, <3>2
        <4> QED BY <1>9, <4>1
      <3>3. k < toIndex + Len(replies) + 1 <=> k < toIndex + Len(replies)
        BY <2>2, <3>1
      <3> QED BY <2>1, <3>1, <3>2, <3>3 DEF Answered
    <2>3. ASSUME i # 0 PROVE i \in Rcpts(cur) /\ (i \in Answered(c)' <=> c = x) /\ i \notin Answered(c)
      <3>1. i \in Rcpts(cur) /\ i - toIndex + 1 = Len(replies) + 1 /\ toIndex <= i /\ i < toIndex + Len(replies) + 1
        BY <1>2, <1>5, <2>3 DEF i
      <3>2. ~(i < toIndex + Len(replies))
        BY <1>2 DEF i
      <3> QED BY <1>9, <2>1, <3>1, <3>2 DEF Answered
    <2>4. 0 \notin Rcpts(cur) /\ Answered(c) \subseteq Rcpts(cur) /\ Answered(c)' \subseteq Rcpts(cur)
      BY <1>1, <1>2 DEF Answered, Rcpts
    <2> QED BY <2>2, <2>3, <2>4
  <1>15. TransactionInv'
    <2>1. state = "SentRcpt" => srvFrom' = srvFrom
      BY <1>2, <1>7 DEF i
    <2>2. refused'[cur] # {} => pipe
      BY DEF Batched
    <2> QED BY <1>1, <1>2, <1>7, <2>1, <2>2 DEF Inv, TransactionInv, Batched, Content, Early, Rcpts, Counted
  <1>16. QueueInv'
    <2> SUFFICES ASSUME NEW m \in Message PROVE MessageInv(m)'
      BY DEF QueueInv
    <2>1. MessageInv(m) /\ outcome[cur] = "sending"
      BY <1>2 DEF Inv, QueueInv, MessageInv
    <2>2. m # cur => refused'[m] = refused[m]
      BY <1>7 DEF Inv, TypeOK
    <2> QED BY <1>1, <1>7, <2>1, <2>2 DEF MessageInv, Rcpts
  <1>17. BatchInv'
    <2>1. Len(replies') + Len(wire') = To[cur] + 1 - toIndex
      BY <1>2, <1>3, <1>4, <1>9
    <2>2. ASSUME NEW j \in 1..Len(replies')
          PROVE  replies'[j][1] = Nth(toIndex + j - 1) /\ replies'[j][2] \in {"250", "550"}
      <3>1. CASE j \in 1..Len(replies)
        BY <1>3, <1>9, <3>1
      <3>2. CASE j = Len(replies) + 1
        <4>1. toIndex + j - 1 = i
          BY <1>2, <3>2 DEF i
        <4> QED BY <1>8, <1>9, <3>2, <4>1
      <3> QED BY <1>2, <1>9, <3>1, <3>2
    <2>3. ASSUME NEW j \in 1..Len(wire') PROVE wire'[j] = Nth(toIndex + Len(replies') + j - 1)
      <3>1. j + 1 \in 1..Len(wire) /\ toIndex + Len(replies) + (j + 1) - 1 = toIndex + Len(replies') + j - 1
        BY <1>2, <1>4, <1>9
      <3> QED BY <1>3, <1>4, <3>1
    <2>4. /\ replies # <<>> => code' = code /\ Len(replies) >= 1
          /\ replies = <<>> => code' = x /\ Len(replies) = 0
      <3>1. Head(replies') = replies'[1]
        BY <1>9
      <3>2. replies # <<>> => Len(replies) >= 1 /\ Head(replies) = replies[1]
        BY <1>2
      <3> QED BY <1>2, <1>9, <3>1, <3>2 DEF code
    <2>5. IF state = "SentMail" /\ code' = "550"
          THEN refused'[cur] = {} /\ srvFrom' = 0 /\ srvTo' = {}
          ELSE /\ srvFrom' = cur
               /\ srvTo' = ((1..(toIndex - 1)) \ rejected) \cup Answered("250")'
               /\ refused'[cur] = rejected \cup Answered("550")'
      <3>0. refused'[cur] = IF i # 0 /\ x # "250" /\ srvFrom # 0 THEN refused[cur] \cup {i} ELSE refused[cur]
        BY <1>2, <1>7 DEF Inv, TypeOK
      <3>1. CASE i = 0
        <4>1. replies = <<>> /\ state = "SentMail" /\ toIndex = 0 /\ refused[cur] = {} /\ rejected = {}
          <5>1. Len(replies) = 0 /\ toIndex = 0
            BY <1>2, <3>1 DEF i
          <5>2. replies = <<>>
            BY <1>2, <5>1
          <5> QED BY <1>2, <5>1, <5>2 DEF Inv, BatchInv
        <4>2. \A c : Answered(c)' = {}
          <5>1. Answered("250")' = Answered("250") /\ Answered("550")' = Answered("550")
            BY <1>14, <3>1
          <5>2. \A c : Answered(c) = {}
            BY <1>2, <4>1 DEF Answered
          <5>3. \A c : Answered(c)' = Answered(c)
            BY <1>14, <3>1
          <5> QED BY <5>2, <5>3
        <4>3. (1..(toIndex - 1)) \ rejected = {}
          BY <4>1
        <4> QED BY <1>7, <2>4, <3>0, <3>1, <4>1, <4>2, <4>3
      <3>2. CASE i # 0 /\ state = "SentMail" /\ code = "550"
        <4>1. replies # <<>>
          BY <1>2, <3>2 DEF i
        <4>2. refused[cur] = {} /\ srvFrom = 0 /\ srvTo = {}
          BY <3>2, <4>1 DEF Inv, BatchInv
        <4> QED BY <1>7, <2>4, <3>0, <3>2, <4>1, <4>2
      <3>3. CASE i # 0 /\ ~(state = "SentMail" /\ code = "550")
        <4>1. state = "SentMail" => replies # <<>>
          BY <1>2, <3>3 DEF i
        <4>2. /\ srvFrom = cur /\ srvTo = ((1..(toIndex - 1)) \ rejected) \cup Answered("250")
              /\ refused[cur] = rejected \cup Answered("550")
          BY <3>3, <4>1 DEF Inv, BatchInv
        <4>3. ~(state = "SentMail" /\ code' = "550")
          BY <2>4, <3>3, <4>1
        <4>4. /\ Answered("250")' = Answered("250") \cup (IF x = "250" THEN {i} ELSE {})
              /\ Answered("550")' = Answered("550") \cup (IF x = "550" THEN {i} ELSE {})
          BY <1>14, <3>3
        <4> QED BY <1>2, <1>7, <1>8, <3>0, <3>3, <4>2, <4>3, <4>4
      <3> QED BY <3>1, <3>2, <3>3
    <2> QED BY <1>1, <1>9, <1>13, <2>1, <2>2, <2>3, <2>5 DEF BatchInv, Nth
  <1> QED BY <1>10, <1>11, <1>12, <1>15, <1>16, <1>17 DEF Inv

\* The next reply of a batch is read.
LEMMA Shift ==
    ASSUME Inv, Batched, replies # <<>>, replies' = Tail(replies), toIndex' = toIndex + 1,
           UNCHANGED <<cur, wire>>
    PROVE  /\ Head(replies) = replies[1] /\ Head(replies)[1] = Nth(toIndex) /\ code \in {"250", "550"}
           /\ replies' \in Seq(Command \X Codes)
           /\ toIndex = 0 => Answered("250")' = Answered("250") /\ Answered("550")' = Answered("550")
           /\ toIndex # 0 => \A c : Answered(c) = Answered(c)' \cup (IF c = code THEN {toIndex} ELSE {})
           /\ Len(replies') + Len(wire') = To[cur] + 1 - toIndex'
           /\ \A j \in 1..Len(replies') : /\ replies'[j][1] = Nth(toIndex + j - 1)'
                                          /\ replies'[j][2] \in {"250", "550"}
           /\ \A j \in 1..Len(wire') : wire'[j] = Nth(toIndex + Len(replies) + j - 1)'
           /\ toIndex < To[cur] => toIndex' \in Rcpts(cur)
  <1>0. cur' = cur /\ wire' = wire
    OBVIOUS
  <1>1. /\ cur \in Message /\ To[cur] \in Nat \ {0} /\ Rcpts(cur) = 1..To[cur] /\ toIndex \in 0..To[cur]
        /\ replies \in Seq(Command \X Codes) /\ Len(replies) \in Nat /\ Len(wire) \in Nat
    BY BatchFacts
  <1>2. /\ replies' \in Seq(Command \X Codes) /\ Len(replies') = Len(replies) - 1 /\ Len(replies) \in Nat \ {0}
        /\ Head(replies) = replies[1] /\ \A j \in 1..(Len(replies) - 1) : replies'[j] = replies[j + 1]
    BY <1>1, TailFacts
  <1>3. /\ Len(replies) + Len(wire) = To[cur] + 1 - toIndex
        /\ \A j \in 1..Len(replies) : replies[j][1] = Nth(toIndex + j - 1) /\ replies[j][2] \in {"250", "550"}
        /\ \A j \in 1..Len(wire) : wire[j] = Nth(toIndex + Len(replies) + j - 1)
    BY DEF Inv, BatchInv
  <1>5. Head(replies)[1] = Nth(toIndex) /\ code \in {"250", "550"}
    <2>1. 1 \in 1..Len(replies) /\ toIndex + 1 - 1 = toIndex
      BY <1>1, <1>2
    <2> QED BY <1>2, <1>3, <2>1 DEF code
  <1>6. ASSUME NEW c, NEW k \in Rcpts(cur), k # toIndex PROVE k \in Answered(c)' <=> k \in Answered(c)
    <2>1. k \in Answered(c)' <=> /\ toIndex' <= k /\ k < toIndex' + Len(replies')
                                 /\ replies'[k - toIndex' + 1][2] = c
      BY DEF Answered, Rcpts
    <2>2. toIndex' <= k <=> toIndex <= k
      BY <1>1, <1>6
    <2>3. toIndex' + Len(replies') = toIndex + Len(replies)
      BY <1>1, <1>2
    <2>4. ASSUME toIndex <= k, k < toIndex + Len(replies)
          PROVE  replies'[k - toIndex' + 1] = replies[k - toIndex + 1]
      <3>1. k - toIndex \in 1..(Len(replies) - 1) /\ k - toIndex' + 1 = k - toIndex
        BY <1>1, <1>2, <1>6, <2>4
      <3> QED BY <1>2, <3>1
    <2> QED BY <2>1, <2>2, <2>3, <2>4 DEF Answered
  <1>7. \A c : Answered(c) \subseteq Rcpts(cur) /\ Answered(c)' \subseteq Rcpts(cur)
    BY DEF Answered, Rcpts
  <1>8. ASSUME toIndex # 0
        PROVE  \A c : Answered(c) = Answered(c)' \cup (IF c = code THEN {toIndex} ELSE {})
    <2> TAKE c
    <2>1. toIndex \in Rcpts(cur) /\ toIndex - toIndex + 1 = 1 /\ toIndex < toIndex + Len(replies) /\ toIndex <= toIndex
      BY <1>1, <1>2, <1>8
    <2>2. toIndex \in Answered(c) <=> c = code
      BY <1>2, <2>1 DEF Answered, code
    <2>3. toIndex \notin Answered(c)'
      <3>1. ~(toIndex' <= toIndex)
        BY <1>1
      <3>2. \A k \in Answered(c)' : toIndex' <= k
        BY DEF Answered
      <3> QED BY <3>1, <3>2
    <2> QED BY <1>6, <1>7, <2>1, <2>2, <2>3
  <1>9. ASSUME toIndex = 0, NEW c PROVE Answered(c)' = Answered(c)
    <2>1. \A k \in Rcpts(cur) : k # toIndex
      BY <1>1, <1>9
    <2>2. \A k \in Rcpts(cur) : k \in Answered(c)' <=> k \in Answered(c)
      BY <1>6, <2>1
    <2>3. Answered(c) \subseteq Rcpts(cur) /\ Answered(c)' \subseteq Rcpts(cur)
      BY <1>7
    <2> QED BY <2>2, <2>3
  <1>10. Len(replies') + Len(wire') = To[cur] + 1 - toIndex'
    <2>1. Len(replies) + Len(wire) = To[cur] + 1 - toIndex /\ Len(replies') = Len(replies) - 1
      BY <1>2, <1>3
    <2>2. toIndex \in Nat /\ To[cur] \in Nat /\ Len(replies) \in Nat /\ Len(wire') = Len(wire) /\ Len(wire) \in Nat
      BY <1>0, <1>1
    <2> QED BY <1>0, <2>1, <2>2
  <1>11. ASSUME NEW j \in 1..Len(replies')
         PROVE  replies'[j][1] = Nth(toIndex + j - 1)' /\ replies'[j][2] \in {"250", "550"}
    <2>1. j + 1 \in 1..Len(replies) /\ toIndex + (j + 1) - 1 = toIndex' + j - 1 /\ toIndex' + j - 1 \in Nat
          /\ j \in 1..(Len(replies) - 1)
      BY <1>1, <1>2
    <2>2. replies'[j] = replies[j + 1] /\ replies[j + 1][1] = Nth(toIndex + (j + 1) - 1)
          /\ replies[j + 1][2] \in {"250", "550"}
      BY <1>2, <1>3, <2>1
    <2>3. Nth(toIndex + j - 1)' = Nth(toIndex' + j - 1)
      BY <1>0, Zenon DEF Nth
    <2> QED BY <2>1, <2>2, <2>3
  <1>12. ASSUME NEW j \in 1..Len(wire') PROVE wire'[j] = Nth(toIndex + Len(replies) + j - 1)'
    <2>1. j \in 1..Len(wire) /\ toIndex' + Len(replies') + j - 1 = toIndex + Len(replies) + j - 1
      BY <1>0, <1>1, <1>2
    <2>2. Nth(toIndex + Len(replies) + j - 1)' = Nth(toIndex' + Len(replies') + j - 1)
      BY <1>0, Zenon DEF Nth
    <2> QED BY <1>0, <1>3, <2>1, <2>2
  <1>13. toIndex < To[cur] => toIndex' \in Rcpts(cur)
    BY <1>1
  <1> QED BY <1>2, <1>5, <1>8, <1>9, <1>10, <1>11, <1>12, <1>13

\* MAIL is accepted: its recipients' replies follow.
LEMMA MailOkBatch == ASSUME Inv, Batched, MailOk PROVE Inv'
  <1> USE DEF MailOk, Goto, Quiet, Same, store, On
  <1>1. /\ state = "SentMail" /\ replies # <<>> /\ code = "250" /\ replies' = Tail(replies)
    BY DEF code
  <1>2. /\ cur \in Message /\ cur # 0 /\ To[cur] \in Nat \ {0} /\ Rcpts(cur) = 1..To[cur]
        /\ toIndex = 0 /\ accepted = 0 /\ rejected = {} /\ taken[cur] = {}
        /\ handshake = FALSE /\ filter = FALSE /\ blocked = FALSE /\ pipe = TRUE
    BY <1>1, BatchFacts
  <1>3. toIndex' = 1 /\ toIndex' = toIndex + 1 /\ UNCHANGED <<cur, wire>> /\ timer' = "off"
    BY <1>1, <1>2 DEF SendRcpt
  <1>4. /\ replies' \in Seq(Command \X Codes)
        /\ Answered("250")' = Answered("250") /\ Answered("550")' = Answered("550")
        /\ Len(replies') + Len(wire') = To[cur] + 1 - toIndex'
        /\ \A j \in 1..Len(replies') : /\ replies'[j][1] = Nth(toIndex + j - 1)'
                                       /\ replies'[j][2] \in {"250", "550"}
        /\ \A j \in 1..Len(wire') : wire'[j] = Nth(toIndex + Len(replies) + j - 1)'
    BY <1>1, <1>2, <1>3, Shift
  <1>5. /\ srvFrom = cur /\ srvTo = ((1..(toIndex - 1)) \ rejected) \cup Answered("250")
        /\ refused[cur] = rejected \cup Answered("550")
    BY <1>1 DEF Inv, BatchInv
  <1>6. TypeOK'
    <2>1. 1 \in Rcpt
      BY <1>2, Names
    <2> QED BY <1>2, <1>3, <1>4, <2>1 DEF Inv, TypeOK, session, server, State
  <1>7. StateInv'
    BY <1>2 DEF Inv, StateInv, session
  <1>8. ExchangeInv'
    BY <1>2 DEF ExchangeInv, Waiting, Batched, session
  <1>9. TransactionInv'
    <2>1. Counted(toIndex - 1)'
      BY <1>2, <1>3 DEF Counted
    <2> QED BY <1>2, <1>3, <1>5, <2>1 DEF Inv, TransactionInv, Early, Content, server, session, Rcpts
  <1>10. QueueInv'
    BY DEF Inv, QueueInv, MessageInv, session, server, Rcpts
  <1>11. BatchInv'
    <2>1. /\ srvFrom' = cur' /\ srvTo' = ((1..(toIndex' - 1)) \ rejected') \cup Answered("250")'
          /\ refused'[cur'] = rejected' \cup Answered("550")'
      <3>1. (1..(toIndex - 1)) \ rejected = {} /\ (1..(toIndex' - 1)) \ rejected' = {}
        BY <1>2, <1>3
      <3> QED BY <1>2, <1>3, <1>4, <1>5, <3>1 DEF server
    <2> QED BY <1>3, <1>4, <2>1 DEF BatchInv
  <1> QED BY <1>6, <1>7, <1>8, <1>9, <1>10, <1>11 DEF Inv

\* One more reply of the batch has been counted.
LEMMA CountBatch ==
    ASSUME Inv, Batched, state = "SentRcpt", replies # <<>>, replies' = Tail(replies), toIndex' = toIndex + 1,
           UNCHANGED <<cur, wire>>, Count
    PROVE  /\ cur \in Message /\ cur # 0 /\ toIndex \in Rcpts(cur) /\ toIndex \in Nat
           /\ accepted' \in 0..toIndex /\ rejected' \subseteq 1..toIndex
           /\ rejected' = {} <=> accepted' = toIndex
           /\ srvFrom = cur /\ taken[cur] = {} /\ srvTo = ((1..toIndex) \ rejected') \cup Answered("250")'
           /\ refused[cur] = rejected' \cup Answered("550")'
  <1>1. /\ cur \in Message /\ cur # 0 /\ To[cur] \in Nat \ {0} /\ Rcpts(cur) = 1..To[cur]
        /\ toIndex \in 0..To[cur] /\ toIndex # 0 /\ Counted(toIndex - 1) /\ srvFrom = cur
        /\ taken[cur] = {}
    BY BatchFacts
  <1>2. /\ srvTo = ((1..(toIndex - 1)) \ rejected) \cup Answered("250")
        /\ refused[cur] = rejected \cup Answered("550")
    BY DEF Inv, BatchInv
  <1>3. /\ code \in {"250", "550"}
        /\ \A c : Answered(c) = Answered(c)' \cup (IF c = code THEN {toIndex} ELSE {})
    BY <1>1, Shift
  <1>4. /\ accepted \in 0..(toIndex - 1) /\ rejected \subseteq 1..(toIndex - 1)
        /\ rejected = {} <=> accepted = toIndex - 1
    BY <1>1 DEF Counted
  <1>5. CASE code = "250"
    <2>1. accepted' = accepted + 1 /\ rejected' = rejected
      BY <1>5 DEF Count, Positive, Final
    <2>2. Answered("250") = Answered("250")' \cup {toIndex} /\ Answered("550") = Answered("550")'
      BY <1>3, <1>5
    <2>3. (1..toIndex) \ rejected = ((1..(toIndex - 1)) \ rejected) \cup {toIndex}
      BY <1>1, <1>4
    <2> QED BY <1>1, <1>2, <1>4, <2>1, <2>2, <2>3
  <1>6. CASE code = "550"
    <2>1. accepted' = accepted /\ rejected' = rejected \cup {toIndex}
      BY <1>6 DEF Count, Positive, Final
    <2>2. Answered("550") = Answered("550")' \cup {toIndex} /\ Answered("250") = Answered("250")'
      BY <1>3, <1>6
    <2>3. (1..toIndex) \ rejected' = (1..(toIndex - 1)) \ rejected
      BY <1>1, <1>4, <2>1
    <2> QED BY <1>1, <1>2, <1>4, <2>1, <2>2, <2>3
  <1> QED BY <1>3, <1>5, <1>6

\* A recipient's reply is read and others follow.
LEMMA RcptMoreBatch == ASSUME Inv, Batched, RcptMore PROVE Inv'
  <1> USE DEF RcptMore, Quiet, Same, store, On
  <1>0. state = "SentRcpt" /\ replies # <<>> /\ replies' = Tail(replies) /\ pipe = TRUE
        /\ handshake = FALSE /\ filter = FALSE /\ blocked = FALSE
    BY BatchFacts
  <1>1. toIndex' = toIndex + 1 /\ UNCHANGED <<cur, wire>> /\ timer' = "off"
    BY <1>0 DEF SendRcpt
  <1>2. /\ cur \in Message /\ cur # 0 /\ toIndex \in Rcpts(cur) /\ toIndex \in Nat
        /\ accepted' \in 0..toIndex /\ rejected' \subseteq 1..toIndex
        /\ rejected' = {} <=> accepted' = toIndex
        /\ srvFrom = cur /\ taken[cur] = {} /\ srvTo = ((1..toIndex) \ rejected') \cup Answered("250")'
        /\ refused[cur] = rejected' \cup Answered("550")'
    BY <1>0, <1>1, CountBatch
  <1>3. /\ replies' \in Seq(Command \X Codes) /\ toIndex' \in Rcpts(cur)
        /\ Len(replies') + Len(wire') = To[cur] + 1 - toIndex'
        /\ \A j \in 1..Len(replies') : /\ replies'[j][1] = Nth(toIndex + j - 1)'
                                       /\ replies'[j][2] \in {"250", "550"}
        /\ \A j \in 1..Len(wire') : wire'[j] = Nth(toIndex + Len(replies) + j - 1)'
    BY <1>0, <1>1, Shift
  <1>4. TypeOK'
    <2>1. toIndex' \in Rcpt
      BY <1>2, <1>3, Names
    <2>2. accepted' \in Rcpt \cup {0} /\ rejected' \subseteq Rcpt
      <3>1. 1..toIndex \subseteq Rcpts(cur) /\ Rcpts(cur) \subseteq Rcpt
        BY <1>2, Names DEF Rcpts
      <3> QED BY <1>2, <3>1
    <2> QED BY <1>0, <1>1, <1>3, <2>1, <2>2 DEF Inv, TypeOK, session, server, State
  <1>5. StateInv'
    BY <1>0, <1>2 DEF Inv, StateInv, session
  <1>6. ExchangeInv'
    BY <1>0, <1>2 DEF ExchangeInv, Waiting, Batched, session
  <1>7. TransactionInv'
    <2>1. Counted(toIndex - 1)'
      BY <1>1, <1>2 DEF Counted
    <2> QED BY <1>0, <1>2, <1>3, <2>1 DEF Inv, TransactionInv, Early, Content, server, session, Rcpts
  <1>8. QueueInv'
    BY DEF Inv, QueueInv, MessageInv, session, server, Rcpts
  <1>9. BatchInv'
    <2>1. toIndex' - 1 = toIndex
      BY <1>1, <1>2
    <2> QED BY <1>0, <1>1, <1>2, <1>3, <2>1 DEF BatchInv, server
  <1> QED BY <1>4, <1>5, <1>6, <1>7, <1>8, <1>9 DEF Inv

\* The last reply of a batch is the only one, and it has been counted.
LEMMA LastOfBatch ==
    ASSUME Inv, Batched, state = "SentRcpt", replies # <<>>, toIndex >= To[cur], Count
    PROVE  /\ wire = <<>> /\ Tail(replies) = <<>> /\ cur # 0 /\ ~handshake
           /\ cur \in Message /\ toIndex \in Rcpts(cur) /\ toIndex \in Nat
           /\ accepted' \in 0..toIndex /\ rejected' \subseteq 1..toIndex
           /\ rejected' = {} <=> accepted' = toIndex
           /\ srvFrom = cur /\ srvTo = (1..toIndex) \ rejected' /\ refused[cur] = rejected' /\ taken[cur] = {}
  <1>1. /\ cur \in Message /\ cur # 0 /\ To[cur] \in Nat \ {0} /\ Rcpts(cur) = 1..To[cur]
        /\ toIndex \in 0..To[cur] /\ Counted(toIndex - 1) /\ srvFrom = cur
        /\ taken[cur] = {} /\ handshake = FALSE
        /\ wire \in Seq(Command) /\ Len(wire) \in Nat
        /\ replies \in Seq(Command \X Codes) /\ Len(replies) \in Nat
    BY BatchFacts
  <1>2. /\ Len(replies) + Len(wire) = To[cur] + 1 - toIndex
        /\ \A j \in 1..Len(replies) : replies[j][1] = Nth(toIndex + j - 1) /\ replies[j][2] \in {"250", "550"}
        /\ srvTo = ((1..(toIndex - 1)) \ rejected) \cup Answered("250")
        /\ refused[cur] = rejected \cup Answered("550")
    BY DEF Inv, BatchInv
  <1>3. toIndex = To[cur] /\ toIndex \in Nat \ {0}
    BY <1>1
  <1>4. Len(replies) + Len(wire) = 1 /\ Len(replies) # 0
    <2>1. Len(replies) + Len(wire) = To[cur] + 1 - toIndex
      BY <1>2
    <2> QED BY <1>1, <1>3, <2>1
  <1>5. Len(replies) = 1 /\ Len(wire) = 0
    <2>1. \A a, b \in Nat : a + b = 1 /\ a # 0 => a = 1 /\ b = 0
      OBVIOUS
    <2> QED BY <1>1, <1>4, <2>1
  <1>6. wire = <<>> /\ Tail(replies) = <<>> /\ Head(replies) = replies[1]
    <2>1. \A S : \A s \in Seq(S) : Len(s) = 0 => s = <<>>
      OBVIOUS
    <2>2. Tail(replies) \in Seq(Command \X Codes) /\ Len(Tail(replies)) = 0 /\ Head(replies) = replies[1]
      BY <1>1, <1>5, TailFacts
    <2> QED BY <1>1, <1>5, <2>1, <2>2
  <1>7. code \in {"250", "550"} /\ \A c : Answered(c) = IF c = code THEN {toIndex} ELSE {}
    <2>1. code = replies[1][2] /\ 1 \in 1..Len(replies)
      BY <1>5, <1>6 DEF code
    <2>2. ASSUME NEW c PROVE Answered(c) = IF c = code THEN {toIndex} ELSE {}
      <3>1. \A i \in Rcpts(cur) : toIndex <= i /\ i < toIndex + Len(replies) <=> i = toIndex
        BY <1>1, <1>3, <1>5
      <3>2. toIndex \in Rcpts(cur) /\ toIndex - toIndex + 1 = 1
        BY <1>1, <1>3
      <3> QED BY <2>1, <3>1, <3>2 DEF Answered
    <2> QED BY <1>2, <2>1, <2>2
  <1>8. /\ accepted \in 0..(toIndex - 1) /\ rejected \subseteq 1..(toIndex - 1)
        /\ rejected = {} <=> accepted = toIndex - 1
    BY <1>1 DEF Counted
  <1>9. CASE code = "250"
    <2>1. accepted' = accepted + 1 /\ rejected' = rejected
      BY <1>9 DEF Count, Positive, Final
    <2>2. Answered("250") = {toIndex} /\ Answered("550") = {}
      BY <1>7, <1>9
    <2>3. srvTo = (1..toIndex) \ rejected /\ refused[cur] = rejected
      <3>1. srvTo = ((1..(toIndex - 1)) \ rejected) \cup {toIndex} /\ refused[cur] = rejected \cup {}
        BY <1>2, <2>2
      <3> QED BY <1>3, <1>8, <3>1
    <2>4. accepted' \in 0..toIndex /\ rejected' \subseteq 1..toIndex /\ (rejected' = {} <=> accepted' = toIndex)
      BY <1>3, <1>8, <2>1
    <2> QED BY <1>1, <1>3, <1>6, <2>1, <2>3, <2>4
  <1>10. CASE code = "550"
    <2>1. accepted' = accepted /\ rejected' = rejected \cup {toIndex}
      BY <1>10 DEF Count, Positive, Final
    <2>2. Answered("550") = {toIndex} /\ Answered("250") = {}
      BY <1>7, <1>10
    <2>3. (1..toIndex) \ rejected' = (1..(toIndex - 1)) \ rejected
      BY <1>3, <1>8, <2>1
    <2>4. srvTo = (1..toIndex) \ rejected' /\ refused[cur] = rejected'
      <3>1. srvTo = ((1..(toIndex - 1)) \ rejected) \cup {} /\ refused[cur] = rejected \cup {toIndex}
        BY <1>2, <2>2
      <3> QED BY <2>1, <2>3, <3>1
    <2>5. accepted' \in 0..toIndex /\ rejected' \subseteq 1..toIndex /\ (rejected' = {} <=> accepted' = toIndex)
      <3>1. accepted' \in 0..toIndex /\ accepted' # toIndex
        BY <1>3, <1>8, <2>1
      <3>2. 1..(toIndex - 1) \subseteq 1..toIndex /\ toIndex \in 1..toIndex
        BY <1>3
      <3>3. rejected' \subseteq 1..toIndex /\ toIndex \in rejected'
        BY <1>8, <2>1, <3>2
      <3> QED BY <3>1, <3>3
    <2> QED BY <1>1, <1>3, <1>6, <2>4, <2>5
  <1> QED BY <1>7, <1>9, <1>10

\* Whatever the last recipient's reply, and whether the batch was one or not.
LEMMA RcptLastInv == ASSUME Inv, RcptLast PROVE Inv'
  <1> USE DEF RcptLast, Goto, Quiet, Same, store
  <1>1. /\ wire = <<>> /\ replies # <<>> /\ replies' = <<>> /\ cur # 0 /\ cur \in Message
        /\ ~handshake /\ state = "SentRcpt"
    <2>1. CASE Batched
      BY <2>1, LastOfBatch DEF On
    <2>2. CASE ~Batched
      BY <2>2, OneReply DEF On, Waiting
    <2> QED BY <2>1, <2>2
  <1>2. /\ toIndex \in Rcpts(cur) /\ toIndex \in Nat
        /\ accepted' \in 0..toIndex /\ rejected' \subseteq 1..toIndex
        /\ rejected' = {} <=> accepted' = toIndex
        /\ srvFrom = cur /\ srvTo = (1..toIndex) \ rejected' /\ refused[cur] = rejected' /\ taken[cur] = {}
    <2>1. CASE Batched
      BY <2>1, LastOfBatch DEF On
    <2>2. CASE ~Batched
      BY <1>1, <2>2, CountFacts
    <2> QED BY <2>1, <2>2
  <1>3. toIndex = To[cur] /\ toIndex' = toIndex /\ Rcpts(cur) = 1..toIndex
    BY <1>1, <1>2, Names DEF Rcpts
  <1>4. \/ state' = "SentDataStub" /\ Send(Verb("RSET")) /\ chunk' = chunk
        \/ /\ (setup.all => rejected' = {})
           /\ \/ state' = "SentBdatLast" /\ Send(Verb("BDATLAST")) /\ chunk' = 1
              \/ state' = "SentBdatMore" /\ Send(Verb("BDAT")) /\ chunk' = 1
              \/ state' = "SentData" /\ Send(Verb("DATA")) /\ chunk' = chunk
    BY <1>2, <1>3
  <1>5. \E v \in {"RSET", "BDATLAST", "BDAT", "DATA"} : /\ v \in Awaits[state'] /\ Send(<<<<v, cur, 0>>>>)
                                                        /\ wire' = <<<<v, cur, 0>>>> /\ timer' = "response"
    BY <1>1, <1>4 DEF Send, Verb, Awaits
  <1>6. state' \in {"SentDataStub", "SentBdatLast", "SentBdatMore", "SentData"}
    BY <1>4
  <1>7. TypeOK'
    <2>1. wire' \in Seq(Command)
      BY <1>5, Commands DEF Inv
    <2>2. accepted' \in Rcpt \cup {0} /\ rejected' \subseteq Rcpt
      BY <1>1, <1>2, <1>3, Names
    <2>3. chunk' \in 0..MaxChunks
      BY <1>4, ConstantsAssumption DEF Inv, TypeOK
    <2> QED BY <1>1, <1>3, <1>5, <1>6, <2>1, <2>2, <2>3 DEF Inv, TypeOK, session, server, State
  <1>8. StateInv'
    BY <1>1, <1>6 DEF Inv, StateInv, session
  <1>9. ExchangeInv'
    <2>1. PICK v \in {"RSET", "BDATLAST", "BDAT", "DATA"} : v \in Awaits[state'] /\ Send(<<<<v, cur, 0>>>>)
      BY <1>5
    <2>2. state' \in Waiting /\ state' # "SentRcpt" /\ state' # "SentEhlo"
      BY <1>6 DEF Waiting
    <2> QED BY <1>1, <2>1, <2>2, SendInv
  <1>10. TransactionInv'
    <2>1. Counted(To[cur])'
      BY <1>2, <1>3 DEF Counted
    <2>2. state' # "SentDataStub" => (setup.all => rejected' = {})
      BY <1>4
    <2> QED BY <1>1, <1>2, <1>3, <1>6, <2>1, <2>2
            DEF Inv, TransactionInv, Early, Content, server, session, Rcpts
  <1>11. QueueInv'
    BY DEF Inv, QueueInv, MessageInv, session, server, Rcpts
  <1> QED BY <1>7, <1>8, <1>9, <1>10, <1>11, NoBatch DEF Inv

\* The MAIL of a batch is refused: the message is failed and its recipients' replies are
\* still to come.
LEMMA FallsBehind == ASSUME Inv, Batched, MailFails PROVE Behind'
  <1> USE DEF MailFails, Goto, Quiet, On, Unsent
  <1>1. /\ state = "SentMail" /\ state' = "MessageDone" /\ replies # <<>> /\ code \in Codes \ Positive
        /\ replies' = Tail(replies) /\ wire' = wire /\ UNCHANGED <<message, session, server>>
        /\ UNCHANGED <<handshake, filter, blocked>> /\ Report(FALSE, {})
    BY DEF code
  <1>2. /\ cur \in Message /\ cur # 0 /\ To[cur] \in Nat \ {0} /\ Rcpts(cur) = 1..To[cur]
        /\ toIndex = 0 /\ rejected = {} /\ accepted = 0
        /\ handshake = FALSE /\ filter = FALSE /\ blocked = FALSE /\ pipe = TRUE
        /\ wire \in Seq(Command) /\ Len(wire) \in Nat
        /\ replies \in Seq(Command \X Codes) /\ Len(replies) \in Nat
    BY <1>1, BatchFacts
  <1>3. /\ Len(replies) + Len(wire) = To[cur] + 1
        /\ \A j \in 1..Len(replies) : replies[j][2] \in {"250", "550"}
        /\ \A j \in 1..Len(wire) : wire[j] = Nth(Len(replies) + j - 1)
    <2>1. /\ Len(replies) + Len(wire) = To[cur] + 1 - toIndex
          /\ \A j \in 1..Len(replies) : replies[j][2] \in {"250", "550"}
          /\ \A j \in 1..Len(wire) : wire[j] = Nth(toIndex + Len(replies) + j - 1)
      BY DEF Inv, BatchInv
    <2>2. \A j \in 1..Len(wire) : toIndex + Len(replies) + j - 1 = Len(replies) + j - 1
      BY <1>2
    <2>3. To[cur] + 1 - toIndex = To[cur] + 1
      BY <1>2
    <2> QED BY <2>1, <2>2, <2>3
  <1>4. /\ replies' \in Seq(Command \X Codes) /\ Len(replies') = Len(replies) - 1 /\ Len(replies) \in Nat \ {0}
        /\ Head(replies) = replies[1] /\ \A j \in 1..(Len(replies) - 1) : replies'[j] = replies[j + 1]
    BY <1>1, <1>2, TailFacts
  <1>5. code = "550" /\ srvFrom = 0 /\ srvTo = {} /\ srvFrom' = 0 /\ srvTo' = {}
    <2>1. 1 \in 1..Len(replies)
      BY <1>4
    <2>2. code \in {"250", "550"}
      BY <1>3, <1>4, <2>1 DEF code
    <2>3. code = "550"
      BY <1>1, <2>2 DEF Positive, Final
    <2> QED BY <1>1, <2>3 DEF Inv, BatchInv, server
  <1>6. \A j \in 1..Len(wire) : /\ wire[j] = <<"RCPT", cur, Len(replies) + j - 1>>
                                /\ Len(replies) + j - 1 \in Rcpts(cur)
    <2> TAKE j \in 1..Len(wire)
    <2>1. Len(replies) + j - 1 \in 1..To[cur] /\ Len(replies) + j - 1 # 0
      BY <1>2, <1>3, <1>4
    <2> QED BY <1>2, <1>3, <2>1 DEF Nth
  <1>7. TypeOK'
    <2>1. /\ cur' \in Message \cup {0} /\ timer' \in {"off", "ready", "response"}
          /\ outcome' \in [Message -> {"queued", "sending", "destroyed", "failed", "unlocked"}]
          /\ rcpts' \in [Message -> SUBSET Rcpt] /\ told' \in [Message -> SUBSET Rcpt]
          /\ \A m \in Message : rcpts'[m] \subseteq Rcpts(m) /\ told'[m] \subseteq Rcpts(m)
      BY <1>1, <1>2, ReportTypes DEF Inv
    <2> QED BY <1>1, <1>4, <2>1 DEF Inv, TypeOK, message, session, server, State
  <1>8. BehindState'
    BY <1>1, <1>2 DEF BehindState, session, Report
  <1>9. BehindWire'
    <2>1. ASSUME NEW i \in 1..Len(wire)
          PROVE  /\ wire[i][1] # "EOT"
                 /\ wire[i][1] = "RCPT" =>
                     /\ wire[i][2] \in Message /\ wire[i][3] \in Rcpts(wire[i][2])
                     /\ IF i = 1 THEN srvFrom' \in {0, wire[i][2]}
                        ELSE wire[i - 1][1] \in {"MAIL", "RCPT"} /\ wire[i - 1][2] = wire[i][2]
      <3>1. wire[i][1] = "RCPT" /\ wire[i][2] = cur /\ wire[i][3] \in Rcpts(cur)
        BY <1>6
      <3>2. i # 1 => wire[i - 1][1] = "RCPT" /\ wire[i - 1][2] = cur
        <4>1. i # 1 => i - 1 \in 1..Len(wire)
          BY <1>2
        <4> QED BY <1>6, <4>1
      <3> QED BY <1>2, <1>5, <3>1, <3>2
    <2> QED BY <1>1, <1>5, <2>1 DEF BehindWire, Rcpts
  <1>10. BehindCount'
    <2>1. Unread' = To[cur] /\ Unread' >= 1
      BY <1>1, <1>2, <1>3, <1>4 DEF Unread
    <2>2. \A i \in 1..Len(wire) : wire[i][1] = "RCPT"
      BY <1>6
    <2>3. ASSUME NEW i \in 1..Len(replies') PROVE replies'[i][2] # "354"
      <3>1. i \in 1..(Len(replies) - 1) /\ i + 1 \in 1..Len(replies)
        BY <1>4
      <3> QED BY <1>3, <1>4, <3>1
    <2> QED BY <1>1, <2>1, <2>2, <2>3 DEF BehindCount
  <1>11. BehindQueue'
    <2> SUFFICES ASSUME NEW m \in Message
                 PROVE  /\ outcome'[m] = "destroyed" => taken'[m] = Rcpts(m)
                        /\ setup'.all => taken'[m] \in {{}, Rcpts(m)}
      BY DEF BehindQueue, Rcpts
    <2>1. MessageInv(m)
      BY DEF Inv, QueueInv
    <2>2. outcome'[m] = "destroyed" => outcome[m] = "destroyed"
      BY <1>1, <1>2 DEF Report, Inv, TypeOK
    <2> QED BY <1>1, <2>1, <2>2 DEF MessageInv, session, server
  <1> QED BY <1>7, <1>8, <1>9, <1>10, <1>11 DEF Behind

-----------------------------------------------------------------------------
(* A client that is behind stays behind until it goes, and what it takes for the replies   *)
(* to its commands does not make it destroy a message, unless it sends chunks.             *)

\* The client is deleted, whatever was on its way.
LEMMA BehindGone ==
    ASSUME Behind, NEW r \in {"failed", "unlocked"}, Gone(r)
    PROVE  Behind'
  <1> USE DEF Gone, Goto
  <1>1. TypeOK'
    <2>1. wire' \in Seq(Command) /\ replies' \in Seq(Command \X Codes)
      OBVIOUS
    <2>2. outcome' \in [Message -> {"queued", "sending", "destroyed", "failed", "unlocked"}]
      BY DEF Behind, TypeOK
    <2> QED BY <2>1, <2>2 DEF Behind, TypeOK, message, session, server, State
  <1>2. BehindState'
    BY DEF Behind, BehindState, session
  <1>3. BehindWire'
    BY DEF Behind, BehindWire, server, Rcpts
  <1>4. ~setup.bdat => BehindCount' /\ BehindQueue'
    <2> HAVE ~setup.bdat
    <2>1. BehindCount'
      BY DEF BehindCount
    <2>2. ASSUME NEW m \in Message PROVE outcome'[m] = "destroyed" => outcome[m] = "destroyed"
      BY DEF Behind, TypeOK
    <2>3. BehindQueue'
      BY <2>2 DEF Behind, BehindQueue, server, session, Rcpts
    <2> QED BY <2>1, <2>3
  <1> QED BY <1>1, <1>2, <1>3, <1>4 DEF Behind, session

\* A command other than RCPT is sent.
LEMMA BehindSend ==
    ASSUME Behind, NEW c \in Command, c[1] \notin {"RCPT", "EOT"}, wire' = wire \o <<c>>,
           UNCHANGED <<server, setup>>
    PROVE  /\ wire' \in Seq(Command) /\ Len(wire) \in Nat /\ Len(wire') = Len(wire) + 1 /\ wire'[Len(wire) + 1] = c
           /\ \A i \in 1..Len(wire) : wire'[i] = wire[i]
           /\ BehindWire'
  <1>1. wire \in Seq(Command) /\ <<c>> \in Seq(Command) /\ Len(<<c>>) = 1 /\ <<c>>[1] = c
    BY DEF Behind, TypeOK
  <1>2. /\ wire' \in Seq(Command) /\ Len(wire) \in Nat /\ Len(wire') = Len(wire) + 1 /\ wire'[Len(wire) + 1] = c
        /\ \A i \in 1..Len(wire) : wire'[i] = wire[i]
    BY <1>1, ConcatFacts
  <1>3. BehindWire'
    <2>1. ASSUME NEW i \in 1..Len(wire')
          PROVE  /\ wire'[i][1] # "EOT"
                 /\ wire'[i][1] = "RCPT" =>
                     /\ wire'[i][2] \in Message /\ wire'[i][3] \in Rcpts(wire'[i][2])
                     /\ IF i = 1 THEN srvFrom \in {0, wire'[i][2]}
                        ELSE wire'[i - 1][1] \in {"MAIL", "RCPT"} /\ wire'[i - 1][2] = wire'[i][2]
      <3>1. CASE i = Len(wire) + 1
        BY <1>2, <3>1
      <3>2. CASE i \in 1..Len(wire)
        <4>1. /\ wire[i][1] # "EOT"
              /\ wire[i][1] = "RCPT" =>
                  /\ wire[i][2] \in Message /\ wire[i][3] \in Rcpts(wire[i][2])
                  /\ IF i = 1 THEN srvFrom \in {0, wire[i][2]}
                     ELSE wire[i - 1][1] \in {"MAIL", "RCPT"} /\ wire[i - 1][2] = wire[i][2]
          BY <3>2 DEF Behind, BehindWire
        <4>2. wire'[i] = wire[i] /\ (i # 1 => wire'[i - 1] = wire[i - 1])
          <5>1. i # 1 => i - 1 \in 1..Len(wire)
            BY <1>2, <3>2
          <5> QED BY <1>2, <3>2, <5>1
        <4> QED BY <4>1, <4>2
      <3> QED BY <1>2, <3>1, <3>2
    <2>2. srvTo' = srvTo /\ srvFrom' = srvFrom
      BY DEF server
    <2>3. srvTo \subseteq (IF srvFrom = 0 THEN {} ELSE Rcpts(srvFrom))
      BY DEF Behind, BehindWire
    <2> QED BY <2>1, <2>2, <2>3 DEF BehindWire, Rcpts
  <1> QED BY <1>2, <1>3

\* The replies when one of them is read.
LEMMA BehindReads ==
    ASSUME Behind, replies # <<>>
    PROVE  /\ Tail(replies) \in Seq(Command \X Codes) /\ Len(Tail(replies)) = Len(replies) - 1
           /\ Len(replies) \in Nat \ {0} /\ Len(wire) \in Nat /\ Head(replies) = replies[1] /\ code \in Codes
           /\ \A j \in 1..(Len(replies) - 1) : Tail(replies)[j] = replies[j + 1]
  <1>1. replies \in Seq(Command \X Codes) /\ wire \in Seq(Command)
    BY DEF Behind, TypeOK
  <1>2. /\ Tail(replies) \in Seq(Command \X Codes) /\ Len(Tail(replies)) = Len(replies) - 1
        /\ Len(replies) \in Nat \ {0} /\ Len(wire) \in Nat /\ Head(replies) = replies[1]
        /\ \A j \in 1..(Len(replies) - 1) : Tail(replies)[j] = replies[j + 1]
    BY <1>1, TailFacts
  <1>3. replies[1] \in Command \X Codes
    BY <1>1, <1>2
  <1> QED BY <1>2, <1>3 DEF code

\* What is on its way when a reply is read and a command sent, or nothing.
LEMMA BehindExchange ==
    ASSUME Behind, ~setup.bdat, replies # <<>>, replies' = Tail(replies), state # "SentData",
           \/ wire' = wire
           \/ \E c \in Command : /\ c[1] \in {"RSET", "DATA"} /\ (c[1] = "DATA" => state' = "SentData")
                                 /\ wire' = wire \o <<c>>
    PROVE  /\ \A i \in 1..Len(wire') : /\ wire'[i][1] \in {"MAIL", "RCPT", "RSET", "DATA"}
                                       /\ wire'[i][1] = "DATA" => state' = "SentData" /\ i = Len(wire')
           /\ \A i \in 1..Len(replies') : replies'[i][2] # "354"
           /\ Len(replies') = Len(replies) - 1
           /\ Len(wire') = Len(wire) + (IF wire' = wire THEN 0 ELSE 1)
  <1>1. /\ replies' \in Seq(Command \X Codes) /\ Len(replies') = Len(replies) - 1
        /\ Len(replies) \in Nat \ {0} /\ Len(wire) \in Nat
        /\ \A j \in 1..(Len(replies) - 1) : replies'[j] = replies[j + 1]
    BY BehindReads
  <1>2. /\ \A i \in 1..Len(wire) : wire[i][1] \in {"MAIL", "RCPT", "RSET"}
        /\ \A i \in 1..Len(replies) : replies[i][2] # "354"
    BY DEF Behind, BehindCount
  <1>3. \A i \in 1..Len(replies') : replies'[i][2] # "354"
    <2> TAKE i \in 1..Len(replies')
    <2>1. i \in 1..(Len(replies) - 1) /\ i + 1 \in 1..Len(replies)
      BY <1>1
    <2> QED BY <1>1, <1>2, <2>1
  <1>4. CASE wire' = wire
    BY <1>1, <1>2, <1>3, <1>4
  <1>5. CASE wire' # wire
    <2>1. PICK c \in Command : /\ c[1] \in {"RSET", "DATA"} /\ (c[1] = "DATA" => state' = "SentData")
                               /\ wire' = wire \o <<c>>
      BY <1>5
    <2>2. wire \in Seq(Command) /\ <<c>> \in Seq(Command) /\ Len(<<c>>) = 1 /\ <<c>>[1] = c
      BY DEF Behind, TypeOK
    <2>3. /\ Len(wire') = Len(wire) + 1 /\ wire'[Len(wire) + 1] = c
          /\ \A i \in 1..Len(wire) : wire'[i] = wire[i]
      BY <1>1, <2>1, <2>2, ConcatFacts
    <2>4. ASSUME NEW i \in 1..Len(wire')
          PROVE  /\ wire'[i][1] \in {"MAIL", "RCPT", "RSET", "DATA"}
                 /\ wire'[i][1] = "DATA" => state' = "SentData" /\ i = Len(wire')
      <3>1. i \in 1..Len(wire) \/ i = Len(wire) + 1
        BY <1>1, <2>3
      <3> QED BY <1>2, <2>1, <2>3, <3>1
    <2> QED BY <1>1, <1>3, <1>5, <2>3, <2>4
  <1> QED BY <1>4, <1>5

\* No message is destroyed and the server takes none.
LEMMA BehindQuiet ==
    ASSUME Behind, ~setup.bdat, UNCHANGED <<taken, setup>>,
           \A m \in Message : outcome'[m] = "destroyed" => outcome[m] = "destroyed"
    PROVE  BehindQueue'
  BY DEF Behind, BehindQueue, Rcpts

\* A message is done with, or given up, by a client that is behind: without BDAT it is not
\* taken to have been sent, and a reply is still to come.
LEMMA BehindDone ==
    ASSUME Behind, cur # 0, NEW sent \in BOOLEAN, NEW by \in SUBSET Rcpts(cur), Report(sent, by),
           UNCHANGED <<message, session, server, wire>>,
           replies' = replies \/ (replies # <<>> /\ replies' = Tail(replies)),
           state' = "MessageDone" \/ (state' = "SentBdatMore" /\ setup.bdat),
           filter' = FALSE, handshake' = FALSE, blocked' = FALSE,
           ~setup.bdat => ~sent /\ state # "SentData" /\ (replies' = replies \/ Unread >= 2)
    PROVE  Behind'
  <1>1. /\ replies' \in Seq(Command \X Codes) /\ Len(replies') \in Nat
        /\ replies \in Seq(Command \X Codes) /\ Len(wire) \in Nat /\ Len(replies) \in Nat
    <2>1. replies \in Seq(Command \X Codes) /\ wire \in Seq(Command)
      BY DEF Behind, TypeOK
    <2>2. replies' \in Seq(Command \X Codes)
      BY <2>1, BehindReads
    <2> QED BY <2>1, <2>2
  <1>2. TypeOK'
    <2>1. /\ cur' \in Message \cup {0} /\ timer' \in {"off", "ready", "response"}
          /\ outcome' \in [Message -> {"queued", "sending", "destroyed", "failed", "unlocked"}]
          /\ rcpts' \in [Message -> SUBSET Rcpt] /\ told' \in [Message -> SUBSET Rcpt]
          /\ \A m \in Message : rcpts'[m] \subseteq Rcpts(m) /\ told'[m] \subseteq Rcpts(m)
      BY ReportTypes DEF Behind, BehindState
    <2> QED BY <1>1, <2>1 DEF Behind, TypeOK, message, session, server, State
  <1>3. BehindState'
    BY DEF Behind, BehindState, session, Report
  <1>4. BehindWire'
    <2>1. wire' = wire /\ srvFrom' = srvFrom /\ srvTo' = srvTo
      BY DEF server
    <2> QED BY <2>1 DEF Behind, BehindWire, Rcpts
  <1>5. ~setup.bdat => BehindCount' /\ BehindQueue'
    <2> HAVE ~setup.bdat
    <2>0. state' = "MessageDone" /\ state # "SentData" /\ ~sent /\ wire' = wire
      OBVIOUS
    <2>1. /\ \A i \in 1..Len(wire') : wire'[i][1] \in {"MAIL", "RCPT", "RSET"}
          /\ \A i \in 1..Len(replies') : replies'[i][2] # "354"
      <3>1. /\ \A i \in 1..Len(wire) : wire[i][1] \in {"MAIL", "RCPT", "RSET"}
            /\ \A i \in 1..Len(replies) : replies[i][2] # "354"
        BY <2>0 DEF Behind, BehindCount
      <3>2. CASE replies' = replies
        BY <2>0, <3>1, <3>2
      <3>3. CASE replies # <<>> /\ replies' = Tail(replies)
        BY <2>0, <3>3, BehindExchange, <3>1
      <3> QED BY <3>2, <3>3
    <2>2. Unread' >= 1
      <3>1. CASE replies' = replies
        <4>1. /\ state \in {"Filtering", "MessageDone"} => Unread >= 1
              /\ state = "SentMail" => Unread >= To[cur] + 2
              /\ state = "SentRcpt" => Unread >= To[cur] - toIndex + 2
              /\ state \in {"SentDataStub", "SentData"} => Unread >= 2
          BY DEF Behind, BehindCount
        <4>2. state = "SentRcpt" => toIndex \in 1..To[cur]
          BY DEF Behind, BehindState, Rcpts
        <4>3. cur \in Message /\ To[cur] \in Nat
          BY Names DEF Behind, TypeOK
        <4>4. state \in {"Filtering", "SentMail", "SentRcpt", "SentDataStub", "MessageDone", "Gone", "SentData"}
          BY DEF Behind, BehindState
        <4>5. state # "Gone" /\ Unread \in Nat
          BY <1>1 DEF Behind, BehindState, Unread
        <4>6. Unread >= 1
          BY <4>1, <4>2, <4>3, <4>4, <4>5
        <4> QED BY <2>0, <3>1, <4>6 DEF Unread
      <3>2. CASE replies # <<>> /\ replies' = Tail(replies) /\ Unread >= 2
        <4>1. Len(replies') = Len(replies) - 1
          BY <3>2, BehindReads
        <4>2. Unread = Len(replies) + Len(wire) /\ Unread' = Len(replies') + Len(wire)
          BY <2>0 DEF Unread
        <4>3. Unread' = Unread - 1 /\ Unread \in Nat
          BY <1>1, <4>1, <4>2
        <4> QED BY <3>2, <4>3
      <3>3. CASE replies' # replies
        BY <3>2, <3>3
      <3> QED BY <3>1, <3>3
    <2>3. BehindCount'
      BY <2>0, <2>1, <2>2 DEF BehindCount
    <2>4. BehindQueue'
      <3>1. \A m \in Message : outcome'[m] = "destroyed" => outcome[m] = "destroyed"
        BY <2>0 DEF Report, Behind, TypeOK
      <3> QED BY <3>1, BehindQuiet DEF server, session
    <2> QED BY <2>3, <2>4
  <1> QED BY <1>2, <1>3, <1>4, <1>5 DEF Behind, session

LEMMA BehindFilterFails == ASSUME Behind, FilterFails PROVE Behind'
  <1> USE DEF FilterFails, Goto, Unsent, channel
  <1>1. state = "Filtering" /\ cur # 0 /\ handshake = FALSE /\ blocked = FALSE
    BY DEF Behind, BehindState, TypeOK
  <1> QED BY <1>1, BehindDone

LEMMA BehindFilterAbandon == ASSUME Behind, FilterAbandon PROVE Behind'
  <1> USE DEF FilterAbandon, Goto, channel
  <1>1. state = "Filtering" /\ cur \in Message /\ handshake = FALSE /\ blocked = FALSE
    BY DEF Behind, BehindState, TypeOK
  <1>2. TypeOK'
    <2>1. outcome' \in [Message -> {"queued", "sending", "destroyed", "failed", "unlocked"}]
      BY <1>1 DEF Behind, TypeOK
    <2> QED BY <2>1 DEF Behind, TypeOK, message, session, server, State
  <1>3. BehindState'
    BY DEF Behind, BehindState, session
  <1>4. BehindWire'
    BY DEF Behind, BehindWire, server, Rcpts
  <1>5. ~setup.bdat => BehindCount' /\ BehindQueue'
    <2> HAVE ~setup.bdat
    <2>1. BehindCount'
      BY <1>1 DEF Behind, BehindCount, Unread
    <2>2. \A m \in Message : outcome'[m] = "destroyed" => outcome[m] = "destroyed"
      BY DEF Behind, TypeOK
    <2> QED BY <2>1, <2>2, BehindQuiet DEF server, session
  <1> QED BY <1>2, <1>3, <1>4, <1>5 DEF Behind, session

\* The next message of a client that is behind is begun, with a reply still to come that is
\* not to it.
LEMMA BehindStart == ASSUME Behind, Start PROVE Behind'
  <1> USE DEF Start, Goto, Fresh, channel
  <1>1. PICK m \in Message : /\ outcome[m] = "queued" /\ cur' = m
                             /\ outcome' = [outcome EXCEPT ![m] = "sending"]
    BY DEF IsNext
  <1>2. state = "MessageDone" /\ cur' # 0 /\ UNCHANGED <<rcpts, told, session, handshake, blocked, wire, replies, server>>
    BY <1>1, Names
  <1>3. TypeOK'
    <2>1. cur' \in Message /\ outcome' \in [Message -> {"queued", "sending", "destroyed", "failed", "unlocked"}]
      BY <1>1 DEF Behind, TypeOK
    <2>2. chunk' \in 0..MaxChunks
      BY ConstantsAssumption
    <2> QED BY <1>2, <2>1, <2>2 DEF Behind, TypeOK, session, server, State
  <1>4. BehindState'
    BY <1>2 DEF Behind, BehindState, session
  <1>5. BehindWire'
    BY <1>2 DEF Behind, BehindWire, server, Rcpts
  <1>6. ~setup.bdat => BehindCount' /\ BehindQueue'
    <2> HAVE ~setup.bdat
    <2>1. BehindCount'
      BY <1>2 DEF Behind, BehindCount, Unread
    <2>2. \A k \in Message : outcome'[k] = "destroyed" => outcome[k] = "destroyed"
      BY <1>1 DEF Behind, TypeOK
    <2> QED BY <2>1, <2>2, BehindQuiet DEF server, session
  <1> QED BY <1>3, <1>4, <1>5, <1>6 DEF Behind, session

LEMMA BehindStartFails == ASSUME Behind, StartFails PROVE Behind'
  <1> USE DEF StartFails, Quiet, Fresh, channel
  <1>1. PICK m \in Message : outcome[m] = "queued" /\ outcome' = [outcome EXCEPT ![m] = "failed"]
    BY DEF IsNext
  <1>2. state = "SentBdatMore" /\ cur = 0 /\ setup.bdat
        /\ UNCHANGED <<state, cur, filter, rcpts, told, session, handshake, blocked, wire, replies, server>>
    BY DEF Behind, BehindState
  <1>3. TypeOK'
    <2>1. outcome' \in [Message -> {"queued", "sending", "destroyed", "failed", "unlocked"}]
      BY <1>1 DEF Behind, TypeOK
    <2>2. chunk' \in 0..MaxChunks
      BY ConstantsAssumption
    <2> QED BY <1>2, <2>1, <2>2 DEF Behind, TypeOK, session, server
  <1>4. BehindState'
    BY <1>2 DEF Behind, BehindState, session
  <1>5. BehindWire'
    BY <1>2 DEF Behind, BehindWire, server, Rcpts
  <1> QED BY <1>2, <1>3, <1>4, <1>5 DEF Behind, session

\* Its batch is sent, behind what is on its way already.
LEMMA BehindFilterOk == ASSUME Behind, FilterOk PROVE Behind'
  <1> USE DEF FilterOk, Goto, Unsent
  <1>1. /\ state = "Filtering" /\ cur # 0 /\ cur \in Message /\ handshake = FALSE /\ blocked = FALSE /\ pipe = TRUE
        /\ toIndex = 0 /\ accepted = 0 /\ rejected = {} /\ filter' = FALSE
        /\ UNCHANGED <<message, session, handshake, blocked, replies, server>>
    BY DEF Behind, BehindState, TypeOK
  <1>2. CASE state' = "MessageDone" /\ Unsent /\ UNCHANGED wire
    BY <1>1, <1>2, BehindDone
  <1>3. ASSUME state' = "SentMail", Same,
               Send(Verb("MAIL") \o IF pipe THEN [i \in Rcpts(cur) |-> <<"RCPT", cur, i>>] ELSE <<>>)
        PROVE  Behind'
    <2> DEFINE rs == [i \in Rcpts(cur) |-> <<"RCPT", cur, i>>]
               ms == <<<<"MAIL", cur, 0>>>>
               n  == Len(wire)
    <2> USE <1>3 DEF Same, store
    <2>1. To[cur] \in Nat \ {0} /\ Rcpts(cur) = 1..To[cur]
      BY <1>1, Names DEF Rcpts
    <2>2. rs \in Seq(Command) /\ Len(rs) = To[cur] /\ \A i \in 1..To[cur] : rs[i] = <<"RCPT", cur, i>>
      <3>1. \A i \in Rcpts(cur) : <<"RCPT", cur, i>> \in Command
        BY <1>1, Names, Commands DEF Behind
      <3> QED BY <2>1, <3>1
    <2>3. ms \in Seq(Command) /\ Len(ms) = 1 /\ ms[1] = <<"MAIL", cur, 0>>
      <3>1. <<"MAIL", cur, 0>> \in Command
        BY Commands DEF Behind
      <3> QED BY <3>1
    <2>4. wire' = wire \o (ms \o rs) /\ timer' = "response" /\ UNCHANGED <<cur, store>>
      BY <1>1 DEF Send, Verb
    <2>5. wire \in Seq(Command) /\ n \in Nat /\ replies \in Seq(Command \X Codes) /\ Len(replies) \in Nat
      BY DEF Behind, TypeOK
    <2> HIDE DEF rs, ms
    <2>6. /\ ms \o rs \in Seq(Command) /\ Len(ms \o rs) = 1 + To[cur] /\ (ms \o rs)[1] = <<"MAIL", cur, 0>>
          /\ \A j \in 2..(To[cur] + 1) : (ms \o rs)[j] = <<"RCPT", cur, j - 1>>
      <3>1. /\ ms \o rs \in Seq(Command) /\ Len(ms \o rs) = Len(ms) + Len(rs)
            /\ \A j \in 1..Len(ms) : (ms \o rs)[j] = ms[j]
            /\ \A j \in (Len(ms) + 1)..(Len(ms) + Len(rs)) : (ms \o rs)[j] = rs[j - Len(ms)]
        BY <2>2, <2>3, ConcatFacts
      <3>2. \A j \in 2..(To[cur] + 1) : j - 1 \in 1..To[cur] /\ (ms \o rs)[j] = rs[j - 1]
        BY <2>1, <2>2, <2>3, <3>1
      <3> QED BY <2>1, <2>2, <2>3, <3>1, <3>2
    <2>7. /\ wire' \in Seq(Command) /\ Len(wire') = n + (1 + To[cur])
          /\ \A j \in 1..n : wire'[j] = wire[j]
          /\ wire'[n + 1] = <<"MAIL", cur, 0>>
          /\ \A j \in (n + 2)..(n + (1 + To[cur])) : wire'[j] = <<"RCPT", cur, j - n - 1>> /\ j - n - 1 \in Rcpts(cur)
      <3>1. /\ wire' \in Seq(Command) /\ Len(wire') = n + Len(ms \o rs)
            /\ \A j \in 1..n : wire'[j] = wire[j]
            /\ \A j \in (n + 1)..(n + Len(ms \o rs)) : wire'[j] = (ms \o rs)[j - n]
        BY <2>4, <2>5, <2>6, ConcatFacts
      <3>2. n + 1 \in (n + 1)..(n + Len(ms \o rs)) /\ n + 1 - n = 1
        BY <2>1, <2>5, <2>6
      <3>3. ASSUME NEW j \in (n + 2)..(n + (1 + To[cur]))
            PROVE  wire'[j] = <<"RCPT", cur, j - n - 1>> /\ j - n - 1 \in Rcpts(cur)
        <4>1. j - n \in 2..(To[cur] + 1) /\ j \in (n + 1)..(n + Len(ms \o rs)) /\ j - n - 1 \in 1..To[cur]
          BY <2>1, <2>5, <2>6
        <4> QED BY <2>1, <2>6, <3>1, <4>1
      <3>4. wire'[n + 1] = (ms \o rs)[n + 1 - n]
        BY <3>1, <3>2
      <3>5. wire'[n + 1] = <<"MAIL", cur, 0>>
        BY <2>6, <3>2, <3>4
      <3>6. wire' \in Seq(Command) /\ Len(wire') = n + (1 + To[cur]) /\ \A j \in 1..n : wire'[j] = wire[j]
        BY <2>6, <3>1
      <3> QED BY <3>3, <3>5, <3>6
    <2> HIDE DEF n
    <2>8. TypeOK'
      BY <1>1, <2>4, <2>7 DEF Behind, TypeOK, message, session, server, State
    <2>9. BehindState'
      BY <1>1, <2>4 DEF Behind, BehindState, message, session
    <2>10. \A j \in 1..Len(wire') : j \in 1..n \/ j = n + 1 \/ j \in (n + 2)..(n + (1 + To[cur]))
      BY <2>1, <2>5, <2>7
    <2>11. BehindWire'
      <3>1. ASSUME NEW i \in 1..Len(wire')
            PROVE  /\ wire'[i][1] # "EOT"
                   /\ wire'[i][1] = "RCPT" =>
                       /\ wire'[i][2] \in Message /\ wire'[i][3] \in Rcpts(wire'[i][2])
                       /\ IF i = 1 THEN srvFrom \in {0, wire'[i][2]}
                          ELSE wire'[i - 1][1] \in {"MAIL", "RCPT"} /\ wire'[i - 1][2] = wire'[i][2]
        <4>1. CASE i \in 1..n
          <5>1. /\ wire[i][1] # "EOT"
                /\ wire[i][1] = "RCPT" =>
                    /\ wire[i][2] \in Message /\ wire[i][3] \in Rcpts(wire[i][2])
                    /\ IF i = 1 THEN srvFrom \in {0, wire[i][2]}
                       ELSE wire[i - 1][1] \in {"MAIL", "RCPT"} /\ wire[i - 1][2] = wire[i][2]
            BY <4>1 DEF Behind, BehindWire, n
          <5>2. i # 1 => i - 1 \in 1..n
            BY <2>5, <4>1
          <5> QED BY <2>7, <4>1, <5>1, <5>2
        <4>2. CASE i = n + 1
          BY <2>7, <4>2
        <4>3. CASE i \in (n + 2)..(n + (1 + To[cur]))
          <5>1. wire'[i] = <<"RCPT", cur, i - n - 1>> /\ i - n - 1 \in Rcpts(cur) /\ i # 1
            <6>1. i # 1
              BY <2>1, <2>5, <4>3
            <6> QED BY <2>7, <4>3, <6>1
          <5>2. i - 1 = n + 1 \/ i - 1 \in (n + 2)..(n + (1 + To[cur]))
            BY <2>1, <2>5, <4>3
          <5>3. wire'[i - 1][1] \in {"MAIL", "RCPT"} /\ wire'[i - 1][2] = cur
            BY <2>7, <5>2
          <5> QED BY <1>1, <5>1, <5>3
        <4> QED BY <2>10, <4>1, <4>2, <4>3
      <3>2. srvTo' = srvTo /\ srvFrom' = srvFrom
        BY <1>1 DEF server
      <3>3. srvTo \subseteq (IF srvFrom = 0 THEN {} ELSE Rcpts(srvFrom))
        BY DEF Behind, BehindWire
      <3> QED BY <3>1, <3>2, <3>3 DEF BehindWire, Rcpts
    <2>12. ~setup.bdat => BehindCount' /\ BehindQueue'
      <3> HAVE ~setup.bdat
      <3>1. /\ \A i \in 1..n : wire[i][1] \in {"MAIL", "RCPT", "RSET"}
            /\ \A i \in 1..Len(replies) : replies[i][2] # "354"
            /\ Len(replies) + n >= 1
        BY <1>1 DEF Behind, BehindCount, Unread, n
      <3>2. \A i \in 1..Len(wire') : wire'[i][1] \in {"MAIL", "RCPT", "RSET"}
        BY <2>7, <2>10, <3>1
      <3>3. Unread' >= To[cur] + 2
        <4>1. Unread' = Len(replies) + (n + (1 + To[cur]))
          BY <1>1, <2>7 DEF Unread
        <4> QED BY <2>1, <2>5, <3>1, <4>1
      <3>4. BehindCount'
        BY <1>1, <2>4, <3>1, <3>2, <3>3 DEF BehindCount
      <3>5. BehindQueue'
        BY <1>1, <2>4, BehindQuiet DEF server, session
      <3> QED BY <3>4, <3>5
    <2> QED BY <1>1, <2>8, <2>9, <2>11, <2>12 DEF Behind, session
  <1> QED BY <1>2, <1>3

\* A reply ends a message, be it the reply to one of its commands or not.
LEMMA BehindEnds ==
    ASSUME Behind, MailFails \/ RcptRejected \/ ChunkFails \/ ContentReply
    PROVE  Behind'
  <1> DEFINE sent == code \in Final /\ accepted >= To[cur]
             by   == IF code \in Final THEN Rcpts(cur) \ rejected ELSE {}
  <1> USE DEF On, Goto, Quiet, Unsent
  <1>1. /\ cur # 0 /\ handshake = FALSE /\ blocked = FALSE /\ replies # <<>> /\ replies' = Tail(replies)
        /\ state \in {"SentMail", "SentDataStub", "SentBdatMore", "SentBdatLast"} /\ filter = FALSE
        /\ state \in {"SentBdatMore", "SentBdatLast"} => setup.bdat
    BY DEF Behind, BehindState, TypeOK, MailFails, RcptRejected, ChunkFails, ContentReply
  <1>2. /\ UNCHANGED <<message, session, server, wire, handshake, filter, blocked>>
        /\ state' = "MessageDone" \/ (state' = "SentBdatMore" /\ state = "SentBdatMore")
        /\ IF state = "SentBdatLast" THEN Report(sent, by) ELSE Report(FALSE, {})
    BY <1>1 DEF MailFails, RcptRejected, ChunkFails, ContentReply
  <1>3. sent \in BOOLEAN /\ by \in SUBSET Rcpts(cur) /\ {} \in SUBSET Rcpts(cur)
    OBVIOUS
  <1> HIDE DEF sent, by
  <1>4. ~setup.bdat => Unread >= 2
    <2>1. cur \in Message /\ To[cur] \in Nat
      BY <1>1, Names DEF Behind, TypeOK
    <2>2. ASSUME ~setup.bdat PROVE Unread >= 2
      <3>1. (state = "SentMail" => Unread >= To[cur] + 2) /\ (state = "SentDataStub" => Unread >= 2)
        BY <2>2 DEF Behind, BehindCount
      <3>2. Unread \in Nat
        BY DEF Unread, Behind, TypeOK
      <3> QED BY <1>1, <2>1, <2>2, <3>1, <3>2
    <2> QED BY <2>2
  <1>5. CASE state = "SentBdatLast"
    BY <1>1, <1>2, <1>3, <1>5, BehindDone
  <1>6. CASE state # "SentBdatLast"
    BY <1>1, <1>2, <1>3, <1>4, <1>6, BehindDone
  <1> QED BY <1>5, <1>6

\* A reply is read and counted, and another one waited for.
LEMMA BehindReadOn ==
    ASSUME Behind, replies # <<>>, replies' = Tail(replies), UNCHANGED <<setup, session, server, store, cur>>,
           wire' = wire, timer' \in {"off", "response"},
           UNCHANGED <<handshake, filter, blocked, chunk>>,
           state \in {"SentMail", "SentRcpt"}, state' = "SentRcpt", toIndex' = toIndex + 1, toIndex < To[cur],
           IF state = "SentMail" THEN UNCHANGED <<accepted, rejected>> ELSE Count
    PROVE  Behind'
  <1> USE DEF store
  <1>1. /\ cur \in Message /\ cur # 0 /\ To[cur] \in Nat \ {0} /\ Rcpts(cur) = 1..To[cur] /\ Rcpts(cur) \subseteq Rcpt
        /\ toIndex \in 0..To[cur] /\ (state = "SentRcpt" => toIndex \in Rcpts(cur))
        /\ accepted \in 0..toIndex /\ (state = "SentRcpt" => accepted \in 0..(toIndex - 1))
        /\ rejected \subseteq Rcpts(cur)
    <2>1. cur \in Message /\ cur # 0
      BY DEF Behind, BehindState, TypeOK
    <2>2. To[cur] \in Nat \ {0} /\ Rcpts(cur) = 1..To[cur] /\ Rcpts(cur) \subseteq Rcpt
      BY <2>1, Names DEF Rcpts
    <2>3. /\ state = "SentMail" => toIndex = 0 /\ accepted = 0
          /\ state = "SentRcpt" => toIndex \in Rcpts(cur) /\ accepted \in 0..(toIndex - 1)
          /\ rejected \subseteq Rcpts(cur)
      BY <2>1 DEF Behind, BehindState
    <2> QED BY <2>1, <2>2, <2>3
  <1>2. toIndex' \in Rcpts(cur) /\ accepted' \in 0..(toIndex' - 1) /\ rejected' \subseteq Rcpts(cur)
    <2>1. toIndex' \in Rcpts(cur) /\ toIndex' - 1 = toIndex /\ toIndex \in Nat
      BY <1>1
    <2>2. accepted' \in 0..toIndex
      BY <1>1 DEF Count
    <2>3. rejected' \subseteq Rcpts(cur)
      BY <1>1 DEF Count
    <2> QED BY <2>1, <2>2, <2>3
  <1>3. replies' \in Seq(Command \X Codes)
    BY BehindReads
  <1>4. TypeOK'
    <2>1. accepted' \in Rcpt \cup {0} /\ toIndex' \in Rcpt /\ rejected' \subseteq Rcpt
      <3>1. accepted' = 0 \/ accepted' \in 1..To[cur]
        BY <1>1, <1>2
      <3> QED BY <1>1, <1>2, <3>1
    <2> QED BY <1>3, <2>1 DEF Behind, TypeOK, session, server, State
  <1>5. BehindState'
    BY <1>1, <1>2 DEF Behind, BehindState, session
  <1>6. BehindWire'
    <2>1. wire' = wire /\ srvFrom' = srvFrom /\ srvTo' = srvTo
      BY DEF server
    <2> QED BY <2>1 DEF Behind, BehindWire, Rcpts
  <1>7. ~setup.bdat => BehindCount' /\ BehindQueue'
    <2> HAVE ~setup.bdat
    <2>1. /\ \A i \in 1..Len(wire') : wire'[i][1] \in {"MAIL", "RCPT", "RSET"}
          /\ \A i \in 1..Len(replies') : replies'[i][2] # "354"
          /\ Len(replies') = Len(replies) - 1
      <3>1. \A i \in 1..Len(wire) : wire[i][1] \in {"MAIL", "RCPT", "RSET"}
        BY DEF Behind, BehindCount
      <3> QED BY <3>1, BehindExchange
    <2>2. Unread' >= To[cur] - toIndex' + 2
      <3>1. /\ state = "SentMail" => Unread >= To[cur] + 2 /\ toIndex = 0
            /\ state = "SentRcpt" => Unread >= To[cur] - toIndex + 2
        BY DEF Behind, BehindCount, BehindState
      <3>2. Unread = Len(replies) + Len(wire) /\ Unread' = Len(replies') + Len(wire)
            /\ Len(replies) \in Nat /\ Len(wire) \in Nat
        BY BehindReads DEF Unread
      <3>3. Unread' = Unread - 1 /\ Unread \in Nat
        BY <2>1, <3>2
      <3> QED BY <1>1, <3>1, <3>3
    <2>3. BehindCount'
      BY <2>1, <2>2 DEF BehindCount
    <2>4. BehindQueue'
      BY BehindQuiet DEF server, session
    <2> QED BY <2>3, <2>4
  <1> QED BY <1>4, <1>5, <1>6, <1>7 DEF Behind, session

LEMMA BehindMailOk == ASSUME Behind, MailOk PROVE Behind'
  <1> USE DEF MailOk, Goto, Quiet, Same, On
  <1>1. pipe = TRUE /\ cur \in Message /\ toIndex = 0 /\ state = "SentMail"
    BY DEF Behind, BehindState, TypeOK
  <1>2. toIndex < To[cur]
    BY <1>1, Names
  <1>3. toIndex' = toIndex + 1 /\ timer' = "off" /\ wire' = wire
    BY <1>1 DEF SendRcpt
  <1> QED BY <1>1, <1>2, <1>3, BehindReadOn DEF session

LEMMA BehindRcptMore == ASSUME Behind, RcptMore PROVE Behind'
  <1> USE DEF RcptMore, Quiet, Same, On
  <1>1. pipe = TRUE /\ state = "SentRcpt" /\ state' = "SentRcpt"
    BY DEF Behind, BehindState, TypeOK
  <1>3. toIndex' = toIndex + 1 /\ timer' = "off" /\ wire' = wire
    BY <1>1 DEF SendRcpt
  <1> QED BY <1>1, <1>3, BehindReadOn DEF session

\* A command is sent after the last recipient or a chunk.
LEMMA BehindSendOn ==
    ASSUME Behind, replies # <<>>, replies' = Tail(replies), UNCHANGED <<setup, session, server, store, cur, toIndex>>,
           NEW v \in {"RSET", "DATA", "BDAT", "BDATLAST"}, wire' = wire \o Verb(v), timer' = "response",
           UNCHANGED <<handshake, filter, blocked>>, chunk' \in 0..MaxChunks,
           \/ state = "SentRcpt" /\ toIndex >= To[cur] /\ Count
           \/ state = "SentBdatMore" /\ cur # 0 /\ UNCHANGED <<accepted, rejected>>,
           state' = CASE v = "RSET" -> "SentDataStub" [] v = "DATA" -> "SentData"
                      [] v = "BDAT" -> "SentBdatMore" [] OTHER -> "SentBdatLast",
           setup.bdat => v # "DATA", ~setup.bdat => v \in {"RSET", "DATA"}
    PROVE  Behind'
  <1> USE DEF store
  <1>1. /\ cur \in Message /\ cur # 0 /\ To[cur] \in Nat \ {0} /\ Rcpts(cur) = 1..To[cur] /\ Rcpts(cur) \subseteq Rcpt
        /\ state = "SentRcpt" => toIndex = To[cur] /\ accepted \in 0..(toIndex - 1)
        /\ rejected \subseteq Rcpts(cur) /\ (state = "SentRcpt" => toIndex \in Rcpts(cur))
    <2>1. cur \in Message /\ cur # 0
      BY DEF Behind, BehindState, TypeOK
    <2>2. To[cur] \in Nat \ {0} /\ Rcpts(cur) = 1..To[cur] /\ Rcpts(cur) \subseteq Rcpt
      BY <2>1, Names DEF Rcpts
    <2>3. /\ state = "SentRcpt" => toIndex \in Rcpts(cur) /\ accepted \in 0..(toIndex - 1)
          /\ rejected \subseteq Rcpts(cur)
      BY <2>1 DEF Behind, BehindState
    <2> QED BY <2>1, <2>2, <2>3
  <1>2. rejected' \subseteq Rcpts(cur) /\ accepted' \in Rcpt \cup {0}
    <2>1. CASE state = "SentRcpt"
      <3>1. rejected' \subseteq Rcpts(cur)
        BY <1>1, <2>1 DEF Count
      <3>2. accepted' \in 0..To[cur]
        BY <1>1, <2>1 DEF Count
      <3>3. accepted' = 0 \/ accepted' \in 1..To[cur]
        BY <1>1, <3>2
      <3> QED BY <1>1, <3>1, <3>3
    <2>2. CASE state = "SentBdatMore"
      BY <1>1, <2>2 DEF Behind, TypeOK
    <2> QED BY <2>1, <2>2
  <1>3. replies' \in Seq(Command \X Codes) /\ Len(replies) \in Nat /\ Len(replies') = Len(replies) - 1
    BY BehindReads
  <1>4. <<v, cur, 0>> \in Command /\ wire' = wire \o <<<<v, cur, 0>>>>
    BY Commands DEF Behind, Verb
  <1>5. wire' \in Seq(Command) /\ Len(wire) \in Nat /\ Len(wire') = Len(wire) + 1 /\ BehindWire'
    <2>1. <<v, cur, 0>>[1] \notin {"RCPT", "EOT"}
      OBVIOUS
    <2>2. UNCHANGED <<server, setup>>
      OBVIOUS
    <2> QED BY <1>4, <2>1, <2>2, BehindSend
  <1>6. state' \in {"SentDataStub"} \cup (IF setup.bdat THEN {"SentBdatMore", "SentBdatLast"} ELSE {"SentData"})
    OBVIOUS
  <1>7. TypeOK'
    <2>1. state' \in State
      BY <1>6 DEF State
    <2>2. rejected' \subseteq Rcpt
      BY <1>1, <1>2
    <2> QED BY <1>2, <1>3, <1>5, <2>1, <2>2 DEF Behind, TypeOK, session, server
  <1>8. BehindState'
    <2>1. filter = FALSE
      BY DEF Behind, BehindState, TypeOK
    <2>2. pipe /\ ~handshake /\ ~blocked
      BY DEF Behind, BehindState
    <2> QED BY <1>1, <1>2, <1>6, <2>1, <2>2 DEF BehindState, session
  <1>9. ~setup.bdat => BehindCount' /\ BehindQueue'
    <2> HAVE ~setup.bdat
    <2>0. state = "SentRcpt" /\ state' \in {"SentDataStub", "SentData"} /\ v \in {"RSET", "DATA"}
          /\ (v = "DATA" => state' = "SentData")
      BY DEF Behind, BehindState
    <2>1. /\ \A i \in 1..Len(wire') : /\ wire'[i][1] \in {"MAIL", "RCPT", "RSET", "DATA"}
                                      /\ wire'[i][1] = "DATA" => state' = "SentData" /\ i = Len(wire')
          /\ \A i \in 1..Len(replies') : replies'[i][2] # "354"
      <3>1. \E c \in Command : /\ c[1] \in {"RSET", "DATA"} /\ (c[1] = "DATA" => state' = "SentData")
                               /\ wire' = wire \o <<c>>
        BY <1>4, <2>0
      <3> QED BY <2>0, <3>1, BehindExchange
    <2>2. Unread' >= 2
      <3>1. Unread >= To[cur] - toIndex + 2
        BY <2>0 DEF Behind, BehindCount
      <3>2. Unread = Len(replies) + Len(wire) /\ Unread' = Len(replies') + Len(wire')
        BY DEF Unread
      <3>3. toIndex = To[cur]
        BY <1>1, <2>0
      <3> QED BY <1>1, <1>3, <1>5, <3>1, <3>2, <3>3
    <2>3. BehindCount'
      BY <2>0, <2>1, <2>2 DEF BehindCount
    <2>4. BehindQueue'
      BY BehindQuiet DEF server, session
    <2> QED BY <2>3, <2>4
  <1> QED BY <1>5, <1>7, <1>8, <1>9 DEF Behind, session

LEMMA BehindRcptLast == ASSUME Behind, RcptLast PROVE Behind'
  <1> USE DEF RcptLast, Quiet, Same, On, Goto
  <1>1. chunk' \in 0..MaxChunks
    BY ConstantsAssumption DEF Behind, TypeOK
  <1>2. \/ state' = "SentDataStub" /\ Send(Verb("RSET"))
        \/ setup.bdat /\ state' = "SentBdatLast" /\ Send(Verb("BDATLAST"))
        \/ setup.bdat /\ state' = "SentBdatMore" /\ Send(Verb("BDAT"))
        \/ ~setup.bdat /\ state' = "SentData" /\ Send(Verb("DATA"))
    OBVIOUS
  <1>3. /\ state = "SentRcpt" /\ toIndex >= To[cur] /\ Count /\ replies # <<>> /\ replies' = Tail(replies)
        /\ UNCHANGED <<handshake, filter, blocked, cur, store, toIndex, session, server, setup>>
    BY DEF session
  <1>4. PICK v \in {"RSET", "DATA", "BDAT", "BDATLAST"} :
          /\ wire' = wire \o Verb(v) /\ timer' = "response"
          /\ state' = CASE v = "RSET" -> "SentDataStub" [] v = "DATA" -> "SentData"
                        [] v = "BDAT" -> "SentBdatMore" [] OTHER -> "SentBdatLast"
          /\ setup.bdat => v # "DATA"
          /\ ~setup.bdat => v \in {"RSET", "DATA"}
    BY <1>2 DEF Send
  <1> QED BY <1>1, <1>3, <1>4, BehindSendOn

LEMMA BehindChunkOk == ASSUME Behind, ChunkOk PROVE Behind'
  <1> USE DEF ChunkOk, Quiet, Same, On, Goto
  <1>1. chunk' \in 0..MaxChunks
    BY ConstantsAssumption DEF Behind, TypeOK
  <1>2. \/ state' = "SentBdatLast" /\ Send(Verb("BDATLAST"))
        \/ state' = "SentBdatMore" /\ Send(Verb("BDAT"))
    OBVIOUS
  <1>3. /\ state = "SentBdatMore" /\ cur # 0 /\ replies # <<>> /\ replies' = Tail(replies)
        /\ UNCHANGED <<handshake, filter, blocked, cur, store, toIndex, accepted, rejected, session, server, setup>>
    BY DEF session
  <1>4. setup.bdat
    BY <1>3 DEF Behind, BehindState
  <1>5. PICK v \in {"BDAT", "BDATLAST"} :
          /\ wire' = wire \o Verb(v) /\ timer' = "response"
          /\ state' = CASE v = "RSET" -> "SentDataStub" [] v = "DATA" -> "SentData"
                        [] v = "BDAT" -> "SentBdatMore" [] OTHER -> "SentBdatLast"
    BY <1>2 DEF Send
  <1> QED BY <1>1, <1>3, <1>4, <1>5, BehindSendOn

\* It never gets to sending content with DATA: the reply that it reads is not that to DATA.
LEMMA BehindNoData == ASSUME Behind, state = "SentData", replies # <<>> PROVE code # "354"
  <1>1. ~setup.bdat
    BY DEF Behind, BehindState
  <1>2. /\ Unread >= 2
        /\ \A i \in 1..Len(replies) : replies[i][2] = "354" => i = Len(replies) /\ wire = <<>>
    BY <1>1 DEF Behind, BehindCount
  <1>3. Len(replies) \in Nat \ {0} /\ Len(wire) \in Nat /\ Head(replies) = replies[1]
    BY BehindReads
  <1>4. SUFFICES ASSUME code = "354" PROVE FALSE
    OBVIOUS
  <1>5. 1 \in 1..Len(replies) /\ replies[1][2] = "354"
    BY <1>3, <1>4 DEF code
  <1>6. 1 = Len(replies) /\ wire = <<>>
    BY <1>2, <1>5
  <1>7. Len(wire) = 0
    BY <1>6
  <1>8. Unread = Len(replies) + Len(wire)
    BY DEF Unread
  <1> QED BY <1>2, <1>3, <1>6, <1>7, <1>8

\* The server answers the oldest command: no recipient is mixed with those of another
\* message, and without BDAT no content comes, so that it takes no message.
LEMMA BehindServe == ASSUME Behind, Serve PROVE Behind'
  <1> DEFINE c == Head(wire)
  <1> USE DEF message, session, store
  <1>1. UNCHANGED <<state, cur, message, session, handshake, filter, timer, blocked, store>>
    BY DEF Serve
  <1>2. /\ wire \in Seq(Command) /\ wire # <<>> /\ replies \in Seq(Command \X Codes) /\ Len(replies) \in Nat
        /\ wire' = Tail(wire) /\ wire' \in Seq(Command) /\ Len(wire') = Len(wire) - 1 /\ Len(wire) \in Nat \ {0}
        /\ c = wire[1] /\ \A j \in 1..(Len(wire) - 1) : wire'[j] = wire[j + 1]
    BY TailFacts DEF Serve, Behind, TypeOK
  <1>3. c \in Command
    BY <1>2
  <1>4. PICK x \in Answers(c[1], c[3]) :
          /\ replies' = Append(replies, <<c, x>>)
          /\ srvFrom' = CASE c[1] = "MAIL" -> IF x = "250" THEN c[2] ELSE 0
                          [] c[1] \in {"RSET", "EOT", "BDATLAST", "EHLO"} -> 0
                          [] OTHER -> srvFrom
          /\ srvTo' = CASE c[1] = "RCPT" /\ x = "250" -> srvTo \cup {c[3]}
                        [] c[1] \in {"MAIL", "RSET", "EOT", "BDATLAST", "EHLO"} -> {}
                        [] OTHER -> srvTo
          /\ taken' = IF c[1] \in {"EOT", "BDATLAST"} /\ x = "250"
                      THEN [taken EXCEPT ![srvFrom] = srvTo] ELSE taken
          /\ refused' = IF c[1] = "RCPT" /\ x # "250" /\ srvFrom # 0
                        THEN [refused EXCEPT ![c[2]] = @ \cup {c[3]}] ELSE refused
    BY DEF Serve
  <1> HIDE DEF c
  <1>5. x \in Codes
    BY <1>4 DEF Answers, Codes
  <1>6. /\ replies' \in Seq(Command \X Codes) /\ Len(replies') = Len(replies) + 1
        /\ replies'[Len(replies) + 1] = <<c, x>> /\ \A j \in 1..Len(replies) : replies'[j] = replies[j]
    <2>1. <<c, x>> \in Command \X Codes
      BY <1>3, <1>5
    <2> QED BY <1>2, <1>4, <2>1, AppendFacts
  <1>7. /\ srvTo \subseteq (IF srvFrom = 0 THEN {} ELSE Rcpts(srvFrom)) /\ srvFrom \in Message \cup {0}
        /\ c[1] # "EOT"
        /\ c[1] = "RCPT" => c[2] \in Message /\ c[3] \in Rcpts(c[2]) /\ srvFrom \in {0, c[2]}
    <2>1. 1 \in 1..Len(wire)
      BY <1>2
    <2> QED BY <1>2, <2>1 DEF Behind, BehindWire, TypeOK
  <1>8. /\ srvFrom' \in Message \cup {0}
        /\ srvTo' \subseteq (IF srvFrom' = 0 THEN {} ELSE Rcpts(srvFrom'))
        /\ c[1] = "RCPT" => srvFrom' \in {0, c[2]}
        /\ c[1] = "MAIL" => srvFrom' \in {0, c[2]}
    <2>1. c[2] \in Message \cup {0}
      BY <1>3 DEF Command
    <2>2. CASE c[1] = "MAIL"
      BY <1>4, <2>1, <2>2
    <2>3. CASE c[1] = "RCPT"
      <3>1. srvFrom' = srvFrom /\ srvTo' = (IF x = "250" THEN srvTo \cup {c[3]} ELSE srvTo)
        BY <1>4, <2>3
      <3>2. srvFrom = 0 => x # "250"
        BY <1>4, <2>3 DEF Answers
      <3> QED BY <1>7, <2>3, <3>1, <3>2
    <2>4. CASE c[1] \in {"RSET", "EOT", "BDATLAST", "EHLO"}
      BY <1>4, <2>4
    <2>5. CASE c[1] \notin {"MAIL", "RCPT", "RSET", "EOT", "BDATLAST", "EHLO"}
      BY <1>4, <1>7, <2>5
    <2> QED BY <2>2, <2>3, <2>4, <2>5
  <1>9. TypeOK'
    <2>1. taken' \in [Message -> SUBSET Rcpt] /\ \A m \in Message : taken'[m] \subseteq Rcpts(m)
      <3>1. CASE taken' = taken
        BY <3>1 DEF Behind, TypeOK
      <3>2. CASE taken' # taken
        <4>1. c[1] = "BDATLAST" /\ x = "250" /\ taken' = [taken EXCEPT ![srvFrom] = srvTo]
          BY <1>4, <1>7, <3>2
        <4>2. srvTo # {}
          BY <1>4, <4>1 DEF Answers
        <4>3. srvFrom \in Message /\ srvTo \subseteq Rcpts(srvFrom) /\ Rcpts(srvFrom) \subseteq Rcpt
          BY <1>7, <4>2, Names
        <4> QED BY <4>1, <4>3 DEF Behind, TypeOK
      <3> QED BY <3>1, <3>2
    <2>2. refused' \in [Message -> SUBSET Rcpt] /\ \A m \in Message : refused'[m] \subseteq Rcpts(m)
      <3>1. CASE refused' = refused
        BY <3>1 DEF Behind, TypeOK
      <3>2. CASE refused' # refused
        <4>1. c[1] = "RCPT" /\ refused' = [refused EXCEPT ![c[2]] = @ \cup {c[3]}]
          BY <1>4, <3>2
        <4>2. c[2] \in Message /\ c[3] \in Rcpts(c[2]) /\ Rcpts(c[2]) \subseteq Rcpt
          BY <1>7, <4>1, Names
        <4> QED BY <4>1, <4>2 DEF Behind, TypeOK
      <3> QED BY <3>1, <3>2
    <2>3. srvTo' \subseteq Rcpt
      BY <1>8, Names
    <2> QED BY <1>1, <1>2, <1>6, <1>8, <2>1, <2>2, <2>3 DEF Behind, TypeOK, Rcpts
  <1>10. BehindState'
    BY <1>1 DEF Behind, BehindState, Rcpts
  <1>11. BehindWire'
    <2>1. ASSUME NEW i \in 1..Len(wire')
          PROVE  /\ wire'[i][1] # "EOT"
                 /\ wire'[i][1] = "RCPT" =>
                     /\ wire'[i][2] \in Message /\ wire'[i][3] \in Rcpts(wire'[i][2])
                     /\ IF i = 1 THEN srvFrom' \in {0, wire'[i][2]}
                        ELSE wire'[i - 1][1] \in {"MAIL", "RCPT"} /\ wire'[i - 1][2] = wire'[i][2]
      <3>1. i \in 1..(Len(wire) - 1) /\ i + 1 \in 1..Len(wire) /\ i + 1 # 1 /\ (i + 1) - 1 = i
        BY <1>2
      <3>2. wire'[i] = wire[i + 1]
        BY <1>2, <3>1
      <3>3. /\ wire[i + 1][1] # "EOT"
            /\ wire[i + 1][1] = "RCPT" =>
                 /\ wire[i + 1][2] \in Message /\ wire[i + 1][3] \in Rcpts(wire[i + 1][2])
                 /\ wire[i][1] \in {"MAIL", "RCPT"} /\ wire[i][2] = wire[i + 1][2]
        BY <3>1 DEF Behind, BehindWire
      <3>4. CASE i = 1
        <4>1. wire[i + 1][1] = "RCPT" => c[1] \in {"MAIL", "RCPT"} /\ c[2] = wire[i + 1][2]
          BY <1>2, <3>3, <3>4
        <4> QED BY <1>8, <3>2, <3>3, <3>4, <4>1
      <3>5. CASE i # 1
        <4>1. i - 1 \in 1..(Len(wire) - 1) /\ (i - 1) + 1 = i
          BY <1>2, <3>5
        <4>2. wire'[i - 1] = wire[i]
          BY <1>2, <4>1
        <4> QED BY <3>2, <3>3, <3>5, <4>2
      <3> QED BY <3>4, <3>5
    <2> QED BY <1>8, <2>1 DEF BehindWire, Rcpts
  <1>12. ~setup.bdat => BehindCount' /\ BehindQueue'
    <2> HAVE ~setup.bdat
    <2>1. /\ \A i \in 1..Len(wire) : /\ wire[i][1] \in {"MAIL", "RCPT", "RSET", "DATA"}
                                     /\ wire[i][1] = "DATA" => state = "SentData" /\ i = Len(wire)
          /\ \A i \in 1..Len(replies) : replies[i][2] = "354" => state = "SentData" /\ i = Len(replies) /\ wire = <<>>
      BY DEF Behind, BehindCount
    <2>2. c[1] \in {"MAIL", "RCPT", "RSET", "DATA"} /\ (c[1] = "DATA" => state = "SentData" /\ Len(wire) = 1)
      <3>1. 1 \in 1..Len(wire)
        BY <1>2
      <3> QED BY <1>2, <2>1, <3>1
    <2>3. x = "354" => c[1] = "DATA"
      BY <1>4, <2>2 DEF Answers
    <2>4. ASSUME NEW i \in 1..Len(wire')
          PROVE  /\ wire'[i][1] \in {"MAIL", "RCPT", "RSET", "DATA"}
                 /\ wire'[i][1] = "DATA" => state = "SentData" /\ i = Len(wire')
      <3>1. i \in 1..(Len(wire) - 1) /\ i + 1 \in 1..Len(wire)
        BY <1>2
      <3>2. wire'[i] = wire[i + 1]
        BY <1>2, <3>1
      <3>3. i + 1 = Len(wire) => i = Len(wire')
        <4>1. Len(wire') = Len(wire) - 1 /\ Len(wire) \in Nat
          BY <1>2
        <4> QED BY <3>1, <4>1
      <3>4. /\ wire[i + 1][1] \in {"MAIL", "RCPT", "RSET", "DATA"}
            /\ wire[i + 1][1] = "DATA" => state = "SentData" /\ i + 1 = Len(wire)
        BY <2>1, <3>1
      <3> QED BY <3>2, <3>3, <3>4
    <2>5. ASSUME NEW i \in 1..Len(replies'), replies'[i][2] = "354"
          PROVE  state = "SentData" /\ i = Len(replies') /\ wire' = <<>>
      <3>1. i \in 1..Len(replies) \/ i = Len(replies) + 1
        BY <1>2, <1>6
      <3>2. CASE i \in 1..Len(replies)
        BY <1>2, <1>6, <2>1, <2>5, <3>2
      <3>3. CASE i = Len(replies) + 1
        <4>1. x = "354"
          BY <1>6, <2>5, <3>3
        <4>2. state = "SentData" /\ Len(wire') = 0
          BY <1>2, <2>2, <2>3, <4>1
        <4>3. wire' = <<>>
          BY <1>2, <4>2
        <4> QED BY <1>6, <3>3, <4>2, <4>3
      <3> QED BY <3>1, <3>2, <3>3
    <2>6. Unread' = Unread
      <3>1. Unread = Len(replies) + Len(wire) /\ Unread' = Len(replies') + Len(wire')
        BY DEF Unread
      <3> QED BY <1>2, <1>6, <3>1
    <2>7. BehindCount'
      BY <1>1, <2>1, <2>4, <2>5, <2>6 DEF Behind, BehindCount
    <2>8. taken' = taken
      BY <1>4, <2>2
    <2>9. BehindQueue'
      BY <1>1, <2>8, BehindQuiet
    <2> QED BY <2>7, <2>9
  <1> QED BY <1>1, <1>9, <1>10, <1>11, <1>12 DEF Behind

-----------------------------------------------------------------------------
(* The specification.                                                      *)

LEMMA InitInv == ASSUME Init PROVE Inv
  <1>1. 1 \in Message /\ Len(To) \in Nat
    BY Names, ConstantsAssumption
  <1>2. TypeOK
    <2>1. wire \in Seq(Command) /\ replies \in Seq(Command \X Codes)
      BY DEF Init
    <2>2. setup.mechanisms \in Nat /\ 0 \in 0..setup.mechanisms /\ 0 \in 0..MaxChunks
      BY ConstantsAssumption DEF Init, Setup
    <2>3. \A m \in Message : Rcpts(m) \subseteq Rcpt
      BY Names
    <2> QED BY <1>1, <2>1, <2>2, <2>3 DEF Init, TypeOK, State
  <1>3. StateInv /\ ExchangeInv
    BY DEF Init, StateInv, ExchangeInv, Silent, Waiting
  <1>4. TransactionInv
    BY <1>1 DEF Init, TransactionInv, Early, Content
  <1>5. QueueInv
    BY <1>1 DEF Init, QueueInv, MessageInv
  <1>6. BatchInv
    BY DEF Init, BatchInv, Batched
  <1> QED BY <1>2, <1>3, <1>4, <1>5, <1>6 DEF Inv

LEMMA ThrowInv == ASSUME Inv, Throw PROVE Inv'
  <1>1. Gone("failed")
    BY DEF Throw
  <1> QED BY <1>1, GoneInv

LEMMA StutterInv == ASSUME Inv, UNCHANGED vars PROVE Inv'
  <1> USE DEF vars, message, session, channel, server, store
  <1>1. TypeOK'
    BY DEF Inv, TypeOK
  <1>2. StateInv'
    BY DEF Inv, StateInv
  <1>3. ExchangeInv'
    BY DEF Inv, ExchangeInv, Batched, Pending, Late, Due, Silent
  <1>4. TransactionInv'
    BY DEF Inv, TransactionInv, Counted, Rcpts, code
  <1>5. BatchInv'
    BY DEF Inv, BatchInv, Batched, Nth, Answered, Rcpts, code
  <1>6. QueueInv'
    BY DEF Inv, QueueInv, MessageInv, Rcpts
  <1> QED BY <1>1, <1>2, <1>3, <1>4, <1>5, <1>6 DEF Inv

\* What is read in step leaves the client in step, unless MAIL is refused to one that has
\* sent the recipients with it.
LEMMA ReadInv == ASSUME Inv, Read PROVE ClientInv'
  <1> USE DEF ClientInv
  <1>1. CASE Throw
    BY <1>1, ThrowInv
  <1>2. CASE ~Throw
    <2>1. ~EhloNeeded /\ ~HelloUnusable /\ ~AuthFails /\ ~Unexpected
      BY <1>2 DEF EhloNeeded, HelloUnusable, AuthFails, Unexpected
    <2>2. CASE Greeting \/ HeloInstead \/ Hello \/ StartTls \/ AuthChallenge \/ AuthOk \/ AuthNext
      BY <2>2, GreetingInv, HeloInsteadInv, HelloInv, StartTlsInv, AuthChallengeInv, AuthOkInv, AuthNextInv
    <2>3. CASE MailOk \/ RcptMore
      BY <2>3, MailOkInv, RcptMoreInv, MailOkBatch, RcptMoreBatch
    <2>4. CASE MailFails
      BY <2>4, MailFailsInv, FallsBehind
    <2>5. CASE RcptLast \/ RcptRejected
      BY <2>5, RcptLastInv, RcptRejectedInv
    <2>6. CASE DataOk \/ ChunkOk \/ ChunkFails \/ ContentReply
      BY <2>6, DataOkInv, ChunkOkInv, ChunkFailsInv, ContentReplyInv
    <2> QED BY <2>1, <2>2, <2>3, <2>4, <2>5, <2>6 DEF Read
  <1> QED BY <1>1, <1>2

\* A client that is in step stays so or falls behind.
LEMMA InvNext == ASSUME Inv, [Next]_vars PROVE ClientInv'
  <1> USE DEF ClientInv
  <1>1. CASE Serve
    BY <1>1, ServeInv, ServeBatch
  <1>2. CASE Opened
    BY <1>2, ConnectInv, GoneInv DEF Opened, ConnectFails
  <1>3. CASE Read
    BY <1>3, ReadInv
  <1>4. CASE Handshake \/ Filtered
    BY <1>4, HandshakeInv, FilterOkInv, FilterOkBatch, FilterFailsInv, FilterAbandonInv DEF Filtered
  <1>5. CASE Unblocked \/ Start \/ StartFails
    BY <1>5, UnblockedInv, StartInv, StartFailsInv
  <1>6. CASE Timeout
    BY <1>6, TimeoutInv
  <1>7. CASE Disconnect \/ Quit \/ Drop
    BY <1>7, ThrowInv, GoneInv DEF Disconnect, Quit, Drop
  <1>8. CASE UNCHANGED vars
    BY <1>8, StutterInv
  <1> QED BY <1>1, <1>2, <1>3, <1>4, <1>5, <1>6, <1>7, <1>8 DEF Next

LEMMA BehindStutter == ASSUME Behind, UNCHANGED vars PROVE Behind'
  <1> USE DEF vars, message, session, channel, server, store
  <1>1. TypeOK'
    BY DEF Behind, TypeOK
  <1>2. BehindState'
    BY DEF Behind, BehindState, Rcpts
  <1>3. BehindWire'
    BY DEF Behind, BehindWire, Rcpts
  <1>4. ~setup.bdat => BehindCount' /\ BehindQueue'
    BY DEF Behind, BehindCount, BehindQueue, Unread, Rcpts
  <1> QED BY <1>1, <1>2, <1>3, <1>4 DEF Behind

LEMMA BehindThrow == ASSUME Behind, Throw PROVE Behind'
  BY BehindGone DEF Throw

\* What a client that is behind can do of what its state would allow: it has its session,
\* and without BDAT it never comes to send content.
LEMMA BehindRead == ASSUME Behind, Read PROVE Behind'
  <1>1. CASE Throw
    BY <1>1, BehindThrow
  <1>2. CASE ~Throw
    <2>1. ~EhloNeeded /\ ~HelloUnusable /\ ~AuthFails /\ ~Unexpected
      BY <1>2 DEF EhloNeeded, HelloUnusable, AuthFails, Unexpected
    <2>2. state \notin {"Started", "SentEhlo", "SentHelo", "SentTlsEhlo", "StartTls", "Auth"}
      BY DEF Behind, BehindState
    <2>3. ~Greeting /\ ~HeloInstead /\ ~Hello /\ ~StartTls /\ ~AuthChallenge /\ ~AuthOk /\ ~AuthNext
      BY <2>2 DEF Greeting, HeloInstead, Hello, StartTls, AuthChallenge, AuthOk, AuthNext, On
    <2>4. ~DataOk
      BY <1>2, BehindNoData DEF DataOk, LastLineBlocked, On, code
    <2>5. CASE MailOk \/ RcptMore \/ RcptLast \/ ChunkOk
      BY <2>5, BehindMailOk, BehindRcptMore, BehindRcptLast, BehindChunkOk
    <2>6. CASE MailFails \/ RcptRejected \/ ChunkFails \/ ContentReply
      BY <2>6, BehindEnds
    <2> QED BY <2>1, <2>3, <2>4, <2>5, <2>6 DEF Read
  <1> QED BY <1>1, <1>2

\* A client that is behind stays so.
LEMMA BehindNext == ASSUME Behind, [Next]_vars PROVE Behind'
  <1>1. ~handshake /\ ~blocked /\ state \notin {"Init", "Started"}
    BY DEF Behind, BehindState
  <1>2. CASE Serve
    BY <1>2, BehindServe
  <1>3. CASE Read
    BY <1>3, BehindRead
  <1>4. CASE Filtered
    BY <1>4, BehindFilterOk, BehindFilterFails, BehindFilterAbandon DEF Filtered
  <1>5. CASE Start \/ StartFails
    BY <1>5, BehindStart, BehindStartFails
  <1>6. CASE Timeout \/ Disconnect \/ Quit \/ Drop
    BY <1>1, <1>6, BehindGone DEF Timeout, Disconnect, Quit, Drop, Throw
  <1>7. ~Opened /\ ~Handshake /\ ~Unblocked
    BY <1>1 DEF Opened, Connect, ConnectFails, Handshake, Unblocked
  <1>8. CASE UNCHANGED vars
    BY <1>8, BehindStutter
  <1> QED BY <1>2, <1>3, <1>4, <1>5, <1>6, <1>7, <1>8 DEF Next

LEMMA NextInv == ASSUME ClientInv, [Next]_vars PROVE ClientInv'
  BY InvNext, BehindNext DEF ClientInv

\* The session that is demanded is there, whatever the setup is.
LEMMA SecureNext == ASSUME SecureInv, [Next]_vars PROVE SecureInv'
  <1> USE DEF SecureInv, Transfer, Content, session, Goto, Quiet, On
  <1>1. ASSUME NEW r, Gone(r) PROVE SecureInv'
    BY <1>1 DEF Gone
  <1>2. CASE Serve \/ UNCHANGED vars
    BY <1>2 DEF Serve, vars
  <1>3. CASE Opened
    BY <1>1, <1>3 DEF Opened, Connect, ConnectFails
  <1>4. CASE Read
    <2>1. CASE Throw
      BY <1>1, <2>1 DEF Throw
    <2>2. CASE ~Throw
      <3>1. ~EhloNeeded /\ ~HelloUnusable /\ ~AuthFails /\ ~Unexpected
        BY <2>2 DEF EhloNeeded, HelloUnusable, AuthFails, Unexpected
      <3>2. CASE Hello
        BY <3>2 DEF Hello
      <3>3. CASE Greeting \/ HeloInstead \/ StartTls \/ AuthChallenge
        BY <3>3 DEF Greeting, HeloInstead, StartTls, AuthChallenge
      <3>4. CASE AuthOk \/ AuthNext
        BY <3>4 DEF AuthOk, AuthNext
      <3>5. CASE MailOk \/ MailFails \/ RcptMore
        BY <3>5 DEF MailOk, MailFails, RcptMore
      <3>6. CASE RcptLast \/ RcptRejected
        BY <3>6 DEF RcptLast, RcptRejected
      <3>7. CASE DataOk
        BY <2>2, <3>7 DEF DataOk, LastLineBlocked, SendContent
      <3>8. CASE ChunkOk \/ ChunkFails \/ ContentReply
        BY <3>8 DEF ChunkOk, ChunkFails, ContentReply
      <3> QED BY <1>4, <3>1, <3>2, <3>3, <3>4, <3>5, <3>6, <3>7, <3>8 DEF Read
    <2> QED BY <2>1, <2>2
  <1>5. CASE Handshake
    BY <1>1, <1>5 DEF Handshake, Throw
  <1>6. CASE Filtered
    BY <1>6 DEF Filtered, FilterOk, FilterFails, FilterAbandon
  <1>7. CASE Unblocked
    BY <1>1, <1>7 DEF Unblocked, LastLineBlocked, Throw, SendContent
  <1>8. CASE Start \/ StartFails
    BY <1>8 DEF Start, StartFails
  <1>9. CASE Timeout
    BY <1>1, <1>9 DEF Timeout, Throw
  <1>10. CASE Disconnect \/ Quit \/ Drop
    BY <1>1, <1>10 DEF Disconnect, Quit, Drop, Throw
  <1> QED BY <1>2, <1>3, <1>4, <1>5, <1>6, <1>7, <1>8, <1>9, <1>10 DEF Next

-----------------------------------------------------------------------------
(* What follows.                                                           *)

\* The next reply is to the oldest command that is outstanding.
LEMMA Oldest ==
    ASSUME TypeOK
    PROVE  /\ replies = <<>> => outstanding = wire
           /\ replies # <<>> => outstanding # <<>> /\ Head(outstanding) = Head(replies)[1]
  <1> DEFINE answered == [i \in 1..Len(replies) |-> replies[i][1]]
  <1>1. replies \in Seq(Command \X Codes) /\ wire \in Seq(Command)
    BY DEF TypeOK
  <1>2. \A i \in 1..Len(replies) : replies[i] \in Command \X Codes
    BY <1>1
  <1>3. \A i \in 1..Len(replies) : replies[i][1] \in Command
    BY <1>2
  <1>4. Len(replies) \in Nat
    BY <1>1
  <1>5. answered \in Seq(Command) /\ Len(answered) = Len(replies)
    BY <1>3, <1>4
  <1>6. outstanding = answered \o wire
    BY DEF outstanding
  <1>7. CASE replies = <<>>
    <2>1. answered = <<>>
      BY <1>5, <1>7
    <2> QED BY <1>1, <1>6, <1>7, <2>1
  <1>8. CASE replies # <<>>
    <2>1. Len(replies) > 0 /\ 1 \in 1..Len(replies)
      BY <1>1, <1>8
    <2>2. answered[1] = replies[1][1] /\ replies[1] = Head(replies)
      BY <1>1, <2>1
    <2> HIDE DEF answered
    <2>3. (answered \o wire)[1] = answered[1] /\ Len(answered \o wire) > 0 /\ answered \o wire \in Seq(Command)
      BY <1>1, <1>5, <2>1, ConcatProperties
    <2>4. Head(answered \o wire) = (answered \o wire)[1] /\ answered \o wire # <<>>
      BY <2>3
    <2> QED BY <1>6, <1>8, <2>2, <2>3, <2>4
  <1> QED BY <1>7, <1>8

LEMMA InvInStep == ASSUME Inv PROVE InStep
  <1> SUFFICES ASSUME ~pipe
               PROVE  IF state \in DOMAIN Awaits /\ ~handshake /\ ~(state = "SentBdatMore" /\ cur = 0)
                      THEN /\ cur # 0 /\ outstanding # <<>>
                           /\ Head(outstanding)[1] \in Awaits[state]
                           /\ Head(outstanding)[2] \in {0, cur}
                           /\ state = "SentRcpt" => Head(outstanding)[3] = toIndex
                      ELSE outstanding = <<>>
    BY DEF InStep
  <1>1. DOMAIN Awaits = Waiting \cup {"Started", "SentEhlo"}
    BY DEF Awaits, Waiting
  <1>2. TypeOK /\ Connecting = <<"CONNECT", 0, 0>>
    BY DEF Inv, Connecting
  <1>3. ASSUME NEW c, NEW X, Pending(c, X)
        PROVE  outstanding # <<>> /\ Head(outstanding) = c
    <2>1. CASE wire = <<c>> /\ replies = <<>>
      BY <1>2, <2>1, Oldest
    <2>2. CASE wire = <<>> /\ \E x \in X : replies = <<<<c, x>>>>
      <3>1. replies # <<>> /\ Head(replies)[1] = c
        BY <2>2
      <3> QED BY <1>2, <3>1, Oldest
    <2> QED BY <1>3, <2>1, <2>2 DEF Pending
  <1>4. ASSUME NEW c, NEW d, NEW X, Late(c, X, d)
        PROVE  outstanding # <<>> /\ Head(outstanding) \in {c, d}
    <2>1. CASE wire = <<c, d>> /\ replies = <<>>
      <3>1. outstanding = <<c, d>>
        BY <1>2, <2>1, Oldest
      <3> QED BY <3>1
    <2>2. CASE wire = <<d>> /\ \E x \in X : replies = <<<<c, x>>>>
      <3>1. replies # <<>> /\ Head(replies)[1] = c
        BY <2>2
      <3> QED BY <1>2, <3>1, Oldest
    <2>3. CASE wire = <<>> /\ \E x \in X, y \in Codes : replies = <<<<c, x>>, <<d, y>>>>
      <3>1. replies # <<>> /\ Head(replies)[1] = c
        BY <2>3
      <3> QED BY <1>2, <3>1, Oldest
    <2> QED BY <1>4, <2>1, <2>2, <2>3 DEF Late
  <1>5. CASE state \in {"Started", "SentEhlo"}
    <2>1. ~handshake /\ cur # 0
      BY <1>5 DEF Inv, StateInv
    <2>2. outstanding # <<>> /\ Head(outstanding) \in {Connecting, Due("EHLO")}
          /\ (state = "Started" => Head(outstanding) = Connecting)
      BY <1>3, <1>4, <1>5 DEF Inv, ExchangeInv
    <2>3. Head(outstanding)[1] \in Awaits[state] /\ Head(outstanding)[2] \in {0, cur}
      BY <1>2, <1>5, <2>2 DEF Due, Awaits
    <2> QED BY <1>1, <1>5, <2>1, <2>2, <2>3
  <1>6. CASE state \in Waiting /\ ~handshake /\ cur # 0
    <2>1. PICK v \in Awaits[state] : Pending(Due(v), Codes)
      BY <1>6 DEF Inv, ExchangeInv, Batched
    <2>2. outstanding # <<>> /\ Head(outstanding) = Due(v)
      BY <1>3, <2>1
    <2>3. Due(v)[1] = v /\ Due(v)[2] = cur /\ (state = "SentRcpt" => Due(v)[3] = toIndex)
      BY DEF Due
    <2> QED BY <1>1, <1>6, <2>1, <2>2, <2>3
  <1>7. CASE state \notin {"Started", "SentEhlo"} /\ ~(state \in Waiting /\ ~handshake /\ cur # 0)
    <2>1. cur = 0 => state \in {"SentBdatMore", "MessageDone", "Gone"}
      BY DEF Inv, StateInv
    <2>2. ~(state \in DOMAIN Awaits /\ ~handshake /\ ~(state = "SentBdatMore" /\ cur = 0))
      BY <1>1, <1>7, <2>1 DEF Waiting
    <2>3. handshake \/ cur = 0 \/ state \in {"Init", "Filtering", "Data"}
      BY <1>7 DEF Inv, TypeOK, State, StateInv, Waiting
    <2>4. wire = <<>> /\ replies = <<>>
      BY <2>3 DEF Inv, ExchangeInv, Silent
    <2>5. outstanding = <<>>
      BY <1>2, <2>4, Oldest
    <2> QED BY <2>2, <2>5
  <1> QED BY <1>5, <1>6, <1>7

\* In every state that a client reaches it is in step, or behind.
THEOREM Invariance == Spec => []ClientInv
  <1>1. Init => ClientInv
    BY InitInv DEF ClientInv
  <1>2. ClientInv /\ [Next]_vars => ClientInv'
    BY NextInv
  <1> QED BY <1>1, <1>2, PTL DEF Spec

\* Every variable keeps its type: no index, no count and no mechanism runs past what it
\* indexes or counts, and each message's recipients are its own (gsmtpclientprotocol.cpp).
THEOREM TypeCorrect == Spec => []TypeOK
  <1>1. ClientInv => TypeOK
    BY DEF ClientInv, Inv, Behind
  <1> QED BY <1>1, Invariance, PTL

\* A client that does not pipeline is in step with the server: the reply that it reads next
\* is to the command that its state waits for, about the message and the recipient that it
\* takes it to be about, even when the greeting comes after the client has stopped waiting
\* for it (ClientProtocol::applyEvent()).
THEOREM StaysInStep == Spec => []InStep
  <1>1. Behind => InStep
    BY DEF Behind, BehindState, InStep
  <1>2. ClientInv => InStep
    BY <1>1, InvInStep DEF ClientInv
  <1> QED BY <1>2, Invariance, PTL

\* A message is only destroyed when the server has taken it for every recipient, even by a
\* client that pipelines and takes the replies to one message for those to another, if it
\* sends the content with DATA (Client::protocolDone(), ClientProtocol::applyEvent()).
THEOREM NothingLost == Spec => []DestroyedWasTaken
  <1>1. Inv => DestroyedWasTaken
    BY DEF Inv, QueueInv, MessageInv, DestroyedWasTaken
  <1>2. Behind => DestroyedWasTaken
    BY DEF Behind, BehindState, BehindQueue, DestroyedWasTaken
  <1>3. ClientInv => DestroyedWasTaken
    BY <1>1, <1>2 DEF ClientInv
  <1> QED BY <1>3, Invariance, PTL

\* A message that is kept is kept for those who were refused it, and for nobody who is
\* known to have it (Client::protocolDone()); with --forward-to-all nobody is sent a
\* message that another recipient was refused (ClientProtocol::applyEvent(), the test of
\* must_accept_all_recipients), not even when the client is behind.
THEOREM RecipientsAreRight == Spec => []RightRecipients
  <1>1. Inv => LeftIsOwed /\ AllOrNone
    BY DEF Inv, QueueInv, MessageInv, LeftIsOwed, AllOrNone
  <1>2. Behind => LeftIsOwed /\ AllOrNone
    BY DEF Behind, BehindState, BehindQueue, LeftIsOwed, AllOrNone
  <1>3. ClientInv => RightRecipients
    BY <1>1, <1>2 DEF ClientInv, RightRecipients
  <1> QED BY <1>3, Invariance, PTL

\* No envelope is sent in clear, or without authentication, by a client that was told to
\* do neither, pipelining or not (ClientProtocol::applyEvent(), SentEhlo to Auth).
THEOREM SessionReady == Spec => []SessionIsReady
  <1>1. Init => SecureInv
    BY DEF Init, SecureInv, Transfer, Content
  <1>2. SecureInv /\ [Next]_vars => SecureInv'
    BY SecureNext
  <1>3. SecureInv => SessionIsReady
    BY DEF SecureInv, SessionIsReady, Transfer, Content
  <1> QED BY <1>1, <1>2, <1>3, PTL DEF Spec
=============================================================================
