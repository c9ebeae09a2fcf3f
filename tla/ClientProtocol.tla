---------------------------- MODULE ClientProtocol ----------------------------
(***************************************************************************)
(* One SMTP client connection: the state machine of                        *)
(* gsmtpclientprotocol.cpp and the GSmtp::Client that owns it, with the    *)
(* messages it is given one after another and what becomes of each of them *)
(* in the store.                                                           *)
(*                                                                         *)
(* The remote server is external.  It answers every command, in order, as  *)
(* it likes within the rules of SMTP, or falls silent, or disconnects.     *)
(* Reply codes stand for the classes that the code tells apart.  A reply   *)
(* also carries, for the properties only, the command that it answers: the *)
(* client itself never knows more than its own state.                      *)
(*                                                                         *)
(* The first message is there before the connection is (GSmtp::Forward     *)
(* makes a client for a message), so the greeting never comes first and    *)
(* the ServiceReady state is not reached; nor is a change of client        *)
(* account, for which Forward makes a new client.                          *)
(***************************************************************************)
EXTENDS Naturals, Sequences

CONSTANTS
    To,             \* To[m]: the number of recipients of message m
    MaxChunks,      \* bound on the BDAT chunks of a message
    Setups          \* configurations and servers, see Setup

\* all: --forward-to-all; pipelining: it is switched on, and the server may offer
\* it; bdat: messages are BINARYMIME and the server has CHUNKING; cut: the content
\* may end in the middle of a line; tls: STARTTLS is used never, maybe (if it is
\* offered) or must be; mechanisms: AUTH mechanisms that can be tried, if any
Setup == [all : BOOLEAN, pipelining : BOOLEAN, bdat : BOOLEAN, cut : BOOLEAN,
          tls : {"never", "maybe", "must"}, mechanisms : Nat]

ASSUME ConstantsAssumption ==
    /\ To \in Seq(Nat \ {0}) /\ Len(To) > 0
    /\ MaxChunks \in Nat \ {0}
    /\ Setups \subseteq Setup

VARIABLES
    setup,      \* the configuration and the server, which never change
    state,      \* m_protocol.state, or "Gone": the client is deleted
    cur,        \* m_message and m_message_p: the current message, or 0
    toIndex, accepted, rejected,   \* m_message_state
    chunk,      \* BDAT chunks sent
    pipe,       \* m_session.server.has_pipelining, and it is enabled
    secure, authed,                \* m_session
    mech,       \* AUTH mechanisms tried
    handshake,  \* a TLS handshake is going on
    filter,     \* the client filter is at work
    timer,      \* the protocol's timer: off, or for the greeting, or a reply
    blocked,    \* the socket has data that it could not send yet
    wire,       \* commands that the server has not answered
    replies,    \* replies that the client has not read: <<command, code>>
    srvFrom, srvTo,     \* the server: the message of its transaction; its recipients
    outcome,    \* what became of each message
    rcpts,      \* recipients in its envelope
    taken,      \* history: recipients that the server has taken it for
    refused,    \* history: recipients that the server has refused
    told        \* history: recipients that the client knows were taken

message == <<toIndex, accepted, rejected, chunk>>
session == <<setup, pipe, secure, authed, mech>>
channel == <<wire, replies>>
server  == <<srvFrom, srvTo, taken, refused>>
store   == <<outcome, rcpts, told>>
vars    == <<setup, state, cur, toIndex, accepted, rejected, chunk, pipe, secure, authed, mech,
             handshake, filter, timer, blocked, wire, replies, srvFrom, srvTo,
             outcome, rcpts, taken, refused, told>>

Message  == DOMAIN To
Rcpts(m) == 1..To[m]
Rcpt     == UNION {Rcpts(m) : m \in Message}

State == {"Init", "Started", "SentEhlo", "SentHelo", "StartTls", "SentTlsEhlo", "Auth",
          "Filtering", "SentMail", "SentRcpt", "SentData", "SentDataStub", "Data",
          "SentDot", "SentBdatMore", "SentBdatLast", "MessageDone", "Gone"}

Codes    == {"220", "235", "250", "334", "354", "454", "502", "550"}
Final    == {"220", "235", "250"}      \* positiveCompletion()
Positive == Final \cup {"334", "354"}  \* positive()

\* a command: its verb, the message it is about and the recipient, or 0
Command == {"CONNECT", "EHLO", "HELO", "STARTTLS", "AUTH", "RESPONSE", "MAIL", "RCPT",
            "DATA", "RSET", "EOT", "BDAT", "BDATLAST"}
           \X (Message \cup {0}) \X (Rcpt \cup {0})

TypeOK ==
    /\ setup \in Setups
    /\ state \in State /\ cur \in Message \cup {0}
    /\ toIndex \in Rcpt \cup {0} /\ accepted \in Rcpt \cup {0} /\ rejected \subseteq Rcpt
    /\ chunk \in 0..MaxChunks
    /\ pipe \in BOOLEAN /\ secure \in BOOLEAN /\ authed \in BOOLEAN /\ mech \in 0..setup.mechanisms
    /\ handshake \in BOOLEAN /\ filter \in BOOLEAN
    /\ timer \in {"off", "ready", "response"} /\ blocked \in BOOLEAN
    /\ wire \in Seq(Command) /\ replies \in Seq(Command \X Codes)
    /\ srvFrom \in Message \cup {0} /\ srvTo \subseteq Rcpt
    /\ outcome \in [Message -> {"queued", "sending", "destroyed", "failed", "unlocked"}]
    /\ rcpts \in [Message -> SUBSET Rcpt] /\ taken \in [Message -> SUBSET Rcpt]
    /\ refused \in [Message -> SUBSET Rcpt] /\ told \in [Message -> SUBSET Rcpt]
    /\ \A m \in Message : /\ rcpts[m] \subseteq Rcpts(m) /\ taken[m] \subseteq Rcpts(m)
                          /\ refused[m] \subseteq Rcpts(m) /\ told[m] \subseteq Rcpts(m)

Init ==
    /\ setup \in Setups
    /\ state = "Init" /\ cur = 1
    /\ toIndex = 0 /\ accepted = 0 /\ rejected = {} /\ chunk = 0
    /\ pipe = FALSE /\ secure = FALSE /\ authed = FALSE /\ mech = 0
    /\ handshake = FALSE /\ filter = FALSE /\ timer = "off" /\ blocked = FALSE
    /\ wire = <<>> /\ replies = <<>> /\ srvFrom = 0 /\ srvTo = {}
    /\ outcome = [m \in Message |-> IF m = 1 THEN "sending" ELSE "queued"]
    /\ rcpts = [m \in Message |-> Rcpts(m)]
    /\ taken = [m \in Message |-> {}] /\ refused = [m \in Message |-> {}]
    /\ told = [m \in Message |-> {}]

-----------------------------------------------------------------------------
(* The remote server.                                                      *)

\* the codes with which it may answer a command
Answers(verb, to) ==
    CASE verb = "CONNECT"  -> {"220", "550"}
      [] verb = "EHLO"     -> {"250", "502", "550"}
      [] verb = "STARTTLS" -> {"220", "454", "550"}
      [] verb = "AUTH"     -> {"235", "334", "550"}
      [] verb = "RESPONSE" -> {"235", "550"}
      [] verb = "RCPT"     -> IF srvFrom = 0 THEN {"550"} ELSE {"250", "550"}
      [] verb = "DATA"     -> IF srvTo = {} THEN {"550"} ELSE {"354", "550"}
      [] verb \in {"BDAT", "BDATLAST"} -> IF srvTo = {} THEN {"550"} ELSE {"250", "550"}
      [] OTHER             -> {"250", "550"}

\* A positive reply to the end of the content makes it responsible for the
\* message, and to the accepted recipients only.
Serve ==
    /\ wire # <<>>
    /\ LET command == Head(wire)
           verb == command[1]
           m    == command[2]
           to   == command[3]
       IN \E code \in Answers(verb, to) :
           /\ replies' = Append(replies, <<command, code>>)
           /\ wire' = Tail(wire)
           /\ srvFrom' = CASE verb = "MAIL" -> IF code = "250" THEN m ELSE 0
                           [] verb \in {"RSET", "EOT", "BDATLAST", "EHLO"} -> 0
                           [] OTHER -> srvFrom
           /\ srvTo' = CASE verb = "RCPT" /\ code = "250" -> srvTo \cup {to}
                         [] verb \in {"MAIL", "RSET", "EOT", "BDATLAST", "EHLO"} -> {}
                         [] OTHER -> srvTo
           /\ taken' = IF verb \in {"EOT", "BDATLAST"} /\ code = "250"
                       THEN [taken EXCEPT ![srvFrom] = srvTo] ELSE taken
           /\ refused' = IF verb = "RCPT" /\ code # "250" /\ srvFrom # 0
                         THEN [refused EXCEPT ![m] = @ \cup {to}] ELSE refused
    /\ UNCHANGED <<state, cur, message, session, handshake, filter, timer, blocked, store>>

-----------------------------------------------------------------------------
(* What the client does in one step.                                       *)

Goto(s) == state' = s

\* (mutant: the timer is not started)
Send_Untimed(commands) == wire' = wire \o commands /\ timer' = "off"

\* sendImp(), sendChunkImp(): every command starts the response timer
Send(commands) == wire' = wire \o commands /\ timer' = "response"

Verb(v) == <<<<v, cur, 0>>>>

Quiet == UNCHANGED <<handshake, filter, blocked>>

\* the client is deleted; its message, if it still has one, is failed, or only
\* unlocked by its destructor
Gone(result) ==
    /\ Goto("Gone") /\ cur' = 0
    /\ outcome' = IF cur = 0 THEN outcome ELSE [outcome EXCEPT ![cur] = result]
    /\ wire' = <<>> /\ replies' = <<>>
    /\ handshake' = FALSE /\ filter' = FALSE /\ timer' = "off" /\ blocked' = FALSE
    /\ UNCHANGED <<message, session, server, rcpts, told>>

\* An exception: Client::onDelete() fails the message, with all its recipients.
Throw == Gone("failed")

\* (mutant: the recipients are left as they were)
Report_KeepAll(sent, by) ==
    /\ cur' = 0 /\ timer' = "off"
    /\ outcome' = [outcome EXCEPT ![cur] = IF sent THEN "destroyed" ELSE "failed"]
    /\ rcpts' = [rcpts EXCEPT ![cur] = IF sent THEN {} ELSE @]
    /\ told' = [told EXCEPT ![cur] = by]

\* raiseDoneSignal() and Client::protocolDone(): the message is destroyed, or it is
\* failed; if any recipient was rejected only those stay in its envelope
Report(sent, by) ==
    /\ cur' = 0 /\ timer' = "off"
    /\ outcome' = [outcome EXCEPT ![cur] = IF sent THEN "destroyed" ELSE "failed"]
    /\ rcpts' = [rcpts EXCEPT ![cur] = IF sent THEN {}
                                       ELSE IF rejected = {} THEN @ ELSE rejected]
    /\ told' = [told EXCEPT ![cur] = by]

Unsent == Report(FALSE, {})
Same   == UNCHANGED <<cur, store>>

\* a reply is read in one of these states
On(states, codes) ==
    /\ state \in states /\ replies # <<>>
    /\ Head(replies)[2] \in codes
    /\ replies' = Tail(replies)

code == Head(replies)[2]

\* The replies that a state expects.  Any other ends the connection.
Expected ==
    [ Started |-> {"220"}, SentEhlo |-> {"250", "502"}, SentHelo |-> {"250"},
      SentTlsEhlo |-> {"250"}, StartTls |-> {"220"}, Auth |-> Codes,
      SentMail |-> {"250"} \cup (Codes \ Positive), SentRcpt |-> Codes,
      SentData |-> {"354"}, SentDataStub |-> Codes, SentBdatMore |-> Codes,
      SentDot |-> Codes, SentBdatLast |-> Codes ]

Unexpected ==
    /\ state # "Gone" /\ replies # <<>>
    /\ state \in DOMAIN Expected => code \notin Expected[state]
    /\ Throw
-----------------------------------------------------------------------------
(* Connection and session.                                                 *)

Connect ==
    /\ state = "Init"
    /\ Goto("Started") /\ timer' = "ready" /\ wire' = <<<<"CONNECT", 0, 0>>>>
    /\ Quiet /\ Same /\ UNCHANGED <<message, session, server, replies>>

\* the message stays in the store as it was
ConnectFails ==
    /\ state = "Init"
    /\ Gone("unlocked")

Greeting ==
    /\ On({"Started"}, {"220"})
    /\ Goto("SentEhlo") /\ Send(Verb("EHLO"))
    /\ Quiet /\ Same /\ UNCHANGED <<message, session, server>>

\* EHLO is not known: HELO, unless TLS is needed
HeloInstead ==
    /\ On({"SentEhlo"}, {"502"}) /\ setup.tls # "must"
    /\ Goto("SentHelo") /\ Send(Verb("HELO"))
    /\ Quiet /\ Same /\ UNCHANGED <<message, session, server>>

EhloNeeded ==
    /\ state = "SentEhlo" /\ replies # <<>> /\ code = "502" /\ setup.tls = "must"
    /\ Throw

\* (mutant: must_use_tls is not checked)
Hello_AnyTls ==
    /\ On({"SentEhlo", "SentHelo", "SentTlsEhlo"}, {"250"})
    /\ \E starttls \in (IF state = "SentEhlo" /\ setup.tls # "never" THEN BOOLEAN ELSE {FALSE}) :
         /\ secure' = (state = "SentTlsEhlo")
         /\ pipe' \in (IF state = "SentHelo" THEN {FALSE} ELSE {FALSE, setup.pipelining})
         /\ authed' = FALSE /\ mech' = IF setup.mechanisms = 0 THEN 0 ELSE 1
         /\ IF starttls
            THEN Goto("StartTls") /\ Send(Verb("STARTTLS")) /\ UNCHANGED filter
            ELSE IF setup.mechanisms > 0
            THEN Goto("Auth") /\ Send(Verb("AUTH")) /\ UNCHANGED filter
            ELSE Goto("Filtering") /\ filter' = TRUE /\ timer' = "off" /\ UNCHANGED wire
    /\ Same /\ UNCHANGED <<setup, message, handshake, blocked, server>>

\* Hello accepted, a new session: TLS, or authentication, or the message's filter.
\* STARTTLS is offered or not; without it TLS that is needed is an error, and so is
\* authentication that the server does not do.
Hello ==
    /\ On({"SentEhlo", "SentHelo", "SentTlsEhlo"}, {"250"})
    /\ \E starttls \in (IF state = "SentEhlo" /\ setup.tls # "never" THEN BOOLEAN ELSE {FALSE}) :
         /\ setup.tls = "must" => state = "SentTlsEhlo" \/ starttls
         /\ secure' = (state = "SentTlsEhlo")
         /\ pipe' \in (IF state = "SentHelo" THEN {FALSE} ELSE {FALSE, setup.pipelining})
         /\ authed' = FALSE /\ mech' = IF setup.mechanisms = 0 THEN 0 ELSE 1
         /\ IF starttls
            THEN Goto("StartTls") /\ Send(Verb("STARTTLS")) /\ UNCHANGED filter
            ELSE IF setup.mechanisms > 0
            THEN state # "SentHelo" /\ Goto("Auth") /\ Send(Verb("AUTH")) /\ UNCHANGED filter
            ELSE Goto("Filtering") /\ filter' = TRUE /\ timer' = "off" /\ UNCHANGED wire
    /\ Same /\ UNCHANGED <<setup, message, handshake, blocked, server>>

HelloUnusable ==
    /\ state \in {"SentEhlo", "SentHelo", "SentTlsEhlo"} /\ replies # <<>> /\ code = "250"
    /\ (setup.tls = "must" /\ state # "SentTlsEhlo") \/ setup.mechanisms > 0
    /\ Throw

\* the handshake is timed by the socket
StartTls ==
    /\ On({"StartTls"}, {"220"})
    /\ handshake' = TRUE /\ timer' = "off"
    /\ Same /\ UNCHANGED <<state, message, session, filter, blocked, wire, server>>

Handshake ==
    /\ handshake
    /\ \/ /\ handshake' = FALSE
          /\ Goto("SentTlsEhlo") /\ Send(Verb("EHLO"))
          /\ Same /\ UNCHANGED <<message, session, filter, blocked, replies, server>>
       \/ Throw

AuthChallenge ==
    /\ On({"Auth"}, {"334"})
    /\ Send(Verb("RESPONSE"))
    /\ Quiet /\ Same /\ UNCHANGED <<state, message, session, server>>

AuthOk ==
    /\ On({"Auth"}, Positive \ {"334"})
    /\ authed' = TRUE
    /\ Goto("Filtering") /\ filter' = TRUE /\ timer' = "off"
    /\ Same /\ UNCHANGED <<setup, message, pipe, secure, mech, handshake, blocked, wire, server>>

\* the next mechanism, if there is one
AuthNext ==
    /\ On({"Auth"}, Codes \ Positive)
    /\ mech < setup.mechanisms
    /\ mech' = mech + 1 /\ Send(Verb("AUTH")) /\ UNCHANGED <<state, filter>>
    /\ Same /\ UNCHANGED <<setup, message, pipe, secure, authed, handshake, blocked, server>>

AuthFails ==
    /\ state = "Auth" /\ replies # <<>> /\ code \notin Positive
    /\ mech = setup.mechanisms
    /\ Throw

-----------------------------------------------------------------------------
(* A message.                                                              *)

\* (mutant: the recipient index is not reset)
Fresh_Index == accepted' = 0 /\ rejected' = {} /\ chunk' = 0 /\ UNCHANGED toIndex

Fresh == toIndex' = 0 /\ accepted' = 0 /\ rejected' = {} /\ chunk' = 0

\* the next message of the queue
IsNext(m) == outcome[m] = "queued" /\ \A k \in 1..(m - 1) : outcome[k] # "queued"

Start ==
    /\ state = "MessageDone"
    /\ \E m \in Message :
         /\ IsNext(m)
         /\ cur' = m /\ outcome' = [outcome EXCEPT ![m] = "sending"]
    /\ Fresh
    /\ Goto("Filtering") /\ filter' = TRUE /\ timer' = "off"
    /\ UNCHANGED <<rcpts, told, session, handshake, blocked, channel, server>>

\* After a rejected chunk the start event is taken for another negative reply.
StartFails ==
    /\ state = "SentBdatMore" /\ cur = 0
    /\ \E m \in Message : IsNext(m) /\ outcome' = [outcome EXCEPT ![m] = "failed"]
    /\ Fresh /\ timer' = "off"
    /\ Quiet /\ UNCHANGED <<state, cur, rcpts, told, session, channel, server>>

\* checkSendable() fails, or MAIL is sent, with the recipients if pipelining
FilterOk ==
    /\ filter /\ filter' = FALSE
    /\ \/ Goto("MessageDone") /\ Unsent /\ UNCHANGED wire
       \/ /\ Goto("SentMail")
          /\ Send(Verb("MAIL") \o
                  IF pipe THEN [i \in Rcpts(cur) |-> <<"RCPT", cur, i>>] ELSE <<>>)
          /\ Same
    /\ UNCHANGED <<message, session, handshake, blocked, replies, server>>

\* the filter fails, or the envelope cannot be read again
FilterFails ==
    /\ filter /\ filter' = FALSE
    /\ Goto("MessageDone") /\ Unsent
    /\ UNCHANGED <<message, session, handshake, blocked, channel, server>>

\* the message is only unlocked
FilterAbandon ==
    /\ filter /\ filter' = FALSE
    /\ Goto("MessageDone") /\ cur' = 0 /\ timer' = "off"
    /\ outcome' = [outcome EXCEPT ![cur] = "unlocked"]
    /\ UNCHANGED <<rcpts, told, message, session, handshake, blocked, channel, server>>

\* sendRcptTo(): if pipelining only the index moves on, with the timer cancelled
SendRcpt ==
    /\ toIndex' = toIndex + 1
    /\ IF pipe THEN timer' = "off" /\ UNCHANGED wire
       ELSE Send(<<<<"RCPT", cur, toIndex + 1>>>>)

MailOk ==
    /\ On({"SentMail"}, {"250"})
    /\ Goto("SentRcpt") /\ SendRcpt
    /\ Quiet /\ Same /\ UNCHANGED <<accepted, rejected, chunk, session, server>>

\* (mutant: RSET is sent as well)
MailFails_Rset ==
    /\ On({"SentMail"}, Codes \ Positive)
    /\ Goto("MessageDone") /\ Unsent
    /\ wire' = wire \o Verb("RSET")
    /\ Quiet /\ UNCHANGED <<message, session, server>>

MailFails ==
    /\ On({"SentMail"}, Codes \ Positive)
    /\ Goto("MessageDone") /\ Unsent
    /\ Quiet /\ UNCHANGED <<message, session, wire, server>>

\* the reply is about the recipient before the index
Count ==
    /\ accepted' = IF code \in Positive THEN accepted + 1 ELSE accepted
    /\ rejected' = IF code \in Positive THEN rejected ELSE rejected \cup {toIndex}

RcptMore ==
    /\ On({"SentRcpt"}, Codes) /\ toIndex < To[cur]
    /\ Count /\ SendRcpt
    /\ Quiet /\ Same /\ UNCHANGED <<state, chunk, session, server>>

\* (mutant: must_accept_all_recipients is not checked)
RcptLast_Some ==
    /\ On({"SentRcpt"}, Codes) /\ toIndex >= To[cur]
    /\ Count
    /\ IF accepted' = 0
       THEN Goto("SentDataStub") /\ Send(Verb("RSET")) /\ UNCHANGED chunk
       ELSE IF setup.bdat
       THEN /\ chunk' = 1
            /\ \/ Goto("SentBdatLast") /\ Send(Verb("BDATLAST"))
               \/ MaxChunks > 1 /\ Goto("SentBdatMore") /\ Send(Verb("BDAT"))
       ELSE Goto("SentData") /\ Send(Verb("DATA")) /\ UNCHANGED chunk
    /\ Quiet /\ Same /\ UNCHANGED <<toIndex, session, server>>

\* after the last recipient: the content, or RSET if too many were rejected
RcptLast ==
    /\ On({"SentRcpt"}, Codes) /\ toIndex >= To[cur]
    /\ Count
    /\ IF accepted' = 0 \/ (setup.all /\ accepted' < To[cur])
       THEN Goto("SentDataStub") /\ Send(Verb("RSET")) /\ UNCHANGED chunk
       ELSE IF setup.bdat
       THEN /\ chunk' = 1
            /\ \/ Goto("SentBdatLast") /\ Send(Verb("BDATLAST"))
               \/ MaxChunks > 1 /\ Goto("SentBdatMore") /\ Send(Verb("BDAT"))
       ELSE Goto("SentData") /\ Send(Verb("DATA")) /\ UNCHANGED chunk
    /\ Quiet /\ Same /\ UNCHANGED <<toIndex, session, server>>

\* whatever the reply to RSET
RcptRejected ==
    /\ On({"SentDataStub"}, Codes)
    /\ Goto("MessageDone") /\ Unsent
    /\ Quiet /\ UNCHANGED <<message, session, wire, server>>

\* Content lines are sent until the socket is blocked or they have all been sent.
\* If the last line has no end the stream is at its end even when that line is
\* blocked, and the "." is sent to a socket that does not take it.
SendContent ==
    \/ Goto("SentDot") /\ Send(Verb("EOT")) /\ blocked' = FALSE
       /\ Same /\ UNCHANGED <<message, session, handshake, filter, server>>
    \/ Goto("Data") /\ blocked' = TRUE /\ timer' = "response"
       /\ Same /\ UNCHANGED <<message, session, handshake, filter, wire, server>>

LastLineBlocked == setup.cut /\ Throw

DataOk ==
    \/ On({"SentData"}, {"354"}) /\ SendContent
    \/ state = "SentData" /\ replies # <<>> /\ code = "354" /\ LastLineBlocked

\* sendComplete()
Unblocked ==
    /\ state = "Data" /\ blocked
    /\ \/ SendContent /\ UNCHANGED replies
       \/ LastLineBlocked

\* the next chunk, which may be the last
ChunkOk ==
    /\ On({"SentBdatMore"}, Positive) /\ cur # 0
    /\ chunk < MaxChunks
    /\ chunk' = chunk + 1
    /\ \/ Goto("SentBdatLast") /\ Send(Verb("BDATLAST"))
       \/ chunk + 1 < MaxChunks /\ UNCHANGED state /\ Send(Verb("BDAT"))
    /\ Quiet /\ Same /\ UNCHANGED <<toIndex, accepted, rejected, session, server>>

\* the state is left as it is
ChunkFails ==
    /\ On({"SentBdatMore"}, Codes \ Positive) /\ cur # 0
    /\ Unsent
    /\ Quiet /\ UNCHANGED <<state, message, session, wire, server>>

\* (mutant: the rejected recipients are forgotten)
ContentReply_Destroy ==
    /\ On({"SentDot", "SentBdatLast"}, Codes)
    /\ Goto("MessageDone")
    /\ Report(code \in Final, IF code \in Final THEN Rcpts(cur) \ rejected ELSE {})
    /\ Quiet /\ UNCHANGED <<message, session, wire, server>>

\* the reply to the whole message
ContentReply ==
    /\ On({"SentDot", "SentBdatLast"}, Codes)
    /\ Goto("MessageDone")
    /\ Report(code \in Final /\ accepted >= To[cur],
              IF code \in Final THEN Rcpts(cur) \ rejected ELSE {})
    /\ Quiet /\ UNCHANGED <<message, session, wire, server>>

-----------------------------------------------------------------------------
(* Timeouts and the end.                                                   *)

Timeout ==
    /\ timer # "off"
    /\ IF state = "Started"
       THEN /\ Goto("SentEhlo") /\ Send(Verb("EHLO"))
            /\ Quiet /\ Same /\ UNCHANGED <<message, session, replies, server>>
       ELSE Throw

\* the peer disconnects, or a socket error
Disconnect == state \notin {"Init", "Gone"} /\ Throw

\* Client::quitAndFinish(): QUIT is sent and the client deleted at once
Quit == state \in {"MessageDone", "SentBdatMore"} /\ cur = 0 /\ Gone("failed")

\* the owner of the client goes away, for instance with a proxy session
Drop == state # "Gone" /\ Gone("unlocked")

-----------------------------------------------------------------------------
Read ==
    \/ Greeting \/ HeloInstead \/ EhloNeeded \/ Hello \/ HelloUnusable \/ StartTls
    \/ AuthChallenge \/ AuthOk \/ AuthNext \/ AuthFails
    \/ MailOk \/ MailFails \/ RcptMore \/ RcptLast \/ RcptRejected
    \/ DataOk \/ ChunkOk \/ ChunkFails \/ ContentReply \/ Unexpected

Filtered == FilterOk \/ FilterFails \/ FilterAbandon

Opened == Connect \/ ConnectFails

Next ==
    \/ Serve \/ Opened \/ Read \/ Handshake \/ Filtered \/ Unblocked
    \/ Start \/ StartFails \/ Timeout \/ Disconnect \/ Quit \/ Drop

Spec == Init /\ [][Next]_vars

\* What has arrived is read and timers fire: the connection timer, the timer of the
\* TLS handshake, the filter's and the protocol's own.  Nothing is expected of the
\* server, nor of the socket once it is blocked.
FairSpec ==
    /\ Spec
    /\ WF_vars(Read) /\ WF_vars(Opened) /\ WF_vars(Handshake)
    /\ WF_vars(Filtered) /\ WF_vars(Timeout)

-----------------------------------------------------------------------------
(* What the client guarantees.                                             *)

outstanding == [i \in 1..Len(replies) |-> replies[i][1]] \o wire

\* The commands whose replies a state waits for.  The greeting may still come when
\* the client has gone on without it.
Awaits ==
    [ Started |-> {"CONNECT"}, SentEhlo |-> {"EHLO", "CONNECT"}, SentTlsEhlo |-> {"EHLO"},
      SentHelo |-> {"HELO"}, StartTls |-> {"STARTTLS"}, Auth |-> {"AUTH", "RESPONSE"},
      SentMail |-> {"MAIL"}, SentRcpt |-> {"RCPT"}, SentData |-> {"DATA"},
      SentDataStub |-> {"RSET"}, SentDot |-> {"EOT"}, SentBdatMore |-> {"BDAT"},
      SentBdatLast |-> {"BDATLAST"} ]

\* In a session without pipelining the client never takes the reply to one command for the reply to
\* another: while it waits, it waits for a reply about a message that it still has, and
\* the next reply is to the command that its state waits for, about the same message and
\* recipient; a message that is done has no replies to come (gsmtpclientprotocol.h:128-129).
\* Left out is what a refused BDAT chunk leaves behind, SentBdatMore without a message.
InStep ==
    ~ pipe =>
        IF state \in DOMAIN Awaits /\ ~ handshake /\ ~ (state = "SentBdatMore" /\ cur = 0)
        THEN /\ cur # 0 /\ outstanding # <<>>
             /\ Head(outstanding)[1] \in Awaits[state]
             /\ Head(outstanding)[2] \in {0, cur}
             /\ state = "SentRcpt" => Head(outstanding)[3] = toIndex
        ELSE outstanding = <<>>

\* A message is only removed from the store when the server has taken it for each
\* of its recipients, however the replies are interleaved with the commands.  With
\* pipelining that is so if the content is sent with DATA: a client whose MAIL is refused
\* goes on with replies still to come that it then takes for those to later commands, but
\* it never catches up with a 354.  A chunk needs no 354, and there the positive reply to
\* a MAIL can be taken for the one to the last chunk.
DestroyedWasTaken ==
    ~ (pipe /\ setup.bdat) => \A m \in Message : outcome[m] = "destroyed" => taken[m] = Rcpts(m)

\* The envelope of a message that is not sent names the recipients who are still owed the
\* message: each one that the server has refused, the index of the recipient being that of
\* the reply, and none whom the client knows to have been served, to whom a retry would
\* send the message again.  Not so with pipelining, where the replies to a message whose MAIL
\* was refused are counted as those to the recipients of the next.
LeftIsOwed == ~ pipe =>
    \A m \in Message : outcome[m] \in {"failed", "unlocked"} =>
        refused[m] \subseteq rcpts[m] /\ rcpts[m] \cap told[m] = {}

\* With --forward-to-all the server takes a message for all its recipients or none, with
\* the same exception as for DestroyedWasTaken.
AllOrNone == setup.all /\ ~ (pipe /\ setup.bdat) => \A m \in Message : taken[m] \in {{}, Rcpts(m)}

\* Nobody is sent a message who must not have it: by a retry for the others, or by
\* --forward-to-all when another recipient was refused.
RightRecipients == LeftIsOwed /\ AllOrNone

\* No recipient is lost: each one is served, or still in an envelope in the store.
NobodyIsLost == \A m \in Message : Rcpts(m) = rcpts[m] \cup taken[m]

\* No envelope is sent before the session is as secure and as authenticated as the
\* configuration demands, whatever the server offers.
SessionIsReady ==
    cur # 0 /\ state \in {"Filtering", "SentMail", "SentRcpt", "SentData", "Data", "SentDot"} =>
        (setup.tls = "must" => secure) /\ (setup.mechanisms > 0 => authed)

\* Every message that has been started comes to an end, even if the server falls silent
\* at any point.  Not so with pipelining, where the timer does not run between two RCPT
\* replies: every event cancels it and only sending starts it again.
EveryMessageEnds == ~ setup.pipelining /\ cur # 0 ~> cur = 0
=============================================================================
