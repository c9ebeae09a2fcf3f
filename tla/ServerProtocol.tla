---------------------------- MODULE ServerProtocol ----------------------------
(***************************************************************************)
(* One SMTP server session: the state machine of gsmtpserverprotocol.cpp,  *)
(* the input buffer that feeds it (gsmtpserverbufferin.cpp) and the        *)
(* message that it builds (gprotocolmessagestore.cpp, and in proxy mode    *)
(* gprotocolmessageforward.cpp with its forwarding client).                *)
(*                                                                         *)
(* The program is single-threaded.  A batch of input, or the timer that    *)
(* resumes a suspended session, makes the buffer feed lines to the state   *)
(* machine until it is empty or the session is busy; no other event is     *)
(* handled in the meantime ("drain").  Verifiers, filters and forwarding   *)
(* clients report later, each in an event of its own.                      *)
(*                                                                         *)
(* A line stands for the command word or the piece of content it is; what  *)
(* depends on the arguments, on authentication or on TLS is a choice.      *)
(***************************************************************************)
EXTENDS Naturals, Sequences

CONSTANTS
    Setups,       \* configurations and peers, see Setup
    MaxBatch,     \* lines that may arrive in one read
    Soft, Hard,   \* limits of the input buffer, in lines
    ErrorLimit,   \* protocol errors tolerated (client_error_limit)
    MaxMsgs       \* bound on the messages of a session

\* what a peer may send: command words and pieces of content
Line == {"HELO", "EHLO", "MAIL", "RCPT", "VRFY", "DATA", "text", ".", "RSET", "NOOP",
         "QUIT", "AUTH", "STARTTLS", "BDAT", "BDATLAST", "BDATZERO"}

\* proxy: forward each message before it is acknowledged; chunking: BDAT is
\* enabled; patient: the peer waits for each reply before it sends another line
Setup == [proxy : BOOLEAN, chunking : BOOLEAN, patient : BOOLEAN, lines : SUBSET Line]

ASSUME ConstantsAssumption ==
    /\ Setups \subseteq Setup
    /\ MaxBatch \in Nat \ {0} /\ Soft \in Nat \ {0} /\ Hard \in Nat \ {0}
    /\ ErrorLimit \in Nat \ {0} /\ MaxMsgs \in Nat

VARIABLES
    setup,        \* the configuration of this session, which never changes
    state,        \* m_fsm
    errors,       \* m_client_error_count
    authed, tls,  \* m_sasl->authenticated(); m_secure, or the handshake
    verifier,     \* the address verifier is at work
    inbuf,        \* m_line_buffer
    timer,        \* the buffer's timer: off, started with no limit, or due now
    flow,         \* the read handler is in place
    drain,        \* lines are being applied, because of new data or the timer
    txn,          \* the message being built (m_new_msg), or 0
    named,        \* ... has a recipient
    binary,       \* ... is BINARYMIME
    filter,       \* ... is being filtered
    fate,         \* what became of each message in the store
    client,       \* m_client_ptr: the forwarding client
    doomed,       \* ... has lost its connection and will be deleted
    carried,      \* the message it is forwarding, or 0
    armed,        \* the one-shot processed signal can be emitted
    due,          \* history: the line that still waits for its reply, or "none"
    jumped,       \* history: lines answered before an earlier one
    cur,          \* history: the message that the awaited reply is about
    accepted, refused,   \* history: messages answered with success, failure
    stray         \* history: an event came that no state expects

message    == <<txn, named, binary, filter, fate>>
forwarding == <<client, doomed, carried, armed>>
buffer     == <<timer, flow, drain>>
answers    == <<due, cur, accepted, refused>>
session    == <<setup, errors, authed, tls>>
vars       == <<setup, state, errors, authed, tls, verifier, inbuf, timer, flow, drain, txn, named, binary,
                filter, fate, client, doomed, carried, armed, due, jumped, cur,
                accepted, refused, stray>>

Message == 1..MaxMsgs

Verifying == {"VrfyStart", "VrfyIdle", "VrfyGotMail", "VrfyGotRcpt", "RcptTo1", "RcptTo2"}
State == Verifying \cup
    {"Start", "Idle", "Auth", "StartingTls", "GotMail", "GotRcpt", "Data", "Processing",
     "BdatData", "BdatDataLast", "BdatIdle", "BdatChecking", "BdatProcessing",
     "MustReset", "End"}

TypeOK ==
    /\ setup \in Setups
    /\ state \in State /\ errors \in 0..ErrorLimit
    /\ authed \in BOOLEAN /\ tls \in {"plain", "handshake", "secure"}
    /\ verifier \in BOOLEAN
    /\ inbuf \in Seq(Line) /\ Len(inbuf) <= Hard + MaxBatch
    /\ timer \in {"off", "limit", "zero"} /\ flow \in BOOLEAN
    /\ drain \in {"no", "data", "timer"}
    /\ txn \in Message \cup {0} /\ named \in BOOLEAN /\ binary \in BOOLEAN
    /\ filter \in BOOLEAN
    /\ fate \in [Message -> {"unused", "open", "rolledBack", "committed",
                             "abandoned", "delivered"}]
    /\ client \in {"none", "idle", "busy"} /\ doomed \in BOOLEAN
    /\ carried \in Message \cup {0} /\ armed \in BOOLEAN
    /\ due \in Line \cup {"none"} /\ jumped \subseteq Line
    /\ cur \in Message \cup {0}
    /\ accepted \subseteq Message /\ refused \subseteq Message
    /\ stray \in BOOLEAN

Init ==
    /\ setup \in Setups
    /\ state = "Start" /\ errors = 0 /\ authed = FALSE /\ tls = "plain"
    /\ verifier = FALSE
    /\ inbuf = <<>> /\ timer = "off" /\ flow = TRUE /\ drain = "no"
    /\ txn = 0 /\ named = FALSE /\ binary = FALSE /\ filter = FALSE
    /\ fate = [m \in Message |-> "unused"]
    /\ client = "none" /\ doomed = FALSE /\ carried = 0 /\ armed = FALSE
    /\ due = "none" /\ jumped = {} /\ cur = 0
    /\ accepted = {} /\ refused = {} /\ stray = FALSE

open == state # "End"

\* (mutant: the processing of a message is not busy)
Busy_NotProcessing == state \in Verifying

\* inBusyState()
Busy == state \in Verifying \cup {"Processing"}

-----------------------------------------------------------------------------
(* The message and the end of the session.                                 *)

\* clear() when the store is as f says: a message that is still being built is
\* rolled back, and the filter and the verifier are cancelled; the forwarding
\* client lives on
Drop(f) ==
    /\ txn' = 0 /\ named' = FALSE /\ binary' = FALSE /\ verifier' = FALSE
    /\ fate' = [m \in Message |-> IF f[m] = "open" THEN "rolledBack" ELSE f[m]]
    /\ filter' = FALSE

Clear == Drop(fate)

\* the session's objects are deleted: QUIT, Done exceptions, disconnection
End(f) ==
    /\ state' = "End" /\ Drop(f)
    /\ inbuf' = <<>> /\ timer' = "off" /\ flow' = TRUE /\ drain' = "no"
    /\ client' = "none" /\ doomed' = FALSE /\ carried' = 0 /\ armed' = FALSE
    /\ due' = "none" /\ cur' = 0

Close == End(fate)

-----------------------------------------------------------------------------
(* Applying lines.                                                         *)

\* The states in which each command is expected; anywhere else the reply is
\* "out of sequence".  Commands that are not listed are taken in any state.
From == [ MAIL     |-> {"Idle"},
          RCPT     |-> {"GotMail", "GotRcpt"},
          VRFY     |-> {"Start", "Idle", "GotMail", "GotRcpt"},
          DATA     |-> {"GotMail", "GotRcpt"},
          AUTH     |-> {"Idle"},
          STARTTLS |-> {"Idle"},
          BDAT     |-> {"Idle", "GotMail", "GotRcpt", "BdatIdle"},
          BDATLAST |-> {"GotMail", "GotRcpt", "BdatIdle"},
          BDATZERO |-> {"GotMail", "GotRcpt", "BdatIdle"} ]

\* what apply() makes of the next line, given the state
Event ==
    LET line == Head(inbuf) IN
    IF state = "Data" THEN (IF line = "." THEN "Eot" ELSE "DataContent")
    ELSE IF state \in {"BdatData", "BdatDataLast"} THEN "BdatContent"
    ELSE IF state = "Auth" THEN "AuthData"
    ELSE IF line \in {".", "text"} \/ (line \in {"BDAT", "BDATLAST", "BDATZERO"} /\ ~ setup.chunking)
         THEN "Unknown"
    ELSE line

Apply(event) ==
    /\ drain # "no" /\ ~ Busy /\ inbuf # <<>> /\ Event = event

Consume == inbuf' = Tail(inbuf)

\* a line is answered at once, or with nothing
Answer == jumped' = IF due = "none" THEN jumped ELSE jumped \cup {Head(inbuf)}

Goto(s) == state' = s /\ Consume /\ UNCHANGED <<buffer, stray>>

\* (mutant: client_error_limit is not checked)
Protest_NoLimit(s) ==
    /\ Answer
    /\ errors' = errors + 1
    /\ Goto(s)
    /\ UNCHANGED <<setup, verifier, message, forwarding, answers, authed, tls>>

\* badClientEvent() after an error reply
Protest(s) ==
    /\ Answer
    /\ errors' = errors + 1
    /\ IF errors + 1 = ErrorLimit
       THEN Close /\ UNCHANGED stray
       ELSE Goto(s) /\ UNCHANGED <<verifier, message, forwarding, due, cur>>
    /\ UNCHANGED <<setup, authed, tls, accepted, refused>>

OutOfSequence ==
    /\ \E event \in DOMAIN From : Apply(event) /\ state \notin From[event]
    /\ Protest(state)

Unknown == Apply("Unknown") /\ Protest(state)

\* NOOP, HELP, EXPN
Noop ==
    /\ Apply("NOOP")
    /\ Goto(state) /\ Answer
    /\ UNCHANGED <<session, verifier, message, forwarding, answers>>

\* with no name nothing happens; EHLO also forgets the authentication
Hello ==
    /\ Apply("EHLO") \/ Apply("HELO")
    /\ Answer
    /\ \/ /\ Goto("Idle") /\ Clear
          /\ authed' = (authed /\ Event # "EHLO")
       \/ Goto(state) /\ UNCHANGED <<authed, verifier, message>>
    /\ UNCHANGED <<setup, errors, tls, forwarding, answers>>

\* RSET also drops the forwarding client
Rset ==
    /\ Apply("RSET")
    /\ Goto(IF state = "Start" THEN "Start" ELSE "Idle") /\ Answer
    /\ Clear
    /\ client' = "none" /\ doomed' = FALSE /\ carried' = 0
    /\ UNCHANGED <<session, armed, answers>>

Quit ==
    /\ Apply("QUIT")
    /\ Answer
    /\ Close
    /\ UNCHANGED <<session, accepted, refused, stray>>

\* once per session; refused or finished (Idle), or a challenge is sent
Auth ==
    /\ Apply("AUTH") /\ state = "Idle"
    /\ IF authed THEN Protest("Idle")
       ELSE /\ \/ Goto("Auth") /\ UNCHANGED authed
               \/ Goto("Idle") /\ authed' \in BOOLEAN
            /\ Answer
            /\ UNCHANGED <<setup, errors, tls, verifier, message, forwarding, answers>>

AuthData ==
    /\ Apply("AuthData")
    /\ \/ Goto("Auth") /\ UNCHANGED authed
       \/ Goto("Idle") /\ authed' \in BOOLEAN
    /\ Answer
    /\ UNCHANGED <<setup, errors, tls, verifier, message, forwarding, answers>>

StartTls ==
    /\ Apply("STARTTLS") /\ state = "Idle"
    /\ IF tls = "secure" THEN Protest("Idle")
       ELSE /\ Goto("StartingTls") /\ Answer
            /\ tls' = "handshake"
            /\ UNCHANGED <<setup, errors, authed, verifier, message, forwarding, answers>>

VrfyState == [ Start   |-> "VrfyStart",   Idle    |-> "VrfyIdle",
               GotMail |-> "VrfyGotMail", GotRcpt |-> "VrfyGotRcpt" ]

\* VRFY is answered at once, or handed to the verifier
Vrfy ==
    /\ Apply("VRFY") /\ state \in From.VRFY
    /\ \/ Goto(state) /\ Answer /\ UNCHANGED <<verifier, due>>
       \/ Goto(VrfyState[state]) /\ verifier' = TRUE
          /\ due' = "VRFY" /\ UNCHANGED jumped
    /\ UNCHANGED <<session, message, forwarding, cur, accepted, refused>>

\* MAIL drops what is left of the last message; it is refused, or a new message
\* is opened
Mail ==
    /\ Apply("MAIL") /\ state = "Idle"
    /\ Answer
    /\ \/ Goto("Idle") /\ Clear
       \/ /\ Goto("GotMail")
          /\ \E m \in Message :
              /\ fate[m] = "unused" /\ \A k \in 1..(m - 1) : fate[k] # "unused"
              /\ txn' = m
              /\ fate' = [k \in Message |-> IF k = m THEN "open"
                                            ELSE IF fate[k] = "open" THEN "rolledBack" ELSE fate[k]]
          /\ named' = FALSE /\ binary' \in BOOLEAN
          /\ filter' = FALSE /\ UNCHANGED verifier
    /\ UNCHANGED <<session, forwarding, answers>>

\* RCPT is refused, or accepted at once, or handed to the verifier
Rcpt ==
    /\ Apply("RCPT") /\ state \in From.RCPT
    /\ \/ Goto(state) /\ Answer /\ UNCHANGED <<verifier, named, due>>
       \/ Goto("GotRcpt") /\ Answer /\ named' = TRUE /\ UNCHANGED <<verifier, due>>
       \/ Goto(IF state = "GotMail" THEN "RcptTo1" ELSE "RcptTo2")
          /\ verifier' = TRUE /\ due' = "RCPT" /\ UNCHANGED <<jumped, named>>
    /\ UNCHANGED <<session, txn, binary, filter, fate, forwarding, cur, accepted, refused>>

\* DATA of a BINARYMIME message is an error; with no recipient it goes back to
\* Idle and the message stays open
Data ==
    /\ Apply("DATA") /\ state \in From.DATA
    /\ IF binary THEN Protest("MustReset")
       ELSE /\ Goto(IF state = "GotRcpt" THEN "Data" ELSE "Idle") /\ Answer
            /\ UNCHANGED <<session, verifier, message, forwarding, answers>>

DataContent ==
    /\ Apply("DataContent")
    /\ Goto("Data")
    /\ UNCHANGED <<session, verifier, message, forwarding, answers, jumped>>
-----------------------------------------------------------------------------
(* The end of a message.                                                   *)

\* The content was too big or could not be written, or process() fails (which
\* uses up the one-shot signal): the submitter is told at once.
Spoil(s) ==
    /\ Goto(s) /\ Answer
    /\ Clear
    /\ refused' = refused \cup {txn}
    /\ armed' \in {armed, FALSE}
    /\ UNCHANGED <<client, doomed, carried, due, cur, accepted>>

\* (mutant: the one-shot signal is not reset)
Submit_Used(s) ==
    /\ Goto(s)
    /\ filter' = TRUE
    /\ due' = Head(inbuf) /\ cur' = txn
    /\ UNCHANGED <<verifier, txn, named, binary, fate, forwarding,
                   jumped, accepted, refused>>

\* process(): the envelope is written and the filter started; the one-shot
\* signal is ready to be emitted again
Submit(s) ==
    /\ Goto(s)
    /\ filter' = TRUE /\ armed' = setup.proxy
    /\ due' = Head(inbuf) /\ cur' = txn
    /\ UNCHANGED <<verifier, txn, named, binary, fate, client, doomed, carried,
                   jumped, accepted, refused>>

Eot ==
    /\ Apply("Eot")
    /\ Submit("Processing") \/ Spoil("Idle")
    /\ UNCHANGED session

-----------------------------------------------------------------------------
(* BDAT.                                                                   *)

\* out of sequence in Idle; no recipients; or n bytes are expected, unless n is
\* not valid.  There is no reply before the bytes have arrived.
Bdat ==
    /\ Apply("BDAT") /\ state \in From.BDAT
    /\ \/ state = "Idle" /\ Protest("MustReset")
       \/ /\ state = "GotMail" /\ Goto("Idle") /\ Answer
          /\ UNCHANGED <<session, verifier, message, forwarding, answers>>
       \/ /\ state \in {"GotRcpt", "BdatIdle"}
          /\ \/ Goto("BdatData") /\ UNCHANGED jumped
             \/ Goto("MustReset") /\ Answer
          /\ UNCHANGED <<session, verifier, message, forwarding, answers>>

BdatLast ==
    /\ Apply("BDATLAST") /\ state \in From.BDATLAST
    /\ \/ state = "GotMail" /\ Goto("Idle") /\ Answer
       \/ state \in {"GotRcpt", "BdatIdle"} /\ Goto("BdatDataLast") /\ UNCHANGED jumped
       \/ state \in {"GotRcpt", "BdatIdle"} /\ Goto("MustReset") /\ Answer
    /\ UNCHANGED <<session, verifier, message, forwarding, answers>>

\* BDAT 0 LAST.  If the content has failed the state stays BdatChecking.
BdatLastZero ==
    /\ Apply("BDATZERO") /\ state \in From.BDATZERO
    /\ \/ /\ state = "GotMail" /\ Goto("Idle") /\ Answer
          /\ UNCHANGED <<verifier, message, forwarding, answers>>
       \/ /\ state \in {"GotRcpt", "BdatIdle"}
          /\ Submit("BdatProcessing") \/ Spoil("BdatChecking") \/ Spoil("Idle")
    /\ UNCHANGED session

\* a piece of the expected bytes, or the last piece, which completes the chunk
BdatContent ==
    /\ Apply("BdatContent") /\ state = "BdatData"
    /\ \/ Goto("BdatData") /\ UNCHANGED jumped
       \/ Goto("BdatIdle") /\ Answer
    /\ UNCHANGED <<session, verifier, message, forwarding, answers>>

BdatContentLast ==
    /\ Apply("BdatContent") /\ state = "BdatDataLast"
    /\ \/ /\ Goto("BdatDataLast")
          /\ UNCHANGED <<jumped, verifier, message, forwarding, answers>>
       \/ Submit("BdatProcessing")
       \/ Spoil("Idle")
    /\ UNCHANGED session

-----------------------------------------------------------------------------
(* Completion events.                                                      *)

\* onProtocolChange()
Change == timer' = IF timer = "off" THEN "off" ELSE "zero"

\* An event that no state expects closes the connection (protocol error).
Stray(f) == stray' = TRUE /\ End(f) /\ UNCHANGED <<accepted, refused>>

\* Event::Done: the reply to the message, whichever message the signal is about
Done(ok, f) ==
    /\ state' = "Idle" /\ Drop(f) /\ Change
    /\ accepted' = IF ok THEN accepted \cup {cur} ELSE accepted
    /\ refused'  = IF ok THEN refused ELSE refused \cup {cur}
    /\ due' = "none" /\ cur' = 0 /\ armed' = FALSE
    /\ UNCHANGED <<inbuf, flow, drain, stray>>

Client(c, d, m) == client' = c /\ doomed' = d /\ carried' = m

\* the processed signal, which can only be emitted once per process() in proxy
\* mode, and what becomes of the forwarding client otherwise
Processed(ok, f, c, d, m) ==
    IF setup.proxy /\ ~ armed
    THEN /\ Client(c, d, m) /\ fate' = f
         /\ UNCHANGED <<state, verifier, inbuf, buffer, txn, named, binary, filter,
                        armed, answers, stray>>
    ELSE IF state \in {"Processing", "BdatProcessing"}
    THEN Done(ok, f) /\ Client(c, d, m)
    ELSE Stray(f)

\* the verifier's answer; it may also ask for the session to be dropped
VerifyDone ==
    /\ verifier /\ drain = "no"
    /\ IF state \in Verifying
       THEN \/ \E valid \in BOOLEAN :
                /\ state' = CASE state = "VrfyStart"   -> "Start"
                              [] state = "VrfyIdle"    -> "Idle"
                              [] state = "VrfyGotMail" -> "GotMail"
                              [] state = "RcptTo1"     -> IF valid THEN "GotRcpt" ELSE "GotMail"
                              [] OTHER                 -> "GotRcpt"
                /\ named' = (named \/ (valid /\ state \in {"RcptTo1", "RcptTo2"}))
                /\ verifier' = FALSE /\ due' = "none" /\ Change
                /\ UNCHANGED <<inbuf, flow, drain, txn, binary, filter, fate, forwarding,
                               cur, accepted, refused, stray>>
            \/ Close /\ UNCHANGED <<accepted, refused, stray>>
       ELSE Stray(fate)
    /\ UNCHANGED <<session, jumped>>

\* (mutants: the result is ignored; an error after forwarding has started)
FilterDone_Ignored ==
    /\ filter /\ drain = "no"
    /\ \E result \in {"committed", "abandoned", "rolledBack"} :
         LET f == [fate EXCEPT ![txn] = result] IN
         Processed(TRUE, f, client, doomed, carried)
    /\ UNCHANGED <<session, jumped>>

FilterDone_Started ==
    /\ filter /\ drain = "no"
    /\ \E result \in {"committed", "abandoned", "rolledBack"} :
         LET f == [fate EXCEPT ![txn] = result] IN
         IF result = "committed" THEN Processed(FALSE, f, "busy", doomed, txn)
         ELSE Processed(result # "rolledBack", f, client, doomed, carried)
    /\ UNCHANGED <<session, jumped>>

\* the filter's result: the message is committed (to the store, or to whatever the
\* filter did with it) or not; in proxy mode a committed message is forwarded, if
\* it can be taken out of the store and has recipients elsewhere
FilterDone ==
    /\ filter /\ drain = "no"
    /\ \E result \in {"committed", "abandoned", "rolledBack"} :
         LET f == [fate EXCEPT ![txn] = result] IN
         \/ Processed(result # "rolledBack", f, client, doomed, carried)
         \/ setup.proxy /\ result = "committed" /\ Processed(FALSE, f, client, doomed, carried)
         \/ /\ setup.proxy /\ result = "committed" /\ client # "busy"
            /\ Drop(f) /\ Client("busy", doomed, txn)
            /\ UNCHANGED <<state, inbuf, buffer, armed, answers, stray>>
    /\ UNCHANGED <<session, jumped>>

\* messageDone(): the next server's verdict
ForwardDone ==
    /\ client = "busy" /\ ~ doomed /\ drain = "no"
    /\ \/ Processed(TRUE, [fate EXCEPT ![carried] = "delivered"], "idle", FALSE, 0)
       \/ Processed(FALSE, fate, "idle", FALSE, 0)
    /\ UNCHANGED <<session, jumped>>

\* (mutant: nobody is told)
ClientLost_Silent ==
    /\ client # "none" /\ ~ doomed /\ drain = "no"
    /\ Client("none", FALSE, 0)
    /\ UNCHANGED <<state, session, verifier, inbuf, buffer, message, armed, answers,
                   jumped, stray>>

\* The connection to the next server is lost, busy or idle.  The client is gone,
\* its message failed or unlocked; the Forward object will throw from a timer ...
ClientLost ==
    /\ client # "none" /\ ~ doomed /\ drain = "no"
    /\ Client("idle", TRUE, 0)
    /\ UNCHANGED <<state, session, verifier, inbuf, buffer, message, armed, answers,
                   jumped, stray>>

\* ... and is deleted, which is clientDone(): a failure, of the current message
ForwardGone ==
    /\ doomed /\ drain = "no"
    /\ Processed(FALSE, fate, "none", FALSE, 0)
    /\ UNCHANGED <<session, jumped>>

\* the TLS handshake is complete
Secure ==
    /\ tls = "handshake" /\ drain = "no" /\ open
    /\ tls' = "secure"
    /\ IF state = "StartingTls"
       THEN /\ state' = "Idle"
            /\ UNCHANGED <<inbuf, buffer, verifier, message, forwarding, answers, stray>>
       ELSE Stray(fate)
    /\ UNCHANGED <<setup, errors, authed, jumped>>

Disconnect ==
    /\ open /\ drain = "no"
    /\ Close
    /\ UNCHANGED <<session, jumped, accepted, refused, stray>>

-----------------------------------------------------------------------------
(* The input buffer.                                                       *)

Rest == UNCHANGED <<state, session, verifier, message, forwarding, answers, jumped, stray>>

Overflows(b) == Len(b) >= Hard

\* a batch arrives: it is applied now, or kept while the session is busy
Receive ==
    /\ open /\ drain = "no" /\ flow
    /\ setup.patient => inbuf = <<>> /\ due = "none" /\ state # "StartingTls"
    /\ \E n \in 1..MaxBatch : \E batch \in [1..n -> setup.lines] :
         LET b == inbuf \o batch IN
         /\ setup.patient => n = 1
         /\ IF ~ Busy THEN drain' = "data" /\ inbuf' = b /\ Rest /\ UNCHANGED <<timer, flow>>
            ELSE IF Overflows(b) THEN Close /\ UNCHANGED <<session, accepted, refused, jumped, stray>>
            ELSE /\ inbuf' = b
                 /\ flow' = (flow /\ ~ (timer # "off" /\ Len(b) >= Soft))
                 /\ Rest /\ UNCHANGED <<timer, drain>>

\* the state machine is now busy: the rest waits, and too much of it stops the flow
Suspend ==
    /\ drain # "no" /\ Busy
    /\ IF Overflows(inbuf) THEN Close /\ UNCHANGED <<session, accepted, refused, jumped, stray>>
       ELSE /\ timer' = "limit" /\ drain' = "no"
            /\ flow' = (flow /\ ~ (drain = "data" /\ Len(inbuf) >= Soft))
            /\ UNCHANGED inbuf /\ Rest

\* everything has been applied
Drained ==
    /\ drain # "no" /\ ~ Busy /\ inbuf = <<>>
    /\ timer' = "off" /\ drain' = "no"
    /\ flow' = (flow \/ drain = "timer")
    /\ UNCHANGED inbuf /\ Rest

\* the timer fires: lines are applied, unless the session is busy
Resume ==
    /\ timer = "zero" /\ drain = "no"
    /\ timer' = "off"
    /\ drain' = IF Busy THEN "no" ELSE "timer"
    /\ flow' = (flow \/ Busy)
    /\ UNCHANGED inbuf /\ Rest

-----------------------------------------------------------------------------
ApplyLine ==
    \/ OutOfSequence \/ Unknown \/ Noop \/ Hello \/ Rset \/ Quit
    \/ Auth \/ AuthData \/ StartTls \/ Vrfy
    \/ Mail \/ Rcpt \/ Data \/ DataContent \/ Eot
    \/ Bdat \/ BdatLast \/ BdatLastZero \/ BdatContent \/ BdatContentLast

Completion == VerifyDone \/ FilterDone \/ ForwardDone \/ ForwardGone

Next ==
    \/ ApplyLine \/ Completion \/ ClientLost \/ Secure \/ Disconnect
    \/ Receive \/ Suspend \/ Drained \/ Resume

Spec == Init /\ [][Next]_vars

\* A batch is applied to its end and timers fire.  Filters, verifiers and
\* forwarding clients have timeouts of their own, so they all report in the end.
\* Nothing obliges the peer to send.
FairSpec ==
    /\ Spec
    /\ WF_vars(ApplyLine) /\ WF_vars(Suspend) /\ WF_vars(Drained) /\ WF_vars(Resume)
    /\ WF_vars(VerifyDone) /\ WF_vars(FilterDone) /\ WF_vars(ForwardDone) /\ WF_vars(ForwardGone)

-----------------------------------------------------------------------------
(* What a session guarantees.                                              *)

\* Replies come in the order of the commands (RFC 2920): no line is answered
\* while an earlier one still waits for a verifier, a filter or a forwarding
\* client, however the peer pipelines its commands.
RepliesInOrder == jumped = {}

\* A message whose submitter was told 250 is in the store, or was dealt with by a
\* filter, or was taken by the next server.  In particular the processed signal
\* that is answered is never that of another message than the one submitted, and
\* clear() never rolls back what has been acknowledged.
AcceptedIsStored ==
    \A m \in accepted : fate[m] \in {"committed", "abandoned", "delivered"}

\* A submitter who is told of a failure will try again, so the message must not
\* have been delivered; without a forwarding client it must not even be in the
\* store.  Losing an idle forwarding client while the next message is being
\* filtered fails that message before it is committed.
RefusedIsNotDelivered ==
    \A m \in refused : IF setup.proxy THEN fate[m] # "delivered" ELSE fate[m] = "rolledBack"

\* What the submitter was told of a message is what has become of it, however late the
\* filter's or the forwarding client's event came and whichever message it was about.
ReplyIsTrue == AcceptedIsStored /\ RefusedIsNotDelivered

\* Every completion event finds a state that expects it: nothing that a filter, a
\* verifier or a forwarding client reports late is taken for a protocol error.
NoStrayEvent == ~ stray

\* Once the session has gone back to Idle nothing works on its message any more:
\* clear() "terminates any asynchronous message processing" (gprotocolmessage.h:104),
\* so that no late result can be taken for the next message's.
ClearTerminates ==
    state \notin {"Processing", "BdatProcessing"} => ~ filter /\ client # "busy"

\* A state that waits for a completion event has somebody at work who will emit
\* it, and that event is still wanted.
WaitingIsAnswered ==
    /\ state \in Verifying => verifier
    /\ state \in {"Processing", "BdatProcessing"} =>
         (filter \/ client = "busy" \/ doomed) /\ (setup.proxy => armed)

\* Every state in which recipients or content can arrive has a message to put them
\* in (the assertions on m_new_msg), and what goes to the filter has a recipient.
MessageIsOpen ==
    /\ state \in {"GotMail", "GotRcpt", "VrfyGotMail", "VrfyGotRcpt", "RcptTo1", "RcptTo2",
                  "Data", "BdatData", "BdatDataLast", "BdatIdle"} => txn # 0
    /\ filter => txn # 0 /\ named
    /\ state \in {"GotRcpt", "VrfyGotRcpt", "RcptTo2", "Data"} => named
    /\ \A m \in Message : fate[m] = "open" <=> m = txn

\* Input never waits for nothing: buffered lines, a stopped flow and pending work
\* each have the timer that brings the session back (applySome's assertion).
NothingIsStranded ==
    open /\ drain = "no" =>
        /\ Busy <=> timer = "limit"
        /\ timer = "off" => inbuf = <<>> /\ flow

\* The parts of a session agree at every moment: what the state waits for is at work,
\* what is at work is waited for, the message is there, and the input has its timer.
SessionInv ==
    ClearTerminates /\ WaitingIsAnswered /\ MessageIsOpen /\ NothingIsStranded /\ NoStrayEvent

\* A reply that is due is sent, or the connection is closed.
DueIsAnswered == due # "none" ~> due = "none"
=============================================================================
