------------------------------ MODULE PopServer ------------------------------
(***************************************************************************)
(* The POP server of src/src/gpop: the protocol's state machine with its   *)
(* SASL authenticator, the message list each session takes when it logs in *)
(* and the files it removes at QUIT, in a spool that others change: the    *)
(* copy and delivery filters put messages into the users' sub-directories, *)
(* a forwarding client works on the main directory, and the process may be *)
(* killed between two file operations.                                     *)
(*                                                                         *)
(* Handlers run one at a time, so that a session is alone with the others  *)
(* of its process; setup.apart puts every session in a process of its own. *)
(***************************************************************************)
EXTENDS FiniteSets, Naturals

CONSTANTS
    User,         \* the names in the secrets file
    Message,      \* message ids
    Session,      \* POP connections
    Main,         \* the spool directory itself; a sub-directory has its user's name
    Nobody,       \* not a user
    Setups        \* configurations of the spool and the server, see Setup

ASSUME ConstantsAssumption == Main \notin User /\ Nobody \notin User

Mechanism == {"PLAIN", "LOGIN", "CRAM", "APOP"}
Directory == User \cup {Main}

\* byName: --pop-by-name; delete: without --pop-no-delete; copies: what the filter
\* puts into the sub-directories (nothing, envelopes, or envelopes and contents);
\* keep: and leaves in the main one; tls: STLS is offered; apart: see above
Setup == [byName : BOOLEAN, delete : BOOLEAN, copies : {"none", "envelope", "both"},
          keep : BOOLEAN, tls : BOOLEAN, apart : BOOLEAN,
          insecure : SUBSET Mechanism, secure : SUBSET Mechanism]
ASSUME SetupsAssumption == Setups \subseteq Setup
\* what may be used without TLS may be used with it
ASSUME MechanismsAssumption == \A v \in Setups : v.insecure \subseteq v.secure

VARIABLES
    setup,        \* the configuration; it does not change
    envelope,     \* per directory: the state of each message's envelope file
    content,      \* per directory: the content files
    arrived,      \* messages that have been received
    broken,       \* messages whose delivery failed on the way
    state,        \* m_fsm of each session
    secure,       \* m_secure
    apop,         \* m_sasl_init_apop
    mech,         \* the authenticator's mechanism, if any
    id,           \* its m_id
    user,         \* m_user
    list,         \* m_store_list: the messages
    parent,       \* those whose content was found in the main directory
    deleted,      \* those marked as deleted
    step,         \* the file operation a QUIT does next
    item,         \* the message it does it to (none or one)
    todo,         \* the deleted messages it has still to remove
    failed,       \* a removal has failed
    proven,       \* history: whose password the peer has sent last
    asked,        \* history: deletions that were confirmed to the client
    excused       \* history: messages that were being removed at a crash

spool   == <<envelope, content>>
login   == <<apop, mech, id, user>>
mailbox == <<list, parent, deleted>>
removal == <<item, step, todo, failed>>
others  == <<setup, arrived, broken, excused>>
vars    == <<setup, envelope, content, arrived, broken, state, secure, apop, mech, id, user,
             list, parent, deleted, item, step, todo, failed, proven, asked, excused>>

Envelope == {"none", "envelope", "busy", "bad", "destroying"}
State    == {"closed", "start", "auth", "active", "data", "removing", "aborted"}

FilesOK ==
    /\ setup \in Setups
    /\ envelope \in [Directory -> [Message -> Envelope]]
    /\ content \in [Directory -> SUBSET Message]
    /\ arrived \subseteq Message /\ broken \subseteq arrived /\ excused \subseteq Message
LoginOK ==
    /\ state \in [Session -> State]
    /\ secure \in [Session -> BOOLEAN] /\ apop \in [Session -> BOOLEAN]
    /\ mech \in [Session -> Mechanism \cup {"none"}]
    /\ id \in [Session -> User \cup {Nobody}] /\ user \in [Session -> User \cup {Nobody}]
    /\ proven \in [Session -> User \cup {Nobody}]
ListsOK ==
    /\ list \in [Session -> SUBSET Message] /\ parent \in [Session -> SUBSET Message]
    /\ deleted \in [Session -> SUBSET Message] /\ asked \in [Session -> SUBSET Message]
    /\ todo \in [Session -> SUBSET Message] /\ item \in [Session -> SUBSET Message]
    /\ \A s \in Session : /\ item[s] \subseteq todo[s] /\ todo[s] \subseteq deleted[s] /\ parent[s] \subseteq list[s]
                          /\ deleted[s] \subseteq list[s] /\ asked[s] \subseteq list[s]
    /\ step \in [Session -> {"envelope", "shared", "content"}]
    /\ failed \in [Session -> BOOLEAN]
TypeOK == FilesOK /\ LoginOK /\ ListsOK

All(x) == [s \in Session |-> x]

Init ==
    /\ setup \in Setups
    /\ envelope = [d \in Directory |-> [m \in Message |-> "none"]]
    /\ content = [d \in Directory |-> {}]
    /\ arrived = {} /\ broken = {} /\ excused = {}
    /\ state = All("closed") /\ secure = All(FALSE) /\ apop = All(FALSE)
    /\ mech = All("none") /\ id = All(Nobody) /\ user = All(Nobody) /\ proven = All(Nobody)
    /\ list = All({}) /\ parent = All({}) /\ deleted = All({}) /\ asked = All({})
    /\ item = All({}) /\ step = All("envelope") /\ todo = All({}) /\ failed = All(FALSE)

Exists(d, m) == envelope[d][m] = "envelope"

-----------------------------------------------------------------------------
(* The protocol.  A session that is removing files blocks its process.     *)

Turn(s)  == setup.apart \/ \A t \in Session : state[t] # "removing"
In(s, q) == state[s] = q /\ Turn(s)
Goto(s, q) == state' = [state EXCEPT ![s] = q]

Allowed(s)    == IF secure[s] THEN setup.secure ELSE setup.insecure
Offered(s)    == Allowed(s) \ {"APOP"}
\* init(): the authenticator starts again; u is the name that goes with PASS
InitSasl(s, m, u) == /\ mech' = [mech EXCEPT ![s] = IF m \in Allowed(s) THEN m ELSE "none"]
                     /\ id' = [id EXCEPT ![s] = IF m \in Allowed(s) THEN u ELSE Nobody]

Connect(s) ==
    /\ In(s, "closed") /\ Goto(s, "start")
    /\ InitSasl(s, "APOP", Nobody) /\ apop' = [apop EXCEPT ![s] = "APOP" \in setup.insecure]
    /\ UNCHANGED <<secure, user, proven, asked, spool, mailbox, removal, others>>

\* the connection ends, in whatever state: nothing is removed
Forget(s) ==
    /\ state' = [state EXCEPT ![s] = "closed"]
    /\ secure' = [secure EXCEPT ![s] = FALSE] /\ apop' = [apop EXCEPT ![s] = FALSE]
    /\ mech' = [mech EXCEPT ![s] = "none"] /\ id' = [id EXCEPT ![s] = Nobody]
    /\ user' = [user EXCEPT ![s] = Nobody] /\ proven' = [proven EXCEPT ![s] = Nobody]
    /\ list' = [list EXCEPT ![s] = {}] /\ parent' = [parent EXCEPT ![s] = {}]
    /\ deleted' = [deleted EXCEPT ![s] = {}] /\ asked' = [asked EXCEPT ![s] = {}]
    /\ item' = [item EXCEPT ![s] = {}] /\ step' = [step EXCEPT ![s] = "envelope"]
    /\ todo' = [todo EXCEPT ![s] = {}] /\ failed' = [failed EXCEPT ![s] = FALSE]

Disconnect(s) ==
    /\ state[s] \notin {"closed", "removing"} /\ Turn(s)
    /\ Forget(s)
    /\ UNCHANGED <<spool, others>>

\* STLS: only in the first state; the state machine stays there and the TLS layer says
\* when it is done, before it passes on another line
Stls(s) ==
    /\ In(s, "start") /\ setup.tls /\ ~secure[s]
    /\ secure' = [secure EXCEPT ![s] = TRUE]
    /\ UNCHANGED <<state, login, proven, asked, spool, mailbox, removal, others>>

\* USER: the name is not looked up yet, and it is refused without PLAIN
UserName(s, u) ==
    /\ In(s, "start") /\ "PLAIN" \in Offered(s)
    /\ user' = [user EXCEPT ![s] = u]
    /\ UNCHANGED <<state, secure, apop, mech, id, proven, asked, spool, mailbox, removal, others>>

\* StoreUser: the envelopes that have a content, here or in the main directory
Box(u)      == IF setup.byName THEN u ELSE Main
InParent(u) == {m \in Message : setup.byName /\ m \notin content[u] /\ m \in content[Main]}
Readable(u) == {m \in Message : Exists(Box(u), m) /\ m \in content[Box(u)] \cup InParent(u)}

\* logged in as u: the store's list is read
Enter(s, u) ==
    /\ Goto(s, "active") /\ user' = [user EXCEPT ![s] = u]
    /\ list' = [list EXCEPT ![s] = Readable(u)]
    /\ parent' = [parent EXCEPT ![s] = Readable(u) \cap InParent(u)]
    /\ deleted' = [deleted EXCEPT ![s] = {}]

Refuse(s) == Goto(s, "start") /\ UNCHANGED <<user, mailbox>>

\* the peer answers for user u with the password of p (Nobody: with a wrong one)
Sends(s, p) == proven' = [proven EXCEPT ![s] = p]

\* PASS: PLAIN with the name of the last USER
Pass(s, p) ==
    /\ In(s, "start")
    /\ apop' = [apop EXCEPT ![s] = FALSE]
    /\ Sends(s, p)
    /\ IF user[s] = Nobody THEN Refuse(s) /\ UNCHANGED <<mech, id>>
       ELSE /\ InitSasl(s, "PLAIN", user[s])
            /\ IF "PLAIN" \in Allowed(s) /\ p = user[s] THEN Enter(s, user[s]) ELSE Refuse(s)
    /\ UNCHANGED <<secure, asked, spool, removal, others>>

\* APOP answers the greeting's challenge, if no other exchange has replaced it
Apop(s, u, p) ==
    /\ In(s, "start") /\ apop[s]
    /\ Sends(s, p)
    /\ IF u = p THEN Enter(s, u) /\ id' = [id EXCEPT ![s] = u]
                ELSE Refuse(s) /\ UNCHANGED id
    /\ UNCHANGED <<secure, apop, mech, asked, spool, removal, others>>

\* AUTH: a mechanism that is not allowed leaves the session where it was
Auth(s, m) ==
    /\ In(s, "start") /\ Offered(s) # {}
    /\ apop' = [apop EXCEPT ![s] = FALSE]
    /\ InitSasl(s, m, Nobody)
    /\ Goto(s, IF m \in Allowed(s) THEN "auth" ELSE "start")
    /\ UNCHANGED <<secure, user, proven, asked, spool, mailbox, removal, others>>

\* (mutant: the name that USER gave is kept)
LoginName_User(s, u) == IF user[s] # Nobody THEN user[s] ELSE u
LoginName(s, u) == u

\* PLAIN, CRAM and AUTH APOP decide with one response, LOGIN with the second; the first response may
\* come with the AUTH command
AuthData(s, u, p) ==
    /\ In(s, "auth")
    /\ IF mech[s] = "LOGIN" /\ id[s] = Nobody
       THEN /\ id' = [id EXCEPT ![s] = u]
            /\ UNCHANGED <<state, user, proven, mailbox>>
       ELSE /\ mech[s] = "LOGIN" => u = id[s]
            /\ id' = [id EXCEPT ![s] = u]
            /\ Sends(s, p)
            /\ IF u = p THEN Enter(s, LoginName(s, u)) ELSE Refuse(s)
    /\ UNCHANGED <<secure, apop, mech, asked, spool, removal, others>>

AuthCancel(s) ==
    /\ In(s, "auth") /\ Goto(s, "start")
    /\ UNCHANGED <<secure, login, proven, asked, spool, mailbox, removal, others>>

\* StoreMessage::cpath()
Place(s, m) == IF m \in parent[s] THEN Main ELSE Box(user[s])

\* RETR and TOP open the content now, and an exception ends the session; content that
\* cannot be sent in one go is sent as the connection takes it
Retr(s, m) ==
    /\ In(s, "active") /\ m \in list[s] \ deleted[s]
    /\ IF m \in content[Place(s, m)]
       THEN \E q \in {"active", "data"} : Goto(s, q)
       ELSE Goto(s, "aborted")
    /\ UNCHANGED <<secure, login, proven, asked, spool, mailbox, removal, others>>

Resume(s) ==
    /\ In(s, "data") /\ Goto(s, "active")
    /\ UNCHANGED <<secure, login, proven, asked, spool, mailbox, removal, others>>

Dele(s, m) ==
    /\ In(s, "active") /\ m \in list[s] \ deleted[s]
    /\ deleted' = [deleted EXCEPT ![s] = @ \cup {m}]
    /\ asked' = [asked EXCEPT ![s] = @ \cup {m}]
    /\ UNCHANGED <<state, secure, login, proven, list, parent, spool, removal, others>>

\* (mutant: the marks stay)
Rollback_Keep(s) == UNCHANGED mailbox
Rollback(s) == deleted' = [deleted EXCEPT ![s] = {}] /\ UNCHANGED <<list, parent>>
Rset(s) ==
    /\ In(s, "active") /\ Rollback(s)
    /\ asked' = [asked EXCEPT ![s] = {}]
    /\ UNCHANGED <<state, secure, login, proven, spool, removal, others>>

-----------------------------------------------------------------------------
(* QUIT: StoreList::commit(), one file operation at a time.                *)

Quit(s) ==
    /\ In(s, "active")
    /\ IF setup.delete /\ deleted[s] # {}
       THEN /\ Goto(s, "removing")
            /\ todo' = [todo EXCEPT ![s] = deleted[s]]
            /\ UNCHANGED <<secure, login, proven, asked, mailbox, item, step, failed>>
       ELSE Forget(s)
    /\ UNCHANGED <<spool, others>>

Removing(s, q) == state[s] = "removing" /\ step[s] = q /\ todo[s] # {}
Goes(s, q)    == step' = [step EXCEPT ![s] = q]
Fails(s, b)    == failed' = [failed EXCEPT ![s] = @ \/ b]

\* deleteFile() of an envelope: it may have another name by now, or be gone
RemoveEnvelope(s, m) ==
    /\ Removing(s, "envelope") /\ m \in todo[s]
    /\ item' = [item EXCEPT ![s] = {m}]
    /\ Fails(s, ~Exists(Box(user[s]), m))
    /\ envelope' = [envelope EXCEPT ![Box(user[s])][m] = IF @ = "envelope" THEN "none" ELSE @]
    /\ Goes(s, "shared")
    /\ UNCHANGED <<state, secure, login, proven, asked, content, mailbox, todo, others>>

\* (mutant: only the main directory is looked at)
Shared_Main(s, m) == m \in parent[s] /\ Exists(Main, m)
\* shared(): another envelope of that name, in the main directory or any sub-directory
Shared(s, m) == m \in parent[s] /\ \E d \in Directory : Exists(d, m)

\* (mutant: the message is still worked on)
Removed_Stay(s) == /\ todo' = [todo EXCEPT ![s] = @ \ item[s]]
                   /\ UNCHANGED item
                   /\ Goes(s, "envelope")
\* on to the next message
Removed(s) == /\ todo' = [todo EXCEPT ![s] = @ \ item[s]]
              /\ item' = [item EXCEPT ![s] = {}]
              /\ Goes(s, "envelope")

CheckShared(s) ==
    /\ Removing(s, "shared")
    /\ IF \E m \in item[s] : Shared(s, m) THEN Removed(s)
       ELSE Goes(s, "content") /\ UNCHANGED <<todo, item>>
    /\ UNCHANGED <<state, secure, login, proven, asked, spool, mailbox, failed, others>>

RemoveContent(s) ==
    /\ Removing(s, "content")
    /\ \E m \in item[s] :
        /\ content' = [content EXCEPT ![Place(s, m)] = @ \ {m}]
        /\ Fails(s, m \notin content[Place(s, m)])
    /\ Removed(s)
    /\ UNCHANGED <<state, secure, login, proven, asked, envelope, mailbox, others>>

\* CannotDelete is thrown at the end: everything else has been removed
Committed(s) ==
    /\ state[s] = "removing" /\ todo[s] = {}
    /\ IF failed[s]
       THEN Goto(s, "aborted")
            /\ UNCHANGED <<secure, login, proven, asked, mailbox, removal>>
       ELSE Forget(s)
    /\ UNCHANGED <<spool, others>>

\* the process is killed; its other sessions are lost like any connection
Crash(s) ==
    /\ state[s] = "removing"
    /\ excused' = excused \cup item[s]
    /\ Forget(s)
    /\ UNCHANGED <<spool, setup, arrived, broken>>

-----------------------------------------------------------------------------
(* The rest of the system: other processes, at any time.                   *)

\* a filter copies a new message to the mailboxes B while its envelope is ".new", which
\* POP does not list; without copies, or when it keeps them, the files go to the spool
Copy(m, B) ==
    /\ m \notin arrived /\ arrived' = arrived \cup {m}
    /\ B = {} <=> setup.copies = "none"
    /\ content' = [d \in Directory |->
         IF \/ d \in B /\ setup.copies = "both"
            \/ d = Main /\ (setup.keep \/ setup.copies \in {"none", "envelope"})
         THEN content[d] \cup {m} ELSE content[d]]
    /\ envelope' = [d \in Directory |-> [envelope[d] EXCEPT ![m] =
         IF d \in B \/ (d = Main /\ (B = {} \/ setup.keep)) THEN "envelope" ELSE @]]

Deliver(m, B) ==
    /\ Copy(m, B)
    /\ UNCHANGED <<setup, broken, excused, state, secure, login, proven, asked, mailbox, removal>>

\* the copying fails, or a later filter refuses the message: what has been copied stays,
\* and NewFile removes the original
DeliverFails(m, B) ==
    /\ m \notin arrived /\ arrived' = arrived \cup {m} /\ broken' = broken \cup {m}
    /\ B # {} /\ setup.copies # "none"
    /\ content' = [d \in Directory |->
         IF d \in B /\ setup.copies = "both" THEN content[d] \cup {m} ELSE content[d]]
    /\ envelope' = [d \in Directory |-> [envelope[d] EXCEPT ![m] = IF d \in B THEN "envelope" ELSE @]]
    /\ UNCHANGED <<setup, excused, state, secure, login, proven, asked, mailbox, removal>>

\* a forwarding client locks a message of the main directory, and unlocks, fails or
\* destroys it: the envelope first, then the content, see FileStore
ForwardMoves == {<<"envelope", "busy">>, <<"busy", "envelope">>, <<"busy", "bad">>, <<"busy", "destroying">>}
Forward(m) ==
    /\ \E v \in ForwardMoves : envelope[Main][m] = v[1] /\ envelope' = [envelope EXCEPT ![Main][m] = v[2]]
    /\ UNCHANGED <<content, others, state, secure, login, proven, asked, mailbox, removal>>
ForwardDestroys(m) ==
    /\ envelope[Main][m] = "destroying"
    /\ envelope' = [envelope EXCEPT ![Main][m] = "none"]
    /\ content' = [content EXCEPT ![Main] = @ \ {m}]
    /\ UNCHANGED <<others, state, secure, login, proven, asked, mailbox, removal>>

Authenticate(s) ==
    \/ Connect(s) \/ Stls(s) \/ AuthCancel(s)
    \/ \E m \in Mechanism : Auth(s, m)
    \/ \E p \in User \cup {Nobody} : \/ Pass(s, p)
                                     \/ \E u \in User : Apop(s, u, p) \/ AuthData(s, u, p)
    \/ \E u \in User : UserName(s, u)
Remove(s) == RemoveContent(s) \/ CheckShared(s) \/ Committed(s) \/ \E m \in Message : RemoveEnvelope(s, m)
Transact(s) ==
    \/ Resume(s) \/ Rset(s) \/ Quit(s) \/ Disconnect(s)
    \/ \E m \in Message : Retr(s, m) \/ Dele(s, m)
Spool == \E m \in Message : \/ Forward(m) \/ ForwardDestroys(m)
                            \/ \E B \in SUBSET User : Deliver(m, B) \/ DeliverFails(m, B)

Next == Spool \/ \E s \in Session : Authenticate(s) \/ Transact(s) \/ Remove(s) \/ Crash(s)
Spec == Init /\ [][Next]_vars

-----------------------------------------------------------------------------
(* Properties.                                                             *)

Entered(s) == state[s] \in {"active", "data", "removing"}

\* Whichever of USER, PASS, APOP and AUTH were tried, and in whatever order, a session
\* works on the mailbox of the user whose password it has shown, and by a mechanism
\* that is allowed on its connection (with or without TLS).
LoginIsEarned ==
    \A s \in Session : Entered(s) => user[s] = proven[s] /\ proven[s] # Nobody /\ mech[s] \in Allowed(s)

\* An envelope leaves a user's mailbox only when that user's client has asked for it,
\* has not taken it back with RSET, and has ended its session with QUIT.
DeletedWasAsked ==
    [][\A u \in User, m \in Message : Exists(u, m) /\ ~Exists(u, m)' =>
        \E s \in Session : state[s] = "removing" /\ user[s] = u /\ m \in asked[s]]_vars

\* A message in a user's mailbox can be read until that user has it deleted, whatever
\* the other users do with their copies and the forwarding client with the original.
MailboxReadable ==
    \A u \in User, m \in Message \ broken : Exists(u, m) => m \in content[u] \cup content[Main]

\* A content file that no envelope refers to is being removed, or was when the process
\* died: shared contents go with their last envelope.
NoOrphanContent ==
    \A m \in content[Main] \ excused :
        \/ \E d \in Directory : envelope[d][m] # "none"
        \/ \E s \in Session : m \in item[s]

\* The two together: shared contents go with their last envelope, not before and not after.
ContentInv == MailboxReadable /\ NoOrphanContent
=============================================================================
