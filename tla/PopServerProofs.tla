--------------------------- MODULE PopServerProofs ---------------------------
(***************************************************************************)
(* That a POP session works on the mailbox whose password it has shown,    *)
(* and that nothing leaves a mailbox unasked, for any number of users,     *)
(* messages and sessions and whatever other processes do to the spool.     *)
(***************************************************************************)
EXTENDS PopServer, TLAPS

\* Of a session: how the name it works under came about, even before it is used, and
\* that the client has been told of every deletion.
SessionInv(s) ==
    /\ Entered(s) => user[s] = proven[s] /\ proven[s] # Nobody /\ mech[s] \in Allowed(s)
    /\ apop[s] => mech[s] \in Allowed(s)
    /\ state[s] = "auth" => mech[s] \in Allowed(s)
    /\ state[s] = "closed" => secure[s] = FALSE
    /\ deleted[s] \subseteq asked[s]
    /\ state[s] # "removing" => todo[s] = {} /\ item[s] = {}
    /\ ~Entered(s) /\ state[s] # "aborted" => asked[s] = {}

Inv == TypeOK /\ \A s \in Session : SessionInv(s)

LEMMA InitInv == Init => Inv
  <1> SUFFICES ASSUME Init PROVE Inv
    OBVIOUS
  <1>1. TypeOK
    BY DEF Init, TypeOK, FilesOK, LoginOK, ListsOK, All, Envelope, State
  <1>2. ASSUME NEW s \in Session PROVE SessionInv(s)
    BY <1>2 DEF Init, SessionInv, Entered, All
  <1> QED BY <1>1, <1>2 DEF Inv

-----------------------------------------------------------------------------
(* The steps of a session.                                                 *)

\* what all the ways to log in have in common
Attempt(s) ==
    /\ state[s] \in {"start", "auth"} /\ UNCHANGED <<secure, asked, spool, removal, others>>
    /\ apop' \in [Session -> BOOLEAN] /\ mech' \in [Session -> Mechanism \cup {"none"}]
    /\ id' \in [Session -> User \cup {Nobody}]
    /\ \A t \in Session \ {s} : apop'[t] = apop[t] /\ mech'[t] = mech[t]

LEMMA EnterInv ==
    ASSUME Inv, NEW s \in Session, NEW u \in User, Attempt(s), Enter(s, u), Sends(s, u),
           mech'[s] \in Allowed(s)
    PROVE  Inv'
  <1> USE ConstantsAssumption DEF Inv, TypeOK, FilesOK, LoginOK, ListsOK, SessionInv, Entered
  <1>1. FilesOK'
    BY DEF Attempt, spool, others
  <1>2. LoginOK'
    BY DEF Attempt, Enter, Sends, Goto, State
  <1>3. ListsOK'
    BY DEF Attempt, Enter, Readable, removal
  <1>4. ASSUME NEW t \in Session PROVE SessionInv(t)'
    BY <1>4 DEF Attempt, Enter, Sends, Goto, Readable, removal, others, Allowed
  <1> QED BY <1>1, <1>2, <1>3, <1>4

LEMMA RefuseInv ==
    ASSUME Inv, NEW s \in Session, NEW p \in User \cup {Nobody}, Attempt(s), Refuse(s), Sends(s, p),
           apop'[s] => mech'[s] \in Allowed(s)
    PROVE  Inv'
  <1> USE ConstantsAssumption DEF Inv, TypeOK, FilesOK, LoginOK, ListsOK, SessionInv, Entered
  <1>1. FilesOK'
    BY DEF Attempt, spool, others
  <1>2. LoginOK'
    BY DEF Attempt, Refuse, Sends, Goto, State
  <1>3. ListsOK'
    BY DEF Attempt, Refuse, mailbox, removal
  <1>4. ASSUME NEW t \in Session PROVE SessionInv(t)'
    BY <1>4 DEF Attempt, Refuse, Sends, Goto, mailbox, removal, others, Allowed
  <1> QED BY <1>1, <1>2, <1>3, <1>4

LEMMA ForgetInv ==
    ASSUME Inv, NEW s \in Session, Forget(s), UNCHANGED <<spool, setup, arrived, broken>>,
           excused' \subseteq Message
    PROVE  Inv'
  <1> USE ConstantsAssumption DEF Inv, TypeOK, FilesOK, LoginOK, ListsOK, SessionInv, Entered
  <1>1. FilesOK'
    BY DEF Forget, spool, others
  <1>2. LoginOK'
    BY DEF Forget, State
  <1>3. ListsOK'
    BY DEF Forget, removal
  <1>4. ASSUME NEW t \in Session PROVE SessionInv(t)'
    BY <1>4 DEF Forget, removal, others, Allowed
  <1> QED BY <1>1, <1>2, <1>3, <1>4

LEMMA ConnectInv ==
    ASSUME Inv, NEW s \in Session, Connect(s)
    PROVE  Inv'
  <1> USE ConstantsAssumption DEF Inv, TypeOK, FilesOK, LoginOK, ListsOK, SessionInv, Entered
  <1>1. FilesOK'
    BY DEF Connect, spool, others
  <1>2. LoginOK'
    BY DEF Connect, Goto, InitSasl, Allowed, State, Mechanism
  <1>3. ListsOK'
    BY DEF Connect, In, mailbox, removal
  <1>4. ASSUME NEW t \in Session PROVE SessionInv(t)'
    BY <1>4, SetupsAssumption, MechanismsAssumption DEF Connect, In, Goto,
           InitSasl, login, mailbox, removal, others, Allowed, Setup, Mechanism
  <1> QED BY <1>1, <1>2, <1>3, <1>4

LEMMA StlsInv ==
    ASSUME Inv, NEW s \in Session, Stls(s)
    PROVE  Inv'
  <1> USE ConstantsAssumption DEF Inv, TypeOK, FilesOK, LoginOK, ListsOK, SessionInv, Entered
  <1>1. FilesOK'
    BY DEF Stls, spool, others
  <1>2. LoginOK'
    BY DEF Stls, login
  <1>3. ListsOK'
    BY DEF Stls, In, mailbox, removal
  <1>4. ASSUME NEW t \in Session PROVE SessionInv(t)'
    BY <1>4, SetupsAssumption, MechanismsAssumption DEF Stls, In, login,
           mailbox, removal, others, Allowed, Setup, Mechanism
  <1> QED BY <1>1, <1>2, <1>3, <1>4

LEMMA UserNameInv ==
    ASSUME Inv, NEW s \in Session, NEW u \in User, UserName(s, u)
    PROVE  Inv'
  <1> USE ConstantsAssumption DEF Inv, TypeOK, FilesOK, LoginOK, ListsOK, SessionInv, Entered
  <1>1. FilesOK'
    BY DEF UserName, spool, others
  <1>2. LoginOK'
    BY DEF UserName, login
  <1>3. ListsOK'
    BY DEF UserName, In, mailbox, removal
  <1>4. ASSUME NEW t \in Session PROVE SessionInv(t)'
    BY <1>4 DEF UserName, In, login, mailbox, removal, others, Allowed
  <1> QED BY <1>1, <1>2, <1>3, <1>4

LEMMA AuthInv ==
    ASSUME Inv, NEW s \in Session, NEW m \in Mechanism, Auth(s, m)
    PROVE  Inv'
  <1> USE ConstantsAssumption DEF Inv, TypeOK, FilesOK, LoginOK, ListsOK, SessionInv, Entered
  <1>1. FilesOK'
    BY DEF Auth, spool, others
  <1>2. LoginOK'
    BY DEF Auth, Goto, InitSasl, Allowed, State, Mechanism
  <1>3. ListsOK'
    BY DEF Auth, In, mailbox, removal
  <1>4. ASSUME NEW t \in Session PROVE SessionInv(t)'
    BY <1>4, SetupsAssumption, MechanismsAssumption DEF Auth, In, Goto,
           InitSasl, login, mailbox, removal, others, Allowed, Setup, Mechanism
  <1> QED BY <1>1, <1>2, <1>3, <1>4

LEMMA AuthCancelInv ==
    ASSUME Inv, NEW s \in Session, AuthCancel(s)
    PROVE  Inv'
  <1> USE ConstantsAssumption DEF Inv, TypeOK, FilesOK, LoginOK, ListsOK, SessionInv, Entered
  <1>1. FilesOK'
    BY DEF AuthCancel, spool, others
  <1>2. LoginOK'
    BY DEF AuthCancel, Goto, login, State
  <1>3. ListsOK'
    BY DEF AuthCancel, In, mailbox, removal
  <1>4. ASSUME NEW t \in Session PROVE SessionInv(t)'
    BY <1>4 DEF AuthCancel, In, Goto, login, mailbox, removal, others, Allowed
  <1> QED BY <1>1, <1>2, <1>3, <1>4

LEMMA RetrInv ==
    ASSUME Inv, NEW s \in Session, NEW m \in Message, Retr(s, m)
    PROVE  Inv'
  <1> USE ConstantsAssumption DEF Inv, TypeOK, FilesOK, LoginOK, ListsOK, SessionInv, Entered
  <1>1. FilesOK'
    BY DEF Retr, spool, others
  <1>2. LoginOK'
    BY DEF Retr, Goto, login, State
  <1>3. ListsOK'
    BY DEF Retr, In, mailbox, removal
  <1>4. ASSUME NEW t \in Session PROVE SessionInv(t)'
    BY <1>4 DEF Retr, In, Goto, login, mailbox, removal, others, Allowed
  <1> QED BY <1>1, <1>2, <1>3, <1>4

LEMMA ResumeInv ==
    ASSUME Inv, NEW s \in Session, Resume(s)
    PROVE  Inv'
  <1> USE ConstantsAssumption DEF Inv, TypeOK, FilesOK, LoginOK, ListsOK, SessionInv, Entered
  <1>1. FilesOK'
    BY DEF Resume, spool, others
  <1>2. LoginOK'
    BY DEF Resume, Goto, login, State
  <1>3. ListsOK'
    BY DEF Resume, In, mailbox, removal
  <1>4. ASSUME NEW t \in Session PROVE SessionInv(t)'
    BY <1>4 DEF Resume, In, Goto, login, mailbox, removal, others, Allowed
  <1> QED BY <1>1, <1>2, <1>3, <1>4

LEMMA DeleInv ==
    ASSUME Inv, NEW s \in Session, NEW m \in Message, Dele(s, m)
    PROVE  Inv'
  <1> USE ConstantsAssumption DEF Inv, TypeOK, FilesOK, LoginOK, ListsOK, SessionInv, Entered
  <1>1. FilesOK'
    BY DEF Dele, spool, others
  <1>2. LoginOK'
    BY DEF Dele, login
  <1>3. ListsOK'
    BY DEF Dele, In, mailbox, removal
  <1>4. ASSUME NEW t \in Session PROVE SessionInv(t)'
    BY <1>4 DEF Dele, In, login, mailbox, removal, others, Allowed
  <1> QED BY <1>1, <1>2, <1>3, <1>4

LEMMA RsetInv ==
    ASSUME Inv, NEW s \in Session, Rset(s)
    PROVE  Inv'
  <1> USE ConstantsAssumption DEF Inv, TypeOK, FilesOK, LoginOK, ListsOK, SessionInv, Entered
  <1>1. FilesOK'
    BY DEF Rset, spool, others
  <1>2. LoginOK'
    BY DEF Rset, login
  <1>3. ListsOK'
    BY DEF Rset, In, Rollback, mailbox, removal
  <1>4. ASSUME NEW t \in Session PROVE SessionInv(t)'
    BY <1>4 DEF Rset, In, Rollback, login, mailbox, removal, others, Allowed
  <1> QED BY <1>1, <1>2, <1>3, <1>4

LEMMA RemoveEnvelopeInv ==
    ASSUME Inv, NEW s \in Session, NEW m \in Message, RemoveEnvelope(s, m)
    PROVE  Inv'
  <1> USE ConstantsAssumption DEF Inv, TypeOK, FilesOK, LoginOK, ListsOK, SessionInv, Entered
  <1>1. FilesOK'
    BY DEF RemoveEnvelope, others, Envelope, Directory, Box
  <1>2. LoginOK'
    BY DEF RemoveEnvelope, login
  <1>3. ListsOK'
    BY DEF RemoveEnvelope, Removing, Goes, Fails, mailbox, removal
  <1>4. ASSUME NEW t \in Session PROVE SessionInv(t)'
    BY <1>4 DEF RemoveEnvelope, Removing, Goes, Fails, login, mailbox, removal,
           others, Allowed
  <1> QED BY <1>1, <1>2, <1>3, <1>4

LEMMA PassInv ==
    ASSUME Inv, NEW s \in Session, NEW p \in User \cup {Nobody}, Pass(s, p)
    PROVE  Inv'
  <1> USE ConstantsAssumption DEF Inv, TypeOK, LoginOK
  <1>1. Attempt(s) /\ Sends(s, p) /\ ~apop'[s]
    BY DEF Pass, In, InitSasl, Attempt, Sends, Mechanism
  <1>2. CASE user[s] # Nobody /\ "PLAIN" \in Allowed(s) /\ p = user[s]
    <2>1. Enter(s, user[s]) /\ user[s] \in User /\ mech'[s] = "PLAIN" /\ Allowed(s)' = Allowed(s)
      BY <1>2 DEF Pass, InitSasl, Allowed, others
    <2> QED BY <1>1, <1>2, <2>1, EnterInv
  <1>3. CASE ~(user[s] # Nobody /\ "PLAIN" \in Allowed(s) /\ p = user[s])
    <2>1. Refuse(s)
      BY <1>3 DEF Pass
    <2> QED BY <1>1, <2>1, RefuseInv
  <1> QED BY <1>2, <1>3

LEMMA ApopInv ==
    ASSUME Inv, NEW s \in Session, NEW u \in User, NEW p \in User \cup {Nobody}, Apop(s, u, p)
    PROVE  Inv'
  <1> USE ConstantsAssumption DEF Inv, TypeOK, LoginOK
  <1>1. Attempt(s) /\ Sends(s, p)
    BY DEF Apop, In, Attempt, Refuse
  <1>2. mech'[s] \in Allowed(s)
    BY DEF Apop, SessionInv
  <1>3. CASE u = p
    BY <1>1, <1>2, <1>3, EnterInv DEF Apop
  <1>4. CASE u # p
    BY <1>1, <1>2, <1>4, RefuseInv DEF Apop
  <1> QED BY <1>3, <1>4

LEMMA AuthDataInv ==
    ASSUME Inv, NEW s \in Session, NEW u \in User, NEW p \in User \cup {Nobody}, AuthData(s, u, p)
    PROVE  Inv'
  <1> USE ConstantsAssumption DEF Inv, TypeOK, LoginOK
  <1>1. CASE mech[s] = "LOGIN" /\ id[s] = Nobody
    <2> USE <1>1 DEF AuthData, FilesOK, ListsOK, SessionInv, Entered, spool, mailbox, removal, others
    <2>1. FilesOK'
      OBVIOUS
    <2>2. LoginOK'
      OBVIOUS
    <2>3. ListsOK'
      OBVIOUS
    <2>4. ASSUME NEW t \in Session PROVE SessionInv(t)'
      BY DEF Allowed
    <2> QED BY <2>1, <2>2, <2>3, <2>4
  <1>2. CASE ~(mech[s] = "LOGIN" /\ id[s] = Nobody)
    <2>1. Attempt(s) /\ Sends(s, p)
      BY <1>2 DEF AuthData, In, Attempt
    <2>2. mech'[s] \in Allowed(s)
      BY DEF AuthData, In, SessionInv
    <2>3. CASE u = p
      BY <1>2, <2>1, <2>2, <2>3, EnterInv DEF AuthData, LoginName
    <2>4. CASE u # p
      BY <1>2, <2>1, <2>2, <2>4, RefuseInv DEF AuthData
    <2> QED BY <2>3, <2>4
  <1> QED BY <1>1, <1>2

-----------------------------------------------------------------------------
(* The end of a session.                                                   *)

LEMMA QuitInv ==
    ASSUME Inv, NEW s \in Session, Quit(s)
    PROVE  Inv'
  <1>1. CASE setup.delete /\ deleted[s] # {}
    <2> USE DEF Inv, TypeOK, FilesOK, LoginOK, ListsOK, SessionInv, Entered, login, mailbox, spool, others
    <2>1. /\ Goto(s, "removing") /\ todo' = [todo EXCEPT ![s] = deleted[s]]
          /\ UNCHANGED <<spool, others, secure, login, proven, asked, mailbox, item, step, failed>>
      BY <1>1 DEF Quit
    <2>2. state[s] = "active"
      BY DEF Quit, In
    <2>3. FilesOK'
      BY <2>1
    <2>4. LoginOK'
      BY <2>1 DEF Goto, State
    <2>5. ListsOK'
      BY <2>1, <2>2
    <2>6. ASSUME NEW t \in Session PROVE SessionInv(t)'
      BY <2>1, <2>2 DEF Goto, Allowed
    <2> QED BY <2>3, <2>4, <2>5, <2>6
  <1>2. CASE ~(setup.delete /\ deleted[s] # {})
    BY <1>2, ForgetInv DEF Quit, others, Inv, TypeOK, FilesOK
  <1> QED BY <1>1, <1>2

LEMMA DisconnectInv ==
    ASSUME Inv, NEW s \in Session, Disconnect(s)
    PROVE  Inv'
  BY ForgetInv DEF Disconnect, others, Inv, TypeOK, FilesOK

LEMMA CrashInv ==
    ASSUME Inv, NEW s \in Session, Crash(s)
    PROVE  Inv'
  <1>1. excused' \subseteq Message
    BY DEF Crash, Inv, TypeOK, FilesOK, ListsOK
  <1> QED BY <1>1, ForgetInv DEF Crash

\* Removed() keeps the lists in order
LEMMA RemovedInv ==
    ASSUME Inv, NEW s \in Session, state[s] = "removing", Removed(s), failed' \in [Session -> BOOLEAN],
           UNCHANGED <<state, secure, login, proven, asked, mailbox, others>>,
           UNCHANGED envelope, content' \in [Directory -> SUBSET Message]
    PROVE  Inv'
  <1> USE DEF Inv, TypeOK, FilesOK, LoginOK, ListsOK, SessionInv, Entered, Removed, Goes, login, mailbox, others
  <1>1. FilesOK'
    OBVIOUS
  <1>2. LoginOK'
    OBVIOUS
  <1>3. ListsOK'
    OBVIOUS
  <1>4. ASSUME NEW t \in Session PROVE SessionInv(t)'
    BY DEF Allowed
  <1> QED BY <1>1, <1>2, <1>3, <1>4

LEMMA CheckSharedInv ==
    ASSUME Inv, NEW s \in Session, CheckShared(s)
    PROVE  Inv'
  <1>1. CASE \E m \in item[s] : Shared(s, m)
    BY <1>1, RemovedInv DEF CheckShared, Removing, Inv, TypeOK, FilesOK, ListsOK, spool
  <1>2. CASE ~\E m \in item[s] : Shared(s, m)
    <2> USE DEF Inv, TypeOK, FilesOK, LoginOK, ListsOK, SessionInv, Entered, spool, login, mailbox, others
    <2>1. UNCHANGED <<spool, login, mailbox, others, state, secure, proven, asked, failed, todo, item>>
      BY <1>2 DEF CheckShared
    <2>2. step' \in [Session -> {"envelope", "shared", "content"}]
      BY <1>2 DEF CheckShared, Goes
    <2>3. FilesOK' /\ LoginOK'
      BY <2>1
    <2>4. ListsOK'
      BY <2>1, <2>2
    <2>5. ASSUME NEW t \in Session PROVE SessionInv(t)'
      BY <2>1 DEF Allowed
    <2> QED BY <2>3, <2>4, <2>5
  <1> QED BY <1>1, <1>2

LEMMA RemoveContentInv ==
    ASSUME Inv, NEW s \in Session, RemoveContent(s)
    PROVE  Inv'
  <1>1. content' \in [Directory -> SUBSET Message] /\ failed' \in [Session -> BOOLEAN]
    <2>1. PICK m \in item[s] : /\ content' = [content EXCEPT ![Place(s, m)] = @ \ {m}]
                               /\ Fails(s, m \notin content[Place(s, m)])
      BY DEF RemoveContent
    <2> QED BY <2>1 DEF Fails, Inv, TypeOK, FilesOK, ListsOK
  <1> QED BY <1>1, RemovedInv DEF RemoveContent, Removing

LEMMA CommittedInv ==
    ASSUME Inv, NEW s \in Session, Committed(s)
    PROVE  Inv'
  <1>1. CASE failed[s]
    <2> USE DEF Inv, TypeOK, FilesOK, LoginOK, ListsOK, SessionInv, Entered, spool, login, mailbox, removal, others
    <2>1. Goto(s, "aborted") /\ UNCHANGED <<spool, others, secure, login, proven, asked, mailbox, removal>>
      BY <1>1 DEF Committed
    <2>2. FilesOK' /\ ListsOK'
      BY <2>1
    <2>3. LoginOK'
      BY <2>1 DEF Goto, State
    <2>4. ASSUME NEW t \in Session PROVE SessionInv(t)'
      BY <2>1 DEF Goto, Committed, Allowed
    <2> QED BY <2>2, <2>3, <2>4
  <1>2. CASE ~failed[s]
    BY <1>2, ForgetInv DEF Committed, others, Inv, TypeOK, FilesOK
  <1> QED BY <1>1, <1>2

-----------------------------------------------------------------------------
(* The others' steps, and the theorems.                                    *)

LEMMA SpoolInv == Inv /\ Spool => Inv'
  <1> SUFFICES ASSUME Inv, Spool PROVE Inv'
    OBVIOUS
  <1>1. UNCHANGED <<setup, state, secure, login, proven, asked, mailbox, removal>>
    BY DEF Spool, Forward, ForwardDestroys, Deliver, DeliverFails, others
  <1>2. FilesOK'
    <2> USE ConstantsAssumption DEF Inv, TypeOK, FilesOK, Directory, Envelope
    <2> PICK m \in Message : \/ Forward(m) \/ ForwardDestroys(m)
                             \/ \E B \in SUBSET User : Deliver(m, B) \/ DeliverFails(m, B)
      BY DEF Spool
    <2>1. CASE Forward(m)
      BY <2>1 DEF Forward, ForwardMoves, others
    <2>2. CASE ForwardDestroys(m)
      BY <2>2 DEF ForwardDestroys, others
    <2>3. ASSUME NEW B \in SUBSET User, Deliver(m, B) PROVE FilesOK'
      BY <2>3 DEF Deliver, Copy
    <2>4. ASSUME NEW B \in SUBSET User, DeliverFails(m, B) PROVE FilesOK'
      BY <2>4 DEF DeliverFails
    <2> QED BY <2>1, <2>2, <2>3, <2>4
  <1>3. LoginOK' /\ ListsOK'
    BY <1>1 DEF Inv, TypeOK, LoginOK, ListsOK, login, mailbox, removal
  <1>4. ASSUME NEW s \in Session PROVE SessionInv(s)'
    BY <1>1 DEF Inv, SessionInv, Entered, Allowed, login, mailbox, removal
  <1> QED BY <1>2, <1>3, <1>4 DEF Inv, TypeOK

LEMMA NextInv == Inv /\ [Next]_vars => Inv'
  <1> SUFFICES ASSUME Inv, [Next]_vars PROVE Inv'
    OBVIOUS
  <1>1. CASE Spool
    BY <1>1, SpoolInv
  <1>2. ASSUME NEW s \in Session, Authenticate(s) PROVE Inv'
    BY <1>2, ConnectInv, StlsInv, AuthCancelInv, AuthInv, PassInv, ApopInv, AuthDataInv, UserNameInv
       DEF Authenticate
  <1>3. ASSUME NEW s \in Session, Transact(s) PROVE Inv'
    BY <1>3, ResumeInv, RsetInv, QuitInv, DisconnectInv, RetrInv, DeleInv DEF Transact
  <1>4. ASSUME NEW s \in Session, Remove(s) PROVE Inv'
    BY <1>4, RemoveContentInv, CheckSharedInv, CommittedInv, RemoveEnvelopeInv DEF Remove
  <1>5. ASSUME NEW s \in Session, Crash(s) PROVE Inv'
    BY <1>5, CrashInv
  <1>6. CASE UNCHANGED vars
    BY <1>6 DEF vars, Inv, TypeOK, FilesOK, LoginOK, ListsOK, SessionInv, Entered, Allowed
  <1> QED BY <1>1, <1>2, <1>3, <1>4, <1>5, <1>6 DEF Next

THEOREM Invariance == Spec => []Inv
  BY InitInv, NextInv, PTL DEF Spec

\* The state variables of the server, its sessions and the spool keep their types.
THEOREM TypeCorrect == Spec => []TypeOK
  <1>1. Inv => TypeOK
    BY DEF Inv
  <1> QED BY <1>1, Invariance, PTL

\* A session whose USER, PASS, APOP, AUTH and STLS came in any order works on the mailbox of the user
\* whose password it has shown, by a mechanism its connection allows.
THEOREM MailboxIsEarned == Spec => []LoginIsEarned
  <1>1. Inv => LoginIsEarned
    BY DEF Inv, SessionInv, LoginIsEarned
  <1> QED BY <1>1, Invariance, PTL

\* What changes the envelopes of a mailbox other than by adding to them.
LEMMA OnlyRemoveEnvelope ==
    ASSUME Inv, [Next]_vars, NEW u \in User, NEW m \in Message, Exists(u, m), ~Exists(u, m)'
    PROVE  \E s \in Session : RemoveEnvelope(s, m)
  <1> USE ConstantsAssumption DEF Exists, Inv, TypeOK, FilesOK, Directory
  <1>1. ASSUME Spool PROVE FALSE
    <2> PICK n \in Message : \/ Forward(n) \/ ForwardDestroys(n)
                             \/ \E B \in SUBSET User : Deliver(n, B) \/ DeliverFails(n, B)
      BY <1>1 DEF Spool
    <2>1. CASE Forward(n)
      BY <2>1 DEF Forward
    <2>2. CASE ForwardDestroys(n)
      BY <2>2 DEF ForwardDestroys
    <2>3. ASSUME NEW B \in SUBSET User, Deliver(n, B) PROVE FALSE
      BY <2>3 DEF Deliver, Copy
    <2>4. ASSUME NEW B \in SUBSET User, DeliverFails(n, B) PROVE FALSE
      BY <2>4 DEF DeliverFails
    <2> QED BY <2>1, <2>2, <2>3, <2>4
  <1>2. ASSUME NEW s \in Session, Authenticate(s) \/ Transact(s) \/ Crash(s) PROVE UNCHANGED envelope
    BY <1>2 DEF Authenticate, Connect, Stls, AuthCancel, Auth, Pass, Apop, AuthData, UserName,
        Transact, Resume, Rset, Quit, Disconnect, Retr, Dele, Crash, spool
  <1>3. ASSUME NEW s \in Session, RemoveContent(s) \/ CheckShared(s) \/ Committed(s) PROVE UNCHANGED envelope
    BY <1>3 DEF RemoveContent, CheckShared, Committed, spool
  <1>4. ASSUME NEW s \in Session, NEW n \in Message, RemoveEnvelope(s, n) PROVE m = n
    BY <1>4 DEF RemoveEnvelope
  <1> QED BY <1>1, <1>2, <1>3, <1>4 DEF Next, Remove, vars

\* Nothing leaves a user's mailbox but by the QUIT of a session of that user that was asked for it.
THEOREM NothingLeavesUnasked == Spec => DeletedWasAsked
  <1>1. ASSUME Inv, [Next]_vars, NEW u \in User, NEW m \in Message, Exists(u, m), ~Exists(u, m)'
        PROVE  \E s \in Session : state[s] = "removing" /\ user[s] = u /\ m \in asked[s]
    <2>1. PICK s \in Session : RemoveEnvelope(s, m)
      BY <1>1, OnlyRemoveEnvelope
    <2>2. Box(user[s]) = u
      BY <1>1, <2>1 DEF RemoveEnvelope, Exists, Inv, TypeOK, FilesOK, Directory
    <2>3. user[s] = u
      BY <1>1, <2>2, ConstantsAssumption DEF Box
    <2>4. state[s] = "removing" /\ m \in asked[s]
      BY <1>1, <2>1 DEF RemoveEnvelope, Removing, Inv, TypeOK, ListsOK, SessionInv
    <2> QED BY <2>3, <2>4
  <1>2. Inv /\ [Next]_vars => [\A u \in User, m \in Message : Exists(u, m) /\ ~Exists(u, m)' =>
            \E s \in Session : state[s] = "removing" /\ user[s] = u /\ m \in asked[s]]_vars
    BY <1>1
  <1> QED BY <1>2, Invariance, PTL DEF Spec, DeletedWasAsked

-----------------------------------------------------------------------------
(* The contents.                                                           *)

\* Copies that are envelopes only are for mailboxes by name, and not kept in the main
\* directory, where a forwarding client would remove the content with the original
\* (README, section 6).
SharedByCopies == \A v \in Setups : v.copies = "envelope" => v.byName /\ ~v.keep

\* one message at a time is being removed
ItemInv(s) ==
    /\ list[s] \subseteq arrived
    /\ step[s] = "envelope" => item[s] = {}
    /\ \A m, n \in item[s] : m = n

\* When the copies share the content of the main directory, only they refer to it.
SharedInv ==
    /\ setup.byName
    /\ \A u \in User : content[u] = {}
    /\ \A m \in Message : envelope[Main][m] = "none"
    /\ \A u \in User, m \in Message \ broken : Exists(u, m) => m \in content[Main]
    /\ \A s \in Session : list[s] \subseteq parent[s]
    /\ \A s \in Session : \A m \in item[s] : step[s] = "content" => \A u \in User : ~Exists(u, m)
    /\ \A m \in content[Main] \ excused :
            (\E u \in User : Exists(u, m)) \/ \E s \in Session : m \in item[s]

\* Otherwise each envelope has a content of its own beside it.
OwnInv ==
    /\ \A u \in User, m \in Message : Exists(u, m) => m \in content[u]
    /\ \A s \in Session : parent[s] = {}
    /\ \A s \in Session, u \in User : setup.byName /\ user[s] = u => \A m \in item[s] : ~Exists(u, m)
    /\ \A m \in content[Main] \ excused :
            envelope[Main][m] # "none" \/ (~setup.byName /\ \E s \in Session : m \in item[s])

KeptInv ==
    /\ \A d \in Directory, m \in Message : envelope[d][m] # "none" => m \in arrived
    /\ \A s \in Session : ItemInv(s)
    /\ IF setup.copies = "envelope" THEN SharedInv ELSE OwnInv

LEMMA KeptInit == ASSUME Init, SharedByCopies PROVE KeptInv
  <1>1. \A d \in Directory, m \in Message : envelope[d][m] = "none"
    BY DEF Init
  <1>2. \A s \in Session : list[s] = {} /\ parent[s] = {} /\ item[s] = {}
    BY DEF Init, All
  <1>3. \A d \in Directory : content[d] = {}
    BY DEF Init
  <1>4. \A s \in Session : ItemInv(s)
    BY <1>2 DEF ItemInv
  <1>5. setup.copies = "envelope" => setup.byName
    BY DEF Init, SharedByCopies
  <1> QED BY <1>1, <1>2, <1>3, <1>4, <1>5 DEF KeptInv, SharedInv, OwnInv, Exists, Directory

\* What a session does that is not removing anything: it reads a list, or gives it up.
Calm(s) ==
    /\ item'[s] = item[s]
    /\ (user'[s] = user[s] /\ step'[s] = step[s]) \/ item[s] = {}
    /\ \/ list'[s] = list[s] /\ parent'[s] = parent[s]
       \/ list'[s] = {} /\ parent'[s] = {}
       \/ \E u \in User : list'[s] = Readable(u) /\ parent'[s] = Readable(u) \cap InParent(u)

LEMMA CalmInv ==
    ASSUME Inv, KeptInv, UNCHANGED <<spool, others>>, \A s \in Session : Calm(s)
    PROVE  KeptInv'
  <1> USE ConstantsAssumption DEF spool, others
  <1>1. \A d, m : Exists(d, m)' = Exists(d, m)
    BY DEF Exists
  <1>2. \A u \in User : Readable(u) \subseteq arrived
    BY DEF Readable, KeptInv, Exists, Box, Directory
  <1>3. ASSUME NEW s \in Session PROVE ItemInv(s)'
    BY <1>2, <1>3 DEF KeptInv, ItemInv, Calm
  <1>4. CASE setup.copies = "envelope"
    <2>1. SharedInv
      BY <1>4 DEF KeptInv
    <2>2. \A u \in User : Readable(u) \subseteq InParent(u)
      BY <2>1 DEF SharedInv, Readable, InParent, Box
    <2>3. \A s \in Session : list'[s] \subseteq parent'[s]
      BY <2>1, <2>2 DEF SharedInv, Calm
    <2>4. \A s \in Session : \A m \in item'[s] : step'[s] = "content" => \A u \in User : ~Exists(u, m)'
      BY <1>1, <2>1 DEF SharedInv, Calm
    <2>5. \A m \in content[Main] \ excused :
            (\E u \in User : Exists(u, m)') \/ \E s \in Session : m \in item'[s]
      BY <1>1, <2>1 DEF SharedInv, Calm
    <2>6. SharedInv'
      BY <1>1, <2>1, <2>3, <2>4, <2>5 DEF SharedInv
    <2> QED BY <1>3, <1>4, <2>6 DEF KeptInv
  <1>5. CASE setup.copies # "envelope"
    <2>1. OwnInv
      BY <1>5 DEF KeptInv
    <2>2. \A u \in User : Readable(u) \cap InParent(u) = {}
      BY <2>1 DEF OwnInv, Readable, InParent, Box
    <2>3. \A s \in Session : parent'[s] = {}
      BY <2>1, <2>2 DEF OwnInv, Calm
    <2>4. \A s \in Session, u \in User :
            setup.byName /\ user'[s] = u => \A m \in item'[s] : ~Exists(u, m)'
      BY <1>1, <2>1 DEF OwnInv, Calm
    <2>5. \A m \in content[Main] \ excused :
            envelope[Main][m] # "none" \/ (~setup.byName /\ \E s \in Session : m \in item'[s])
      BY <2>1 DEF OwnInv, Calm
    <2>6. OwnInv'
      BY <1>1, <2>1, <2>3, <2>4, <2>5 DEF OwnInv
    <2> QED BY <1>3, <1>5, <2>6 DEF KeptInv
  <1> QED BY <1>4, <1>5

LEMMA AuthenticateKept ==
    ASSUME Inv, KeptInv, NEW s \in Session, Authenticate(s)
    PROVE  KeptInv'
  <1> USE DEF login, mailbox, removal, In
  <1>1. UNCHANGED <<spool, others, removal>> /\ state[s] \in {"closed", "start", "auth"}
    BY DEF Authenticate, Connect, Stls, AuthCancel, Auth, Pass, Apop, AuthData, UserName
  <1>2. item[s] = {}
    BY <1>1 DEF Inv, SessionInv
  <1>3. UNCHANGED <<list, parent>> \/ \E u \in User : Enter(s, u)
    <2>1. ASSUME NEW p \in User \cup {Nobody}, Pass(s, p)
          PROVE  UNCHANGED <<list, parent>> \/ \E u \in User : Enter(s, u)
      <3>1. user[s] \in User \cup {Nobody}
        BY DEF Inv, TypeOK, LoginOK
      <3> QED BY <2>1, <3>1 DEF Pass, Refuse
    <2>2. ASSUME NEW p \in User \cup {Nobody}, NEW u \in User, Apop(s, u, p) \/ AuthData(s, u, p)
          PROVE  UNCHANGED <<list, parent>> \/ \E v \in User : Enter(s, v)
      BY <2>2 DEF Apop, AuthData, Refuse, LoginName
    <2>3. CASE Connect(s) \/ Stls(s) \/ AuthCancel(s) \/ (\E m \in Mechanism : Auth(s, m))
               \/ \E u \in User : UserName(s, u)
      BY <2>3 DEF Connect, Stls, AuthCancel, Auth, UserName
    <2> QED BY <2>1, <2>2, <2>3 DEF Authenticate
  <1>4. \A t \in Session \ {s} : user'[t] = user[t]
    BY DEF Authenticate, Connect, Stls, AuthCancel, Auth, Pass, Apop, AuthData, UserName, Enter,
           Refuse, Inv, TypeOK, LoginOK
  <1>5. ASSUME NEW t \in Session PROVE Calm(t)
    <2>1. CASE UNCHANGED <<list, parent>>
      BY <1>1, <1>2, <1>4, <2>1 DEF Calm
    <2>2. CASE \E u \in User : Enter(s, u)
      BY <1>1, <1>2, <1>4, <2>2 DEF Calm, Enter, Inv, TypeOK, ListsOK
    <2> QED BY <1>3, <2>1, <2>2
  <1> QED BY <1>1, <1>5, CalmInv

\* A session that removes nothing, or nothing any more, ends.
LEMMA ForgetKept ==
    ASSUME Inv, KeptInv, NEW s \in Session, Forget(s), item[s] = {}, UNCHANGED <<spool, others>>
    PROVE  KeptInv'
  <1>1. ASSUME NEW t \in Session PROVE Calm(t)
    BY <1>1 DEF Forget, Calm, Inv, TypeOK, LoginOK, ListsOK
  <1> QED BY <1>1, CalmInv

LEMMA TransactKept ==
    ASSUME Inv, KeptInv, NEW s \in Session, Transact(s)
    PROVE  KeptInv'
  <1> USE DEF login, mailbox, removal, In
  <1>1. state[s] # "removing" /\ UNCHANGED <<spool, others>>
    BY DEF Transact, Resume, Rset, Quit, Disconnect, Retr, Dele
  <1>2. item[s] = {}
    BY <1>1 DEF Inv, SessionInv
  <1>3. CASE Forget(s)
    BY <1>1, <1>2, <1>3, ForgetKept
  <1>4. CASE ~Forget(s)
    <2>1. UNCHANGED <<user, item, step, list, parent>>
      BY <1>4 DEF Transact, Resume, Rset, Rollback, Quit, Disconnect, Retr, Dele
    <2>2. \A t \in Session : Calm(t)
      BY <2>1 DEF Calm
    <2> QED BY <1>1, <2>2, CalmInv
  <1> QED BY <1>3, <1>4

\* The process dies: what was being removed is excused.
LEMMA CrashKept == ASSUME Inv, KeptInv, NEW s \in Session, Crash(s) PROVE KeptInv'
  <1> USE DEF spool
  <1>1. /\ Forget(s) /\ excused' = excused \cup item[s]
        /\ UNCHANGED <<envelope, content, setup, arrived, broken>>
    BY DEF Crash
  <1>2. \A d, m : Exists(d, m)' = Exists(d, m)
    BY <1>1 DEF Exists
  <1>3. /\ item'[s] = {} /\ list'[s] = {} /\ parent'[s] = {}
        /\ \A t \in Session \ {s} : /\ item'[t] = item[t] /\ list'[t] = list[t] /\ parent'[t] = parent[t]
                                    /\ step'[t] = step[t] /\ user'[t] = user[t]
    BY <1>1 DEF Forget, Inv, TypeOK, LoginOK, ListsOK
  <1>4. \A t \in Session : ItemInv(t)'
    BY <1>1, <1>3 DEF KeptInv, ItemInv
  <1>5. SharedInv => SharedInv'
    BY <1>1, <1>2, <1>3 DEF SharedInv
  <1>6. OwnInv => OwnInv'
    BY <1>1, <1>2, <1>3 DEF OwnInv
  <1> QED BY <1>1, <1>4, <1>5, <1>6 DEF KeptInv

-----------------------------------------------------------------------------
(* The contents, while messages are being removed.                         *)

\* The session that is removing a message, and what it is removing.
LEMMA RemovingFacts ==
    ASSUME Inv, KeptInv, NEW s \in Session, state[s] = "removing"
    PROVE  /\ user[s] \in User /\ Box(user[s]) \in Directory
           /\ Box(user[s]) = (IF setup.byName THEN user[s] ELSE Main)
           /\ todo[s] \subseteq list[s] /\ item[s] \subseteq list[s] /\ list[s] \subseteq arrived
           /\ Main \in Directory /\ Main \notin User
  BY ConstantsAssumption
     DEF Inv, TypeOK, LoginOK, ListsOK, SessionInv, Entered, KeptInv, ItemInv, Box, Directory

LEMMA RemoveEnvelopeKept ==
    ASSUME Inv, KeptInv, NEW s \in Session, NEW m \in Message, RemoveEnvelope(s, m)
    PROVE  KeptInv'
  <1> DEFINE b == Box(user[s])
  <1>1. /\ state[s] = "removing" /\ step[s] = "envelope" /\ m \in todo[s]
        /\ item' = [item EXCEPT ![s] = {m}] /\ step' = [step EXCEPT ![s] = "shared"]
        /\ envelope' = [envelope EXCEPT ![b][m] = IF @ = "envelope" THEN "none" ELSE @]
        /\ UNCHANGED <<setup, arrived, broken, excused, content, user, list, parent>>
    BY DEF RemoveEnvelope, Removing, Goes, login, mailbox, others
  <1>2. /\ user[s] \in User /\ b \in Directory /\ b = (IF setup.byName THEN user[s] ELSE Main)
        /\ m \in arrived /\ item[s] = {} /\ Main \in Directory /\ Main \notin User
    BY <1>1, RemovingFacts DEF KeptInv, ItemInv
  <1>3. /\ item'[s] = {m} /\ step'[s] = "shared"
        /\ \A t \in Session \ {s} : item'[t] = item[t] /\ step'[t] = step[t]
    BY <1>1 DEF Inv, TypeOK, ListsOK
  <1> HIDE DEF b
  <1>4. /\ \A d \in Directory, n \in Message : d # b \/ n # m => envelope'[d][n] = envelope[d][n]
        /\ envelope'[b][m] = IF envelope[b][m] = "envelope" THEN "none" ELSE envelope[b][m]
    BY <1>1, <1>2 DEF Inv, TypeOK, FilesOK
  <1>5. \A d \in Directory, n \in Message : /\ Exists(d, n)' => Exists(d, n) /\ ~(d = b /\ n = m)
                                            /\ Exists(d, n) => Exists(d, n)' \/ (d = b /\ n = m)
                                            /\ envelope'[d][n] # "none" => envelope[d][n] # "none"
    BY <1>2, <1>4 DEF Exists
  <1>6. User \subseteq Directory
    BY DEF Directory
  <1>7. \A t \in Session : ItemInv(t)'
    BY <1>1, <1>3 DEF KeptInv, ItemInv
  <1>8. \A n \in content[Main] : n \in Message
    BY <1>2 DEF Inv, TypeOK, FilesOK
  <1>9. CASE setup.copies = "envelope"
    <2>1. SharedInv
      BY <1>9 DEF KeptInv
    <2>2. \A n \in Message : envelope'[Main][n] = "none"
      BY <1>2, <1>5, <2>1 DEF SharedInv
    <2>3. \A u \in User, n \in Message \ broken : Exists(u, n)' => n \in content[Main]
      BY <1>5, <1>6, <2>1 DEF SharedInv
    <2>4. \A t \in Session : \A n \in item'[t] : step'[t] = "content" => \A u \in User : ~Exists(u, n)'
      <3>1. \A t \in Session : item[t] \subseteq Message
        BY DEF Inv, TypeOK, ListsOK
      <3> QED BY <1>3, <1>5, <1>6, <2>1, <3>1 DEF SharedInv
    <2>5. \A n \in content[Main] \ excused :
            (\E u \in User : Exists(u, n)') \/ \E t \in Session : n \in item'[t]
      <3> SUFFICES ASSUME NEW n \in content[Main] \ excused
                   PROVE  (\E u \in User : Exists(u, n)') \/ \E t \in Session : n \in item'[t]
        OBVIOUS
      <3>1. CASE n = m
        BY <1>3, <3>1
      <3>2. CASE n # m /\ \E u \in User : Exists(u, n)
        BY <1>5, <1>6, <1>8, <3>2
      <3>3. CASE n # m /\ \E t \in Session : n \in item[t]
        BY <1>2, <1>3, <3>3
      <3> QED BY <2>1, <3>1, <3>2, <3>3 DEF SharedInv
    <2>6. SharedInv'
      BY <1>1, <2>1, <2>2, <2>3, <2>4, <2>5 DEF SharedInv
    <2> QED BY <1>1, <1>5, <1>7, <1>9, <2>6 DEF KeptInv
  <1>10. CASE setup.copies # "envelope"
    <2>1. OwnInv
      BY <1>10 DEF KeptInv
    <2>2. \A u \in User, n \in Message : Exists(u, n)' => n \in content[u]
      BY <1>5, <1>6, <2>1 DEF OwnInv
    <2>3. \A t \in Session, u \in User :
            setup.byName /\ user[t] = u => \A n \in item'[t] : ~Exists(u, n)'
      <3> SUFFICES ASSUME NEW t \in Session, NEW u \in User, setup.byName, user[t] = u, NEW n \in item'[t]
                   PROVE  ~Exists(u, n)'
        OBVIOUS
      <3>1. CASE t = s
        BY <1>2, <1>3, <1>5, <1>6, <3>1
      <3>2. CASE t # s
        <4>1. n \in item[t] /\ n \in Message
          BY <1>3, <3>2 DEF Inv, TypeOK, ListsOK
        <4>2. ~Exists(u, n)
          BY <2>1, <4>1 DEF OwnInv
        <4> QED BY <1>5, <1>6, <4>1, <4>2
      <3> QED BY <3>1, <3>2
    <2>4. \A n \in content[Main] \ excused :
            envelope'[Main][n] # "none" \/ (~setup.byName /\ \E t \in Session : n \in item'[t])
      <3> SUFFICES ASSUME NEW n \in content[Main] \ excused
                   PROVE  envelope'[Main][n] # "none" \/ (~setup.byName /\ \E t \in Session : n \in item'[t])
        OBVIOUS
      <3>1. CASE setup.byName
        BY <1>2, <1>4, <1>8, <2>1, <3>1 DEF OwnInv
      <3>2. CASE ~setup.byName /\ n = m
        BY <1>3, <3>2
      <3>3. CASE ~setup.byName /\ n # m
        <4>1. envelope'[Main][n] = envelope[Main][n]
          BY <1>2, <1>4, <1>8, <3>3
        <4>2. \A t \in Session : n \in item[t] => n \in item'[t]
          BY <1>2, <1>3, <3>3
        <4> QED BY <2>1, <3>3, <4>1, <4>2 DEF OwnInv
      <3> QED BY <3>1, <3>2, <3>3
    <2>5. OwnInv'
      BY <1>1, <2>1, <2>2, <2>3, <2>4 DEF OwnInv
    <2> QED BY <1>1, <1>5, <1>7, <1>10, <2>5 DEF KeptInv
  <1> QED BY <1>9, <1>10

LEMMA CheckSharedKept ==
    ASSUME Inv, KeptInv, NEW s \in Session, CheckShared(s)
    PROVE  KeptInv'
  <1>1. /\ state[s] = "removing" /\ step[s] = "shared"
        /\ UNCHANGED <<setup, arrived, broken, excused, envelope, content, user, list, parent>>
    BY DEF CheckShared, Removing, spool, login, mailbox, others
  <1>2. \A d, m : Exists(d, m)' = Exists(d, m)
    BY <1>1 DEF Exists
  <1>3. item[s] \subseteq list[s] /\ User \subseteq Directory
    BY <1>1, RemovingFacts DEF Directory
  <1>4. CASE \E m \in item[s] : Shared(s, m)
    <2>1. PICK m \in item[s] : m \in parent[s] /\ \E d \in Directory : Exists(d, m)
      BY <1>4 DEF Shared
    <2>2. SharedInv /\ setup.copies = "envelope"
      BY <2>1 DEF KeptInv, OwnInv
    <2>3. \E u \in User : Exists(u, m)
      <3>1. m \in Message
        BY <2>1 DEF Inv, TypeOK, ListsOK
      <3> QED BY <2>1, <2>2, <3>1 DEF SharedInv, Exists, Directory
    <2>4. \A n \in item[s] : n = m
      BY <2>1 DEF KeptInv, ItemInv
    <2>5. /\ item'[s] = {} /\ step'[s] = "envelope"
          /\ \A t \in Session \ {s} : item'[t] = item[t] /\ step'[t] = step[t]
      BY <1>4 DEF CheckShared, Removed, Goes, Inv, TypeOK, ListsOK
    <2>6. \A t \in Session : ItemInv(t)'
      BY <1>1, <2>5 DEF KeptInv, ItemInv
    <2>7. \A n \in content[Main] \ excused :
            (\E u \in User : Exists(u, n)) \/ \E t \in Session : n \in item'[t]
      BY <2>2, <2>3, <2>4, <2>5 DEF SharedInv
    <2>8. SharedInv'
      BY <1>1, <1>2, <2>2, <2>5, <2>7 DEF SharedInv
    <2> QED BY <1>1, <2>2, <2>6, <2>8 DEF KeptInv
  <1>5. CASE ~\E m \in item[s] : Shared(s, m)
    <2>1. /\ item' = item /\ step'[s] = "content"
          /\ \A t \in Session \ {s} : step'[t] = step[t]
      BY <1>5 DEF CheckShared, Goes, Inv, TypeOK, ListsOK
    <2>2. \A t \in Session : ItemInv(t)'
      BY <1>1, <2>1 DEF KeptInv, ItemInv
    <2>3. CASE setup.copies = "envelope"
      <3>1. SharedInv
        BY <2>3 DEF KeptInv
      <3>2. \A m \in item[s] : \A u \in User : ~Exists(u, m)
        BY <1>3, <1>5, <3>1 DEF SharedInv, Shared
      <3>3. SharedInv'
        BY <1>1, <1>2, <2>1, <3>1, <3>2 DEF SharedInv
      <3> QED BY <1>1, <2>2, <2>3, <3>3 DEF KeptInv
    <2>4. CASE setup.copies # "envelope"
      <3>1. OwnInv'
        BY <1>1, <1>2, <2>1, <2>4 DEF KeptInv, OwnInv
      <3> QED BY <1>1, <2>2, <2>4, <3>1 DEF KeptInv
    <2> QED BY <2>3, <2>4
  <1> QED BY <1>4, <1>5

LEMMA RemoveContentKept ==
    ASSUME Inv, KeptInv, NEW s \in Session, RemoveContent(s)
    PROVE  KeptInv'
  <1>1. PICK m \in item[s] : content' = [content EXCEPT ![Place(s, m)] = @ \ {m}]
    BY DEF RemoveContent
  <1>2. /\ state[s] = "removing" /\ step[s] = "content"
        /\ UNCHANGED <<setup, arrived, broken, excused, envelope, user, list, parent>>
    BY DEF RemoveContent, Removing, login, mailbox, others
  <1>3. \A d, n : Exists(d, n)' = Exists(d, n)
    BY <1>2 DEF Exists
  <1>4. /\ user[s] \in User /\ Box(user[s]) = (IF setup.byName THEN user[s] ELSE Main)
        /\ m \in list[s] /\ Main \in Directory /\ Main \notin User /\ User \subseteq Directory
    BY <1>1, <1>2, RemovingFacts DEF Directory
  <1>5. /\ item'[s] = {} /\ step'[s] = "envelope"
        /\ \A t \in Session \ {s} : item'[t] = item[t] /\ step'[t] = step[t]
    BY DEF RemoveContent, Removed, Goes, Inv, TypeOK, ListsOK
  <1>6. \A n \in item[s] : n = m
    BY <1>1 DEF KeptInv, ItemInv
  <1>7. \A t \in Session : ItemInv(t)'
    BY <1>2, <1>5 DEF KeptInv, ItemInv
  <1>8. \A d \in Directory : content'[d] = IF d = Place(s, m) THEN content[d] \ {m} ELSE content[d]
    BY <1>1 DEF Inv, TypeOK, FilesOK
  <1>9. CASE setup.copies = "envelope"
    <2>1. SharedInv
      BY <1>9 DEF KeptInv
    <2>2. Place(s, m) = Main /\ \A u \in User : ~Exists(u, m)
      BY <1>1, <1>2, <1>4, <2>1 DEF SharedInv, Place
    <2>3. content'[Main] = content[Main] \ {m} /\ \A u \in User : content'[u] = {}
      BY <1>4, <1>8, <2>1, <2>2 DEF SharedInv
    <2>4. \A u \in User, n \in Message \ broken : Exists(u, n) => n \in content'[Main]
      BY <2>1, <2>2, <2>3 DEF SharedInv
    <2>5. \A n \in content'[Main] \ excused :
            (\E u \in User : Exists(u, n)) \/ \E t \in Session : n \in item'[t]
      BY <1>5, <1>6, <2>1, <2>3 DEF SharedInv
    <2>6. SharedInv'
      BY <1>2, <1>3, <1>5, <2>1, <2>3, <2>4, <2>5 DEF SharedInv
    <2> QED BY <1>2, <1>7, <1>9, <2>6 DEF KeptInv
  <1>10. CASE setup.copies # "envelope"
    <2>1. OwnInv /\ Place(s, m) = Box(user[s])
      BY <1>10 DEF KeptInv, OwnInv, Place
    <2>2. \A u \in User, n \in Message : Exists(u, n) => n \in content'[u]
      BY <1>1, <1>4, <1>8, <2>1 DEF OwnInv
    <2>3. \A n \in content'[Main] \ excused :
            envelope[Main][n] # "none" \/ (~setup.byName /\ \E t \in Session : n \in item'[t])
      <3>1. ~setup.byName => m \notin content'[Main]
        BY <1>4, <1>8, <2>1
      <3>2. content'[Main] \subseteq content[Main]
        BY <1>4, <1>8
      <3> QED BY <1>5, <1>6, <2>1, <3>1, <3>2 DEF OwnInv
    <2>4. OwnInv'
      BY <1>2, <1>3, <1>5, <2>1, <2>2, <2>3 DEF OwnInv
    <2> QED BY <1>2, <1>7, <1>10, <2>4 DEF KeptInv
  <1> QED BY <1>9, <1>10

LEMMA CommittedKept ==
    ASSUME Inv, KeptInv, NEW s \in Session, Committed(s)
    PROVE  KeptInv'
  <1>1. CASE failed[s]
    <2>1. UNCHANGED <<spool, others, user, item, step, list, parent>>
      BY <1>1 DEF Committed, login, mailbox, removal
    <2>2. \A t \in Session : Calm(t)
      BY <2>1 DEF Calm
    <2> QED BY <2>1, <2>2, CalmInv
  <1>2. CASE ~failed[s]
    <2>1. item[s] = {}
      BY DEF Committed, Inv, TypeOK, ListsOK
    <2> QED BY <1>2, <2>1, ForgetKept DEF Committed
  <1> QED BY <1>1, <1>2

-----------------------------------------------------------------------------
(* The contents, and what others do to them.                               *)

\* A new message: nobody has seen it yet.
LEMMA ArrivedKept ==
    ASSUME Inv, KeptInv, SharedByCopies, NEW m \in Message, NEW B \in SUBSET User,
           Deliver(m, B) \/ DeliverFails(m, B)
    PROVE  KeptInv'
  <1> DEFINE fails == ~Deliver(m, B)
  <1>1. /\ m \notin arrived /\ arrived' = arrived \cup {m}
        /\ UNCHANGED <<setup, excused, user, item, step, list, parent>>
        /\ broken' = IF fails THEN broken \cup {m} ELSE broken
    BY DEF Deliver, DeliverFails, Copy, login, mailbox, removal
  <1>2. /\ \A d \in Directory, n \in Message : n # m => envelope'[d][n] = envelope[d][n]
        /\ \A u \in User : envelope'[u][m] = IF u \in B THEN "envelope" ELSE envelope[u][m]
        /\ envelope'[Main][m] = IF ~fails /\ (B = {} \/ setup.keep) THEN "envelope" ELSE envelope[Main][m]
    BY ConstantsAssumption DEF Deliver, DeliverFails, Copy, Inv, TypeOK, FilesOK, Directory
  <1>3. /\ \A u \in User : content'[u] = IF u \in B /\ setup.copies = "both" THEN content[u] \cup {m}
                                         ELSE content[u]
        /\ content'[Main] = IF ~fails /\ (setup.keep \/ setup.copies \in {"none", "envelope"})
                            THEN content[Main] \cup {m} ELSE content[Main]
    BY ConstantsAssumption DEF Deliver, DeliverFails, Copy, Directory
  <1>4. IF fails THEN B # {} /\ setup.copies # "none" ELSE B = {} <=> setup.copies = "none"
    BY DEF Deliver, DeliverFails, Copy
  <1> HIDE DEF fails
  <1>5. /\ \A d \in Directory : envelope[d][m] = "none"
        /\ \A s \in Session : m \notin list[s] /\ m \notin item[s] /\ item[s] \subseteq Message
        /\ User \subseteq Directory /\ Main \in Directory /\ setup \in Setups
    BY <1>1 DEF KeptInv, ItemInv, Inv, TypeOK, FilesOK, ListsOK, Directory
  <1>6. \A s \in Session : ItemInv(s)'
    BY <1>1 DEF KeptInv, ItemInv
  <1>7. \A d \in Directory, n \in Message : envelope'[d][n] # "none" => n \in arrived'
    BY <1>1, <1>2 DEF KeptInv
  <1>8. \A u \in User, n \in Message : Exists(u, n)' <=> Exists(u, n) \/ (u \in B /\ n = m)
    BY <1>2, <1>5 DEF Exists
  <1>9. CASE setup.copies = "envelope"
    <2>1. SharedInv /\ ~setup.keep /\ B # {}
      BY <1>4, <1>5, <1>9 DEF KeptInv, SharedByCopies
    <2>2. /\ \A u \in User : content'[u] = {}
          /\ content'[Main] = IF fails THEN content[Main] ELSE content[Main] \cup {m}
      BY <1>3, <1>9, <2>1 DEF SharedInv
    <2>3. \A n \in Message : envelope'[Main][n] = "none"
      BY <1>2, <1>5, <2>1 DEF SharedInv
    <2>4. \A u \in User, n \in Message \ broken' : Exists(u, n)' => n \in content'[Main]
      BY <1>1, <1>8, <2>1, <2>2 DEF SharedInv
    <2>5. \A s \in Session : \A n \in item[s] : step[s] = "content" => \A u \in User : ~Exists(u, n)'
      BY <1>5, <1>8, <2>1 DEF SharedInv
    <2>6. \A n \in content'[Main] \ excused :
            (\E u \in User : Exists(u, n)') \/ \E s \in Session : n \in item[s]
      <3>1. content[Main] \subseteq Message
        BY <1>5 DEF Inv, TypeOK, FilesOK
      <3>2. \E u \in User : u \in B
        BY <2>1
      <3> QED BY <1>8, <2>1, <2>2, <3>1, <3>2 DEF SharedInv
    <2>7. SharedInv'
      BY <1>1, <2>1, <2>2, <2>3, <2>4, <2>5, <2>6 DEF SharedInv
    <2> QED BY <1>1, <1>6, <1>7, <1>9, <2>7 DEF KeptInv
  <1>10. CASE setup.copies # "envelope"
    <2>1. OwnInv /\ (B # {} => setup.copies = "both")
      <3>1. setup.copies \in {"none", "envelope", "both"}
        BY <1>5, SetupsAssumption DEF Setup
      <3> QED BY <1>4, <1>10, <3>1 DEF KeptInv
    <2>2. \A u \in User, n \in Message : Exists(u, n)' => n \in content'[u]
      BY <1>3, <1>8, <2>1 DEF OwnInv
    <2>3. \A s \in Session, u \in User :
            setup.byName /\ user[s] = u => \A n \in item[s] : ~Exists(u, n)'
      BY <1>5, <1>8, <2>1 DEF OwnInv
    <2>4. \A n \in content'[Main] \ excused :
            envelope'[Main][n] # "none" \/ (~setup.byName /\ \E s \in Session : n \in item[s])
      <3> SUFFICES ASSUME NEW n \in content'[Main] \ excused
                   PROVE  envelope'[Main][n] # "none" \/ (~setup.byName /\ \E s \in Session : n \in item[s])
        OBVIOUS
      <3>1. CASE n \in content[Main]
        <4>1. n \in Message
          BY <1>5, <3>1 DEF Inv, TypeOK, FilesOK
        <4>2. envelope[Main][n] # "none" => envelope'[Main][n] # "none"
          BY <1>2, <1>5, <4>1
        <4> QED BY <2>1, <3>1, <4>2 DEF OwnInv
      <3>2. CASE n \notin content[Main]
        <4>1. n = m /\ ~fails /\ (setup.keep \/ setup.copies = "none")
          BY <1>3, <1>10, <3>2
        <4> QED BY <1>2, <1>4, <4>1
      <3> QED BY <3>1, <3>2
    <2>5. OwnInv'
      BY <1>1, <2>1, <2>2, <2>3, <2>4 DEF OwnInv
    <2> QED BY <1>1, <1>6, <1>7, <1>10, <2>5 DEF KeptInv
  <1> QED BY <1>9, <1>10

\* The forwarding client: it only finds messages where nothing is shared.
LEMMA ForwardKept ==
    ASSUME Inv, KeptInv, NEW m \in Message, Forward(m) \/ ForwardDestroys(m)
    PROVE  KeptInv'
  <1>1. /\ UNCHANGED <<setup, arrived, broken, excused, user, item, step, list, parent>>
        /\ envelope[Main][m] # "none" /\ Main \in Directory /\ User \subseteq Directory
    BY DEF Forward, ForwardDestroys, ForwardMoves, login, mailbox, removal, others, Directory
  <1>2. /\ \A u \in User : content'[u] = content[u] /\ envelope'[u] = envelope[u]
        /\ \A n \in Message \ {m} : envelope'[Main][n] = envelope[Main][n]
        /\ content'[Main] \subseteq content[Main]
        /\ envelope'[Main][m] # "none" \/ m \notin content'[Main]
    <2>1. CASE Forward(m)
      BY <1>1, <2>1, ConstantsAssumption DEF Forward, ForwardMoves, Inv, TypeOK, FilesOK, Directory
    <2>2. CASE ForwardDestroys(m)
      BY <1>1, <2>2, ConstantsAssumption DEF ForwardDestroys, Inv, TypeOK, FilesOK, Directory
    <2> QED BY <2>1, <2>2
  <1>3. m \in arrived /\ \A s \in Session : ItemInv(s)'
    BY <1>1 DEF KeptInv, ItemInv
  <1>4. \A d \in Directory, n \in Message : envelope'[d][n] # "none" => n \in arrived
    BY <1>2, <1>3 DEF KeptInv, Directory
  <1>5. OwnInv /\ setup.copies # "envelope"
    BY <1>1 DEF KeptInv, SharedInv
  <1>6. \A u \in User, n \in Message : Exists(u, n)' = Exists(u, n)
    BY <1>2 DEF Exists
  <1>7. \A s \in Session, u \in User :
          setup.byName /\ user[s] = u => \A n \in item[s] : ~Exists(u, n)'
    <2>1. \A s \in Session : item[s] \subseteq Message
      BY DEF Inv, TypeOK, ListsOK
    <2> QED BY <1>5, <1>6, <2>1 DEF OwnInv
  <1>8. \A n \in content'[Main] \ excused :
          envelope'[Main][n] # "none" \/ (~setup.byName /\ \E s \in Session : n \in item[s])
    <2>1. content[Main] \subseteq Message
      BY <1>1 DEF Inv, TypeOK, FilesOK
    <2> QED BY <1>2, <1>5, <2>1 DEF OwnInv
  <1>9. OwnInv'
    BY <1>1, <1>2, <1>5, <1>6, <1>7, <1>8 DEF OwnInv
  <1> QED BY <1>1, <1>3, <1>4, <1>5, <1>9 DEF KeptInv

LEMMA KeptNext == ASSUME Inv, KeptInv, SharedByCopies, [Next]_vars PROVE KeptInv'
  <1>1. CASE Spool
    BY <1>1, ArrivedKept, ForwardKept DEF Spool
  <1>2. ASSUME NEW s \in Session, Authenticate(s) \/ Transact(s) \/ Crash(s) PROVE KeptInv'
    BY <1>2, AuthenticateKept, TransactKept, CrashKept
  <1>3. ASSUME NEW s \in Session, Remove(s) PROVE KeptInv'
    BY <1>3, RemoveContentKept, CheckSharedKept, CommittedKept, RemoveEnvelopeKept DEF Remove
  <1>4. CASE UNCHANGED vars
    <2>1. \A s \in Session : Calm(s)
      BY <1>4 DEF vars, Calm
    <2> QED BY <1>4, <2>1, CalmInv DEF vars, spool, others
  <1> QED BY <1>1, <1>2, <1>3, <1>4 DEF Next

\* Nobody's message becomes unreadable when another user, or the forwarding client, is done
\* with it, and no content is left behind with nothing that refers to it, unless the process
\* died over it (StoreMessage::remove() and shared() in gpopstore.cpp).
THEOREM ContentIsKept == ASSUME SharedByCopies PROVE Spec => []ContentInv
  <1>1. Inv /\ KeptInv => ContentInv
    <2> SUFFICES ASSUME Inv, KeptInv PROVE MailboxReadable /\ NoOrphanContent
      BY DEF ContentInv
    <2>1. User \subseteq Directory /\ Main \in Directory
      BY DEF Directory
    <2>2. \A n \in content[Main] : n \in Message
      BY <2>1 DEF Inv, TypeOK, FilesOK
    <2>3. CASE setup.copies = "envelope"
      BY <2>1, <2>3 DEF KeptInv, SharedInv, MailboxReadable, NoOrphanContent, Exists
    <2>4. CASE setup.copies # "envelope"
      BY <2>1, <2>4 DEF KeptInv, OwnInv, MailboxReadable, NoOrphanContent, Exists
    <2> QED BY <2>3, <2>4
  <1>2. Inv /\ KeptInv /\ [Next]_vars => KeptInv'
    BY KeptNext
  <1> QED BY <1>1, <1>2, KeptInit, Invariance, PTL DEF Spec
=============================================================================
