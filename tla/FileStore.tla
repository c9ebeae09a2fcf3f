------------------------------ MODULE FileStore ------------------------------
(***************************************************************************)
(* The spool directory of src/src/gstore at the granularity of one file    *)
(* operation, with the objects that work on it: server sessions that write *)
(* new messages (NewFile, driven by ProtocolMessageStore), forwarding      *)
(* clients that lock, send, edit, fail, destroy or unlock stored messages  *)
(* (FileIterator, StoredFile, driven by Forward and Client), sessions in   *)
(* proxy mode that forward what they just stored (ProtocolMessageForward), *)
(* the filter program that may delete the files it is given, the built-in  *)
(* delivery filter (FileDelivery) and the administrator (unfailAll).       *)
(*                                                                         *)
(* Several emailrelay processes may share the directory (a server and an   *)
(* --as-client run, say), and any of them may be killed between two file   *)
(* operations: files stay as they are and the process restarts with no     *)
(* memory.  A message is a content file and an envelope file; the state of *)
(* a message is the suffix its envelope file has.                          *)
(***************************************************************************)
EXTENDS Naturals

CONSTANTS
    Id,           \* message ids, each used for one message only
    Session,      \* server connections
    Forwarder,    \* forwarding clients, one store scan at a time each
    Proxy,        \* the sessions that forward before they acknowledge
    Process,      \* operating-system processes sharing the directory
    Crashable,    \* the processes that may be killed
    Host,         \* the process that each session and forwarder lives in
    None          \* not a message id

Actor == Session \cup Forwarder

ASSUME ConstantsAssumption ==
    /\ Session \cap Forwarder = {}
    /\ Proxy \subseteq Session
    /\ Host \in [Actor -> Process]
    /\ None \notin Id

Suffix == {"new", "normal", "busy", "bad", "tmp"}

VARIABLES
    envelope,     \* the envelope files of each message, by suffix
    content,      \* the content file of each message
    pc,           \* what each actor will do next
    msg,          \* the message each actor works on
    todo,         \* the rest of each forwarder's directory snapshot
    used,         \* ids handed out by newId
    reason,       \* messages whose envelope has a failure reason appended
    published,    \* history: messages that were committed
    accepted,     \* history: messages whose submitter was told 250
    sends,        \* history: how often all recipients accepted the message
    dropped,      \* history: messages a filter deleted or delivered
    orphaned      \* history: messages whose object went with its process

files   == <<envelope, content, reason>>
history == <<published, accepted, sends, dropped, orphaned>>
vars    == <<envelope, content, reason, pc, msg, todo, used,
             published, accepted, sends, dropped, orphaned>>

\* NewFile objects: content open; server filter running; built-in delivery has
\* removed the content; roll-back of the envelope, then of the content
WritePC == {"writing", "filtering", "delivering", "cleanEnvelope", "cleanContent"}

\* StoredFile objects: locked; client or routing filter running; built-in delivery has
\* removed the content; SMTP dialogue; sent to all; envelope removed;
\* sent to some; edited envelope written; to be failed; reason appended
HoldPC == {"locked", "clientFilter", "clientDelivering", "sending", "sent",
           "destroying", "partlySent", "edited", "toFail", "failing"}

PC == {"idle", "scanning", "committed"} \cup WritePC \cup HoldPC

TypeOK ==
    /\ envelope  \in [Id -> SUBSET Suffix]
    /\ content   \in [Id -> {"none", "partial", "whole"}]
    /\ pc        \in [Actor -> PC]
    /\ msg       \in [Actor -> Id \cup {None}]
    /\ todo      \in [Actor -> SUBSET Id]
    /\ used      \subseteq Id
    /\ reason    \subseteq Id
    /\ published \subseteq Id
    /\ accepted  \subseteq Id
    /\ sends     \in [Id -> Nat]
    /\ dropped   \subseteq Id
    /\ orphaned  \subseteq Id

Init ==
    /\ envelope  = [i \in Id |-> {}]
    /\ content   = [i \in Id |-> "none"]
    /\ pc        = [a \in Actor |-> "idle"]
    /\ msg       = [a \in Actor |-> None]
    /\ todo      = [a \in Actor |-> {}]
    /\ used = {} /\ reason = {} /\ published = {} /\ accepted = {}
    /\ sends     = [i \in Id |-> 0]
    /\ dropped = {} /\ orphaned = {}

-----------------------------------------------------------------------------
(* File operations.  rename() replaces an existing target and fails, with  *)
(* no effect, when the source does not exist.                              *)

Has(i, suffix)   == suffix \in envelope[i]
Rename(i, x, y)  == envelope' = [envelope EXCEPT ![i] = (@ \ {x}) \cup {y}]
Unlink(i, x)     == envelope' = [envelope EXCEPT ![i] = @ \ {x}]
SetContent(i, c) == content' = [content EXCEPT ![i] = c]
Goto(a, p)       == pc' = [pc EXCEPT ![a] = p]

\* an actor drops its message object: a forwarder goes on with its scan
Finish(a) == /\ Goto(a, IF a \in Forwarder THEN "scanning" ELSE "idle")
             /\ msg' = [msg EXCEPT ![a] = None]

-----------------------------------------------------------------------------
(* Server side: NewFile and ProtocolMessageStore.                          *)

\* MAIL FROM: the constructor opens the content file under a fresh id
NewMessage(s, i) ==
    /\ pc[s] = "idle" /\ i \notin used
    /\ used' = used \cup {i}
    /\ SetContent(i, "partial")
    /\ Goto(s, "writing") /\ msg' = [msg EXCEPT ![s] = i]
    /\ UNCHANGED <<envelope, reason, todo, history>>

\* (mutant: the content is not flushed)
Prepare_NoFlush(s) ==
    /\ pc[s] = "writing"
    /\ envelope' = [envelope EXCEPT ![msg[s]] = @ \cup {"new"}]
    /\ Goto(s, "filtering")
    /\ UNCHANGED <<content, reason, msg, todo, used, history>>

\* end of text: flush the content, write the ".new" envelope, start the filter
Prepare(s) ==
    /\ pc[s] = "writing"
    /\ SetContent(msg[s], "whole")
    /\ envelope' = [envelope EXCEPT ![msg[s]] = @ \cup {"new"}]
    /\ Goto(s, "filtering")
    /\ UNCHANGED <<reason, msg, todo, used, history>>

\* too big, i/o error, RSET or disconnect: the destructor rolls back
Abort(s) ==
    /\ pc[s] \in {"writing", "filtering"}
    /\ Goto(s, "cleanEnvelope")
    /\ UNCHANGED <<files, msg, todo, used, history>>

\* filter result ok: commit, or a refusal if the filter deleted the envelope
FilterOk(s) ==
    /\ pc[s] = "filtering"
    /\ IF Has(msg[s], "new")
       THEN /\ Rename(msg[s], "new", "normal")
            /\ published' = published \cup {msg[s]}
            /\ Goto(s, "committed") /\ UNCHANGED msg
       ELSE Finish(s) /\ UNCHANGED <<envelope, published>>
    /\ UNCHANGED <<content, reason, todo, used, accepted, sends, dropped, orphaned>>

\* filter result abandon: commit if the files are there, and no message id
FilterAbandon(s) ==
    /\ pc[s] = "filtering"
    /\ IF Has(msg[s], "new")
       THEN /\ Rename(msg[s], "new", "normal")
            /\ published' = published \cup {msg[s]}
       ELSE UNCHANGED <<envelope, published>>
    /\ Finish(s)
    /\ UNCHANGED <<content, reason, todo, used, accepted, sends, dropped, orphaned>>

\* filter result fail: the submitter is refused and the destructor rolls back
FilterReject(s) ==
    /\ pc[s] = "filtering"
    /\ Goto(s, "cleanEnvelope")
    /\ UNCHANGED <<files, msg, todo, used, history>>

CleanEnvelope(s) ==
    /\ pc[s] = "cleanEnvelope"
    /\ Unlink(msg[s], "new")
    /\ Goto(s, "cleanContent")
    /\ UNCHANGED <<content, reason, msg, todo, used, history>>

CleanContent(s) ==
    /\ pc[s] = "cleanContent"
    /\ SetContent(msg[s], "none")
    /\ Finish(s)
    /\ UNCHANGED <<envelope, reason, todo, used, history>>

\* (mutant: m_committed is not set, so the destructor rolls back)
Acknowledge_RollBack(s) ==
    /\ pc[s] = "committed" /\ s \notin Proxy
    /\ accepted' = accepted \cup {msg[s]}
    /\ Goto(s, "cleanEnvelope")
    /\ UNCHANGED <<files, msg, todo, used, published, sends, dropped, orphaned>>

\* the submitter gets its 250
Acknowledge(s) ==
    /\ pc[s] = "committed" /\ s \notin Proxy
    /\ accepted' = accepted \cup {msg[s]}
    /\ Finish(s)
    /\ UNCHANGED <<files, todo, used, published, sends, dropped, orphaned>>

\* proxy mode: take the message straight back out of the store; GetError if
\* another process has locked it first, and the submitter is refused
Get(s) ==
    /\ pc[s] = "committed" /\ s \in Proxy
    /\ IF Has(msg[s], "normal")
       THEN Rename(msg[s], "normal", "busy") /\ Goto(s, "locked") /\ UNCHANGED msg
       ELSE Finish(s) /\ UNCHANGED envelope
    /\ UNCHANGED <<content, reason, todo, used, history>>

\* proxy mode with no remote recipients: unlocked again and acknowledged
NothingToDo(s) ==
    /\ pc[s] = "locked" /\ s \in Proxy
    /\ Rename(msg[s], "busy", "normal")
    /\ accepted' = accepted \cup {msg[s]}
    /\ Finish(s)
    /\ UNCHANGED <<content, reason, todo, used, published, sends, dropped, orphaned>>

-----------------------------------------------------------------------------
(* Client side: FileIterator, StoredFile, Client::protocolDone.            *)

\* the iterator's constructor reads the directory once
Scan(f) ==
    /\ pc[f] = "idle"
    /\ todo' = [todo EXCEPT ![f] = {i \in Id : Has(i, "normal")}]
    /\ Goto(f, "scanning")
    /\ UNCHANGED <<files, msg, used, history>>

\* (mutant: the result of lock() is ignored)
LockNext_Unlocked(f, i) ==
    /\ pc[f] = "scanning" /\ i \in todo[f]
    /\ todo' = [todo EXCEPT ![f] = @ \ {i}]
    /\ Rename(i, "normal", "busy")
    /\ Goto(f, "locked") /\ msg' = [msg EXCEPT ![f] = i]
    /\ UNCHANGED <<content, reason, used, history>>

\* the next entry of the snapshot, which may be gone or locked by now
LockNext(f, i) ==
    /\ pc[f] = "scanning" /\ i \in todo[f]
    /\ todo' = [todo EXCEPT ![f] = @ \ {i}]
    /\ IF Has(i, "normal")
       THEN /\ Rename(i, "normal", "busy")
            /\ Goto(f, "locked") /\ msg' = [msg EXCEPT ![f] = i]
       ELSE UNCHANGED <<envelope, pc, msg>>
    /\ UNCHANGED <<content, reason, used, history>>

\* no more messages, filter-special or a connection error: the scan is over
EndScan(f) ==
    /\ pc[f] = "scanning"
    /\ todo' = [todo EXCEPT ![f] = {}]
    /\ Goto(f, "idle")
    /\ UNCHANGED <<files, msg, used, history>>

\* (mutants: destroy() leaves m_unlock set; m_unlock is never set)
Unlock_AfterDestroy(a) ==
    /\ pc[a] \in {"locked", "clientFilter", "sending", "sent"}
    /\ IF Has(msg[a], "busy")
       THEN Rename(msg[a], "busy", "normal")
       ELSE UNCHANGED envelope
    /\ Finish(a)
    /\ UNCHANGED <<content, reason, todo, used, history>>

Unlock_Never(a) ==
    /\ pc[a] \in {"locked", "clientFilter", "sending"}
    /\ Finish(a)
    /\ UNCHANGED <<files, todo, used, history>>

\* the destructor: unreadable envelope, no connection, shutdown
Unlock(a) ==
    /\ pc[a] \in {"locked", "clientFilter", "sending"}
    /\ IF Has(msg[a], "busy")
       THEN Rename(msg[a], "busy", "normal")
       ELSE UNCHANGED envelope
    /\ Finish(a)
    /\ UNCHANGED <<content, reason, todo, used, history>>

StartClientFilter(a) ==
    /\ pc[a] = "locked"
    /\ Goto(a, "clientFilter")
    /\ UNCHANGED <<files, msg, todo, used, history>>

\* filter result abandon: the message object is dropped, which unlocks what the
\* filter left; in proxy mode the submitter is told that all is well
ClientFilterAbandon(a) ==
    /\ pc[a] = "clientFilter"
    /\ IF Has(msg[a], "busy")
       THEN Rename(msg[a], "busy", "normal")
       ELSE UNCHANGED envelope
    /\ accepted' = IF a \in Session THEN accepted \cup {msg[a]} ELSE accepted
    /\ Finish(a)
    /\ UNCHANGED <<content, reason, todo, used, published, sends, dropped, orphaned>>

\* filter result ok: reopen() must find the envelope
ClientFilterOk(a) ==
    /\ pc[a] = "clientFilter"
    /\ Goto(a, IF Has(msg[a], "busy") THEN "sending" ELSE "toFail")
    /\ UNCHANGED <<files, msg, todo, used, history>>

\* the remote server took the message for every recipient
SentToAll(a) ==
    /\ pc[a] = "sending"
    /\ sends' = [sends EXCEPT ![msg[a]] = @ + 1]
    /\ Goto(a, "sent")
    /\ UNCHANGED <<files, msg, todo, used, published, accepted, dropped, orphaned>>

DestroyEnvelope(a) ==
    /\ pc[a] = "sent"
    /\ Unlink(msg[a], "busy")
    /\ Goto(a, "destroying")
    /\ UNCHANGED <<content, reason, msg, todo, used, history>>

DestroyContent(a) ==
    /\ pc[a] = "destroying"
    /\ SetContent(msg[a], "none")
    /\ accepted' = IF a \in Session THEN accepted \cup {msg[a]} ELSE accepted
    /\ Finish(a)
    /\ UNCHANGED <<envelope, reason, todo, used, published, sends, dropped, orphaned>>

\* the remote server took it for some: write the envelope with the others
SentToSome(a) ==
    /\ pc[a] = "sending"
    /\ Goto(a, "partlySent")
    /\ UNCHANGED <<files, msg, todo, used, history>>

EditWrite(a) ==
    /\ pc[a] = "partlySent"
    /\ envelope' = [envelope EXCEPT ![msg[a]] = @ \cup {"tmp"}]
    /\ Goto(a, "edited")
    /\ UNCHANGED <<content, reason, msg, todo, used, history>>

EditReplace(a) ==
    /\ pc[a] = "edited"
    /\ Rename(msg[a], "tmp", "busy")
    /\ Goto(a, "toFail")
    /\ UNCHANGED <<content, reason, msg, todo, used, history>>

\* cannot write or rename: EditError, and the client is deleted by exception
EditError(a) ==
    /\ pc[a] \in {"partlySent", "edited"}
    /\ Unlink(msg[a], "tmp")
    /\ Goto(a, "toFail")
    /\ UNCHANGED <<content, reason, msg, todo, used, history>>

\* fail(): append the reason if the envelope file is still there ...
FailReason(a) ==
    /\ pc[a] \in {"locked", "clientFilter", "sending", "toFail"}
    /\ IF Has(msg[a], "busy")
       THEN /\ reason' = reason \cup {msg[a]}
            /\ Goto(a, "failing") /\ UNCHANGED msg
       ELSE Finish(a) /\ UNCHANGED reason
    /\ UNCHANGED <<envelope, content, todo, used, history>>

\* (mutant: an unknown suffix)
FailRename_Suffix(a) ==
    /\ pc[a] = "failing"
    /\ Rename(msg[a], "busy", "failed")
    /\ Finish(a)
    /\ UNCHANGED <<content, reason, todo, used, history>>

\* ... and rename it
FailRename(a) ==
    /\ pc[a] = "failing"
    /\ Rename(msg[a], "busy", "bad")
    /\ Finish(a)
    /\ UNCHANGED <<content, reason, todo, used, history>>

-----------------------------------------------------------------------------
(* Filters that remove the message they are given.                         *)

FilterRunning(a) == pc[a] \in {"filtering", "clientFilter"}
FilterSuffix(a)  == IF pc[a] \in {"filtering", "delivering"} THEN "new" ELSE "busy"

\* an external script: rm -f "$envelope" "$content"
ScriptUnlinkEnvelope(a) ==
    /\ FilterRunning(a) /\ Has(msg[a], FilterSuffix(a))
    /\ Unlink(msg[a], FilterSuffix(a))
    /\ dropped' = dropped \cup {msg[a]}
    /\ UNCHANGED <<content, reason, pc, msg, todo, used, published, accepted, sends, orphaned>>

ScriptUnlinkContent(a) ==
    /\ FilterRunning(a) /\ ~ Has(msg[a], FilterSuffix(a))
    /\ content[msg[a]] # "none"
    /\ SetContent(msg[a], "none")
    /\ UNCHANGED <<envelope, reason, pc, msg, todo, used, history>>

\* FileDelivery, all recipients local: copied to the mailboxes, then unlinked
DeliverUnlinkContent(a) ==
    /\ FilterRunning(a) /\ Has(msg[a], FilterSuffix(a))
    /\ SetContent(msg[a], "none")
    /\ dropped' = dropped \cup {msg[a]}
    /\ Goto(a, IF pc[a] = "filtering" THEN "delivering" ELSE "clientDelivering")
    /\ UNCHANGED <<envelope, reason, msg, todo, used, published, accepted, sends, orphaned>>

DeliverUnlinkEnvelope(a) ==
    /\ pc[a] \in {"delivering", "clientDelivering"}
    /\ Unlink(msg[a], FilterSuffix(a))
    /\ Goto(a, IF pc[a] = "delivering" THEN "filtering" ELSE "clientFilter")
    /\ UNCHANGED <<content, reason, msg, todo, used, history>>

-----------------------------------------------------------------------------
(* The administrator and the operating system.                             *)

\* (mutant: a rename to ".new")
Unfail_New(i) ==
    /\ Has(i, "bad")
    /\ Rename(i, "bad", "new")
    /\ UNCHANGED <<content, reason, pc, msg, todo, used, history>>

\* one rename of unfailAll()
Unfail(i) ==
    /\ Has(i, "bad")
    /\ Rename(i, "bad", "normal")
    /\ UNCHANGED <<content, reason, pc, msg, todo, used, history>>

\* a message object exists, and has files
Owns(a) == pc[a] \in WritePC \cup HoldPC

\* a process is killed and restarted: nothing looks for what it left behind
Crash(p) ==
    /\ p \in Crashable
    /\ pc'   = [a \in Actor |-> IF Host[a] = p THEN "idle" ELSE pc[a]]
    /\ msg'  = [a \in Actor |-> IF Host[a] = p THEN None   ELSE msg[a]]
    /\ todo' = [a \in Actor |-> IF Host[a] = p THEN {}     ELSE todo[a]]
    /\ orphaned' = orphaned \cup {msg[a] : a \in {b \in Actor : Host[b] = p /\ Owns(b)}}
    /\ UNCHANGED <<files, used, published, accepted, sends, dropped>>

-----------------------------------------------------------------------------
SessionStep(s) ==
    \/ Prepare(s) \/ Abort(s)
    \/ FilterOk(s) \/ FilterAbandon(s) \/ FilterReject(s)
    \/ CleanEnvelope(s) \/ CleanContent(s)
    \/ Acknowledge(s) \/ Get(s) \/ NothingToDo(s)

HolderStep(a) ==
    \/ Unlock(a) \/ StartClientFilter(a)
    \/ ClientFilterOk(a) \/ ClientFilterAbandon(a)
    \/ SentToAll(a) \/ DestroyEnvelope(a) \/ DestroyContent(a)
    \/ SentToSome(a) \/ EditWrite(a) \/ EditReplace(a) \/ EditError(a)
    \/ FailReason(a) \/ FailRename(a)

FilterStep(a) ==
    \/ ScriptUnlinkEnvelope(a) \/ ScriptUnlinkContent(a)
    \/ DeliverUnlinkContent(a) \/ DeliverUnlinkEnvelope(a)

ScanStep(f) == Scan(f) \/ EndScan(f) \/ \E i \in Id : LockNext(f, i)

Next ==
    \/ \E s \in Session : SessionStep(s) \/ \E i \in Id : NewMessage(s, i)
    \/ \E a \in Actor : HolderStep(a) \/ FilterStep(a)
    \/ \E f \in Forwarder : ScanStep(f)
    \/ \E i \in Id : Unfail(i)
    \/ \E p \in Process : Crash(p)

Spec == Init /\ [][Next]_vars

\* Every object that owns a message is driven by timeouts: the server's idle
\* timeout, the client's response timeout and the filter timeout.  Nothing
\* obliges a submitter to send, a forwarder to be started or an administrator
\* to act, and nothing obliges a process to crash.
FairSpec == Spec /\ \A a \in Actor :
                      WF_vars(\/ a \in Session /\ SessionStep(a)
                              \/ HolderStep(a)
                              \/ DeliverUnlinkEnvelope(a))

-----------------------------------------------------------------------------
(* What the store guarantees.                                              *)

\* A message object (NewFile or StoredFile) has its files to itself: however
\* the scans of several processes interleave, the rename that locks an
\* envelope succeeds for one of them only (StoredFile::lock).
Exclusive ==
    \A a, b \in Actor : a # b /\ Owns(a) /\ Owns(b) => msg[a] # msg[b]

\* A message never has two envelopes that a scan, an unfail or a forwarder
\* could each take for the message: rename() overwrites its target, and no
\* path through commit, lock, unlock, fail and unfail leaves one behind.
OneEnvelope ==
    \A i \in Id : \A x, y \in envelope[i] \ {"tmp"} : x = y

\* What a forwarder or an administrator can pick up is complete: an envelope
\* without its ".new" or ".busy" suffix has its whole content beside it, and a
\* failed one says why (the reason is appended before the rename), even after a
\* crash between any two steps of commit, destroy, fail or roll-back.
VisibleIsComplete ==
    \A i \in Id : /\ envelope[i] \cap {"normal", "bad"} # {} => content[i] = "whole"
                  /\ Has(i, "bad") => i \in reason

\* Whoever reads the directory finds for each message one envelope at most, and a
\* message that is ready for what its suffix says.
EnvelopeInv == OneEnvelope /\ VisibleIsComplete

\* A message that its submitter was told is accepted is on disk, in a state
\* that keeps its content, until every recipient has been accepted by the
\* remote server or a filter has disposed of it.
NoAcceptedLoss ==
    \A i \in accepted :
        \/ sends[i] > 0
        \/ i \in dropped
        \/ content[i] = "whole" /\ envelope[i] \cap {"normal", "busy", "bad"} # {}

\* A message that has been sent to all its recipients is never offered to a
\* forwarder or to unfail-all again, and its envelope goes before its content:
\* a crash in the middle of StoredFile::destroy cannot cause a second sending.
SentIsNotRequeued ==
    \A i \in Id : sends[i] > 0 => envelope[i] \subseteq {"busy"} /\ sends[i] = 1

\* The life of a message is that of the abstract store.
statusBar == [i \in Id |->
    IF Has(i, "normal") THEN "queued"
    ELSE IF Has(i, "busy") THEN "held"
    ELSE IF Has(i, "bad") THEN "failed"
    ELSE IF i \in published THEN "gone" ELSE "unpublished"]

Store == INSTANCE Spool WITH status <- statusBar, sends <- sends
ImplementsSpool == Store!SpoolSpec

\* An envelope is ".new" or ".busy" for a while only: every path out of a message
\* object, errors included, renames or removes its envelope, and only a process that
\* is killed leaves one behind.
NothingStaysLocked ==
    \A i \in Id : Has(i, "new") \/ Has(i, "busy")
                    ~> ~ (Has(i, "new") \/ Has(i, "busy")) \/ i \in orphaned
=============================================================================
