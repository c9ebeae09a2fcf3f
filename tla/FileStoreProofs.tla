--------------------------- MODULE FileStoreProofs ---------------------------
(* The inductive invariant of FileStore and the theorems that follow.      *)
EXTENDS FileStore, TLAPS

\* what the files of a message can look like
MessageInv(i) ==
    /\ envelope[i] \in {{}, {"new"}, {"normal"}, {"busy"}, {"busy", "tmp"}, {"bad"}}
    /\ i \notin used => i \notin published /\ envelope[i] = {}
    /\ i \notin published => envelope[i] \subseteq {"new"} /\ sends[i] = 0
    /\ i \in accepted => i \in published
    /\ envelope[i] \cap {"normal", "bad"} # {} => content[i] = "whole"
    /\ sends[i] > 0 => envelope[i] \subseteq {"busy"} /\ sends[i] = 1
    /\ "bad" \in envelope[i] => i \in reason
    /\ i \in published =>
         \/ sends[i] > 0
         \/ i \in dropped
         \/ content[i] = "whole" /\ envelope[i] \cap {"normal", "busy", "bad"} # {}

\* what a session writing message i may rely on
WriterInv(a, i) ==
    /\ a \in Session
    /\ i \in used /\ i \notin published
    /\ pc[a] = "writing" => envelope[i] = {}
    /\ pc[a] = "filtering" /\ "new" \in envelope[i] => content[i] = "whole"

\* what the holder of message i may rely on
HolderInv(a, i) ==
    /\ i \in published
    /\ envelope[i] \subseteq (IF pc[a] = "edited" THEN {"busy", "tmp"} ELSE {"busy"})
    /\ pc[a] \in {"locked", "sending", "sent", "partlySent", "edited", "failing"} =>
         "busy" \in envelope[i]
    /\ pc[a] \notin {"clientDelivering", "destroying"} /\ "busy" \in envelope[i] =>
         content[i] = "whole"
    /\ pc[a] = "clientDelivering" => i \in dropped
    /\ sends[i] = (IF pc[a] \in {"sent", "destroying"} THEN 1 ELSE 0)
    /\ pc[a] = "failing" => i \in reason

ActorInv(a) ==
    /\ pc[a] \in WritePC => msg[a] \in Id /\ WriterInv(a, msg[a])
    /\ pc[a] \in HoldPC  => msg[a] \in Id /\ HolderInv(a, msg[a])
    /\ pc[a] = "committed" => msg[a] \in Id /\ msg[a] \in published

Inv == /\ TypeOK
       /\ Exclusive
       /\ \A i \in Id : MessageInv(i)
       /\ \A a \in Actor : ActorInv(a)

-----------------------------------------------------------------------------
(* Server side: writing, rolling back and committing a message.            *)

LEMMA NewMessageInv ==
    ASSUME Inv, NEW s \in Session, NEW i \in Id, NewMessage(s, i)
    PROVE  Inv'
  <1> USE DEF Actor
  <1>1. TypeOK'
    BY DEF Inv, TypeOK, ActorInv, NewMessage, SetContent, Goto, history, PC,
           WritePC, HoldPC, Suffix
  <1>2. Exclusive'
    BY DEF Inv, TypeOK, Exclusive, Owns, ActorInv, WriterInv, HolderInv,
           MessageInv, NewMessage, SetContent, Goto, history, WritePC, HoldPC
  <1>3. ASSUME NEW j \in Id PROVE MessageInv(j)'
    BY DEF Inv, TypeOK, ActorInv, WriterInv, HolderInv, MessageInv,
           NewMessage, SetContent, Goto, history, WritePC, HoldPC
  <1>4. ASSUME NEW b \in Actor PROVE ActorInv(b)'
    BY DEF Inv, TypeOK, Exclusive, Owns, ActorInv, WriterInv, HolderInv,
           MessageInv, NewMessage, SetContent, Goto, history, WritePC, HoldPC
  <1> QED BY <1>1, <1>2, <1>3, <1>4 DEF Inv

LEMMA PrepareInv ==
    ASSUME Inv, NEW s \in Session, Prepare(s)
    PROVE  Inv'
  <1> USE DEF Actor
  <1>1. TypeOK'
    BY DEF Inv, TypeOK, ActorInv, Prepare, SetContent, Goto, history, PC,
           WritePC, HoldPC, Suffix
  <1>2. Exclusive'
    BY DEF Inv, TypeOK, Exclusive, Owns, ActorInv, WriterInv, HolderInv,
           MessageInv, Prepare, SetContent, Goto, history, WritePC, HoldPC
  <1>3. ASSUME NEW j \in Id PROVE MessageInv(j)'
    BY DEF Inv, TypeOK, ActorInv, WriterInv, HolderInv, MessageInv, Prepare,
           SetContent, Goto, history, WritePC, HoldPC
  <1>4. ASSUME NEW b \in Actor PROVE ActorInv(b)'
    BY DEF Inv, TypeOK, Exclusive, Owns, ActorInv, WriterInv, HolderInv,
           MessageInv, Prepare, SetContent, Goto, history, WritePC, HoldPC
  <1> QED BY <1>1, <1>2, <1>3, <1>4 DEF Inv

LEMMA AbortInv ==
    ASSUME Inv, NEW s \in Session, Abort(s)
    PROVE  Inv'
  <1> USE DEF Actor
  <1>1. TypeOK'
    BY DEF Inv, TypeOK, ActorInv, Abort, Goto, files, history, PC, WritePC,
           HoldPC, Suffix
  <1>2. Exclusive'
    BY DEF Inv, TypeOK, Exclusive, Owns, ActorInv, WriterInv, HolderInv,
           MessageInv, Abort, Goto, files, history, WritePC, HoldPC
  <1>3. ASSUME NEW j \in Id PROVE MessageInv(j)'
    BY DEF Inv, TypeOK, ActorInv, WriterInv, HolderInv, MessageInv, Abort,
           Goto, files, history, WritePC, HoldPC
  <1>4. ASSUME NEW b \in Actor PROVE ActorInv(b)'
    BY DEF Inv, TypeOK, Exclusive, Owns, ActorInv, WriterInv, HolderInv,
           MessageInv, Abort, Goto, files, history, WritePC, HoldPC
  <1> QED BY <1>1, <1>2, <1>3, <1>4 DEF Inv

LEMMA FilterOkInv ==
    ASSUME Inv, NEW s \in Session, FilterOk(s)
    PROVE  Inv'
  <1> USE DEF Actor
  <1>1. TypeOK'
    BY DEF Inv, TypeOK, ActorInv, FilterOk, Has, Rename, Goto, Finish, PC,
           WritePC, HoldPC, Suffix
  <1>2. Exclusive'
    BY DEF Inv, TypeOK, Exclusive, Owns, ActorInv, WriterInv, HolderInv,
           MessageInv, FilterOk, Has, Rename, Goto, Finish, WritePC, HoldPC
  <1>3. ASSUME NEW j \in Id PROVE MessageInv(j)'
    <2>1. CASE j = msg[s] /\ "new" \in envelope[j]
      <3>1. envelope[j] = {"new"} /\ envelope'[j] = {"normal"}
        BY <2>1 DEF Inv, TypeOK, ActorInv, WriterInv, HolderInv, MessageInv,
               FilterOk, Has, Rename, Goto, Finish, WritePC, HoldPC
      <3> QED
        BY <2>1, <3>1 DEF Inv, TypeOK, ActorInv, WriterInv, HolderInv,
               MessageInv, FilterOk, Has, Rename, Goto, Finish, WritePC, HoldPC
    <2>2. CASE ~ (j = msg[s] /\ "new" \in envelope[j])
      BY <2>2 DEF Inv, TypeOK, ActorInv, WriterInv, HolderInv, MessageInv,
             FilterOk, Has, Rename, Goto, Finish, WritePC, HoldPC
    <2> QED BY <2>1, <2>2
  <1>4. ASSUME NEW b \in Actor PROVE ActorInv(b)'
    BY DEF Inv, TypeOK, Exclusive, Owns, ActorInv, WriterInv, HolderInv,
           MessageInv, FilterOk, Has, Rename, Goto, Finish, WritePC, HoldPC
  <1> QED BY <1>1, <1>2, <1>3, <1>4 DEF Inv

LEMMA FilterAbandonInv ==
    ASSUME Inv, NEW s \in Session, FilterAbandon(s)
    PROVE  Inv'
  <1> USE DEF Actor
  <1>1. TypeOK'
    BY DEF Inv, TypeOK, ActorInv, FilterAbandon, Has, Rename, Goto, Finish,
           PC, WritePC, HoldPC, Suffix
  <1>2. Exclusive'
    BY DEF Inv, TypeOK, Exclusive, Owns, ActorInv, WriterInv, HolderInv,
           MessageInv, FilterAbandon, Has, Rename, Goto, Finish, WritePC, HoldPC
  <1>3. ASSUME NEW j \in Id PROVE MessageInv(j)'
    <2>1. CASE j = msg[s] /\ "new" \in envelope[j]
      <3>1. envelope[j] = {"new"} /\ envelope'[j] = {"normal"}
        BY <2>1 DEF Inv, TypeOK, ActorInv, WriterInv, HolderInv, MessageInv,
               FilterAbandon, Has, Rename, Goto, Finish, WritePC, HoldPC
      <3> QED
        BY <2>1, <3>1 DEF Inv, TypeOK, ActorInv, WriterInv, HolderInv,
               MessageInv, FilterAbandon, Has, Rename, Goto, Finish, WritePC,
               HoldPC
    <2>2. CASE ~ (j = msg[s] /\ "new" \in envelope[j])
      BY <2>2 DEF Inv, TypeOK, ActorInv, WriterInv, HolderInv, MessageInv,
             FilterAbandon, Has, Rename, Goto, Finish, WritePC, HoldPC
    <2> QED BY <2>1, <2>2
  <1>4. ASSUME NEW b \in Actor PROVE ActorInv(b)'
    BY DEF Inv, TypeOK, Exclusive, Owns, ActorInv, WriterInv, HolderInv,
           MessageInv, FilterAbandon, Has, Rename, Goto, Finish, WritePC, HoldPC
  <1> QED BY <1>1, <1>2, <1>3, <1>4 DEF Inv

LEMMA FilterRejectInv ==
    ASSUME Inv, NEW s \in Session, FilterReject(s)
    PROVE  Inv'
  <1> USE DEF Actor
  <1>1. TypeOK'
    BY DEF Inv, TypeOK, ActorInv, FilterReject, Goto, files, history, PC,
           WritePC, HoldPC, Suffix
  <1>2. Exclusive'
    BY DEF Inv, TypeOK, Exclusive, Owns, ActorInv, WriterInv, HolderInv,
           MessageInv, FilterReject, Goto, files, history, WritePC, HoldPC
  <1>3. ASSUME NEW j \in Id PROVE MessageInv(j)'
    BY DEF Inv, TypeOK, ActorInv, WriterInv, HolderInv, MessageInv,
           FilterReject, Goto, files, history, WritePC, HoldPC
  <1>4. ASSUME NEW b \in Actor PROVE ActorInv(b)'
    BY DEF Inv, TypeOK, Exclusive, Owns, ActorInv, WriterInv, HolderInv,
           MessageInv, FilterReject, Goto, files, history, WritePC, HoldPC
  <1> QED BY <1>1, <1>2, <1>3, <1>4 DEF Inv

LEMMA CleanEnvelopeInv ==
    ASSUME Inv, NEW s \in Session, CleanEnvelope(s)
    PROVE  Inv'
  <1> USE DEF Actor
  <1>1. TypeOK'
    BY DEF Inv, TypeOK, ActorInv, CleanEnvelope, Unlink, Goto, history, PC,
           WritePC, HoldPC, Suffix
  <1>2. Exclusive'
    BY DEF Inv, TypeOK, Exclusive, Owns, ActorInv, WriterInv, HolderInv,
           MessageInv, CleanEnvelope, Unlink, Goto, history, WritePC, HoldPC
  <1>3. ASSUME NEW j \in Id PROVE MessageInv(j)'
    BY DEF Inv, TypeOK, ActorInv, WriterInv, HolderInv, MessageInv,
           CleanEnvelope, Unlink, Goto, history, WritePC, HoldPC
  <1>4. ASSUME NEW b \in Actor PROVE ActorInv(b)'
    BY DEF Inv, TypeOK, Exclusive, Owns, ActorInv, WriterInv, HolderInv,
           MessageInv, CleanEnvelope, Unlink, Goto, history, WritePC, HoldPC
  <1> QED BY <1>1, <1>2, <1>3, <1>4 DEF Inv

LEMMA CleanContentInv ==
    ASSUME Inv, NEW s \in Session, CleanContent(s)
    PROVE  Inv'
  <1> USE DEF Actor
  <1>1. TypeOK'
    BY DEF Inv, TypeOK, ActorInv, CleanContent, SetContent, Goto, Finish,
           history, PC, WritePC, HoldPC, Suffix
  <1>2. Exclusive'
    BY DEF Inv, TypeOK, Exclusive, Owns, ActorInv, WriterInv, HolderInv,
           MessageInv, CleanContent, SetContent, Goto, Finish, history,
           WritePC, HoldPC
  <1>3. ASSUME NEW j \in Id PROVE MessageInv(j)'
    BY DEF Inv, TypeOK, ActorInv, WriterInv, HolderInv, MessageInv,
           CleanContent, SetContent, Goto, Finish, history, WritePC, HoldPC
  <1>4. ASSUME NEW b \in Actor PROVE ActorInv(b)'
    BY DEF Inv, TypeOK, Exclusive, Owns, ActorInv, WriterInv, HolderInv,
           MessageInv, CleanContent, SetContent, Goto, Finish, history,
           WritePC, HoldPC
  <1> QED BY <1>1, <1>2, <1>3, <1>4 DEF Inv

LEMMA AcknowledgeInv ==
    ASSUME Inv, NEW s \in Session, Acknowledge(s)
    PROVE  Inv'
  <1> USE DEF Actor
  <1>1. TypeOK'
    BY DEF Inv, TypeOK, ActorInv, Acknowledge, Goto, Finish, files, PC,
           WritePC, HoldPC, Suffix
  <1>2. Exclusive'
    BY DEF Inv, TypeOK, Exclusive, Owns, ActorInv, WriterInv, HolderInv,
           MessageInv, Acknowledge, Goto, Finish, files, WritePC, HoldPC
  <1>3. ASSUME NEW j \in Id PROVE MessageInv(j)'
    BY DEF Inv, TypeOK, ActorInv, WriterInv, HolderInv, MessageInv,
           Acknowledge, Goto, Finish, files, WritePC, HoldPC
  <1>4. ASSUME NEW b \in Actor PROVE ActorInv(b)'
    BY DEF Inv, TypeOK, Exclusive, Owns, ActorInv, WriterInv, HolderInv,
           MessageInv, Acknowledge, Goto, Finish, files, WritePC, HoldPC
  <1> QED BY <1>1, <1>2, <1>3, <1>4 DEF Inv

LEMMA GetInv ==
    ASSUME Inv, NEW s \in Session, Get(s)
    PROVE  Inv'
  <1> USE DEF Actor
  <1>1. TypeOK'
    BY DEF Inv, TypeOK, ActorInv, Get, Has, Rename, Goto, Finish, history, PC,
           WritePC, HoldPC, Suffix
  <1>2. Exclusive'
    BY DEF Inv, TypeOK, Exclusive, Owns, ActorInv, WriterInv, HolderInv,
           MessageInv, Get, Has, Rename, Goto, Finish, history, WritePC, HoldPC
  <1>3. ASSUME NEW j \in Id PROVE MessageInv(j)'
    BY DEF Inv, TypeOK, ActorInv, WriterInv, HolderInv, MessageInv, Get, Has,
           Rename, Goto, Finish, history, WritePC, HoldPC
  <1>4. ASSUME NEW b \in Actor PROVE ActorInv(b)'
    BY DEF Inv, TypeOK, Exclusive, Owns, ActorInv, WriterInv, HolderInv,
           MessageInv, Get, Has, Rename, Goto, Finish, history, WritePC, HoldPC
  <1> QED BY <1>1, <1>2, <1>3, <1>4 DEF Inv

LEMMA NothingToDoInv ==
    ASSUME Inv, NEW s \in Session, NothingToDo(s)
    PROVE  Inv'
  <1> USE DEF Actor
  <1>1. TypeOK'
    BY DEF Inv, TypeOK, ActorInv, NothingToDo, Rename, Goto, Finish, PC,
           WritePC, HoldPC, Suffix
  <1>2. Exclusive'
    BY DEF Inv, TypeOK, Exclusive, Owns, ActorInv, WriterInv, HolderInv,
           MessageInv, NothingToDo, Rename, Goto, Finish, WritePC, HoldPC
  <1>3. ASSUME NEW j \in Id PROVE MessageInv(j)'
    <2>1. CASE j = msg[s] /\ "busy" \in envelope[j]
      <3>1. envelope[j] = {"busy"} /\ envelope'[j] = {"normal"}
        BY <2>1 DEF Inv, TypeOK, ActorInv, WriterInv, HolderInv, MessageInv,
               NothingToDo, Rename, Goto, Finish, WritePC, HoldPC
      <3> QED
        BY <2>1, <3>1 DEF Inv, TypeOK, ActorInv, WriterInv, HolderInv,
               MessageInv, NothingToDo, Rename, Goto, Finish, WritePC, HoldPC
    <2>2. CASE ~ (j = msg[s] /\ "busy" \in envelope[j])
      BY <2>2 DEF Inv, TypeOK, ActorInv, WriterInv, HolderInv, MessageInv,
             NothingToDo, Rename, Goto, Finish, WritePC, HoldPC
    <2> QED BY <2>1, <2>2
  <1>4. ASSUME NEW b \in Actor PROVE ActorInv(b)'
    BY DEF Inv, TypeOK, Exclusive, Owns, ActorInv, WriterInv, HolderInv,
           MessageInv, NothingToDo, Rename, Goto, Finish, WritePC, HoldPC
  <1> QED BY <1>1, <1>2, <1>3, <1>4 DEF Inv

-----------------------------------------------------------------------------
(* Client side: what happens to a locked message.                          *)

LEMMA UnlockInv ==
    ASSUME Inv, NEW a \in Actor, Unlock(a)
    PROVE  Inv'
  <1> USE DEF Actor
  <1>1. TypeOK'
    BY DEF Inv, TypeOK, ActorInv, Unlock, Has, Rename, Goto, Finish, history,
           PC, WritePC, HoldPC, Suffix
  <1>2. Exclusive'
    BY DEF Inv, TypeOK, Exclusive, Owns, ActorInv, WriterInv, HolderInv,
           MessageInv, Unlock, Has, Rename, Goto, Finish, history, WritePC,
           HoldPC
  <1>3. ASSUME NEW j \in Id PROVE MessageInv(j)'
    <2>1. CASE j = msg[a] /\ "busy" \in envelope[j]
      <3>1. envelope[j] = {"busy"} /\ envelope'[j] = {"normal"}
        BY <2>1 DEF Inv, TypeOK, ActorInv, WriterInv, HolderInv, MessageInv,
               Unlock, Has, Rename, Goto, Finish, history, WritePC, HoldPC
      <3> QED
        BY <2>1, <3>1 DEF Inv, TypeOK, ActorInv, WriterInv, HolderInv,
               MessageInv, Unlock, Has, Rename, Goto, Finish, history,
               WritePC, HoldPC
    <2>2. CASE ~ (j = msg[a] /\ "busy" \in envelope[j])
      BY <2>2 DEF Inv, TypeOK, ActorInv, WriterInv, HolderInv, MessageInv,
             Unlock, Has, Rename, Goto, Finish, history, WritePC, HoldPC
    <2> QED BY <2>1, <2>2
  <1>4. ASSUME NEW b \in Actor PROVE ActorInv(b)'
    BY DEF Inv, TypeOK, Exclusive, Owns, ActorInv, WriterInv, HolderInv,
           MessageInv, Unlock, Has, Rename, Goto, Finish, history, WritePC,
           HoldPC
  <1> QED BY <1>1, <1>2, <1>3, <1>4 DEF Inv

LEMMA StartClientFilterInv ==
    ASSUME Inv, NEW a \in Actor, StartClientFilter(a)
    PROVE  Inv'
  <1> USE DEF Actor
  <1>1. TypeOK'
    BY DEF Inv, TypeOK, ActorInv, StartClientFilter, Goto, files, history, PC,
           WritePC, HoldPC, Suffix
  <1>2. Exclusive'
    BY DEF Inv, TypeOK, Exclusive, Owns, ActorInv, WriterInv, HolderInv,
           MessageInv, StartClientFilter, Goto, files, history, WritePC, HoldPC
  <1>3. ASSUME NEW j \in Id PROVE MessageInv(j)'
    BY DEF Inv, TypeOK, ActorInv, WriterInv, HolderInv, MessageInv,
           StartClientFilter, Goto, files, history, WritePC, HoldPC
  <1>4. ASSUME NEW b \in Actor PROVE ActorInv(b)'
    BY DEF Inv, TypeOK, Exclusive, Owns, ActorInv, WriterInv, HolderInv,
           MessageInv, StartClientFilter, Goto, files, history, WritePC, HoldPC
  <1> QED BY <1>1, <1>2, <1>3, <1>4 DEF Inv

LEMMA ClientFilterOkInv ==
    ASSUME Inv, NEW a \in Actor, ClientFilterOk(a)
    PROVE  Inv'
  <1> USE DEF Actor
  <1>1. TypeOK'
    BY DEF Inv, TypeOK, ActorInv, ClientFilterOk, Has, Goto, files, history,
           PC, WritePC, HoldPC, Suffix
  <1>2. Exclusive'
    BY DEF Inv, TypeOK, Exclusive, Owns, ActorInv, WriterInv, HolderInv,
           MessageInv, ClientFilterOk, Has, Goto, files, history, WritePC,
           HoldPC
  <1>3. ASSUME NEW j \in Id PROVE MessageInv(j)'
    BY DEF Inv, TypeOK, ActorInv, WriterInv, HolderInv, MessageInv,
           ClientFilterOk, Has, Goto, files, history, WritePC, HoldPC
  <1>4. ASSUME NEW b \in Actor PROVE ActorInv(b)'
    BY DEF Inv, TypeOK, Exclusive, Owns, ActorInv, WriterInv, HolderInv,
           MessageInv, ClientFilterOk, Has, Goto, files, history, WritePC,
           HoldPC
  <1> QED BY <1>1, <1>2, <1>3, <1>4 DEF Inv

LEMMA ClientFilterAbandonInv ==
    ASSUME Inv, NEW a \in Actor, ClientFilterAbandon(a)
    PROVE  Inv'
  <1> USE DEF Actor
  <1>1. TypeOK'
    BY DEF Inv, TypeOK, ActorInv, ClientFilterAbandon, Has, Rename, Goto,
           Finish, PC, WritePC, HoldPC, Suffix
  <1>2. Exclusive'
    BY DEF Inv, TypeOK, Exclusive, Owns, ActorInv, WriterInv, HolderInv,
           MessageInv, ClientFilterAbandon, Has, Rename, Goto, Finish,
           WritePC, HoldPC
  <1>3. ASSUME NEW j \in Id PROVE MessageInv(j)'
    <2>1. CASE j = msg[a] /\ "busy" \in envelope[j]
      <3>1. envelope[j] = {"busy"} /\ envelope'[j] = {"normal"}
        BY <2>1 DEF Inv, TypeOK, ActorInv, WriterInv, HolderInv, MessageInv,
               ClientFilterAbandon, Has, Rename, Goto, Finish, WritePC, HoldPC
      <3> QED
        BY <2>1, <3>1 DEF Inv, TypeOK, ActorInv, WriterInv, HolderInv,
               MessageInv, ClientFilterAbandon, Has, Rename, Goto, Finish,
               WritePC, HoldPC
    <2>2. CASE ~ (j = msg[a] /\ "busy" \in envelope[j])
      BY <2>2 DEF Inv, TypeOK, ActorInv, WriterInv, HolderInv, MessageInv,
             ClientFilterAbandon, Has, Rename, Goto, Finish, WritePC, HoldPC
    <2> QED BY <2>1, <2>2
  <1>4. ASSUME NEW b \in Actor PROVE ActorInv(b)'
    BY DEF Inv, TypeOK, Exclusive, Owns, ActorInv, WriterInv, HolderInv,
           MessageInv, ClientFilterAbandon, Has, Rename, Goto, Finish,
           WritePC, HoldPC
  <1> QED BY <1>1, <1>2, <1>3, <1>4 DEF Inv

LEMMA SentToAllInv ==
    ASSUME Inv, NEW a \in Actor, SentToAll(a)
    PROVE  Inv'
  <1> USE DEF Actor
  <1>1. TypeOK'
    BY DEF Inv, TypeOK, ActorInv, SentToAll, Goto, files, PC, WritePC, HoldPC,
           Suffix
  <1>2. Exclusive'
    BY DEF Inv, TypeOK, Exclusive, Owns, ActorInv, WriterInv, HolderInv,
           MessageInv, SentToAll, Goto, files, WritePC, HoldPC
  <1>3. ASSUME NEW j \in Id PROVE MessageInv(j)'
    BY DEF Inv, TypeOK, ActorInv, WriterInv, HolderInv, MessageInv, SentToAll,
           Goto, files, WritePC, HoldPC
  <1>4. ASSUME NEW b \in Actor PROVE ActorInv(b)'
    BY DEF Inv, TypeOK, Exclusive, Owns, ActorInv, WriterInv, HolderInv,
           MessageInv, SentToAll, Goto, files, WritePC, HoldPC
  <1> QED BY <1>1, <1>2, <1>3, <1>4 DEF Inv

LEMMA DestroyEnvelopeInv ==
    ASSUME Inv, NEW a \in Actor, DestroyEnvelope(a)
    PROVE  Inv'
  <1> USE DEF Actor
  <1>1. TypeOK'
    BY DEF Inv, TypeOK, ActorInv, DestroyEnvelope, Unlink, Goto, history, PC,
           WritePC, HoldPC, Suffix
  <1>2. Exclusive'
    BY DEF Inv, TypeOK, Exclusive, Owns, ActorInv, WriterInv, HolderInv,
           MessageInv, DestroyEnvelope, Unlink, Goto, history, WritePC, HoldPC
  <1>3. ASSUME NEW j \in Id PROVE MessageInv(j)'
    BY DEF Inv, TypeOK, ActorInv, WriterInv, HolderInv, MessageInv,
           DestroyEnvelope, Unlink, Goto, history, WritePC, HoldPC
  <1>4. ASSUME NEW b \in Actor PROVE ActorInv(b)'
    BY DEF Inv, TypeOK, Exclusive, Owns, ActorInv, WriterInv, HolderInv,
           MessageInv, DestroyEnvelope, Unlink, Goto, history, WritePC, HoldPC
  <1> QED BY <1>1, <1>2, <1>3, <1>4 DEF Inv

LEMMA DestroyContentInv ==
    ASSUME Inv, NEW a \in Actor, DestroyContent(a)
    PROVE  Inv'
  <1> USE DEF Actor
  <1>1. TypeOK'
    BY DEF Inv, TypeOK, ActorInv, DestroyContent, SetContent, Goto, Finish,
           PC, WritePC, HoldPC, Suffix
  <1>2. Exclusive'
    BY DEF Inv, TypeOK, Exclusive, Owns, ActorInv, WriterInv, HolderInv,
           MessageInv, DestroyContent, SetContent, Goto, Finish, WritePC, HoldPC
  <1>3. ASSUME NEW j \in Id PROVE MessageInv(j)'
    BY DEF Inv, TypeOK, ActorInv, WriterInv, HolderInv, MessageInv,
           DestroyContent, SetContent, Goto, Finish, WritePC, HoldPC
  <1>4. ASSUME NEW b \in Actor PROVE ActorInv(b)'
    BY DEF Inv, TypeOK, Exclusive, Owns, ActorInv, WriterInv, HolderInv,
           MessageInv, DestroyContent, SetContent, Goto, Finish, WritePC, HoldPC
  <1> QED BY <1>1, <1>2, <1>3, <1>4 DEF Inv

LEMMA SentToSomeInv ==
    ASSUME Inv, NEW a \in Actor, SentToSome(a)
    PROVE  Inv'
  <1> USE DEF Actor
  <1>1. TypeOK'
    BY DEF Inv, TypeOK, ActorInv, SentToSome, Goto, files, history, PC,
           WritePC, HoldPC, Suffix
  <1>2. Exclusive'
    BY DEF Inv, TypeOK, Exclusive, Owns, ActorInv, WriterInv, HolderInv,
           MessageInv, SentToSome, Goto, files, history, WritePC, HoldPC
  <1>3. ASSUME NEW j \in Id PROVE MessageInv(j)'
    BY DEF Inv, TypeOK, ActorInv, WriterInv, HolderInv, MessageInv,
           SentToSome, Goto, files, history, WritePC, HoldPC
  <1>4. ASSUME NEW b \in Actor PROVE ActorInv(b)'
    BY DEF Inv, TypeOK, Exclusive, Owns, ActorInv, WriterInv, HolderInv,
           MessageInv, SentToSome, Goto, files, history, WritePC, HoldPC
  <1> QED BY <1>1, <1>2, <1>3, <1>4 DEF Inv

LEMMA EditWriteInv ==
    ASSUME Inv, NEW a \in Actor, EditWrite(a)
    PROVE  Inv'
  <1> USE DEF Actor
  <1>1. TypeOK'
    BY DEF Inv, TypeOK, ActorInv, EditWrite, Goto, history, PC, WritePC,
           HoldPC, Suffix
  <1>2. Exclusive'
    BY DEF Inv, TypeOK, Exclusive, Owns, ActorInv, WriterInv, HolderInv,
           MessageInv, EditWrite, Goto, history, WritePC, HoldPC
  <1>3. ASSUME NEW j \in Id PROVE MessageInv(j)'
    BY DEF Inv, TypeOK, ActorInv, WriterInv, HolderInv, MessageInv, EditWrite,
           Goto, history, WritePC, HoldPC
  <1>4. ASSUME NEW b \in Actor PROVE ActorInv(b)'
    BY DEF Inv, TypeOK, Exclusive, Owns, ActorInv, WriterInv, HolderInv,
           MessageInv, EditWrite, Goto, history, WritePC, HoldPC
  <1> QED BY <1>1, <1>2, <1>3, <1>4 DEF Inv

LEMMA EditReplaceInv ==
    ASSUME Inv, NEW a \in Actor, EditReplace(a)
    PROVE  Inv'
  <1> USE DEF Actor
  <1>1. TypeOK'
    BY DEF Inv, TypeOK, ActorInv, EditReplace, Rename, Goto, history, PC,
           WritePC, HoldPC, Suffix
  <1>2. Exclusive'
    BY DEF Inv, TypeOK, Exclusive, Owns, ActorInv, WriterInv, HolderInv,
           MessageInv, EditReplace, Rename, Goto, history, WritePC, HoldPC
  <1>3. ASSUME NEW j \in Id PROVE MessageInv(j)'
    BY DEF Inv, TypeOK, ActorInv, WriterInv, HolderInv, MessageInv,
           EditReplace, Rename, Goto, history, WritePC, HoldPC
  <1>4. ASSUME NEW b \in Actor PROVE ActorInv(b)'
    BY DEF Inv, TypeOK, Exclusive, Owns, ActorInv, WriterInv, HolderInv,
           MessageInv, EditReplace, Rename, Goto, history, WritePC, HoldPC
  <1> QED BY <1>1, <1>2, <1>3, <1>4 DEF Inv

LEMMA EditErrorInv ==
    ASSUME Inv, NEW a \in Actor, EditError(a)
    PROVE  Inv'
  <1> USE DEF Actor
  <1>1. TypeOK'
    BY DEF Inv, TypeOK, ActorInv, EditError, Unlink, Goto, history, PC,
           WritePC, HoldPC, Suffix
  <1>2. Exclusive'
    BY DEF Inv, TypeOK, Exclusive, Owns, ActorInv, WriterInv, HolderInv,
           MessageInv, EditError, Unlink, Goto, history, WritePC, HoldPC
  <1>3. ASSUME NEW j \in Id PROVE MessageInv(j)'
    BY DEF Inv, TypeOK, ActorInv, WriterInv, HolderInv, MessageInv, EditError,
           Unlink, Goto, history, WritePC, HoldPC
  <1>4. ASSUME NEW b \in Actor PROVE ActorInv(b)'
    BY DEF Inv, TypeOK, Exclusive, Owns, ActorInv, WriterInv, HolderInv,
           MessageInv, EditError, Unlink, Goto, history, WritePC, HoldPC
  <1> QED BY <1>1, <1>2, <1>3, <1>4 DEF Inv

LEMMA FailReasonInv ==
    ASSUME Inv, NEW a \in Actor, FailReason(a)
    PROVE  Inv'
  <1> USE DEF Actor
  <1>1. TypeOK'
    BY DEF Inv, TypeOK, ActorInv, FailReason, Has, Goto, Finish, history, PC,
           WritePC, HoldPC, Suffix
  <1>2. Exclusive'
    BY DEF Inv, TypeOK, Exclusive, Owns, ActorInv, WriterInv, HolderInv,
           MessageInv, FailReason, Has, Goto, Finish, history, WritePC, HoldPC
  <1>3. ASSUME NEW j \in Id PROVE MessageInv(j)'
    BY DEF Inv, TypeOK, ActorInv, WriterInv, HolderInv, MessageInv,
           FailReason, Has, Goto, Finish, history, WritePC, HoldPC
  <1>4. ASSUME NEW b \in Actor PROVE ActorInv(b)'
    BY DEF Inv, TypeOK, Exclusive, Owns, ActorInv, WriterInv, HolderInv,
           MessageInv, FailReason, Has, Goto, Finish, history, WritePC, HoldPC
  <1> QED BY <1>1, <1>2, <1>3, <1>4 DEF Inv

LEMMA FailRenameInv ==
    ASSUME Inv, NEW a \in Actor, FailRename(a)
    PROVE  Inv'
  <1> USE DEF Actor
  <1>1. TypeOK'
    BY DEF Inv, TypeOK, ActorInv, FailRename, Rename, Goto, Finish, history,
           PC, WritePC, HoldPC, Suffix
  <1>2. Exclusive'
    BY DEF Inv, TypeOK, Exclusive, Owns, ActorInv, WriterInv, HolderInv,
           MessageInv, FailRename, Rename, Goto, Finish, history, WritePC,
           HoldPC
  <1>3. ASSUME NEW j \in Id PROVE MessageInv(j)'
    BY DEF Inv, TypeOK, ActorInv, WriterInv, HolderInv, MessageInv,
           FailRename, Rename, Goto, Finish, history, WritePC, HoldPC
  <1>4. ASSUME NEW b \in Actor PROVE ActorInv(b)'
    BY DEF Inv, TypeOK, Exclusive, Owns, ActorInv, WriterInv, HolderInv,
           MessageInv, FailRename, Rename, Goto, Finish, history, WritePC,
           HoldPC
  <1> QED BY <1>1, <1>2, <1>3, <1>4 DEF Inv

-----------------------------------------------------------------------------
(* Filters that remove the files.                                          *)

LEMMA ScriptUnlinkEnvelopeInv ==
    ASSUME Inv, NEW a \in Actor, ScriptUnlinkEnvelope(a)
    PROVE  Inv'
  <1> USE DEF Actor
  <1>1. TypeOK'
    BY DEF Inv, TypeOK, ActorInv, ScriptUnlinkEnvelope, Has, Unlink,
           FilterRunning, FilterSuffix, PC, WritePC, HoldPC, Suffix
  <1>2. Exclusive'
    BY DEF Inv, TypeOK, Exclusive, Owns, ActorInv, WriterInv, HolderInv,
           MessageInv, ScriptUnlinkEnvelope, Has, Unlink, FilterRunning,
           FilterSuffix, WritePC, HoldPC
  <1>3. ASSUME NEW j \in Id PROVE MessageInv(j)'
    BY DEF Inv, TypeOK, ActorInv, WriterInv, HolderInv, MessageInv,
           ScriptUnlinkEnvelope, Has, Unlink, FilterRunning, FilterSuffix,
           WritePC, HoldPC
  <1>4. ASSUME NEW b \in Actor PROVE ActorInv(b)'
    BY DEF Inv, TypeOK, Exclusive, Owns, ActorInv, WriterInv, HolderInv,
           MessageInv, ScriptUnlinkEnvelope, Has, Unlink, FilterRunning,
           FilterSuffix, WritePC, HoldPC
  <1> QED BY <1>1, <1>2, <1>3, <1>4 DEF Inv

LEMMA ScriptUnlinkContentInv ==
    ASSUME Inv, NEW a \in Actor, ScriptUnlinkContent(a)
    PROVE  Inv'
  <1> USE DEF Actor
  <1>1. TypeOK'
    BY DEF Inv, TypeOK, ActorInv, ScriptUnlinkContent, Has, SetContent,
           FilterRunning, FilterSuffix, history, PC, WritePC, HoldPC, Suffix
  <1>2. Exclusive'
    BY DEF Inv, TypeOK, Exclusive, Owns, ActorInv, WriterInv, HolderInv,
           MessageInv, ScriptUnlinkContent, Has, SetContent, FilterRunning,
           FilterSuffix, history, WritePC, HoldPC
  <1>3. ASSUME NEW j \in Id PROVE MessageInv(j)'
    BY DEF Inv, TypeOK, ActorInv, WriterInv, HolderInv, MessageInv,
           ScriptUnlinkContent, Has, SetContent, FilterRunning, FilterSuffix,
           history, WritePC, HoldPC
  <1>4. ASSUME NEW b \in Actor PROVE ActorInv(b)'
    BY DEF Inv, TypeOK, Exclusive, Owns, ActorInv, WriterInv, HolderInv,
           MessageInv, ScriptUnlinkContent, Has, SetContent, FilterRunning,
           FilterSuffix, history, WritePC, HoldPC
  <1> QED BY <1>1, <1>2, <1>3, <1>4 DEF Inv

LEMMA DeliverUnlinkContentInv ==
    ASSUME Inv, NEW a \in Actor, DeliverUnlinkContent(a)
    PROVE  Inv'
  <1> USE DEF Actor
  <1>1. TypeOK'
    BY DEF Inv, TypeOK, ActorInv, DeliverUnlinkContent, Has, SetContent, Goto,
           FilterRunning, FilterSuffix, PC, WritePC, HoldPC, Suffix
  <1>2. Exclusive'
    BY DEF Inv, TypeOK, Exclusive, Owns, ActorInv, WriterInv, HolderInv,
           MessageInv, DeliverUnlinkContent, Has, SetContent, Goto,
           FilterRunning, FilterSuffix, WritePC, HoldPC
  <1>3. ASSUME NEW j \in Id PROVE MessageInv(j)'
    BY DEF Inv, TypeOK, ActorInv, WriterInv, HolderInv, MessageInv,
           DeliverUnlinkContent, Has, SetContent, Goto, FilterRunning,
           FilterSuffix, WritePC, HoldPC
  <1>4. ASSUME NEW b \in Actor PROVE ActorInv(b)'
    BY DEF Inv, TypeOK, Exclusive, Owns, ActorInv, WriterInv, HolderInv,
           MessageInv, DeliverUnlinkContent, Has, SetContent, Goto,
           FilterRunning, FilterSuffix, WritePC, HoldPC
  <1> QED BY <1>1, <1>2, <1>3, <1>4 DEF Inv

LEMMA DeliverUnlinkEnvelopeInv ==
    ASSUME Inv, NEW a \in Actor, DeliverUnlinkEnvelope(a)
    PROVE  Inv'
  <1> USE DEF Actor
  <1>1. TypeOK'
    BY DEF Inv, TypeOK, ActorInv, DeliverUnlinkEnvelope, Unlink, Goto,
           FilterSuffix, history, PC, WritePC, HoldPC, Suffix
  <1>2. Exclusive'
    BY DEF Inv, TypeOK, Exclusive, Owns, ActorInv, WriterInv, HolderInv,
           MessageInv, DeliverUnlinkEnvelope, Unlink, Goto, FilterSuffix,
           history, WritePC, HoldPC
  <1>3. ASSUME NEW j \in Id PROVE MessageInv(j)'
    BY DEF Inv, TypeOK, ActorInv, WriterInv, HolderInv, MessageInv,
           DeliverUnlinkEnvelope, Unlink, Goto, FilterSuffix, history,
           WritePC, HoldPC
  <1>4. ASSUME NEW b \in Actor PROVE ActorInv(b)'
    BY DEF Inv, TypeOK, Exclusive, Owns, ActorInv, WriterInv, HolderInv,
           MessageInv, DeliverUnlinkEnvelope, Unlink, Goto, FilterSuffix,
           history, WritePC, HoldPC
  <1> QED BY <1>1, <1>2, <1>3, <1>4 DEF Inv

-----------------------------------------------------------------------------
(* Scanning and locking.                                                   *)

LEMMA ScanInv ==
    ASSUME Inv, NEW f \in Forwarder, Scan(f)
    PROVE  Inv'
  <1> USE DEF Actor
  <1>1. TypeOK'
    BY DEF Inv, TypeOK, ActorInv, Scan, Has, Goto, files, history, PC,
           WritePC, HoldPC, Suffix
  <1>2. Exclusive'
    BY DEF Inv, TypeOK, Exclusive, Owns, ActorInv, WriterInv, HolderInv,
           MessageInv, Scan, Has, Goto, files, history, WritePC, HoldPC
  <1>3. ASSUME NEW j \in Id PROVE MessageInv(j)'
    BY DEF Inv, TypeOK, ActorInv, WriterInv, HolderInv, MessageInv, Scan, Has,
           Goto, files, history, WritePC, HoldPC
  <1>4. ASSUME NEW b \in Actor PROVE ActorInv(b)'
    BY DEF Inv, TypeOK, Exclusive, Owns, ActorInv, WriterInv, HolderInv,
           MessageInv, Scan, Has, Goto, files, history, WritePC, HoldPC
  <1> QED BY <1>1, <1>2, <1>3, <1>4 DEF Inv

LEMMA EndScanInv ==
    ASSUME Inv, NEW f \in Forwarder, EndScan(f)
    PROVE  Inv'
  <1> USE DEF Actor
  <1>1. TypeOK'
    BY DEF Inv, TypeOK, ActorInv, EndScan, Goto, files, history, PC, WritePC,
           HoldPC, Suffix
  <1>2. Exclusive'
    BY DEF Inv, TypeOK, Exclusive, Owns, ActorInv, WriterInv, HolderInv,
           MessageInv, EndScan, Goto, files, history, WritePC, HoldPC
  <1>3. ASSUME NEW j \in Id PROVE MessageInv(j)'
    BY DEF Inv, TypeOK, ActorInv, WriterInv, HolderInv, MessageInv, EndScan,
           Goto, files, history, WritePC, HoldPC
  <1>4. ASSUME NEW b \in Actor PROVE ActorInv(b)'
    BY DEF Inv, TypeOK, Exclusive, Owns, ActorInv, WriterInv, HolderInv,
           MessageInv, EndScan, Goto, files, history, WritePC, HoldPC
  <1> QED BY <1>1, <1>2, <1>3, <1>4 DEF Inv

LEMMA LockNextInv ==
    ASSUME Inv, NEW f \in Forwarder, NEW i \in Id, LockNext(f, i)
    PROVE  Inv'
  <1> USE DEF Actor
  <1>1. TypeOK'
    BY DEF Inv, TypeOK, ActorInv, LockNext, Has, Rename, Goto, history, PC,
           WritePC, HoldPC, Suffix
  <1>2. Exclusive'
    BY DEF Inv, TypeOK, Exclusive, Owns, ActorInv, WriterInv, HolderInv,
           MessageInv, LockNext, Has, Rename, Goto, history, WritePC, HoldPC
  <1>3. ASSUME NEW j \in Id PROVE MessageInv(j)'
    <2>1. CASE j = i /\ "normal" \in envelope[j]
      <3>1. envelope[j] = {"normal"} /\ envelope'[j] = {"busy"}
        BY <2>1 DEF Inv, TypeOK, ActorInv, WriterInv, HolderInv, MessageInv,
               LockNext, Has, Rename, Goto, history, WritePC, HoldPC
      <3> QED
        BY <2>1, <3>1 DEF Inv, TypeOK, ActorInv, WriterInv, HolderInv,
               MessageInv, LockNext, Has, Rename, Goto, history, WritePC, HoldPC
    <2>2. CASE ~ (j = i /\ "normal" \in envelope[j])
      BY <2>2 DEF Inv, TypeOK, ActorInv, WriterInv, HolderInv, MessageInv,
             LockNext, Has, Rename, Goto, history, WritePC, HoldPC
    <2> QED BY <2>1, <2>2
  <1>4. ASSUME NEW b \in Actor PROVE ActorInv(b)'
    BY DEF Inv, TypeOK, Exclusive, Owns, ActorInv, WriterInv, HolderInv,
           MessageInv, LockNext, Has, Rename, Goto, history, WritePC, HoldPC
  <1> QED BY <1>1, <1>2, <1>3, <1>4 DEF Inv

-----------------------------------------------------------------------------
(* The administrator and the operating system.                             *)

LEMMA UnfailInv ==
    ASSUME Inv, NEW i \in Id, Unfail(i)
    PROVE  Inv'
  <1> USE DEF Actor
  <1>1. TypeOK'
    BY DEF Inv, TypeOK, ActorInv, Unfail, Has, Rename, history, PC, WritePC,
           HoldPC, Suffix
  <1>2. Exclusive'
    BY DEF Inv, TypeOK, Exclusive, Owns, ActorInv, WriterInv, HolderInv,
           MessageInv, Unfail, Has, Rename, history, WritePC, HoldPC
  <1>3. ASSUME NEW j \in Id PROVE MessageInv(j)'
    BY DEF Inv, TypeOK, ActorInv, WriterInv, HolderInv, MessageInv, Unfail,
           Has, Rename, history, WritePC, HoldPC
  <1>4. ASSUME NEW b \in Actor PROVE ActorInv(b)'
    BY DEF Inv, TypeOK, Exclusive, Owns, ActorInv, WriterInv, HolderInv,
           MessageInv, Unfail, Has, Rename, history, WritePC, HoldPC
  <1> QED BY <1>1, <1>2, <1>3, <1>4 DEF Inv

LEMMA CrashInv ==
    ASSUME Inv, NEW p \in Process, Crash(p)
    PROVE  Inv'
  <1> USE DEF Actor
  <1>1. TypeOK'
    <2>1. \A a \in Actor : Owns(a) => msg[a] \in Id
      BY DEF Inv, TypeOK, Exclusive, ActorInv, WriterInv, HolderInv, Owns, WritePC, HoldPC
    <2>2. orphaned' \subseteq Id
      BY <2>1 DEF Inv, TypeOK, Crash
    <2>3. QED
      BY <2>2 DEF Inv, TypeOK, ActorInv, Crash, files, PC, WritePC, HoldPC, Suffix
  <1>2. Exclusive'
    BY DEF Inv, TypeOK, Exclusive, Owns, ActorInv, WriterInv, HolderInv,
           MessageInv, Crash, files, history, WritePC, HoldPC
  <1>3. ASSUME NEW j \in Id PROVE MessageInv(j)'
    BY DEF Inv, TypeOK, ActorInv, WriterInv, HolderInv, MessageInv, Crash,
           files, history, WritePC, HoldPC
  <1>4. ASSUME NEW b \in Actor PROVE ActorInv(b)'
    BY DEF Inv, TypeOK, Exclusive, Owns, ActorInv, WriterInv, HolderInv,
           MessageInv, Crash, files, history, WritePC, HoldPC
  <1> QED BY <1>1, <1>2, <1>3, <1>4 DEF Inv

-----------------------------------------------------------------------------
(* Every step keeps the invariant.                                         *)

LEMMA StepInv == Inv /\ [Next]_vars => Inv'
  <1> SUFFICES ASSUME Inv, [Next]_vars PROVE Inv'
    OBVIOUS
  <1>1. ASSUME NEW s \in Session, SessionStep(s) PROVE Inv'
    BY <1>1, PrepareInv, AbortInv, FilterOkInv, FilterAbandonInv,
       FilterRejectInv, CleanEnvelopeInv, CleanContentInv, AcknowledgeInv,
       GetInv, NothingToDoInv DEF SessionStep
  <1>2. ASSUME NEW a \in Actor, HolderStep(a) PROVE Inv'
    BY <1>2, UnlockInv, StartClientFilterInv, ClientFilterOkInv,
       ClientFilterAbandonInv, SentToAllInv, DestroyEnvelopeInv,
       DestroyContentInv, SentToSomeInv, EditWriteInv, EditReplaceInv,
       EditErrorInv, FailReasonInv, FailRenameInv DEF HolderStep
  <1>3. ASSUME NEW a \in Actor, FilterStep(a) PROVE Inv'
    BY <1>3, ScriptUnlinkEnvelopeInv, ScriptUnlinkContentInv,
       DeliverUnlinkContentInv, DeliverUnlinkEnvelopeInv DEF FilterStep
  <1>4. ASSUME NEW f \in Forwarder, ScanStep(f) PROVE Inv'
    BY <1>4, ScanInv, EndScanInv, LockNextInv DEF ScanStep
  <1>5. CASE UNCHANGED vars
    BY <1>5 DEF vars, Inv, TypeOK, Exclusive, Owns, MessageInv, ActorInv,
                WriterInv, HolderInv
  <1> QED
    BY <1>1, <1>2, <1>3, <1>4, <1>5, NewMessageInv, UnfailInv, CrashInv DEF Next

LEMMA InitInv == Init => Inv
  BY DEF Init, Inv, TypeOK, Exclusive, Owns, MessageInv, ActorInv, PC, WritePC,
         HoldPC, Suffix

LEMMA Invariance == Spec => []Inv
  BY InitInv, StepInv, PTL DEF Spec

-----------------------------------------------------------------------------
(* The theorems.                                                           *)

\* Every variable keeps its type.
THEOREM TypeCorrect == Spec => []TypeOK
  <1>1. Inv => TypeOK
    BY DEF Inv
  <1> QED BY <1>1, Invariance, PTL

\* No two message objects, in one process or in several, ever own the same
\* message: the rename in StoredFile::lock and the fresh id of NewFile are
\* enough, however many sessions, forwarders, processes and crashes there are.
THEOREM MutualExclusion == Spec => []Exclusive
  <1>1. Inv => Exclusive
    BY DEF Inv
  <1> QED BY <1>1, Invariance, PTL

\* A message has at most one envelope, so no two of the scan, unfail-all and
\* the lock holder can each have a version of it, and none of them finds an
\* envelope whose content is missing or half written, nor a failed message
\* without its reason.
THEOREM EnvelopesAreSound == Spec => []EnvelopeInv
  <1>1. Inv => OneEnvelope
    BY DEF Inv, MessageInv, OneEnvelope
  <1>2. Inv => VisibleIsComplete
    BY DEF Inv, MessageInv, VisibleIsComplete, Has
  <1> QED BY <1>1, <1>2, Invariance, PTL DEF EnvelopeInv

\* An acknowledged message survives every crash until it is sent to all its
\* recipients or a filter disposes of it.
THEOREM AcceptedIsNotLost == Spec => []NoAcceptedLoss
  <1>1. Inv => NoAcceptedLoss
    BY DEF Inv, TypeOK, MessageInv, NoAcceptedLoss
  <1> QED BY <1>1, Invariance, PTL

\* A message that was sent to all its recipients never becomes visible again.
THEOREM SentOnce == Spec => []SentIsNotRequeued
  <1>1. Inv => SentIsNotRequeued
    BY DEF Inv, MessageInv, SentIsNotRequeued
  <1> QED BY <1>1, Invariance, PTL

-----------------------------------------------------------------------------
(* FileStore implements Spool: each file operation is one step in the life *)
(* of one message, or none.                                                *)

Simulated == [Store!SpoolNext]_(Store!spoolVars)

\* the case analysis of statusBar, for one message
statusOf(e, p) ==
    IF "normal" \in e THEN "queued"
    ELSE IF "busy" \in e THEN "held"
    ELSE IF "bad" \in e THEN "failed"
    ELSE IF p THEN "gone" ELSE "unpublished"

LEMMA StatusBar ==
    /\ statusBar  = [i \in Id |-> statusOf(envelope[i], i \in published)]
    /\ statusBar' = [i \in Id |-> statusOf(envelope'[i], i \in published')]
  BY DEF statusBar, statusOf, Has

\* Nothing the abstract store can see changes.
LEMMA Stutter ==
    ASSUME UNCHANGED <<envelope, published, sends>>
    PROVE  Simulated
  BY DEF Simulated, Store!spoolVars, statusBar, Has

\* At most one message changes, and as the abstract store allows.
OnlyChanges(i) ==
    /\ \A j \in Id \ {i} : /\ envelope'[j] = envelope[j]
                           /\ (j \in published') <=> (j \in published)
    /\ UNCHANGED sends

Moves(i, x, y) == /\ statusOf(envelope[i], i \in published) = x
                  /\ statusOf(envelope'[i], i \in published') = y

LEMMA Moving ==
    ASSUME NEW i \in Id, NEW x, NEW y, OnlyChanges(i), Moves(i, x, y)
    PROVE  IF x = y THEN UNCHANGED Store!spoolVars ELSE Store!Move(i, x, y)
  <1>1. \A j \in Id : statusBar'[j] = IF j = i THEN y ELSE statusBar[j]
    <2>1. statusBar'[i] = y
      BY StatusBar DEF Moves
    <2>2. ASSUME NEW j \in Id \ {i} PROVE statusBar'[j] = statusBar[j]
      <3>1. /\ envelope'[j] = envelope[j]
            /\ (j \in published') <=> (j \in published)
        BY DEF OnlyChanges
      <3>2. /\ statusBar[j]  = statusOf(envelope[j], j \in published)
            /\ statusBar'[j] = statusOf(envelope'[j], j \in published')
        BY StatusBar
      <3> QED BY <3>1, <3>2 DEF statusOf
    <2> QED BY <2>1, <2>2
  <1>2. statusBar[i] = x
    BY StatusBar DEF Moves
  <1>3. statusBar' = [statusBar EXCEPT ![i] = y]
    BY <1>1, StatusBar
  <1>4. x = y => statusBar' = statusBar
    BY <1>1, <1>2, StatusBar
  <1> QED BY <1>2, <1>3, <1>4 DEF OnlyChanges, Store!Move, Store!spoolVars

\* The moves of Spool, and staying where it is.
LEMMA SimulatedMove ==
    ASSUME NEW i \in Id, OnlyChanges(i),
           \/ Moves(i, "unpublished", "queued")
           \/ Moves(i, "queued", "held")
           \/ Moves(i, "held", "queued") /\ sends[i] = 0
           \/ Moves(i, "held", "failed") /\ sends[i] = 0
           \/ Moves(i, "failed", "queued")
           \/ Moves(i, "held", "gone")
           \/ \E x : Moves(i, x, x)
    PROVE  Simulated
  <1>1. CASE Moves(i, "unpublished", "queued")
    BY <1>1, Moving DEF Simulated, Store!SpoolNext, Store!Publish
  <1>2. CASE Moves(i, "queued", "held")
    BY <1>2, Moving DEF Simulated, Store!SpoolNext, Store!Take
  <1>3. CASE Moves(i, "held", "queued") /\ sends[i] = 0
    BY <1>3, Moving DEF Simulated, Store!SpoolNext, Store!Release
  <1>4. CASE Moves(i, "held", "failed") /\ sends[i] = 0
    BY <1>4, Moving DEF Simulated, Store!SpoolNext, Store!Fail
  <1>5. CASE Moves(i, "failed", "queued")
    BY <1>5, Moving DEF Simulated, Store!SpoolNext, Store!Retry
  <1>6. CASE Moves(i, "held", "gone")
    BY <1>6, Moving DEF Simulated, Store!SpoolNext, Store!Remove
  <1>7. CASE \E x : Moves(i, x, x)
    BY <1>7, Moving DEF Simulated
  <1> QED BY <1>1, <1>2, <1>3, <1>4, <1>5, <1>6, <1>7

LEMMA PrepareStep ==
    ASSUME Inv, NEW s \in Session, Prepare(s)
    PROVE  Simulated
  <1> USE DEF Actor
  <1>1. msg[s] \in Id
    BY DEF Inv, ActorInv, Prepare, WritePC, HoldPC
  <1>2. OnlyChanges(msg[s])
    BY <1>1, SMT DEF OnlyChanges, Inv, TypeOK, Prepare, SetContent, Goto,
           history
  <1>3. \E x : Moves(msg[s], x, x)
    BY <1>1, SMT DEF Moves, statusOf, Inv, TypeOK, ActorInv, WriterInv,
           HolderInv, MessageInv, Prepare, SetContent, Goto, history, WritePC,
           HoldPC
  <1> QED BY <1>1, <1>2, <1>3, SimulatedMove

LEMMA FilterOkStep ==
    ASSUME Inv, NEW s \in Session, FilterOk(s)
    PROVE  Simulated
  <1> USE DEF Actor
  <1>1. msg[s] \in Id
    BY DEF Inv, ActorInv, FilterOk, WritePC, HoldPC
  <1>2. OnlyChanges(msg[s])
    BY <1>1, SMT DEF OnlyChanges, Inv, TypeOK, FilterOk, Has, Rename, Goto,
           Finish
  <1>3. \/ Moves(msg[s], "unpublished", "queued")
        \/ \E x : Moves(msg[s], x, x)
    BY <1>1, SMT DEF Moves, statusOf, Inv, TypeOK, ActorInv, WriterInv,
           HolderInv, MessageInv, FilterOk, Has, Rename, Goto, Finish,
           WritePC, HoldPC
  <1> QED BY <1>1, <1>2, <1>3, SimulatedMove

LEMMA FilterAbandonStep ==
    ASSUME Inv, NEW s \in Session, FilterAbandon(s)
    PROVE  Simulated
  <1> USE DEF Actor
  <1>1. msg[s] \in Id
    BY DEF Inv, ActorInv, FilterAbandon, WritePC, HoldPC
  <1>2. OnlyChanges(msg[s])
    BY <1>1, SMT DEF OnlyChanges, Inv, TypeOK, FilterAbandon, Has, Rename,
           Goto, Finish
  <1>3. \/ Moves(msg[s], "unpublished", "queued")
        \/ \E x : Moves(msg[s], x, x)
    BY <1>1, SMT DEF Moves, statusOf, Inv, TypeOK, ActorInv, WriterInv,
           HolderInv, MessageInv, FilterAbandon, Has, Rename, Goto, Finish,
           WritePC, HoldPC
  <1> QED BY <1>1, <1>2, <1>3, SimulatedMove

LEMMA CleanEnvelopeStep ==
    ASSUME Inv, NEW s \in Session, CleanEnvelope(s)
    PROVE  Simulated
  <1> USE DEF Actor
  <1>1. msg[s] \in Id
    BY DEF Inv, ActorInv, CleanEnvelope, WritePC, HoldPC
  <1>2. OnlyChanges(msg[s])
    BY <1>1, SMT DEF OnlyChanges, Inv, TypeOK, CleanEnvelope, Unlink, Goto,
           history
  <1>3. \E x : Moves(msg[s], x, x)
    BY <1>1, SMT DEF Moves, statusOf, Inv, TypeOK, ActorInv, WriterInv,
           HolderInv, MessageInv, CleanEnvelope, Unlink, Goto, history,
           WritePC, HoldPC
  <1> QED BY <1>1, <1>2, <1>3, SimulatedMove

LEMMA GetStep ==
    ASSUME Inv, NEW s \in Session, Get(s)
    PROVE  Simulated
  <1> USE DEF Actor
  <1>1. msg[s] \in Id
    BY DEF Inv, ActorInv, Get, WritePC, HoldPC
  <1>2. OnlyChanges(msg[s])
    BY <1>1, SMT DEF OnlyChanges, Inv, TypeOK, Get, Has, Rename, Goto, Finish,
           history
  <1>3. \/ Moves(msg[s], "queued", "held")
        \/ \E x : Moves(msg[s], x, x)
    BY <1>1, SMT DEF Moves, statusOf, Inv, TypeOK, ActorInv, WriterInv,
           HolderInv, MessageInv, Get, Has, Rename, Goto, Finish, history,
           WritePC, HoldPC
  <1> QED BY <1>1, <1>2, <1>3, SimulatedMove

LEMMA LockNextStep ==
    ASSUME Inv, NEW f \in Forwarder, NEW i \in Id, LockNext(f, i)
    PROVE  Simulated
  <1> USE DEF Actor
  <1>2. OnlyChanges(i)
    BY SMT DEF OnlyChanges, Inv, TypeOK, LockNext, Has, Rename, Goto, history
  <1>3. \/ Moves(i, "queued", "held")
        \/ \E x : Moves(i, x, x)
    BY SMT DEF Moves, statusOf, Inv, TypeOK, ActorInv, WriterInv, HolderInv,
           MessageInv, LockNext, Has, Rename, Goto, history, WritePC, HoldPC
  <1> QED BY <1>2, <1>3, SimulatedMove

LEMMA NothingToDoStep ==
    ASSUME Inv, NEW s \in Session, NothingToDo(s)
    PROVE  Simulated
  <1> USE DEF Actor
  <1>1. msg[s] \in Id
    BY DEF Inv, ActorInv, NothingToDo, WritePC, HoldPC
  <1>2. OnlyChanges(msg[s])
    BY <1>1, SMT DEF OnlyChanges, Inv, TypeOK, NothingToDo, Rename, Goto, Finish
  <1>3. \/ Moves(msg[s], "held", "queued") /\ sends[msg[s]] = 0
        \/ \E x : Moves(msg[s], x, x)
    BY <1>1, SMT DEF Moves, statusOf, Inv, TypeOK, ActorInv, WriterInv,
           HolderInv, MessageInv, NothingToDo, Rename, Goto, Finish, WritePC,
           HoldPC
  <1> QED BY <1>1, <1>2, <1>3, SimulatedMove

LEMMA UnlockStep ==
    ASSUME Inv, NEW a \in Actor, Unlock(a)
    PROVE  Simulated
  <1> USE DEF Actor
  <1>1. msg[a] \in Id
    BY DEF Inv, ActorInv, Unlock, WritePC, HoldPC
  <1>2. OnlyChanges(msg[a])
    BY <1>1, SMT DEF OnlyChanges, Inv, TypeOK, Unlock, Has, Rename, Goto,
           Finish, history
  <1>3. \/ Moves(msg[a], "held", "queued") /\ sends[msg[a]] = 0
        \/ \E x : Moves(msg[a], x, x)
    BY <1>1, SMT DEF Moves, statusOf, Inv, TypeOK, ActorInv, WriterInv,
           HolderInv, MessageInv, Unlock, Has, Rename, Goto, Finish, history,
           WritePC, HoldPC
  <1> QED BY <1>1, <1>2, <1>3, SimulatedMove

LEMMA ClientFilterAbandonStep ==
    ASSUME Inv, NEW a \in Actor, ClientFilterAbandon(a)
    PROVE  Simulated
  <1> USE DEF Actor
  <1>1. msg[a] \in Id
    BY DEF Inv, ActorInv, ClientFilterAbandon, WritePC, HoldPC
  <1>2. OnlyChanges(msg[a])
    BY <1>1, SMT DEF OnlyChanges, Inv, TypeOK, ClientFilterAbandon, Has,
           Rename, Goto, Finish
  <1>3. \/ Moves(msg[a], "held", "queued") /\ sends[msg[a]] = 0
        \/ \E x : Moves(msg[a], x, x)
    BY <1>1, SMT DEF Moves, statusOf, Inv, TypeOK, ActorInv, WriterInv,
           HolderInv, MessageInv, ClientFilterAbandon, Has, Rename, Goto,
           Finish, WritePC, HoldPC
  <1> QED BY <1>1, <1>2, <1>3, SimulatedMove

LEMMA EditWriteStep ==
    ASSUME Inv, NEW a \in Actor, EditWrite(a)
    PROVE  Simulated
  <1> USE DEF Actor
  <1>1. msg[a] \in Id
    BY DEF Inv, ActorInv, EditWrite, WritePC, HoldPC
  <1>2. OnlyChanges(msg[a])
    BY <1>1, SMT DEF OnlyChanges, Inv, TypeOK, EditWrite, Goto, history
  <1>3. \E x : Moves(msg[a], x, x)
    BY <1>1, SMT DEF Moves, statusOf, Inv, TypeOK, ActorInv, WriterInv,
           HolderInv, MessageInv, EditWrite, Goto, history, WritePC, HoldPC
  <1> QED BY <1>1, <1>2, <1>3, SimulatedMove

LEMMA EditReplaceStep ==
    ASSUME Inv, NEW a \in Actor, EditReplace(a)
    PROVE  Simulated
  <1> USE DEF Actor
  <1>1. msg[a] \in Id
    BY DEF Inv, ActorInv, EditReplace, WritePC, HoldPC
  <1>2. OnlyChanges(msg[a])
    BY <1>1, SMT DEF OnlyChanges, Inv, TypeOK, EditReplace, Rename, Goto,
           history
  <1>3. \E x : Moves(msg[a], x, x)
    BY <1>1, SMT DEF Moves, statusOf, Inv, TypeOK, ActorInv, WriterInv,
           HolderInv, MessageInv, EditReplace, Rename, Goto, history, WritePC,
           HoldPC
  <1> QED BY <1>1, <1>2, <1>3, SimulatedMove

LEMMA EditErrorStep ==
    ASSUME Inv, NEW a \in Actor, EditError(a)
    PROVE  Simulated
  <1> USE DEF Actor
  <1>1. msg[a] \in Id
    BY DEF Inv, ActorInv, EditError, WritePC, HoldPC
  <1>2. OnlyChanges(msg[a])
    BY <1>1, SMT DEF OnlyChanges, Inv, TypeOK, EditError, Unlink, Goto, history
  <1>3. \E x : Moves(msg[a], x, x)
    BY <1>1, SMT DEF Moves, statusOf, Inv, TypeOK, ActorInv, WriterInv,
           HolderInv, MessageInv, EditError, Unlink, Goto, history, WritePC,
           HoldPC
  <1> QED BY <1>1, <1>2, <1>3, SimulatedMove

LEMMA DestroyEnvelopeStep ==
    ASSUME Inv, NEW a \in Actor, DestroyEnvelope(a)
    PROVE  Simulated
  <1> USE DEF Actor
  <1>1. msg[a] \in Id
    BY DEF Inv, ActorInv, DestroyEnvelope, WritePC, HoldPC
  <1>2. OnlyChanges(msg[a])
    BY <1>1, SMT DEF OnlyChanges, Inv, TypeOK, DestroyEnvelope, Unlink, Goto,
           history
  <1>3. \/ Moves(msg[a], "held", "gone")
        \/ \E x : Moves(msg[a], x, x)
    BY <1>1, SMT DEF Moves, statusOf, Inv, TypeOK, ActorInv, WriterInv,
           HolderInv, MessageInv, DestroyEnvelope, Unlink, Goto, history,
           WritePC, HoldPC
  <1> QED BY <1>1, <1>2, <1>3, SimulatedMove

LEMMA ScriptUnlinkEnvelopeStep ==
    ASSUME Inv, NEW a \in Actor, ScriptUnlinkEnvelope(a)
    PROVE  Simulated
  <1> USE DEF Actor
  <1>1. msg[a] \in Id
    BY DEF Inv, ActorInv, ScriptUnlinkEnvelope, FilterRunning, WritePC, HoldPC
  <1>2. OnlyChanges(msg[a])
    BY <1>1, SMT DEF OnlyChanges, Inv, TypeOK, ScriptUnlinkEnvelope, Has,
           Unlink, FilterRunning, FilterSuffix
  <1>3. \/ Moves(msg[a], "held", "gone")
        \/ \E x : Moves(msg[a], x, x)
    BY <1>1, SMT DEF Moves, statusOf, Inv, TypeOK, ActorInv, WriterInv,
           HolderInv, MessageInv, ScriptUnlinkEnvelope, Has, Unlink,
           FilterRunning, FilterSuffix, WritePC, HoldPC
  <1> QED BY <1>1, <1>2, <1>3, SimulatedMove

LEMMA DeliverUnlinkEnvelopeStep ==
    ASSUME Inv, NEW a \in Actor, DeliverUnlinkEnvelope(a)
    PROVE  Simulated
  <1> USE DEF Actor
  <1>1. msg[a] \in Id
    BY DEF Inv, ActorInv, DeliverUnlinkEnvelope, WritePC, HoldPC
  <1>2. OnlyChanges(msg[a])
    BY <1>1, SMT DEF OnlyChanges, Inv, TypeOK, DeliverUnlinkEnvelope, Unlink,
           Goto, FilterSuffix, history
  <1>3. \/ Moves(msg[a], "held", "gone")
        \/ \E x : Moves(msg[a], x, x)
    <2>1. CASE pc[a] = "delivering"
      <3>1. envelope'[msg[a]] = envelope[msg[a]] \ {"new"} /\ UNCHANGED published
        BY <1>1, <2>1, SMT DEF Inv, TypeOK, DeliverUnlinkEnvelope, Unlink, FilterSuffix, history
      <3>2. Moves(msg[a], statusOf(envelope[msg[a]], msg[a] \in published),
                          statusOf(envelope[msg[a]], msg[a] \in published))
        BY <3>1, SMT DEF Moves, statusOf
      <3> QED BY <3>2
    <2>2. CASE pc[a] = "clientDelivering"
      BY <1>1, <2>2, SMT DEF Moves, statusOf, Inv, TypeOK, ActorInv, HolderInv,
             MessageInv, DeliverUnlinkEnvelope, Unlink, FilterSuffix, history, HoldPC
    <2> QED BY <2>1, <2>2 DEF DeliverUnlinkEnvelope
  <1> QED BY <1>1, <1>2, <1>3, SimulatedMove

LEMMA FailRenameStep ==
    ASSUME Inv, NEW a \in Actor, FailRename(a)
    PROVE  Simulated
  <1> USE DEF Actor
  <1>1. msg[a] \in Id
    BY DEF Inv, ActorInv, FailRename, WritePC, HoldPC
  <1>2. OnlyChanges(msg[a])
    BY <1>1, SMT DEF OnlyChanges, Inv, TypeOK, FailRename, Rename, Goto,
           Finish, history
  <1>3. Moves(msg[a], "held", "failed") /\ sends[msg[a]] = 0
    BY <1>1, SMT DEF Moves, statusOf, Inv, TypeOK, ActorInv, WriterInv,
           HolderInv, MessageInv, FailRename, Rename, Goto, Finish, history,
           WritePC, HoldPC
  <1> QED BY <1>1, <1>2, <1>3, SimulatedMove

LEMMA UnfailStep ==
    ASSUME Inv, NEW i \in Id, Unfail(i)
    PROVE  Simulated
  <1> USE DEF Actor
  <1>2. OnlyChanges(i)
    BY SMT DEF OnlyChanges, Inv, TypeOK, Unfail, Has, Rename, history
  <1>3. Moves(i, "failed", "queued")
    BY SMT DEF Moves, statusOf, Inv, TypeOK, ActorInv, WriterInv, HolderInv,
           MessageInv, Unfail, Has, Rename, history, WritePC, HoldPC
  <1> QED BY <1>2, <1>3, SimulatedMove

LEMMA SentToAllStep ==
    ASSUME Inv, NEW a \in Actor, SentToAll(a)
    PROVE  Simulated
  <1>1. msg[a] \in Id /\ sends[msg[a]] = 0 /\ "busy" \in envelope[msg[a]]
    BY DEF Inv, ActorInv, HolderInv, SentToAll, HoldPC
  <1>2. statusBar[msg[a]] = "held" /\ UNCHANGED statusBar
    BY <1>1 DEF statusBar, Has, Inv, ActorInv, HolderInv, SentToAll, HoldPC, files
  <1>3. sends' = [sends EXCEPT ![msg[a]] = 1]
    BY <1>1 DEF SentToAll, Inv, TypeOK
  <1> QED BY <1>1, <1>2, <1>3 DEF Simulated, Store!SpoolNext, Store!Deliver

LEMMA Simulation == Inv /\ [Next]_vars => Simulated
  <1> SUFFICES ASSUME Inv, [Next]_vars PROVE Simulated
    OBVIOUS
  <1>1. ASSUME NEW s \in Session, SessionStep(s) PROVE Simulated
    <2>1. CASE Abort(s) \/ FilterReject(s) \/ CleanContent(s) \/ Acknowledge(s)
      BY <2>1, Stutter DEF Abort, FilterReject, CleanContent, Acknowledge, files,
                           history
    <2> QED
      BY <1>1, <2>1, PrepareStep, FilterOkStep, FilterAbandonStep,
         CleanEnvelopeStep, GetStep, NothingToDoStep DEF SessionStep
  <1>2. ASSUME NEW a \in Actor, HolderStep(a) PROVE Simulated
    <2>1. CASE \/ StartClientFilter(a) \/ ClientFilterOk(a) \/ DestroyContent(a)
               \/ SentToSome(a) \/ FailReason(a)
      BY <2>1, Stutter DEF StartClientFilter, ClientFilterOk, DestroyContent,
                           SentToSome, FailReason, files, history
    <2> QED
      BY <1>2, <2>1, UnlockStep, ClientFilterAbandonStep, SentToAllStep,
         DestroyEnvelopeStep, EditWriteStep, EditReplaceStep, EditErrorStep,
         FailRenameStep DEF HolderStep
  <1>3. ASSUME NEW a \in Actor, FilterStep(a) PROVE Simulated
    <2>1. CASE ScriptUnlinkContent(a) \/ DeliverUnlinkContent(a)
      BY <2>1, Stutter DEF ScriptUnlinkContent, DeliverUnlinkContent, history
    <2> QED
      BY <1>3, <2>1, ScriptUnlinkEnvelopeStep, DeliverUnlinkEnvelopeStep
      DEF FilterStep
  <1>4. ASSUME NEW f \in Forwarder, ScanStep(f) PROVE Simulated
    <2>1. CASE Scan(f) \/ EndScan(f)
      BY <2>1, Stutter DEF Scan, EndScan, files, history
    <2> QED BY <1>4, <2>1, LockNextStep DEF ScanStep
  <1>5. CASE UNCHANGED vars \/ \E p \in Process : Crash(p)
    BY <1>5, Stutter DEF vars, Crash, files, history
  <1>6. ASSUME NEW s \in Session, NEW i \in Id, NewMessage(s, i) PROVE Simulated
    BY <1>6, Stutter DEF NewMessage, history
  <1> QED
    BY <1>1, <1>2, <1>3, <1>4, <1>5, <1>6, UnfailStep DEF Next

\* FileStore implements Spool: whatever the crashes and interleavings, a
\* message is published once, held by one at a time, delivered at most once
\* and never put back after that.
THEOREM Refinement == Spec => ImplementsSpool
  <1>1. Init => Store!SpoolInit
    BY DEF Init, Store!SpoolInit, statusBar, Has
  <1> QED
    BY <1>1, Simulation, Invariance, PTL
    DEF Spec, ImplementsSpool, Store!SpoolSpec, Simulated
=============================================================================
