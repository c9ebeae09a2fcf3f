------------------------------ MODULE NetProofs ------------------------------
(***************************************************************************)
(* The two components below the protocols, which know nothing of each      *)
(* other.                                                                  *)
(*                                                                         *)
(* The event loop: that its lists never point to what is gone, that the    *)
(* cached timer is the soonest one, and that an event goes to the object   *)
(* that waited for it, for any number of objects, descriptors and timers   *)
(* and whatever their handlers do while the lists are gone through.        *)
(*                                                                         *)
(* The input of a server connection: that what the protocol is given is    *)
(* what a reader of the whole stream makes of it, for any streams and      *)
(* however they are cut into pieces.                                       *)
(***************************************************************************)
EXTENDS EventLoop, ServerInput, FiniteSetTheorems, SequenceTheorems, WellFoundedInduction, TLAPS

\* What belongs to an object goes with it.  No timer is cached during a pass, when timers
\* that have expired are still marked as active.
OwnedInv ==
    /\ \A o \in Object : active[o] => o \in Alive
    /\ \A o \in Alive : handler[fd[o]] = o
    /\ phase = "timer" => soonest = Null

\* What is in hand when the events' turn has come: its object still waits for it, or it is
\* suppressed.
HarvestInv ==
    phase = "event" => \A e \in harvest :
        e.holder # Null => \/ e.kind \in suppress[e.fd]
                           \/ handler[e.fd] = e.holder /\ e.kind \in interest[e.fd]

Inv == TypeOK /\ NoneDangling /\ SoonestIsRight /\ OwnedInv /\ HarvestInv

-----------------------------------------------------------------------------
(* What a handler does.                                                    *)

\* The constants.
LEMMA Constants ==
    /\ Null \notin Object /\ Null \notin Fd /\ IsFiniteSet(Object) /\ Cardinality(Object) \in Nat
    /\ Base \in Nat \ {0} /\ MaxClock \in Nat /\ Base <= MaxClock /\ MaxOps \in Nat
    /\ \A d \in Delays : d \in Nat /\ Base + d <= MaxClock
  BY ConstantsAssumption, FS_CardinalityType

\* The objects that exist when only their timers change.
LEMMA SameAlive == ASSUME fd' = fd PROVE Alive' = Alive
  BY DEF Alive

\* An object is deleted, by another one's handler or by its owner.
LEMMA DeleteInv ==
    ASSUME Inv, NEW o \in Alive, Delete(o), ops' \in 0..MaxOps,
           current' \in {current, Null}, current' # o,
           UNCHANGED <<adjust, phase, now, harvest, clock>>
    PROVE  Inv'
  <1> USE Constants DEF Delete, Drop, RemoveTimer, Stop
  <1>1. o \in Object /\ fd[o] \in Fd /\ handler[fd[o]] = o
    BY DEF Alive, Inv, OwnedInv
  <1>2. Alive' = Alive \ {o}
    BY <1>1 DEF Alive, Inv, TypeOK
  <1>3. \A p \in Alive : p \in Object /\ (p # o => fd'[p] = fd[p] /\ fd[p] # fd[o])
    BY <1>1 DEF Alive, Inv, TypeOK, OwnedInv
  <1>4. /\ expired' \in Seq(Object \cup {Null}) /\ Len(expired') = Len(expired)
        /\ DOMAIN expired' = DOMAIN expired
        /\ \A i \in DOMAIN expired : expired'[i] = IF expired[i] = o THEN Null ELSE expired[i]
    <2>1. expired \in Seq(Object \cup {Null}) /\ DOMAIN expired = 1..Len(expired) /\ Len(expired) \in Nat
      BY DEF Inv, TypeOK
    <2>2. \A i \in 1..Len(expired) : (IF expired[i] = o THEN Null ELSE expired[i]) \in Object \cup {Null}
      BY <2>1
    <2> QED BY <2>1, <2>2
  <1>5. TypeOK'
    <2>1. phase' # "timer" => added' = {} /\ expired' = <<>>
      BY <1>4 DEF Inv, TypeOK
    <2>2. active' \in [Object -> BOOLEAN] /\ time' \in [Object -> 0..MaxClock]
      <3>1. 0 \in 0..MaxClock /\ FALSE \in BOOLEAN
        OBVIOUS
      <3> QED BY <1>1, <3>1 DEF Inv, TypeOK
    <2>3. /\ fd' \in [Object -> Fd \cup {Null}] /\ handler' \in [Fd -> Object \cup {Null}]
          /\ interest' \in [Fd -> SUBSET Kind] /\ suppress' \in [Fd -> SUBSET Kind]
      BY DEF Inv, TypeOK
    <2> QED BY <1>4, <2>1, <2>2, <2>3 DEF Inv, TypeOK
  <1>6. NoneDangling'
    <2>1. (list \cup added)' = Alive'
      BY <1>2 DEF Inv, NoneDangling
    <2>2. \A i \in DOMAIN expired' : expired'[i] \in Alive' \cup {Null}
      BY <1>2, <1>4 DEF Inv, NoneDangling
    <2>3. \A f \in Fd : handler'[f] # Null => fd'[handler'[f]] = f
      BY <1>1 DEF Inv, NoneDangling, TypeOK
    <2>4. current' \in Alive' \cup {Null}
      BY <1>2 DEF Inv, NoneDangling
    <2> QED BY <2>1, <2>2, <2>3, <2>4 DEF NoneDangling
  <1>7. SoonestIsRight'
    BY <1>2, <1>3 DEF Inv, TypeOK, SoonestIsRight
  <1>8. OwnedInv'
    BY <1>2, <1>3 DEF Inv, TypeOK, OwnedInv, Alive
  <1>9. HarvestInv'
    <2>1. \A e \in harvest : e.fd \in Fd /\ e.kind \in Kind
      BY DEF Inv, TypeOK
    <2>2. \A f \in Fd : IF f = fd[o] THEN suppress'[f] = Kind
                        ELSE suppress'[f] = suppress[f] /\ handler'[f] = handler[f] /\ interest'[f] = interest[f]
      BY <1>1 DEF Inv, TypeOK
    <2> QED BY <2>1, <2>2 DEF Inv, HarvestInv
  <1> QED BY <1>5, <1>6, <1>7, <1>8, <1>9 DEF Inv

LEMMA DestroyInv == ASSUME Inv, NEW o \in Object, Destroy(o) PROVE Inv'
  <1>1. o \in Alive /\ o # current /\ Delete(o) /\ ops' = ops + 1 /\ ops < MaxOps /\ ops \in 0..MaxOps
    BY DEF Destroy, Acts, Inv, TypeOK
  <1>2. ops' \in 0..MaxOps
    BY <1>1, Constants
  <1> QED BY <1>1, <1>2, DeleteInv DEF Destroy

LEMMA ThrowInv == ASSUME Inv, Throw PROVE Inv'
  <1>1. current \in Alive /\ current # Null /\ current' = Null /\ ops' \in 0..MaxOps /\ Delete(current)
    BY Constants DEF Throw, Running, Inv, NoneDangling
  <1>2. current' # current
    BY <1>1
  <1> QED BY <1>1, <1>2, DeleteInv DEF Throw

\* A timer is started, again or not.
LEMMA StartTimerInv == ASSUME Inv, NEW o \in Object, NEW d \in Delays, StartTimer(o, d) PROVE Inv'
  <1> USE Constants DEF Acts, epoll, pass
  <1>1. PICK t \in 0..MaxClock : /\ time' = [time EXCEPT ![o] = t] /\ UpdateOnStart(o, t)
                                 /\ adjust' \in 0..Base
    <2>1. CASE d = 0
      <3>1. adjust \in 0..MaxClock /\ adjust + 1 \in 0..Base
        BY <2>1 DEF StartTimer, Inv, TypeOK
      <3> QED BY <2>1, <3>1 DEF StartTimer
    <2>2. CASE d # 0
      <3>1. clock + d \in 0..MaxClock /\ adjust' = adjust
        BY <2>2 DEF StartTimer, Inv, TypeOK
      <3> QED BY <2>2, <3>1 DEF StartTimer, Inv, TypeOK
    <2> QED BY <2>1, <2>2
  <1>2. Alive' = Alive /\ o \in Alive /\ active' = [active EXCEPT ![o] = TRUE]
    BY SameAlive DEF StartTimer
  <1>3. TypeOK'
    BY <1>1, <1>2 DEF StartTimer, UpdateOnStart, Inv, TypeOK
  <1>4. NoneDangling'
    BY <1>2 DEF StartTimer, Inv, NoneDangling
  <1>5. SoonestIsRight'
    <2>1. \A p \in Object : time[p] \in Nat /\ time'[p] = (IF p = o THEN t ELSE time[p])
                            /\ (active'[p] <=> p = o \/ active[p])
      BY <1>1, <1>2 DEF Inv, TypeOK
    <2>2. \A p \in Alive : p \in Object
      BY DEF Alive
    <2> QED BY <1>1, <1>2, <2>1, <2>2 DEF UpdateOnStart, Inv, SoonestIsRight
  <1>6. OwnedInv'
    BY <1>1, <1>2 DEF StartTimer, UpdateOnStart, Inv, TypeOK, OwnedInv
  <1>7. HarvestInv'
    BY DEF StartTimer, Inv, HarvestInv
  <1> QED BY <1>3, <1>4, <1>5, <1>6, <1>7 DEF Inv

LEMMA CancelTimerInv == ASSUME Inv, NEW o \in Object, CancelTimer(o) PROVE Inv'
  <1> USE Constants DEF CancelTimer, Acts, Stop, epoll, pass
  <1>1. Alive' = Alive
    BY SameAlive
  <1>2. TypeOK'
    BY DEF Inv, TypeOK
  <1>3. NoneDangling' /\ HarvestInv'
    BY <1>1 DEF Inv, NoneDangling, HarvestInv
  <1>4. SoonestIsRight' /\ OwnedInv'
    BY <1>1 DEF Inv, TypeOK, SoonestIsRight, OwnedInv, Alive
  <1> QED BY <1>2, <1>3, <1>4 DEF Inv

\* An object is created, with a descriptor that may have been another's.
LEMMA CreateInv == ASSUME Inv, NEW o \in Object, NEW f \in Fd, Create(o, f) PROVE Inv'
  <1> USE Constants DEF Create, Acts, Register, pass
  <1>1. Alive' = Alive \cup {o} /\ o \notin Alive
    BY DEF Alive, Inv, TypeOK
  <1>2. handler[f] = Null /\ (\A p \in Object : fd[p] # f) /\ ~active[o]
    BY <1>1 DEF Inv, TypeOK, NoneDangling, OwnedInv
  <1>3. /\ handler' = [handler EXCEPT ![f] = o] /\ fd' = [fd EXCEPT ![o] = f]
        /\ \A g \in Fd \ {f} : interest'[g] = interest[g]
        /\ interest' \in [Fd -> SUBSET Kind]
    BY DEF Inv, TypeOK
  <1>4. TypeOK'
    BY <1>1, <1>3 DEF AddTimer, Inv, TypeOK, NoneDangling
  <1>5. NoneDangling'
    <2>1. (list \cup added)' = Alive'
      BY <1>1 DEF AddTimer, Inv, NoneDangling
    <2>2. \A g \in Fd : handler'[g] # Null => fd'[handler'[g]] = g
      BY <1>1, <1>2, <1>3 DEF Inv, NoneDangling, TypeOK, Alive
    <2> QED BY <1>1, <2>1, <2>2 DEF Inv, NoneDangling
  <1>6. SoonestIsRight'
    BY <1>1, <1>2 DEF Inv, SoonestIsRight
  <1>7. OwnedInv'
    BY <1>1, <1>2, <1>3 DEF Inv, TypeOK, OwnedInv, Alive
  <1>8. HarvestInv'
    <2>1. \A e \in harvest : e.fd \in Fd /\ e.kind \in Kind
      BY DEF Inv, TypeOK
    <2> QED BY <1>2, <1>3, <2>1 DEF Inv, TypeOK, HarvestInv
  <1> QED BY <1>4, <1>5, <1>6, <1>7, <1>8 DEF Inv

\* Flow control.
LEMMA FlowInv ==
    ASSUME Inv, NEW o \in Object, NEW k \in Kind, Unregister(o, k) \/ Again(o, k)
    PROVE  Inv'
  <1> USE Constants DEF Acts, Register, pass, timers
  <1>1. Alive' = Alive /\ o \in Alive /\ fd[o] \in Fd /\ handler[fd[o]] = o
    BY SameAlive DEF Unregister, Again, Inv, OwnedInv, Alive
  <1>2. handler' = handler
    BY <1>1 DEF Unregister, Again, Inv, TypeOK
  <1>3. TypeOK'
    <2>1. interest' \in [Fd -> SUBSET Kind] /\ suppress' \in [Fd -> SUBSET Kind]
      <3>1. CASE Unregister(o, k)
        BY <1>1, <3>1 DEF Unregister, Inv, TypeOK
      <3>2. CASE Again(o, k)
        BY <1>1, <3>2 DEF Again, Inv, TypeOK
      <3> QED BY <3>1, <3>2
    <2>2. ops' \in 0..MaxOps
      BY DEF Unregister, Again, Inv, TypeOK
    <2> QED BY <1>2, <2>1, <2>2 DEF Unregister, Again, Inv, TypeOK
  <1>4. NoneDangling' /\ SoonestIsRight' /\ OwnedInv'
    BY <1>1, <1>2 DEF Unregister, Again, Inv, NoneDangling, SoonestIsRight, OwnedInv
  <1>5. HarvestInv'
    <2>1. \A e \in harvest : e.fd \in Fd
      BY DEF Inv, TypeOK
    <2>2. \A g \in Fd : /\ suppress[g] \subseteq suppress'[g]
                        /\ interest[g] \ interest'[g] \subseteq suppress'[g]
      <3>1. CASE Unregister(o, k)
        BY <1>1, <3>1 DEF Unregister, Inv, TypeOK
      <3>2. CASE Again(o, k)
        BY <1>1, <3>2 DEF Again, Inv, TypeOK
      <3> QED BY <3>1, <3>2
    <2> QED BY <1>2, <2>1, <2>2 DEF Unregister, Again, Inv, HarvestInv
  <1> QED BY <1>3, <1>4, <1>5 DEF Inv

LEMMA ReturnInv == ASSUME Inv, Return PROVE Inv'
  BY Constants DEF Return, epoll, pass, timers, Inv, TypeOK, NoneDangling, SoonestIsRight, OwnedInv,
         HarvestInv, Alive

LEMMA HandleInv == ASSUME Inv, Handle PROVE Inv'
  BY DestroyInv, ThrowInv, StartTimerInv, CancelTimerInv, CreateInv, FlowInv, ReturnInv DEF Handle

-----------------------------------------------------------------------------
(* The loop.                                                               *)

\* The timers of a pass, sorted.
LEMMA OrdersAreLists ==
    ASSUME NEW S \in SUBSET Object, NEW q \in Orders(S)
    PROVE  /\ q \in Seq(S) /\ Len(q) <= Cardinality(Object)
           /\ \A i \in DOMAIN q : q[i] \in S
  <1>1. Cardinality(S) \in Nat /\ Cardinality(S) <= Cardinality(Object)
    BY Constants, FS_Subset, FS_CardinalityType
  <1>2. q \in [1..Cardinality(S) -> S]
    BY DEF Orders
  <1>3. q \in Seq(S) /\ Len(q) = Cardinality(S)
    BY <1>1, <1>2
  <1> QED BY <1>1, <1>2, <1>3

\* The cached timer, or one that is found: an active one that none precedes.
LEMMA CachedIsSoonest ==
    ASSUME Inv, phase = "wait", NEW o \in Cached, o # Null
    PROVE  /\ o \in Alive /\ active[o] /\ list = Alive
           /\ \A p \in Alive : active[p] => time[o] <= time[p]
  <1>1. list = Alive
    BY DEF Inv, TypeOK, NoneDangling
  <1>2. CASE soonest # Null
    BY <1>1, <1>2 DEF Cached, Inv, SoonestIsRight
  <1>3. CASE soonest = Null
    BY <1>1, <1>3 DEF Cached, Soonest
  <1> QED BY <1>2, <1>3

LEMMA PollInv == ASSUME Inv, NEW E \in SUBSET Ready, Poll(E) PROVE Inv'
  <1> USE Constants
  <1> DEFINE due == {p \in list : Expired(p, clock)}
  <1>1. /\ phase = "wait" /\ current = Null /\ harvest' = E
        /\ UNCHANGED <<fd, handler, interest, list, added, active, time, removed, current, ops, clock>>
    BY DEF Poll, Running
  <1>2. Alive' = Alive /\ list = Alive /\ added = {} /\ expired = <<>>
    BY <1>1, SameAlive DEF Inv, TypeOK, NoneDangling
  <1>3. harvest' \subseteq [fd : Fd, kind : Kind, holder : Object \cup {Null}]
    BY <1>1 DEF Ready, Inv, TypeOK
  <1>4. PICK o \in Cached :
            IF o # Null /\ time[o] <= clock
            THEN /\ phase' = "timer" /\ adjust' = 0
                 /\ expired' \in Orders(due)
                 /\ now' = IF \E p \in list : active[p] /\ time[p] >= Base THEN clock ELSE 0
                 /\ soonest' = IF due = {} THEN o ELSE Null
                 /\ UNCHANGED suppress
            ELSE /\ phase' = "event" /\ soonest' = o
                 /\ suppress' = [f \in Fd |-> {}]
                 /\ UNCHANGED <<adjust, expired, now>>
    BY DEF Poll
  <1>5. o # Null => /\ o \in Alive /\ active[o]
                    /\ \A p \in Alive : active[p] => time[o] <= time[p]
    BY <1>1, <1>4, CachedIsSoonest
  <1>6. CASE o # Null /\ time[o] <= clock
    <2>1. o \in due
      BY <1>2, <1>5, <1>6 DEF Expired
    <2>2. due \subseteq Alive /\ due \subseteq Object
      BY <1>2 DEF Alive
    <2> HIDE DEF due
    <2>3. /\ phase' = "timer" /\ adjust' = 0 /\ soonest' = Null /\ UNCHANGED suppress
          /\ now' \in 0..MaxClock
      BY <1>4, <1>6, <2>1 DEF Inv, TypeOK
    <2>4. /\ expired' \in Seq(due) /\ Len(expired') <= Cardinality(Object)
          /\ \A i \in DOMAIN expired' : expired'[i] \in due
      BY <1>4, <1>6, <2>2, OrdersAreLists
    <2>5. expired' \in Seq(Object \cup {Null})
      BY <2>2, <2>4
    <2>6. TypeOK'
      BY <1>1, <1>3, <2>3, <2>4, <2>5 DEF Inv, TypeOK
    <2>7. NoneDangling'
      BY <1>1, <1>2, <2>2, <2>4 DEF Inv, NoneDangling
    <2>8. SoonestIsRight' /\ OwnedInv' /\ HarvestInv'
      BY <1>1, <1>2, <2>3 DEF Inv, SoonestIsRight, OwnedInv, HarvestInv
    <2> QED BY <2>6, <2>7, <2>8 DEF Inv
  <1>7. CASE ~(o # Null /\ time[o] <= clock)
    <2>1. /\ phase' = "event" /\ soonest' = o /\ suppress' = [f \in Fd |-> {}]
          /\ UNCHANGED <<adjust, expired, now>>
      BY <1>4, <1>7
    <2>2. TypeOK'
      BY <1>1, <1>2, <1>3, <1>5, <2>1 DEF Inv, TypeOK, Alive
    <2>3. NoneDangling'
      BY <1>1, <1>2, <2>1 DEF Inv, NoneDangling
    <2>4. SoonestIsRight' /\ OwnedInv'
      BY <1>1, <1>2, <1>5, <2>1 DEF Inv, SoonestIsRight, OwnedInv
    <2>5. HarvestInv'
      <3>1. \A e \in E : e.kind \in interest[e.fd] /\ e.holder = handler[e.fd]
        BY DEF Poll, Ready
      <3> QED BY <1>1, <3>1 DEF HarvestInv
    <2> QED BY <2>2, <2>3, <2>4, <2>5 DEF Inv
  <1> QED BY <1>6, <1>7

LEMMA NextTimeoutInv == ASSUME Inv, NextTimeout PROVE Inv'
  <1> USE Constants DEF Stop, epoll
  <1>1. /\ phase = "timer" /\ expired # <<>> /\ expired' = Tail(expired) /\ soonest = Null
        /\ UNCHANGED <<fd, handler, interest, suppress, list, added, soonest, adjust, removed, phase,
                       harvest, ops, clock>>
    BY DEF NextTimeout, Inv, OwnedInv
  <1>2. Alive' = Alive
    BY <1>1, SameAlive
  <1>3. /\ expired' \in Seq(Object \cup {Null}) /\ Len(expired') <= Cardinality(Object)
        /\ Head(expired) = expired[1] /\ 1 \in DOMAIN expired
        /\ \A i \in DOMAIN expired' : expired'[i] = expired[i + 1] /\ i + 1 \in DOMAIN expired
    BY <1>1 DEF Inv, TypeOK
  <1>4. PICK t \in {clock, now} :
            /\ now' = t
            /\ IF Head(expired) # Null /\ Expired(Head(expired), t)
               THEN current' = Head(expired) /\ Stop(Head(expired))
               ELSE UNCHANGED <<current, active, time>>
    BY DEF NextTimeout
  <1>5. /\ current' \in Alive \cup {Null} /\ active' \in [Object -> BOOLEAN]
        /\ time' \in [Object -> 0..MaxClock] /\ now' \in 0..MaxClock
        /\ \A o \in Object : active'[o] => active[o]
    <2>1. Head(expired) \in Alive \cup {Null} /\ Alive \subseteq Object
      BY <1>3 DEF Inv, NoneDangling, Alive
    <2>2. 0 \in 0..MaxClock /\ clock \in 0..MaxClock
      BY DEF Inv, TypeOK
    <2>3. now' \in 0..MaxClock
      BY <1>4, <2>2 DEF Inv, TypeOK
    <2>4. CASE Head(expired) # Null /\ Expired(Head(expired), t)
      <3> DEFINE o == Head(expired)
      <3>1. /\ o \in Alive /\ o \in Object /\ current' = o
            /\ active' = [active EXCEPT ![o] = FALSE] /\ time' = [time EXCEPT ![o] = 0]
        BY <1>4, <2>1, <2>4
      <3> HIDE DEF o
      <3>2. active \in [Object -> BOOLEAN] /\ time \in [Object -> 0..MaxClock]
        BY DEF Inv, TypeOK
      <3>3. time' \in [Object -> 0..MaxClock]
        BY <2>2, <3>1, <3>2
      <3>4. active' \in [Object -> BOOLEAN] /\ \A p \in Object : active'[p] => active[p]
        BY <3>1, <3>2
      <3> QED BY <2>3, <3>1, <3>3, <3>4
    <2>5. CASE ~(Head(expired) # Null /\ Expired(Head(expired), t))
      BY <1>4, <2>3, <2>5 DEF Inv, TypeOK, NoneDangling
    <2> QED BY <2>4, <2>5
  <1>6. TypeOK'
    BY <1>1, <1>2, <1>3, <1>5 DEF Inv, TypeOK, Alive
  <1>7. NoneDangling'
    BY <1>1, <1>2, <1>3, <1>5 DEF Inv, NoneDangling
  <1>8. SoonestIsRight' /\ OwnedInv' /\ HarvestInv'
    BY <1>1, <1>2, <1>5 DEF Inv, SoonestIsRight, OwnedInv, HarvestInv
  <1> QED BY <1>6, <1>7, <1>8 DEF Inv

LEMMA EndPassInv == ASSUME Inv, EndPass PROVE Inv'
  <1> USE Constants
  <1>1. /\ phase = "timer" /\ phase' = "event" /\ soonest = Null /\ soonest' = Null /\ now' = 0
        /\ list' = list \cup added /\ added' = {} /\ expired' = <<>> /\ removed' = FALSE
        /\ suppress' = [f \in Fd |-> {}]
        /\ UNCHANGED <<fd, handler, interest, active, time, adjust, current, ops, clock>>
    BY DEF EndPass, MergeAdded, Inv, OwnedInv
  <1>2. Alive' = Alive /\ expired' \in Seq(Object \cup {Null}) /\ Len(expired') = 0
    BY <1>1, SameAlive
  <1>3. \A e \in harvest' : /\ e \in [fd : Fd, kind : Kind, holder : Object \cup {Null}]
                            /\ e.holder = Holder(e.fd, e.kind)
    <2> SUFFICES ASSUME NEW e \in harvest'
                 PROVE  /\ e \in [fd : Fd, kind : Kind, holder : Object \cup {Null}]
                        /\ e.holder = Holder(e.fd, e.kind)
      OBVIOUS
    <2>1. PICK d \in harvest : e = [d EXCEPT !.holder = Holder(d.fd, d.kind)]
      BY DEF EndPass
    <2>2. d \in [fd : Fd, kind : Kind, holder : Object \cup {Null}]
      BY DEF Inv, TypeOK
    <2>3. Holder(d.fd, d.kind) \in Object \cup {Null}
      BY <2>2 DEF Holder, Inv, TypeOK
    <2> HIDE DEF Holder
    <2>4. e.fd = d.fd /\ e.kind = d.kind /\ e.holder = Holder(d.fd, d.kind)
      BY <2>1, <2>2
    <2>5. e \in [fd : Fd, kind : Kind, holder : Object \cup {Null}]
      BY <2>1, <2>2, <2>3
    <2> QED BY <2>4, <2>5
  <1>4. TypeOK'
    <2>1. list' \subseteq Object /\ added' \subseteq Object \ list'
      BY <1>1 DEF Inv, TypeOK
    <2>2. suppress' \in [Fd -> SUBSET Kind]
      BY <1>1
    <2>3. harvest' \subseteq [fd : Fd, kind : Kind, holder : Object \cup {Null}]
      BY <1>3
    <2>4. now' \in 0..MaxClock /\ Len(expired') <= Cardinality(Object) /\ soonest' \in Object \cup {Null}
      BY <1>1, <1>2
    <2>5. phase' \in {"wait", "timer", "event"} /\ removed' \in BOOLEAN
      BY <1>1
    <2> QED BY <1>1, <1>2, <2>1, <2>2, <2>3, <2>4, <2>5 DEF Inv, TypeOK
  <1>5. NoneDangling' /\ SoonestIsRight' /\ OwnedInv'
    BY <1>1, <1>2 DEF Inv, NoneDangling, SoonestIsRight, OwnedInv
  <1>6. HarvestInv'
    BY <1>1, <1>3 DEF HarvestInv, Holder
  <1> QED BY <1>4, <1>5, <1>6 DEF Inv

LEMMA NextEventInv == ASSUME Inv, NEW e \in harvest, NextEvent(e) PROVE Inv'
  <1> USE DEF NextEvent, epoll, timers
  <1>1. Alive' = Alive
    BY SameAlive
  <1>2. current' \in Alive \cup {Null} /\ current' \in Object \cup {Null}
    BY Constants DEF Inv, TypeOK, NoneDangling, Alive
  <1>3. TypeOK'
    BY <1>2 DEF Inv, TypeOK
  <1>4. NoneDangling' /\ SoonestIsRight' /\ OwnedInv' /\ HarvestInv'
    BY <1>1, <1>2 DEF Inv, NoneDangling, SoonestIsRight, OwnedInv, HarvestInv
  <1> QED BY <1>3, <1>4 DEF Inv

LEMMA EndEventsInv == ASSUME Inv, EndEvents PROVE Inv'
  <1> USE DEF EndEvents, epoll, timers
  <1>1. Alive' = Alive
    BY SameAlive
  <1>2. TypeOK'
    BY DEF Inv, TypeOK
  <1>3. NoneDangling' /\ SoonestIsRight' /\ OwnedInv' /\ HarvestInv'
    BY <1>1 DEF Inv, NoneDangling, SoonestIsRight, OwnedInv, HarvestInv
  <1> QED BY <1>2, <1>3 DEF Inv

-----------------------------------------------------------------------------
(* The specification.                                                      *)

LEMMA InitInv == ASSUME Init PROVE Inv
  <1> USE Constants
  <1>1. PICK o \in Object, f \in Fd, d \in Delays :
            /\ fd = [p \in Object |-> IF p = o THEN f ELSE Null]
            /\ handler = [g \in Fd |-> IF g = f THEN o ELSE Null]
            /\ interest = [g \in Fd |-> IF g = f THEN Kind \cap {"read"} ELSE {}]
            /\ suppress = [g \in Fd |-> {}]
            /\ list = {o} /\ added = {}
            /\ active = [p \in Object |-> p = o]
            /\ time = [p \in Object |-> IF p = o /\ d > 0 THEN Base + d ELSE 0]
            /\ soonest = Null /\ removed = FALSE
            /\ adjust = IF d = 0 THEN 1 ELSE 0
            /\ phase = "wait" /\ now = 0 /\ expired = <<>> /\ harvest = {}
            /\ current = Null /\ ops = 0 /\ clock = Base
    BY DEF Init
  <1>2. Alive = {o}
    BY <1>1 DEF Alive
  <1>3. TypeOK
    <2>1. expired \in Seq(Object \cup {Null}) /\ Len(expired) = 0
      BY <1>1
    <2>2. Base + d \in 0..MaxClock
      OBVIOUS
    <2>3. time \in [Object -> 0..MaxClock] /\ adjust \in 0..Base /\ active \in [Object -> BOOLEAN]
      BY <1>1, <2>2
    <2>4. /\ fd \in [Object -> Fd \cup {Null}] /\ handler \in [Fd -> Object \cup {Null}]
          /\ interest \in [Fd -> SUBSET Kind] /\ suppress \in [Fd -> SUBSET Kind]
      BY <1>1
    <2>5. /\ list \subseteq Object /\ added \subseteq Object \ list
          /\ harvest \subseteq [fd : Fd, kind : Kind, holder : Object \cup {Null}]
          /\ clock \in Base..MaxClock /\ ops \in 0..MaxOps /\ now \in 0..MaxClock
      BY <1>1
    <2>6. Len(expired) <= Cardinality(Object)
      BY <2>1
    <2>7. /\ soonest \in Object \cup {Null} /\ current \in Object \cup {Null}
          /\ phase \in {"wait", "timer", "event"} /\ removed \in BOOLEAN
      BY <1>1
    <2>8. added = {} /\ expired = <<>>
      BY <1>1
    <2> QED BY <2>1, <2>3, <2>4, <2>5, <2>6, <2>7, <2>8 DEF TypeOK
  <1>4. NoneDangling
    <2>1. \A g \in Fd : handler[g] # Null => fd[handler[g]] = g
      BY <1>1
    <2>2. DOMAIN expired = {}
      BY <1>1
    <2> QED BY <1>1, <1>2, <2>1, <2>2 DEF NoneDangling
  <1>5. SoonestIsRight /\ HarvestInv
    BY <1>1 DEF SoonestIsRight, HarvestInv
  <1>6. OwnedInv
    <2>1. \A p \in Object : active[p] => p = o
      BY <1>1
    <2>2. handler[fd[o]] = o
      BY <1>1
    <2> QED BY <1>1, <1>2, <2>1, <2>2 DEF OwnedInv
  <1> QED BY <1>3, <1>4, <1>5, <1>6 DEF Inv

LEMMA TickInv == ASSUME Inv, Tick PROVE Inv'
  <1> USE DEF Tick, epoll, timers, pass
  <1>1. Alive' = Alive
    BY SameAlive
  <1>2. TypeOK'
    BY Constants DEF Inv, TypeOK
  <1> QED BY <1>1, <1>2 DEF Inv, NoneDangling, SoonestIsRight, OwnedInv, HarvestInv

LEMMA NextInv == ASSUME Inv, [Next]_vars PROVE Inv'
  <1>1. CASE Handle
    BY <1>1, HandleInv
  <1>2. CASE Loop
    BY <1>2, PollInv, NextTimeoutInv, EndPassInv, EndEventsInv, NextEventInv DEF Loop
  <1>3. CASE Tick
    BY <1>3, TickInv
  <1>4. CASE UNCHANGED vars
    BY <1>4 DEF vars, Inv, TypeOK, NoneDangling, SoonestIsRight, OwnedInv, HarvestInv, Alive
  <1> QED BY <1>1, <1>2, <1>3, <1>4 DEF Next

\* The invariant holds whatever the handlers do.
THEOREM Invariance == Spec => []Inv
  <1> QED BY InitInv, NextInv, PTL DEF Spec

\* The lists, the timers and the events are what they are taken to be; a pass never has more
\* items than there are objects, and leaves nothing behind (TimerList::doTimeouts()).
THEOREM TypeCorrect == Spec => []TypeOK
  <1>1. Inv => TypeOK
    BY DEF Inv
  <1> QED BY <1>1, Invariance, PTL

\* Nothing that is deleted is called, and the loop never sleeps past a timer
\* (TimerList::remove(), TimerList::findSoonest(), EventLoop::drop()).
THEOREM ListsAreRight == Spec => []ListsInv
  <1>1. Inv => ListsInv
    BY DEF Inv, ListsInv
  <1> QED BY <1>1, Invariance, PTL

\* An event is given to the object that waited for it or to nobody, even if the
\* descriptor has been closed and given out again since (EventLoop::runOnce()).
THEOREM EventsAreOurs == Spec => EventIsOurs
  <1>1. ASSUME Inv, [Next]_vars, NEW e \in harvest \ harvest',
               phase = "event", e.holder # Null, current' # Null
        PROVE  current' = e.holder /\ e.kind \in interest[e.fd]
    <2>1. harvest' # harvest
      BY <1>1
    <2>2. CASE \E d \in harvest : NextEvent(d)
      <3>1. PICK d \in harvest : NextEvent(d)
        BY <2>2
      <3>2. d = e
        BY <1>1, <3>1 DEF NextEvent
      <3> QED BY <1>1, <3>1, <3>2 DEF NextEvent, Inv, HarvestInv
    <2>3. CASE \E E \in SUBSET Ready : Poll(E)
      BY <1>1, <2>3 DEF Poll
    <2>4. CASE EndPass
      BY <1>1, <2>4 DEF EndPass
    <2>5. CASE Handle \/ Tick \/ NextTimeout \/ EndEvents \/ UNCHANGED vars
      BY <2>1, <2>5 DEF Handle, CancelTimer, Destroy, StartTimer, Create, Unregister, Again, Return,
                        Throw, Tick, NextTimeout, EndEvents, pass, vars
    <2> QED BY <1>1, <2>2, <2>3, <2>4, <2>5 DEF Next, Loop
  <1>2. Inv /\ [Next]_vars =>
            [\A e \in harvest \ harvest' : phase = "event" /\ e.holder # Null /\ current' # Null =>
                current' = e.holder /\ e.kind \in interest[e.fd]]_vars
    BY <1>1
  <1> QED BY <1>2, Invariance, PTL DEF Spec, EventIsOurs

-----------------------------------------------------------------------------
(* The input of a server connection (ServerInput).                         *)

\* What the line buffer remembers of a line of text of which a part has been given out.
LineInv ==
    LET r == Reading(stream)[Taken]
    IN  /\ r.begin <= Taken
        /\ IF Taken = r.begin THEN out.first \/ out.ended
           ELSE /\ ~out.first /\ ~out.ended
                /\ out.linesize = Taken - r.begin /\ out.linesize >= 2 /\ out.c0 = stream[r.begin + 1]
                \* no line ending has been cut in two
                /\ stream[Taken] = "CR" => Taken < Len(stream) /\ stream[Taken + 1] # "LF"
                /\ ~DotLine(stream, r.begin)

\* The protocol is where a reader of the whole stream would be.
ReaderInv ==
    LET r == Reading(stream)[Taken]
    IN  /\ r.given = got /\ got \in Seq(Event)
        /\ r.mode = IF state = "busy" THEN "command" ELSE state
        /\ state \in {"command", "busy"} => r.begin = Taken
        /\ state = "chunk" => r.begin + r.size = Taken + left
        /\ state = "data" => LineInv

InputInv ==
    /\ InputTypeOK
    /\ in = SubSeq(stream, Taken + 1, sent)
    /\ state = "busy" => loop = "no" /\ timer # "zero"
    /\ ReaderInv

-----------------------------------------------------------------------------
(* The reader.                                                             *)

LEMMA Least == ASSUME NEW S \in SUBSET Nat, S # {} PROVE \E m \in S : \A n \in S : m <= n
  <1> DEFINE R == OpToRel(<, Nat)
  <1>1. IsWellFoundedOn(R, Nat)
    BY NatLessThanWellFounded
  <1>2. PICK m \in S : \A n \in S : ~(<<n, m>> \in R)
    <2> HIDE DEF R
    <2> QED BY <1>1, WFMin
  <1>3. \A n \in S : ~(n < m)
    BY <1>2 DEF OpToRel
  <1> QED BY <1>3

\* A reading is defined for each byte, from the one before it.
LEMMA ReadingExists ==
    ASSUME NEW s \in Seq(Byte)
    PROVE  \E f : f = [k \in 0..Len(s) |-> IF k = 0 THEN NewReader ELSE ReadByte(s, k, f[k - 1])]
  <1> DEFINE Reads(n, f) == f[0] = NewReader /\ \A k \in 1..n : f[k] = ReadByte(s, k, f[k - 1])
  <1> DEFINE Bad == {n \in 0..Len(s) : ~\E f : Reads(n, f)}
  <1>0. Len(s) \in Nat
    OBVIOUS
  <1>1. Bad = {}
    <2> SUFFICES ASSUME Bad # {} PROVE FALSE
      OBVIOUS
    <2>1. PICK m \in Bad : \A n \in Bad : m <= n
      <3>1. Bad \in SUBSET Nat
        BY <1>0
      <3> HIDE DEF Bad
      <3> QED BY <3>1, Least
    <2>2. m \in 0..Len(s) /\ ~\E f : Reads(m, f)
      BY <2>1
    <2>3. CASE m = 0
      <3>1. Reads(0, [k \in {0} |-> NewReader])
        OBVIOUS
      <3> HIDE DEF Reads
      <3> QED BY <2>2, <2>3, <3>1
    <2>4. CASE m > 0
      <3>1. m - 1 \in 0..Len(s) /\ ~(m <= m - 1)
        BY <1>0, <2>2, <2>4
      <3>2. m - 1 \notin Bad
        BY <2>1, <3>1
      <3>3. PICK f : Reads(m - 1, f)
        BY <3>1, <3>2
      <3> DEFINE g == [k \in 0..m |-> IF k = m THEN ReadByte(s, m, f[m - 1]) ELSE f[k]]
      <3>4. g[0] = NewReader
        BY <2>2, <2>4, <3>3
      <3>5. ASSUME NEW k \in 1..m PROVE g[k] = ReadByte(s, k, g[k - 1])
        <4>1. g[k - 1] = f[k - 1]
          BY <2>2, <3>5
        <4>2. CASE k = m
          BY <2>2, <4>1, <4>2
        <4>3. CASE k # m
          <5>1. k \in 1..(m - 1) /\ k \in 0..m
            BY <2>2, <3>5, <4>3
          <5> QED BY <3>3, <4>1, <4>3, <5>1
        <4> QED BY <4>2, <4>3
      <3>6. Reads(m, g)
        BY <3>4, <3>5
      <3> HIDE DEF Reads, g
      <3> QED BY <2>2, <3>6
    <2> QED BY <2>2, <2>3, <2>4, <1>0
  <1>2. PICK f : Reads(Len(s), f)
    <2>1. Len(s) \in 0..Len(s)
      BY <1>0
    <2> QED BY <1>1, <2>1
  <1> DEFINE h == [k \in 0..Len(s) |-> f[k]]
  <1>3. \A k \in 0..Len(s) : h[k] = IF k = 0 THEN NewReader ELSE ReadByte(s, k, h[k - 1])
    <2> TAKE k \in 0..Len(s)
    <2>1. CASE k = 0
      BY <1>0, <1>2, <2>1
    <2>2. CASE k # 0
      <3>1. k \in 1..Len(s) /\ k - 1 \in 0..Len(s)
        BY <1>0, <2>2
      <3> QED BY <1>2, <2>2, <3>1
    <2> QED BY <2>1, <2>2
  <1>4. h = [k \in 0..Len(s) |-> IF k = 0 THEN NewReader ELSE ReadByte(s, k, h[k - 1])]
    BY <1>3
  <1> HIDE DEF h
  <1> QED BY <1>4

LEMMA ReadingStep ==
    ASSUME NEW s \in Seq(Byte)
    PROVE  /\ Reading(s)[0] = NewReader
           /\ \A k \in 1..Len(s) : Reading(s)[k] = ReadByte(s, k, Reading(s)[k - 1])
  <1> DEFINE r == Reading(s)
  <1>1. r = [k \in 0..Len(s) |-> IF k = 0 THEN NewReader ELSE ReadByte(s, k, r[k - 1])]
    BY ReadingExists DEF Reading
  <1> HIDE DEF r
  <1>2. r[0] = NewReader /\ \A k \in 1..Len(s) : r[k] = ReadByte(s, k, r[k - 1])
    <2>1. 0 \in 0..Len(s) /\ \A k \in 1..Len(s) : k \in 0..Len(s) /\ k # 0
      OBVIOUS
    <2> QED BY <1>1, <2>1
  <1> QED BY <1>2 DEF r

-----------------------------------------------------------------------------
(* Events and pieces of the stream.                                        *)

LEMMA EventConcat ==
    ASSUME NEW s \in Seq(Event), NEW t \in Seq(Event)
    PROVE  /\ s \o t \in Seq(Event) /\ Len(s \o t) = Len(s) + Len(t)
           /\ \A i \in 1..Len(s) + Len(t) : (s \o t)[i] = IF i <= Len(s) THEN s[i] ELSE t[i - Len(s)]
           /\ s \o <<>> = s
  BY ConcatProperties, ConcatEmptySeq

LEMMA EventAssociative ==
    ASSUME NEW s \in Seq(Event), NEW t \in Seq(Event), NEW u \in Seq(Event)
    PROVE  (s \o t) \o u = s \o (t \o u)
  BY ConcatAssociative

LEMMA ContentType ==
    ASSUME NEW s \in Seq(Byte)
    PROVE  Content(s) \in Seq(Event) /\ Len(Content(s)) = Len(s)
  <1>1. \A i \in 1..Len(s) : [kind |-> "content", data |-> <<s[i]>>] \in Event
    BY ElementOfSeq DEF Event
  <1>2. Len(s) \in Nat
    OBVIOUS
  <1> QED BY <1>1, <1>2 DEF Content

LEMMA ContentConcat ==
    ASSUME NEW s \in Seq(Byte), NEW t \in Seq(Byte)
    PROVE  Content(s \o t) = Content(s) \o Content(t)
  <1> DEFINE u == s \o t
  <1>1. u \in Seq(Byte) /\ Len(u) = Len(s) + Len(t) /\ Len(s) \in Nat /\ Len(t) \in Nat
    BY ConcatProperties
  <1>2. \A i \in 1..Len(u) : u[i] = IF i <= Len(s) THEN s[i] ELSE t[i - Len(s)]
    BY <1>1, ConcatProperties
  <1>3. /\ Content(s) \in Seq(Event) /\ Content(t) \in Seq(Event) /\ Content(u) \in Seq(Event)
        /\ Len(Content(s)) = Len(s) /\ Len(Content(t)) = Len(t) /\ Len(Content(u)) = Len(u)
    BY <1>1, ContentType
  <1> HIDE DEF u
  <1> DEFINE v == Content(s) \o Content(t)
  <1>4. /\ v \in Seq(Event) /\ Len(v) = Len(u)
        /\ \A i \in 1..Len(u) : v[i] = IF i <= Len(s) THEN Content(s)[i] ELSE Content(t)[i - Len(s)]
    <2>1. Content(s) \in Seq(Event) /\ Content(t) \in Seq(Event)
      BY <1>3
    <2> QED BY <1>1, <1>3, <2>1, EventConcat
  <1> HIDE DEF v
  <1>5. ASSUME NEW i \in 1..Len(u) PROVE Content(u)[i] = v[i]
    <2>1. CASE i <= Len(s)
      <3>1. i \in 1..Len(s)
        BY <1>1, <2>1
      <3> QED BY <1>2, <1>4, <2>1, <3>1 DEF Content
    <2>2. CASE ~(i <= Len(s))
      <3>1. i - Len(s) \in 1..Len(t)
        BY <1>1, <2>2
      <3> QED BY <1>2, <1>4, <2>2, <3>1 DEF Content
    <2> QED BY <2>1, <2>2
  <1>6. Content(u) = v
    BY <1>3, <1>4, <1>5, SeqEqual
  <1> QED BY <1>6 DEF u, v

LEMMA PieceType ==
    ASSUME NEW s \in Seq(Byte), NEW k \in Nat, NEW n \in Nat, k <= n, n <= Len(s)
    PROVE  /\ SubSeq(s, k + 1, n) \in Seq(Byte) /\ Len(SubSeq(s, k + 1, n)) = n - k
           /\ \A i \in 1..(n - k) : SubSeq(s, k + 1, n)[i] = s[k + i]
  <1>1. \A i \in (k + 1)..n : s[i] \in Byte
    BY ElementOfSeq
  <1> QED BY <1>1, SubSeqProperties

\* A piece goes on with the next one.
LEMMA PieceConcat ==
    ASSUME NEW s \in Seq(Byte), NEW k \in Nat, NEW m \in Nat, NEW n \in Nat, k <= m, m <= n, n <= Len(s)
    PROVE  SubSeq(s, k + 1, n) = SubSeq(s, k + 1, m) \o SubSeq(s, m + 1, n)
  <1>1. k + 1 \in 1..Len(s) + 1 /\ m \in (k + 1) - 1..Len(s) /\ n \in m..Len(s)
    OBVIOUS
  <1> QED BY <1>1, ConcatAdjacentSubSeq

LEMMA LastByte ==
    ASSUME NEW s \in Seq(Byte), NEW n \in 1..Len(s)
    PROVE  SubSeq(s, n, n) = <<s[n]>> /\ s[n] \in Byte /\ <<s[n]>> \in Seq(Byte)
  <1>1. s[n] \in Byte
    BY ElementOfSeq
  <1>2. \A i \in n..n : s[i] \in Byte
    BY <1>1
  <1>3. SubSeq(s, n, n) \in Seq(Byte) /\ Len(SubSeq(s, n, n)) = 1 /\ SubSeq(s, n, n)[1] = s[n]
    <2>1. n \in Int
      OBVIOUS
    <2>2. /\ SubSeq(s, n, n) \in Seq(Byte)
          /\ Len(SubSeq(s, n, n)) = IF n <= n THEN n - n + 1 ELSE 0
          /\ \A i \in 1..(n - n + 1) : SubSeq(s, n, n)[i] = s[n + i - 1]
      BY <1>2, <2>1, SubSeqProperties
    <2>3. Len(SubSeq(s, n, n)) = 1 /\ 1 \in 1..(n - n + 1) /\ n + 1 - 1 = n
      BY <2>1, <2>2
    <2> QED BY <2>2, <2>3
  <1>4. <<s[n]>> \in Seq(Byte) /\ Len(<<s[n]>>) = 1 /\ <<s[n]>>[1] = s[n]
    BY <1>1
  <1>5. SubSeq(s, n, n) = <<s[n]>>
    <2> DEFINE t == SubSeq(s, n, n)
    <2> DEFINE u == <<s[n]>>
    <2>1. t \in Seq(Byte) /\ u \in Seq(Byte) /\ Len(t) = 1 /\ Len(u) = 1 /\ t[1] = u[1]
      BY <1>3, <1>4
    <2> HIDE DEF t, u
    <2>2. \A i \in 1..Len(t) : t[i] = u[i]
      BY <2>1
    <2>3. t = u
      BY <2>1, <2>2, SeqEqual
    <2> QED BY <2>3 DEF t, u
  <1> QED BY <1>1, <1>4, <1>5

-----------------------------------------------------------------------------
(* What a reader makes of several bytes.                                   *)

Reader(mode, size, begin, given) == [mode |-> mode, size |-> size, begin |-> begin, given |-> given]

\* Bytes that mean nothing by themselves.
LEMMA Skips ==
    ASSUME NEW s \in Seq(Byte), NEW k \in Nat, NEW n \in Nat, k <= n, n <= Len(s), NEW r,
           Reading(s)[k] = r, \A j \in (k + 1)..n : ReadByte(s, j, r) = r
    PROVE  Reading(s)[n] = r
  <1> DEFINE Bad == {j \in k..n : Reading(s)[j] # r}
  <1>1. Bad = {}
    <2> SUFFICES ASSUME Bad # {} PROVE FALSE
      OBVIOUS
    <2>1. PICK m \in Bad : \A j \in Bad : m <= j
      <3>1. Bad \in SUBSET Nat
        OBVIOUS
      <3> HIDE DEF Bad
      <3> QED BY <3>1, Least
    <2>2. m \in k..n /\ Reading(s)[m] # r /\ m # k
      BY <2>1
    <2>3. m - 1 \in k..n /\ ~(m <= m - 1) /\ m \in 1..Len(s) /\ m \in (k + 1)..n
      BY <2>2
    <2>4. Reading(s)[m - 1] = r
      BY <2>1, <2>3
    <2> QED BY <2>2, <2>3, <2>4, ReadingStep
  <1>2. n \in k..n
    OBVIOUS
  <1> QED BY <1>1, <1>2

\* Bytes of content.
LEMMA Copies ==
    ASSUME NEW s \in Seq(Byte), NEW k \in Nat, NEW n \in Nat, k <= n, n <= Len(s),
           NEW mode, NEW size, NEW begin, NEW given \in Seq(Event),
           Reading(s)[k] = Reader(mode, size, begin, given),
           \A j \in (k + 1)..n : \A g \in Seq(Event) :
               ReadByte(s, j, Reader(mode, size, begin, g)) = Reader(mode, size, begin, g \o Content(<<s[j]>>))
    PROVE  /\ Reading(s)[n] = Reader(mode, size, begin, given \o Content(SubSeq(s, k + 1, n)))
           /\ given \o Content(SubSeq(s, k + 1, n)) \in Seq(Event)
  <1> DEFINE Sum(j) == given \o Content(SubSeq(s, k + 1, j))
  <1> DEFINE Bad == {j \in k..n : Reading(s)[j] # Reader(mode, size, begin, Sum(j))}
  <1>0. \A j \in k..n : Sum(j) \in Seq(Event)
    <2> TAKE j \in k..n
    <2>1. j \in Nat /\ k <= j /\ j <= Len(s)
      OBVIOUS
    <2>2. Content(SubSeq(s, k + 1, j)) \in Seq(Event)
      BY <2>1, PieceType, ContentType
    <2> QED BY <2>2, ConcatProperties
  <1>1. Bad = {}
    <2> SUFFICES ASSUME Bad # {} PROVE FALSE
      OBVIOUS
    <2>1. PICK m \in Bad : \A j \in Bad : m <= j
      <3>1. Bad \in SUBSET Nat
        OBVIOUS
      <3> HIDE DEF Bad
      <3> QED BY <3>1, Least
    <2>2. m \in k..n /\ Reading(s)[m] # Reader(mode, size, begin, Sum(m))
      BY <2>1
    <2>3. m # k
      <3>1. SubSeq(s, k + 1, k) = <<>>
        BY SubSeqEmpty
      <3>2. Content(<<>>) = <<>>
        <4>1. <<>> \in Seq(Byte) /\ Len(<<>>) = 0
          BY EmptySeq
        <4>2. Content(<<>>) \in Seq(Event) /\ Len(Content(<<>>)) = 0
          BY <4>1, ContentType
        <4> QED BY <4>2, EmptySeq
      <3>3. Sum(k) = given
        BY <3>1, <3>2, ConcatEmptySeq
      <3> QED BY <2>2, <3>3
    <2>4. m - 1 \in k..n /\ ~(m <= m - 1) /\ m \in 1..Len(s) /\ m \in (k + 1)..n /\ m - 1 \in Nat /\ (m - 1) + 1 = m
      BY <2>2, <2>3
    <2>5. Reading(s)[m - 1] = Reader(mode, size, begin, Sum(m - 1)) /\ Sum(m - 1) \in Seq(Event)
      BY <1>0, <2>1, <2>4
    <2>6. Reading(s)[m] = Reader(mode, size, begin, Sum(m - 1) \o Content(<<s[m]>>))
      <3> HIDE DEF Sum
      <3> QED BY <2>4, <2>5, ReadingStep
    <2>7. Sum(m - 1) \o Content(<<s[m]>>) = Sum(m)
      <3> DEFINE piece == SubSeq(s, k + 1, m - 1)
      <3>1. k <= m - 1 /\ m - 1 <= m /\ m <= Len(s) /\ m \in Nat /\ m - 1 <= Len(s)
        BY <2>2, <2>4
      <3>2. piece \in Seq(Byte)
        BY <2>4, <3>1, PieceType
      <3>3. SubSeq(s, k + 1, m) = piece \o SubSeq(s, (m - 1) + 1, m)
        BY <2>4, <3>1, PieceConcat
      <3>4. SubSeq(s, m, m) = <<s[m]>> /\ <<s[m]>> \in Seq(Byte)
        BY <2>4, LastByte
      <3> HIDE DEF piece
      <3>5. Content(SubSeq(s, k + 1, m)) = Content(piece) \o Content(<<s[m]>>)
        <4>1. SubSeq(s, k + 1, m) = piece \o <<s[m]>>
          BY <2>4, <3>3, <3>4
        <4>2. Content(piece \o <<s[m]>>) = Content(piece) \o Content(<<s[m]>>)
          BY <3>2, <3>4, ContentConcat
        <4> QED BY <4>1, <4>2
      <3>6. Content(piece) \in Seq(Event) /\ Content(<<s[m]>>) \in Seq(Event)
        BY <3>2, <3>4, ContentType
      <3>7. (given \o Content(piece)) \o Content(<<s[m]>>) = given \o (Content(piece) \o Content(<<s[m]>>))
        BY <3>6, EventAssociative
      <3> QED BY <3>5, <3>7 DEF piece
    <2> HIDE DEF Sum
    <2> QED BY <2>2, <2>6, <2>7
  <1>2. n \in k..n
    OBVIOUS
  <1> QED BY <1>0, <1>1, <1>2

LEMMA ContinuesByOne ==
    ASSUME NEW s \in Seq(Byte), NEW k \in Nat, NEW n \in Nat, k < n, n <= Len(s), NEW g \in Seq(Event)
    PROVE  /\ (g \o Content(SubSeq(s, k + 1, n - 1))) \o Content(<<s[n]>>) = g \o Content(SubSeq(s, k + 1, n))
           /\ g \o Content(SubSeq(s, k + 1, n)) \in Seq(Event)
  <1> DEFINE p == n - 1
  <1> DEFINE piece == SubSeq(s, k + 1, p)
  <1>1. p \in Nat /\ k <= p /\ p <= n /\ p <= Len(s) /\ p + 1 = n /\ n \in 1..Len(s)
    OBVIOUS
  <1>2. <<s[n]>> \in Seq(Byte) /\ SubSeq(s, n, n) = <<s[n]>>
    BY <1>1, LastByte
  <1> HIDE DEF p
  <1>3. piece \in Seq(Byte) /\ SubSeq(s, k + 1, n) \in Seq(Byte)
    <2>1. piece \in Seq(Byte)
      BY <1>1, PieceType
    <2>2. SubSeq(s, k + 1, n) \in Seq(Byte)
      BY PieceType
    <2> QED BY <2>1, <2>2
  <1>4. SubSeq(s, k + 1, n) = piece \o SubSeq(s, p + 1, n)
    BY <1>1, PieceConcat
  <1>5. SubSeq(s, k + 1, n) = piece \o <<s[n]>>
    BY <1>1, <1>2, <1>4
  <1> HIDE DEF piece
  <1>6. Content(piece \o <<s[n]>>) = Content(piece) \o Content(<<s[n]>>)
    BY <1>2, <1>3, ContentConcat
  <1>7. Content(piece) \in Seq(Event) /\ Content(<<s[n]>>) \in Seq(Event) /\ Content(SubSeq(s, k + 1, n)) \in Seq(Event)
    BY <1>2, <1>3, ContentType
  <1>8. (g \o Content(piece)) \o Content(<<s[n]>>) = g \o (Content(piece) \o Content(<<s[n]>>))
    BY <1>7, EventAssociative
  <1>9. g \o Content(SubSeq(s, k + 1, n)) \in Seq(Event)
    BY <1>7, EventConcat
  <1> QED BY <1>5, <1>6, <1>8, <1>9 DEF piece, p

\* A chunk is all content, up to its size.
LEMMA ReadsChunk ==
    ASSUME NEW s \in Seq(Byte), NEW k \in Nat, NEW n \in Nat, k < n, n <= Len(s),
           NEW size \in Nat, NEW begin \in Nat, NEW g \in Seq(Event), n <= begin + size,
           Reading(s)[k] = Reader("chunk", size, begin, g)
    PROVE  Reading(s)[n] = IF n = begin + size
                           THEN Reader("command", 0, n, g \o Content(SubSeq(s, k + 1, n)))
                           ELSE Reader("chunk", size, begin, g \o Content(SubSeq(s, k + 1, n)))
  <1>1. ASSUME NEW j \in (k + 1)..(n - 1), NEW h
        PROVE  ReadByte(s, j, Reader("chunk", size, begin, h)) = Reader("chunk", size, begin, h \o Content(<<s[j]>>))
    <2>1. j # begin + size
      OBVIOUS
    <2> QED BY <2>1 DEF ReadByte, ReadChunk, Reader
  <1> DEFINE p == n - 1
  <1> DEFINE h == g \o Content(SubSeq(s, k + 1, p))
  <1>2. p \in Nat /\ k <= p /\ p <= Len(s) /\ n \in 1..Len(s)
    OBVIOUS
  <1>3. Reading(s)[p] = Reader("chunk", size, begin, h)
    BY <1>1, <1>2, Copies
  <1> HIDE DEF h
  <1>4. Reading(s)[n] = ReadByte(s, n, Reader("chunk", size, begin, h))
    BY <1>2, <1>3, ReadingStep
  <1>5. Reading(s)[n] = IF n = begin + size THEN Reader("command", 0, n, h \o Content(<<s[n]>>))
                        ELSE Reader("chunk", size, begin, h \o Content(<<s[n]>>))
    BY <1>4 DEF ReadByte, ReadChunk, Reader
  <1>6. h \o Content(<<s[n]>>) = g \o Content(SubSeq(s, k + 1, n))
    BY ContinuesByOne DEF h
  <1> QED BY <1>5, <1>6

\* A command is what is before the end of its line.
LEMMA ReadsCommand ==
    ASSUME NEW s \in Seq(Byte), NEW k \in Nat, NEW n \in Nat, n <= Len(s), LineEnd(s, k, n),
           \A j \in (k + 1)..(n - 1) : ~LineEnd(s, k, j),
           NEW r, r.mode = "command", r.begin = k, Reading(s)[k] = r
    PROVE  Reading(s)[n] = ReadCommand(s, n, r)
  <1> DEFINE p == n - 1
  <1>1. p \in Nat /\ k <= p /\ p <= Len(s) /\ n \in 1..Len(s)
    BY DEF LineEnd
  <1>2. \A j \in (k + 1)..p : ReadByte(s, j, r) = r
    BY DEF ReadByte, ReadCommand
  <1>3. Reading(s)[p] = r
    <2> HIDE DEF p
    <2> QED BY <1>1, <1>2, Skips
  <1>4. Reading(s)[n] = ReadByte(s, n, r)
    BY <1>1, <1>3, ReadingStep
  <1> QED BY <1>4 DEF ReadByte

\* A line that is a single dot is the end of the text.
LEMMA ReadsDot ==
    ASSUME NEW s \in Seq(Byte), NEW k \in Nat, DotLine(s, k),
           NEW size, NEW g, Reading(s)[k] = Reader("data", size, k, g)
    PROVE  Reading(s)[k + 3] = Reader("command", 0, k + 3, g \o EndOfText)
  <1> DEFINE p == k + 2
  <1> DEFINE r == Reader("data", size, k, g)
  <1>1. p \in Nat /\ k <= p /\ p <= Len(s) /\ k + 3 \in 1..Len(s) /\ (k + 3) - 1 = p
    BY DEF DotLine
  <1>2. \A j \in (k + 1)..p : ReadByte(s, j, r) = r
    BY DEF ReadByte, ReadText, Reader
  <1>3. Reading(s)[p] = r
    <2> HIDE DEF p, r
    <2> QED BY <1>1, <1>2, Skips DEF r
  <1>4. Reading(s)[k + 3] = ReadByte(s, k + 3, r)
    <2> HIDE DEF r, p
    <2> QED BY <1>1, <1>3, ReadingStep
  <1> QED BY <1>4 DEF ReadByte, ReadText, Reader

\* Text without a dot that begins a line.
LEMMA ReadsPlainText ==
    ASSUME NEW s \in Seq(Byte), NEW k \in Nat, NEW n \in Nat, k < n, n <= Len(s),
           NEW size, NEW b \in Nat, b <= k, NEW g \in Seq(Event), ~DotLine(s, b),
           Reading(s)[k] = Reader("data", size, b, g),
           k = b => s[k + 1] # ".",
           \A j \in (k + 1)..(n - 1) : ~LineEnd(s, b, j)
    PROVE  Reading(s)[n] = Reader("data", size, IF LineEnd(s, b, n) THEN n ELSE b, g \o Content(SubSeq(s, k + 1, n)))
  <1>0. \A j \in (k + 1)..n : ~(j = b + 1 /\ s[j] = ".")
    OBVIOUS
  <1>1. ASSUME NEW j \in (k + 1)..(n - 1), NEW h
        PROVE  ReadByte(s, j, Reader("data", size, b, h)) = Reader("data", size, b, h \o Content(<<s[j]>>))
    <2>1. ~LineEnd(s, b, j) /\ ~(j = b + 1 /\ s[j] = ".")
      BY <1>0
    <2> QED BY <2>1 DEF ReadByte, ReadText, Reader
  <1> DEFINE p == n - 1
  <1> DEFINE h == g \o Content(SubSeq(s, k + 1, p))
  <1>2. p \in Nat /\ k <= p /\ p <= Len(s) /\ n \in 1..Len(s)
    OBVIOUS
  <1>3. Reading(s)[p] = Reader("data", size, b, h)
    <2>1. \A j \in (k + 1)..p : \A f \in Seq(Event) :
              ReadByte(s, j, Reader("data", size, b, f)) = Reader("data", size, b, f \o Content(<<s[j]>>))
      BY <1>1
    <2> HIDE DEF p
    <2> QED BY <1>2, <2>1, Copies
  <1> HIDE DEF h
  <1>4. Reading(s)[n] = ReadByte(s, n, Reader("data", size, b, h))
    BY <1>2, <1>3, ReadingStep
  <1>5. ~(n = b + 1 /\ s[n] = ".")
    BY <1>0
  <1>6. Reading(s)[n] = Reader("data", size, IF LineEnd(s, b, n) THEN n ELSE b, h \o Content(<<s[n]>>))
    BY <1>4, <1>5 DEF ReadByte, ReadText, Reader
  <1>7. h \o Content(<<s[n]>>) = g \o Content(SubSeq(s, k + 1, n))
    BY ContinuesByOne DEF h
  <1> QED BY <1>6, <1>7

\* A dot that begins a line is left out.
LEMMA ReadsEscapedText ==
    ASSUME NEW s \in Seq(Byte), NEW k \in Nat, NEW n \in Nat, k + 1 < n, n <= Len(s),
           NEW size, NEW g \in Seq(Event), ~DotLine(s, k),
           Reading(s)[k] = Reader("data", size, k, g), s[k + 1] = ".",
           \A j \in (k + 1)..(n - 1) : ~LineEnd(s, k, j)
    PROVE  Reading(s)[n] = Reader("data", size, IF LineEnd(s, k, n) THEN n ELSE k, g \o Content(SubSeq(s, k + 2, n)))
  <1> DEFINE p == k + 1
  <1>1. p \in Nat /\ k <= p /\ p < n /\ p # k /\ p \in 1..Len(s) /\ p - 1 = k /\ p + 1 = k + 2
    OBVIOUS
  <1>2. ReadByte(s, p, Reader("data", size, k, g)) = Reader("data", size, k, g)
    BY DEF ReadByte, ReadText, Reader, LineEnd
  <1>3. \A j \in (p + 1)..(n - 1) : ~LineEnd(s, k, j)
    OBVIOUS
  <1> HIDE DEF p
  <1>4. Reading(s)[p] = Reader("data", size, k, g)
    BY <1>1, <1>2, ReadingStep
  <1>5. Reading(s)[n] = Reader("data", size, IF LineEnd(s, k, n) THEN n ELSE k, g \o Content(SubSeq(s, p + 1, n)))
    BY <1>1, <1>3, <1>4, ReadsPlainText
  <1> QED BY <1>1, <1>5

-----------------------------------------------------------------------------
(* What has arrived and is not given out.                                  *)

LEMMA ReadingType ==
    ASSUME NEW s \in Seq(Byte), NEW k \in 0..Len(s)
    PROVE  Reading(s)[k] \in [mode : {"command", "data", "chunk"}, size : Nat, begin : Nat, given : Seq(Event)]
  <1> DEFINE T == [mode : {"command", "data", "chunk"}, size : Nat, begin : Nat, given : Seq(Event)]
  <1> DEFINE Bad == {j \in 0..Len(s) : Reading(s)[j] \notin T}
  <1>1. ASSUME NEW r \in T, NEW j \in 1..Len(s) PROVE ReadByte(s, j, r) \in T
    <2>0. j \in Nat /\ r.mode \in {"command", "data", "chunk"} /\ r.size \in Nat /\ r.begin \in Nat /\ r.given \in Seq(Event)
      OBVIOUS
    <2>1. <<s[j]>> \in Seq(Byte) /\ s[j] \in Byte
      BY LastByte
    <2>2. r.given \o Content(<<s[j]>>) \in Seq(Event)
      BY <2>0, <2>1, ContentType, EventConcat
    <2>3. ReadChunk(s, j, r) \in T
      BY <2>0, <2>2 DEF ReadChunk
    <2>4. ReadText(s, j, r) \in T
      <3>1. <<>> \in Seq(Byte)
        OBVIOUS
      <3>2. EndOfText \in Seq(Event)
        BY <3>1 DEF EndOfText, Event
      <3>3. r.given \o EndOfText \in Seq(Event)
        BY <2>0, <3>2, EventConcat
      <3> QED BY <2>0, <2>2, <3>3 DEF ReadText
    <2>5. ReadCommand(s, j, r) \in T
      <3>1. CASE ~LineEnd(s, r.begin, j)
        BY <3>1 DEF ReadCommand
      <3>2. CASE LineEnd(s, r.begin, j)
        <4> DEFINE line == SubSeq(s, r.begin + 1, j - 2)
        <4> DEFINE size == IF Len(line) = 1 /\ line[1] \in DOMAIN Size THEN Size[line[1]] ELSE 0
        <4>1. r.begin <= j - 2 /\ j - 2 \in Nat /\ j - 2 <= Len(s)
          BY <2>0, <3>2 DEF LineEnd
        <4>2. line \in Seq(Byte)
          BY <2>0, <4>1, PieceType
        <4>3. size \in Nat
          <5> HIDE DEF line
          <5> QED BY DEF Size
        <4>4. Command(line) \in Seq(Event)
          <5> HIDE DEF line
          <5> QED BY <4>2 DEF Command, Event
        <4> HIDE DEF line, size
        <4>5. r.given \o Command(line) \in Seq(Event)
          BY <2>0, <4>4, EventConcat
        <4>6. ReadCommand(s, j, r) =
                  [mode  |-> IF line = <<"DATA">> THEN "data" ELSE IF size > 0 THEN "chunk" ELSE "command",
                   size  |-> size, begin |-> j, given |-> r.given \o Command(line)]
          BY <3>2 DEF ReadCommand, line, size
        <4> QED BY <2>0, <4>3, <4>5, <4>6
      <3> QED BY <3>1, <3>2
    <2> QED BY <2>0, <2>3, <2>4, <2>5 DEF ReadByte
  <1>2. NewReader \in T
    BY DEF NewReader
  <1>3. Bad = {}
    <2> SUFFICES ASSUME Bad # {} PROVE FALSE
      OBVIOUS
    <2>1. PICK m \in Bad : \A j \in Bad : m <= j
      <3>1. Bad \in SUBSET Nat
        OBVIOUS
      <3> HIDE DEF Bad
      <3> QED BY <3>1, Least
    <2>2. m \in 0..Len(s) /\ Reading(s)[m] \notin T
      BY <2>1
    <2> HIDE DEF T
    <2>3. m # 0
      BY <1>2, <2>2, ReadingStep
    <2>4. m - 1 \in 0..Len(s) /\ ~(m <= m - 1) /\ m \in 1..Len(s)
      BY <2>2, <2>3
    <2>5. Reading(s)[m - 1] \in T
      BY <2>1, <2>4
    <2> QED BY <1>1, <2>2, <2>4, <2>5, ReadingStep
  <1> QED BY <1>3

LEMMA Window ==
    ASSUME InputInv
    PROVE  /\ stream \in Seq(Byte) /\ in \in Seq(Byte)
           /\ sent \in Nat /\ Taken \in Nat /\ Len(in) \in Nat /\ Len(stream) \in Nat
           /\ sent <= Len(stream) /\ sent = Taken + Len(in)
           /\ \A i \in 1..Len(in) : in[i] = stream[Taken + i]
  <1>1. stream \in Seq(Byte) /\ in \in Seq(Byte) /\ sent \in 0..Len(stream) /\ Len(in) <= sent
    BY DEF InputInv, InputTypeOK
  <1>2. Len(in) \in Nat /\ Len(stream) \in Nat
    BY <1>1
  <1>3. sent \in Nat /\ Taken \in Nat /\ sent = Taken + Len(in) /\ Taken <= sent /\ sent <= Len(stream)
    BY <1>1, <1>2 DEF Taken
  <1>4. \A i \in 1..Len(in) : in[i] = stream[Taken + i]
    <2> DEFINE k == Taken
    <2>1. k \in Nat /\ k <= sent /\ in = SubSeq(stream, k + 1, sent) /\ sent - k = Len(in)
      BY <1>2, <1>3 DEF InputInv
    <2> HIDE DEF k
    <2>2. \A i \in 1..(sent - k) : SubSeq(stream, k + 1, sent)[i] = stream[k + i]
      BY <1>1, <1>3, <2>1, PieceType
    <2>3. \A i \in 1..Len(in) : in[i] = stream[k + i]
      BY <2>1, <2>2
    <2> QED BY <2>3 DEF k
  <1> QED BY <1>1, <1>2, <1>3, <1>4

LEMMA WindowPiece ==
    ASSUME InputInv, NEW a \in Nat, NEW b \in Nat, a <= b, b <= Len(in)
    PROVE  /\ SubSeq(in, a + 1, b) = SubSeq(stream, Taken + a + 1, Taken + b)
           /\ SubSeq(in, a + 1, b) \in Seq(Byte) /\ Len(SubSeq(in, a + 1, b)) = b - a
           /\ \A i \in 1..(b - a) : SubSeq(in, a + 1, b)[i] = in[a + i]
  <1> DEFINE k == Taken
  <1> DEFINE p == k + a
  <1> DEFINE q == k + b
  <1> DEFINE t == SubSeq(in, a + 1, b)
  <1> DEFINE u == SubSeq(stream, p + 1, q)
  <1>1. /\ stream \in Seq(Byte) /\ in \in Seq(Byte) /\ k \in Nat /\ Len(in) \in Nat /\ Len(stream) \in Nat
        /\ k + Len(in) <= Len(stream) /\ \A i \in 1..Len(in) : in[i] = stream[k + i]
    BY Window
  <1> HIDE DEF k
  <1>2. p \in Nat /\ q \in Nat /\ p <= q /\ q <= Len(stream) /\ q - p = b - a
    BY <1>1
  <1>3. t \in Seq(Byte) /\ Len(t) = b - a /\ \A i \in 1..(b - a) : t[i] = in[a + i]
    BY <1>1, PieceType
  <1> HIDE DEF p, q
  <1>4. u \in Seq(Byte) /\ Len(u) = q - p /\ \A i \in 1..(q - p) : u[i] = stream[p + i]
    BY <1>1, <1>2, PieceType
  <1> HIDE DEF t, u
  <1>5. \A i \in 1..Len(t) : t[i] = u[i]
    <2> TAKE i \in 1..Len(t)
    <2>1. i \in 1..(b - a) /\ a + i \in 1..Len(in) /\ p + i = k + (a + i)
      BY <1>1, <1>3 DEF p
    <2> QED BY <1>1, <1>2, <1>3, <1>4, <2>1
  <1>6. t = u
    BY <1>2, <1>3, <1>4, <1>5, SeqEqual
  <1>7. u = SubSeq(stream, Taken + a + 1, Taken + b)
    BY DEF u, p, q, k
  <1> QED BY <1>3, <1>6, <1>7 DEF t

LEMMA WindowStart ==
    ASSUME InputInv, NEW b \in Nat, b <= Len(in)
    PROVE  /\ SubSeq(in, 1, b) = SubSeq(stream, Taken + 1, Taken + b)
           /\ SubSeq(in, 1, b) \in Seq(Byte) /\ Len(SubSeq(in, 1, b)) = b
           /\ \A i \in 1..b : SubSeq(in, 1, b)[i] = in[i]
  <1> DEFINE z == 0
  <1>1. z \in Nat /\ z <= b /\ z + 1 = 1 /\ b - z = b /\ Taken \in Nat /\ Taken + z + 1 = Taken + 1 /\ \A i \in 1..b : z + i = i
    BY Window
  <1> HIDE DEF z
  <1>2. /\ SubSeq(in, z + 1, b) = SubSeq(stream, Taken + z + 1, Taken + b)
        /\ SubSeq(in, z + 1, b) \in Seq(Byte) /\ Len(SubSeq(in, z + 1, b)) = b - z
        /\ \A i \in 1..(b - z) : SubSeq(in, z + 1, b)[i] = in[z + i]
    BY <1>1, WindowPiece
  <1> QED BY <1>1, <1>2

\* What Output::set() leaves.
LEMMA OutputTakes ==
    ASSUME InputInv, NEW n \in Nat, NEW eol \in {<<>>, EndOfLine}, NEW force \in BOOLEAN, n + Len(eol) <= Len(in),
           Output(n, eol, force), UNCHANGED <<stream, sent>>
    PROVE  /\ Taken' \in Nat /\ Taken' = Taken + n + Len(eol) /\ Taken' <= Len(stream)
           /\ in' \in Seq(Byte) /\ Len(in') <= sent /\ in' = SubSeq(stream, Taken' + 1, sent)
           /\ Len(eol) = (IF eol = EndOfLine THEN 2 ELSE 0) /\ (eol # <<>> <=> eol = EndOfLine)
           /\ out' \in [first : BOOLEAN, ended : BOOLEAN, linesize : Nat, c0 : Byte \cup {"none"}]
  <1> DEFINE a == n + Len(eol)
  <1> DEFINE b == Len(in)
  <1> DEFINE k == Taken
  <1>0. Len(eol) = (IF eol = EndOfLine THEN 2 ELSE 0) /\ (eol # <<>> <=> eol = EndOfLine) /\ Len(eol) \in Nat
    BY DEF EndOfLine
  <1>1. /\ in \in Seq(Byte) /\ k \in Nat /\ b \in Nat /\ a \in Nat /\ sent = k + b /\ sent <= Len(stream) /\ Len(stream) \in Nat /\ sent \in Nat
        /\ a <= b
    BY <1>0, Window
  <1>2. in' = SubSeq(in, a + 1, b)
    BY DEF Output
  <1> HIDE DEF a, b, k
  <1>3. in' \in Seq(Byte) /\ Len(in') = b - a /\ in' = SubSeq(stream, k + a + 1, k + b)
    <2>1. b <= Len(in)
      BY <1>1 DEF b
    <2>2. /\ SubSeq(in, a + 1, b) \in Seq(Byte) /\ Len(SubSeq(in, a + 1, b)) = b - a
          /\ SubSeq(in, a + 1, b) = SubSeq(stream, Taken + a + 1, Taken + b)
      BY <1>1, <2>1, WindowPiece
    <2> QED BY <1>2, <2>2 DEF k
  <1>4. Taken' = k + a
    BY <1>1, <1>3 DEF Taken
  <1>5. out' \in [first : BOOLEAN, ended : BOOLEAN, linesize : Nat, c0 : Byte \cup {"none"}]
    <2>1. out \in [first : BOOLEAN, ended : BOOLEAN, linesize : Nat, c0 : Byte \cup {"none"}]
      BY DEF InputInv, InputTypeOK
    <2>2. n # 0 => in[1] \in Byte
      <3>1. n # 0 => 1 \in 1..Len(in)
        BY <1>0, <1>1 DEF a, b
      <3> QED BY <1>1, <3>1, ElementOfSeq
    <2> QED BY <2>1, <2>2 DEF Output
  <1>6. k + a = Taken + n + Len(eol)
    BY <1>0, <1>1 DEF k, a
  <1> QED BY <1>0, <1>1, <1>3, <1>4, <1>5, <1>6

-----------------------------------------------------------------------------
(* One lemma for each action.                                              *)

LEMMA ReaderUnchanged ==
    ASSUME ReaderInv, UNCHANGED <<stream, Taken, out, got, state, left>>
    PROVE  ReaderInv'
  BY DEF ReaderInv, LineInv

LEMMA ReaderIs ==
    ASSUME InputInv
    PROVE  LET r == Reading(stream)[Taken]
           IN  /\ r = Reader(r.mode, r.size, r.begin, got) /\ r.size \in Nat /\ r.begin \in Nat
               /\ r.given = got /\ got \in Seq(Event)
  <1> DEFINE r == Reading(stream)[Taken]
  <1>1. Taken \in 0..Len(stream) /\ stream \in Seq(Byte)
    BY Window
  <1>2. r \in [mode : {"command", "data", "chunk"}, size : Nat, begin : Nat, given : Seq(Event)]
    BY <1>1, ReadingType
  <1>3. r.given = got /\ got \in Seq(Event)
    BY DEF InputInv, ReaderInv
  <1> HIDE DEF r
  <1>4. r = Reader(r.mode, r.size, r.begin, got) /\ r.size \in Nat /\ r.begin \in Nat
    BY <1>2, <1>3 DEF Reader
  <1> QED BY <1>3, <1>4 DEF r

\* The rest of the type and of the buffer after more() has given something out.
LEMMA MoreKeeps ==
    ASSUME InputInv, loop # "no", UNCHANGED <<stream, sent>>,
           NEW n \in Nat, NEW eol \in {<<>>, EndOfLine}, NEW force \in BOOLEAN, n + Len(eol) <= Len(in),
           Output(n, eol, force), NEW s \in {"command", "data", "chunk", "busy"}, Go(s),
           left' \in Nat, expect' = left', left' > 0 <=> s = "chunk", ReaderInv'
    PROVE  InputInv'
  <1>1. /\ Len(in') <= sent /\ in' \in Seq(Byte) /\ in' = SubSeq(stream, Taken' + 1, sent)
        /\ out' \in [first : BOOLEAN, ended : BOOLEAN, linesize : Nat, c0 : Byte \cup {"none"}]
    BY OutputTakes
  <1>2. /\ stream \in Seq(Byte) /\ sent \in 0..Len(stream) /\ loop \in {"no", "piece", "timeout"}
        /\ timer \in {"off", "limit", "zero"} /\ flow \in BOOLEAN /\ state \in {"command", "data", "chunk", "busy"}
    BY DEF InputInv, InputTypeOK
  <1>3. /\ state' = s
        /\ loop' \in {"no", "piece", "timeout"} /\ timer' \in {"off", "limit", "zero"} /\ flow' \in BOOLEAN
        /\ state' = "busy" => loop' = "no" /\ timer' # "zero"
    BY <1>2 DEF Go, EndLoop
  <1>4. InputTypeOK'
    BY <1>1, <1>2, <1>3 DEF InputTypeOK
  <1> QED BY <1>1, <1>3, <1>4 DEF InputInv

LEMMA ChunkPreserves ==
    ASSUME InputInv, loop # "no", UNCHANGED <<stream, sent>>,
           NEW n \in Nat, n > 0, n <= left, n <= Len(in), NEW force \in BOOLEAN,
           Output(n, <<>>, force), left' = left - n, expect' = left', ApplyChunk(SubSeq(in, 1, n))
    PROVE  InputInv'
  <1> DEFINE k == Taken
  <1> DEFINE q == k + n
  <1> DEFINE r == Reading(stream)[k]
  <1> DEFINE piece == SubSeq(in, 1, n)
  <1>1. left \in Nat /\ state = "chunk"
    BY DEF InputInv, InputTypeOK
  <1>2. r.mode = "chunk" /\ r.begin + r.size = k + left
    BY <1>1 DEF InputInv, ReaderInv
  <1>3. r = Reader("chunk", r.size, r.begin, got) /\ r.size \in Nat /\ r.begin \in Nat /\ got \in Seq(Event)
    BY <1>2, ReaderIs
  <1>4. stream \in Seq(Byte) /\ k \in Nat /\ Len(in) \in Nat /\ Len(stream) \in Nat /\ k + Len(in) <= Len(stream)
    BY Window
  <1>5. Taken' = q
    <2>1. Taken' = Taken + n + Len(<<>>) /\ Len(<<>>) = 0
      BY OutputTakes, EmptySeq
    <2> QED BY <1>4, <2>1
  <1>6. piece = SubSeq(stream, k + 1, q)
    BY WindowStart
  <1>7. got' = got \o Content(piece)
    BY DEF ApplyChunk
  <1>8. q \in Nat /\ k < q /\ q <= Len(stream) /\ q <= r.begin + r.size /\ (q = r.begin + r.size <=> left' = 0)
    BY <1>1, <1>2, <1>3, <1>4
  <1> HIDE DEF k, q, r, piece
  <1>9. Reading(stream)[q] = IF q = r.begin + r.size THEN Reader("command", 0, q, got') ELSE Reader("chunk", r.size, r.begin, got')
    <2>1. Reading(stream)[k] = Reader("chunk", r.size, r.begin, got)
      BY <1>3 DEF r
    <2> DEFINE size == r.size
    <2> DEFINE begin == r.begin
    <2>2. size \in Nat /\ begin \in Nat /\ q <= begin + size /\ Reading(stream)[k] = Reader("chunk", size, begin, got)
      BY <1>3, <1>8, <2>1
    <2> HIDE DEF size, begin
    <2>3. Reading(stream)[q] = IF q = begin + size
                               THEN Reader("command", 0, q, got \o Content(SubSeq(stream, k + 1, q)))
                               ELSE Reader("chunk", size, begin, got \o Content(SubSeq(stream, k + 1, q)))
      <3>1. k < q /\ q <= Len(stream) /\ got \in Seq(Event) /\ stream \in Seq(Byte) /\ k \in Nat /\ q \in Nat
        BY <1>3, <1>4, <1>8
      <3> QED BY <2>2, <3>1, ReadsChunk
    <2> QED BY <1>6, <1>7, <2>3 DEF size, begin
  <1>10. got' \in Seq(Event)
    <2>1. piece \in Seq(Byte)
      BY <1>4, <1>6, <1>8, PieceType
    <2>2. Content(piece) \in Seq(Event)
      BY <2>1, ContentType
    <2> QED BY <1>3, <1>7, <2>2, EventConcat
  <1> DEFINE s == IF left' = 0 THEN "command" ELSE "chunk"
  <1>11. Go(s) /\ state' = s
    BY DEF ApplyChunk, Go
  <1>12. left' \in Nat /\ (left' > 0 <=> s = "chunk") /\ s \in {"command", "data", "chunk", "busy"}
    BY <1>1
  <1>13. ReaderInv'
    <2>1. CASE left' = 0
      <3>1. Reading(stream')[Taken'] = Reader("command", 0, Taken', got') /\ state' = "command"
        BY <1>5, <1>8, <1>9, <1>11, <2>1
      <3> QED BY <1>10, <3>1 DEF ReaderInv, Reader
    <2>2. CASE left' # 0
      <3>1. Reading(stream')[Taken'] = Reader("chunk", r.size, r.begin, got') /\ state' = "chunk"
        BY <1>5, <1>8, <1>9, <1>11, <2>2
      <3>2. r.begin + r.size = Taken' + left'
        BY <1>1, <1>2, <1>3, <1>4, <1>5 DEF q
      <3> QED BY <1>10, <3>1, <3>2 DEF ReaderInv, Reader
    <2> QED BY <2>1, <2>2
  <1> HIDE DEF s
  <1>14. n + Len(<<>>) <= Len(in)
    BY EmptySeq
  <1> QED BY <1>11, <1>12, <1>13, <1>14, MoreKeeps

LEMMA ExpectAllPreserves ==
    ASSUME InputInv, loop # "no", UNCHANGED <<stream, sent>>, ExpectAll
    PROVE  InputInv'
  <1>1. expect \in Nat /\ expect = left /\ Len(in) \in Nat
    BY Window DEF InputInv, InputTypeOK
  <1>2. expect > 0 /\ expect <= left /\ expect <= Len(in) /\ left' = left - expect /\ expect' = left'
    BY <1>1 DEF ExpectAll
  <1>3. Output(expect, <<>>, TRUE) /\ ApplyChunk(SubSeq(in, 1, expect))
    BY DEF ExpectAll
  <1> QED BY <1>1, <1>2, <1>3, ChunkPreserves

LEMMA ExpectSomePreserves ==
    ASSUME InputInv, loop # "no", UNCHANGED <<stream, sent>>, ExpectSome
    PROVE  InputInv'
  <1> DEFINE n == Len(in)
  <1>1. expect \in Nat /\ expect = left /\ n \in Nat /\ in \in Seq(Byte)
    BY Window DEF InputInv, InputTypeOK
  <1>2. n > 0 /\ n <= left /\ left' = left - n /\ expect' = left'
    BY <1>1 DEF ExpectSome, Trivial, Fmin
  <1>3. Output(n, <<>>, FALSE) /\ ApplyChunk(in)
    BY DEF ExpectSome
  <1>4. SubSeq(in, 1, n) = in
    BY <1>1, SubSeqFull
  <1> HIDE DEF n
  <1>5. n <= Len(in)
    BY <1>1 DEF n
  <1>6. ApplyChunk(SubSeq(in, 1, n))
    BY <1>3, <1>4 DEF ApplyChunk
  <1> QED BY <1>1, <1>2, <1>3, <1>5, <1>6, ChunkPreserves

LEMMA MinIsLeast == ASSUME NEW S \in SUBSET Nat, S # {} PROVE Min(S) \in S /\ \A n \in S : Min(S) <= n
  BY Least DEF Min

LEMMA NoLineEnd ==
    ASSUME InputInv, NEW b \in Nat, NEW j \in (Taken + 2)..(Taken + Len(in)), j - Taken - 1 \notin Ends
    PROVE  ~LineEnd(stream, b, j)
  <1> DEFINE k == Taken
  <1> DEFINE i == j - k - 1
  <1>1. k \in Nat /\ Len(in) \in Nat /\ \A h \in 1..Len(in) : in[h] = stream[k + h]
    BY Window
  <1>2. i \in 1..(Len(in) - 1) /\ i \in 1..Len(in) /\ i + 1 \in 1..Len(in) /\ k + i = j - 1 /\ k + (i + 1) = j
    BY <1>1
  <1>3. ~(in[i] = "CR" /\ in[i + 1] = "LF")
    BY <1>2 DEF Ends
  <1> HIDE DEF i, k
  <1>4. in[i] = stream[j - 1] /\ in[i + 1] = stream[j]
    BY <1>1, <1>2
  <1> QED BY <1>3, <1>4 DEF LineEnd

LEMMA FirstEnd ==
    ASSUME InputInv, Ends # {}
    PROVE  LET n == Min(Ends) - 1
               q == Taken + n + 2
           IN  /\ n \in Nat /\ n + 2 <= Len(in) /\ q \in Nat /\ q <= Len(stream)
               /\ stream[Taken + n + 1] = "CR" /\ stream[Taken + n + 2] = "LF" /\ in[n + 1] = "CR"
               /\ \A b \in Nat : b <= Taken => LineEnd(stream, b, q)
               /\ \A b \in Nat : \A j \in (Taken + 2)..(q - 1) : ~LineEnd(stream, b, j)
               /\ SubSeq(stream, Taken + n + 1, q) = EndOfLine
               /\ SubSeq(in, 1, n) = SubSeq(stream, Taken + 1, Taken + n)
               /\ SubSeq(in, 1, n) \in Seq(Byte) /\ Len(SubSeq(in, 1, n)) = n
               /\ SubSeq(in, 1, n) \o EndOfLine = SubSeq(stream, Taken + 1, q)
  <1> DEFINE k == Taken
  <1> DEFINE e == Min(Ends)
  <1> DEFINE n == e - 1
  <1> DEFINE q == k + n + 2
  <1>1. /\ stream \in Seq(Byte) /\ k \in Nat /\ Len(in) \in Nat /\ Len(stream) \in Nat /\ k + Len(in) <= Len(stream)
        /\ \A h \in 1..Len(in) : in[h] = stream[k + h]
    BY Window
  <1>2. e \in Ends /\ \A i \in Ends : e <= i
    <2>1. Ends \in SUBSET Nat
      BY <1>1 DEF Ends
    <2> QED BY <2>1, MinIsLeast
  <1> HIDE DEF e
  <1>3. e \in 1..(Len(in) - 1) /\ in[e] = "CR" /\ in[e + 1] = "LF"
    BY <1>2 DEF Ends
  <1>4. n \in Nat /\ n + 2 <= Len(in) /\ q \in Nat /\ q <= Len(stream) /\ n + 1 = e /\ k + n + 2 = q /\ k + n + 1 = q - 1
    BY <1>1, <1>3
  <1>5. stream[q - 1] = "CR" /\ stream[q] = "LF"
    <2>1. e \in 1..Len(in) /\ e + 1 \in 1..Len(in) /\ k + e = q - 1 /\ k + (e + 1) = q
      BY <1>1, <1>3, <1>4
    <2> HIDE DEF k, q, n
    <2> QED BY <1>1, <1>3, <2>1
  <1>6. ASSUME NEW b \in Nat, NEW j \in (k + 2)..(q - 1) PROVE ~LineEnd(stream, b, j)
    <2>1. j \in (k + 2)..(k + Len(in)) /\ ~(e <= j - k - 1)
      BY <1>1, <1>3, <1>4
    <2>2. j - k - 1 \notin Ends
      BY <1>2, <2>1
    <2> QED BY <2>1, <2>2, NoLineEnd
  <1>7. ASSUME NEW b \in Nat, b <= k PROVE LineEnd(stream, b, q)
    <2>1. q >= b + 2
      BY <1>1, <1>4, <1>7
    <2> HIDE DEF q
    <2> QED BY <1>5, <2>1 DEF LineEnd
  <1>8. /\ SubSeq(in, 1, n) = SubSeq(stream, k + 1, k + n)
        /\ SubSeq(in, 1, n) \in Seq(Byte) /\ Len(SubSeq(in, 1, n)) = n
    <2>1. n \in Nat /\ n <= Len(in)
      BY <1>1, <1>4
    <2> HIDE DEF n
    <2> QED BY <2>1, WindowStart
  <1>9. SubSeq(stream, k + n + 1, q) = EndOfLine
    <2> DEFINE u == k + n
    <2> DEFINE t == SubSeq(stream, u + 1, q)
    <2>1. u \in Nat /\ u <= q /\ q - u = 2 /\ u + 1 = q - 1 /\ u + 2 = q
      BY <1>1, <1>4
    <2> HIDE DEF u, q
    <2>2. t \in Seq(Byte) /\ Len(t) = 2 /\ t[1] = stream[u + 1] /\ t[2] = stream[u + 2]
      <3>1. t \in Seq(Byte) /\ Len(t) = q - u /\ \A i \in 1..(q - u) : t[i] = stream[u + i]
        BY <1>1, <1>4, <2>1, PieceType
      <3> HIDE DEF t
      <3> QED BY <2>1, <3>1
    <2> HIDE DEF t
    <2>3. EndOfLine \in Seq(Byte) /\ Len(EndOfLine) = 2 /\ EndOfLine[1] = "CR" /\ EndOfLine[2] = "LF"
      BY DEF EndOfLine, Byte
    <2>4. \A i \in 1..Len(t) : t[i] = EndOfLine[i]
      BY <1>5, <2>1, <2>2, <2>3
    <2>5. t = EndOfLine
      BY <2>2, <2>3, <2>4, SeqEqual
    <2> QED BY <2>5 DEF t, u
  <1>10. SubSeq(in, 1, n) \o EndOfLine = SubSeq(stream, k + 1, q)
    <2> DEFINE u == k + n
    <2>1. u \in Nat /\ k <= u /\ u <= q
      BY <1>1, <1>4
    <2>2. SubSeq(stream, u + 1, q) = EndOfLine /\ SubSeq(in, 1, n) = SubSeq(stream, k + 1, u)
      BY <1>8, <1>9
    <2> HIDE DEF u, q, n, k
    <2>3. SubSeq(stream, k + 1, q) = SubSeq(stream, k + 1, u) \o SubSeq(stream, u + 1, q)
      BY <1>1, <1>4, <2>1, PieceConcat
    <2> QED BY <2>2, <2>3
  <1>11. in[n + 1] = "CR" /\ stream[k + n + 1] = "CR" /\ stream[k + n + 2] = "LF"
    <2> HIDE DEF n, q
    <2> QED BY <1>3, <1>4, <1>5
  <1>12. /\ \A b \in Nat : b <= k => LineEnd(stream, b, q)
         /\ \A b \in Nat : \A j \in (k + 2)..(q - 1) : ~LineEnd(stream, b, j)
    <2> HIDE DEF k, q
    <2> QED BY <1>6, <1>7
  <1> HIDE DEF k, n, q
  <1> QED BY <1>4, <1>8, <1>9, <1>10, <1>11, <1>12 DEF k, n, q, e

\* A line in the state of commands.
LEMMA CommandPreserves ==
    ASSUME InputInv, loop # "no", UNCHANGED <<stream, sent>>, state = "command", Line
    PROVE  InputInv'
  <1> DEFINE k == Taken
  <1> DEFINE n == Min(Ends) - 1
  <1> DEFINE q == k + n + 2
  <1> DEFINE line == SubSeq(in, 1, n)
  <1> DEFINE size == IF n = 1 /\ in[1] \in DOMAIN Size THEN Size[in[1]] ELSE 0
  <1> DEFINE r == Reading(stream)[k]
  <1>1. /\ stream \in Seq(Byte) /\ k \in Nat /\ Len(in) \in Nat /\ Len(stream) \in Nat /\ k + Len(in) <= Len(stream)
    BY Window
  <1>2. Ends # {} /\ Output(n, EndOfLine, FALSE) /\ expect' = size /\ left' = size /\ ApplyCommand(line)
    BY DEF Line
  <1>3. /\ n \in Nat /\ n + 2 <= Len(in) /\ q \in Nat /\ q <= Len(stream) /\ LineEnd(stream, k, q)
        /\ \A j \in (k + 2)..(q - 1) : ~LineEnd(stream, k, j)
        /\ line = SubSeq(stream, k + 1, k + n) /\ line \in Seq(Byte) /\ Len(line) = n
    <2>1. /\ n \in Nat /\ n + 2 <= Len(in) /\ q \in Nat /\ q <= Len(stream)
          /\ \A b \in Nat : b <= k => LineEnd(stream, b, q)
          /\ \A b \in Nat : \A j \in (k + 2)..(q - 1) : ~LineEnd(stream, b, j)
      BY <1>2, FirstEnd
    <2>2. line = SubSeq(stream, k + 1, k + n) /\ line \in Seq(Byte) /\ Len(line) = n
      BY <1>2, FirstEnd
    <2> HIDE DEF k, n, q, line
    <2> QED BY <1>1, <2>1, <2>2
  <1>4. r.mode = "command" /\ r.begin = k /\ r.given = got /\ got \in Seq(Event)
    BY DEF InputInv, ReaderInv
  <1>5. n + Len(EndOfLine) <= Len(in) /\ Taken' = q /\ out'.ended = TRUE
    <2>1. Len(EndOfLine) = 2 /\ n + Len(EndOfLine) <= Len(in) /\ EndOfLine # <<>>
      BY <1>3 DEF EndOfLine
    <2>2. Taken' = Taken + n + Len(EndOfLine)
      <3> HIDE DEF n
      <3> QED BY <1>2, <1>3, <2>1, OutputTakes
    <2>3. out'.ended = TRUE
      BY <1>2, <2>1 DEF Output
    <2> QED BY <1>1, <1>3, <2>1, <2>2, <2>3
  <1>6. Len(line) = 1 => line[1] = in[1]
    <2>1. n \in Nat /\ n <= Len(in)
      BY <1>1, <1>3
    <2>2. \A i \in 1..n : line[i] = in[i]
      <3> HIDE DEF n
      <3> QED BY <2>1, WindowStart
    <2> QED BY <1>3, <2>2
  <1>7. size = IF Len(line) = 1 /\ line[1] \in DOMAIN Size THEN Size[line[1]] ELSE 0
    BY <1>3, <1>6
  <1>8. q - 2 = k + n /\ k < q
    <2> HIDE DEF k, n
    <2> QED BY <1>1, <1>3
  <1> HIDE DEF k, n, q, line, size, r
  <1>9. Reading(stream)[q] = ReadCommand(stream, q, r)
    <2>1. \A j \in (k + 1)..(q - 1) : ~LineEnd(stream, k, j)
      <3> TAKE j \in (k + 1)..(q - 1)
      <3>1. CASE j = k + 1
        BY <1>1, <3>1 DEF LineEnd
      <3>2. CASE j # k + 1
        BY <1>1, <1>3, <3>2
      <3> QED BY <3>1, <3>2
    <2>2. Reading(stream)[k] = r
      BY DEF r
    <2>3. LineEnd(stream, k, q) /\ q \in Nat /\ q <= Len(stream) /\ r.mode = "command" /\ r.begin = k
      BY <1>3, <1>4
    <2> QED BY <1>1, <2>1, <2>2, <2>3, ReadsCommand
  <1> DEFINE mode == IF line = <<"DATA">> THEN "data" ELSE IF size > 0 THEN "chunk" ELSE "command"
  <1>10. Reading(stream)[q] = Reader(mode, size, q, got \o Command(line))
    BY <1>3, <1>4, <1>7, <1>8, <1>9 DEF ReadCommand, Reader
  <1>11. got' = got \o Command(line) /\ got' \in Seq(Event)
    <2>1. Command(line) \in Seq(Event)
      BY <1>3 DEF Command, Event
    <2> QED BY <1>2, <1>4, <2>1, EventConcat DEF ApplyCommand
  <1>12. size \in Nat /\ (line = <<"DATA">> => size = 0) /\ (line = <<"RCPT">> => size = 0)
         /\ (Len(line) = 1 /\ line[1] \in DOMAIN Size <=> size > 0)
    <2>1. DOMAIN Size = {"BDAT 1", "BDAT 2", "BDAT 3"}
      BY DEF Size
    <2>2. \A b \in {"BDAT 1", "BDAT 2", "BDAT 3"} : Size[b] \in {1, 2, 3}
      BY DEF Size
    <2>3. line = <<"DATA">> \/ line = <<"RCPT">> => ~(line[1] \in DOMAIN Size)
      <3>1. line = <<"DATA">> \/ line = <<"RCPT">> => line[1] = "DATA" \/ line[1] = "RCPT"
        OBVIOUS
      <3> QED BY <2>1, <3>1
    <2>4. CASE Len(line) = 1 /\ line[1] \in DOMAIN Size
      <3>1. size \in {1, 2, 3}
        BY <1>7, <2>1, <2>2, <2>4
      <3> QED BY <2>3, <2>4, <3>1
    <2>5. CASE ~(Len(line) = 1 /\ line[1] \in DOMAIN Size)
      BY <1>7, <2>5
    <2> QED BY <2>4, <2>5
  <1>13. \/ Go("data") /\ mode = "data"
         \/ Go("chunk") /\ mode = "chunk"
         \/ Go("command") /\ mode = "command"
         \/ Go("busy") /\ mode = "command"
    <2>1. CASE line = <<"DATA">>
      <3>1. line # <<"RCPT">> /\ mode = "data"
        BY <2>1
      <3>2. Go("data")
        BY <1>2, <1>12, <2>1, <3>1 DEF ApplyCommand
      <3> HIDE DEF mode
      <3> QED BY <3>1, <3>2
    <2>2. CASE line # <<"DATA">> /\ size > 0
      <3>1. Go("chunk")
        BY <1>2, <1>12, <2>2 DEF ApplyCommand
      <3>2. mode = "chunk"
        BY <2>2
      <3> HIDE DEF mode
      <3> QED BY <3>1, <3>2
    <2>3. CASE line # <<"DATA">> /\ ~(size > 0)
      <3>1. (Go("command") \/ Go("busy")) /\ mode = "command"
        BY <1>2, <1>12, <2>3 DEF ApplyCommand
      <3> QED BY <3>1
    <2> QED BY <2>1, <2>2, <2>3
  <1>14. state' = mode \/ (state' = "busy" /\ mode = "command")
    <2> HIDE DEF mode
    <2>1. CASE Go("data") /\ mode = "data"
      BY <2>1 DEF Go
    <2>2. CASE Go("chunk") /\ mode = "chunk"
      BY <2>2 DEF Go
    <2>3. CASE Go("command") /\ mode = "command"
      BY <2>3 DEF Go
    <2>4. CASE Go("busy") /\ mode = "command"
      BY <2>4 DEF Go
    <2> QED BY <1>13, <2>1, <2>2, <2>3, <2>4
  <1>15. (left' > 0 <=> mode = "chunk") /\ left' \in Nat /\ expect' = left'
    BY <1>2, <1>12
  <1>16. mode \in {"command", "data", "chunk"}
    OBVIOUS
  <1> HIDE DEF mode
  <1>17. ReaderInv'
    <2>1. Reading(stream')[Taken'] = Reader(mode, size, Taken', got')
      BY <1>5, <1>10, <1>11
    <2>2. LineInv'
      BY <1>3, <1>5, <2>1 DEF LineInv, Reader
    <2>3. left' = size /\ Taken' \in Nat
      BY <1>2, <1>3, <1>5
    <2> QED BY <1>11, <1>14, <1>15, <1>16, <2>1, <2>2, <2>3 DEF ReaderInv, Reader
  <1>18. EndOfLine \in {<<>>, EndOfLine}
    OBVIOUS
  <1>19. CASE Go("data") /\ mode = "data"
    BY <1>2, <1>3, <1>5, <1>15, <1>17, <1>18, <1>19, MoreKeeps
  <1>20. CASE Go("chunk") /\ mode = "chunk"
    BY <1>2, <1>3, <1>5, <1>15, <1>17, <1>18, <1>20, MoreKeeps
  <1>21. CASE Go("command") /\ mode = "command"
    BY <1>2, <1>3, <1>5, <1>15, <1>17, <1>18, <1>21, MoreKeeps
  <1>22. CASE Go("busy") /\ mode = "command"
    BY <1>2, <1>3, <1>5, <1>15, <1>17, <1>18, <1>22, MoreKeeps
  <1> QED BY <1>13, <1>19, <1>20, <1>21, <1>22

\* n bytes and eol, up to byte q, are text of the line that begins after byte b.
IsText(n, eol, q, b) ==
    /\ q = Taken + n + Len(eol) /\ Taken < q /\ q <= Taken + Len(in)
    /\ eol # <<>> => SubSeq(stream, Taken + n + 1, q) = eol
    /\ b = Reading(stream)[Taken].begin /\ ~DotLine(stream, b)
    /\ \A j \in (Taken + 1)..(q - 1) : ~LineEnd(stream, b, j)
    /\ b = Taken /\ n <= 1 => stream[Taken + 1] # "."

\* A piece of text that is not the end of the text.
LEMMA TextIsRead ==
    ASSUME InputInv, state = "data", UNCHANGED <<stream, sent>>,
           NEW n \in Nat, NEW eol \in {<<>>, EndOfLine}, NEW q \in Nat, NEW b \in Nat, IsText(n, eol, q, b),
           Output(n, eol, FALSE), ApplyText(SubSeq(in, 1, n), eol), ~IsEndOfText(eol)
    PROVE  /\ \E size \in Nat : Reading(stream')[Taken'] = Reader("data", size, IF LineEnd(stream, b, q) THEN q ELSE b, got')
           /\ Taken' = q /\ got' \in Seq(Event) /\ Go("data")
  <1> DEFINE k == Taken
  <1> DEFINE m == k + n
  <1> DEFINE piece == SubSeq(in, 1, n)
  <1> DEFINE size == Reading(stream)[k].size
  <1> DEFINE start == out.first \/ out.ended
  <1>0. /\ q = k + n + Len(eol) /\ k < q /\ q <= k + Len(in)
        /\ eol # <<>> => SubSeq(stream, m + 1, q) = eol
        /\ b = Reading(stream)[k].begin /\ ~DotLine(stream, b)
        /\ \A j \in (k + 1)..(q - 1) : ~LineEnd(stream, b, j)
        /\ k = b /\ n <= 1 => stream[k + 1] # "."
    BY DEF IsText
  <1>1. /\ stream \in Seq(Byte) /\ in \in Seq(Byte) /\ k \in Nat /\ Len(in) \in Nat /\ Len(stream) \in Nat /\ k + Len(in) <= Len(stream)
        /\ q <= Len(stream) /\ Len(in) > 0 /\ in[1] = stream[k + 1]
    <2>1. /\ stream \in Seq(Byte) /\ in \in Seq(Byte) /\ k \in Nat /\ Len(in) \in Nat /\ Len(stream) \in Nat /\ k + Len(in) <= Len(stream)
          /\ \A i \in 1..Len(in) : in[i] = stream[k + i]
      BY Window
    <2> HIDE DEF k
    <2>2. k < q /\ q <= k + Len(in)
      BY <1>0
    <2>3. Len(in) > 0 /\ 1 \in 1..Len(in)
      BY <2>1, <2>2
    <2> QED BY <2>1, <2>2, <2>3
  <1>2. Reading(stream)[k] = Reader("data", size, b, got) /\ size \in Nat /\ got \in Seq(Event)
    <2>1. Reading(stream)[k].mode = "data"
      BY DEF InputInv, ReaderInv
    <2> QED BY <1>0, <2>1, ReaderIs
  <1>3. LineInv
    BY DEF InputInv, ReaderInv
  <1>4. (start <=> k = b) /\ (~start => out.linesize \in Nat /\ out.linesize >= 2) /\ b <= k
    <2>1. b = Reading(stream)[Taken].begin
      BY <1>0
    <2>2. /\ b <= Taken /\ (Taken = b => start)
          /\ Taken # b => ~start /\ out.linesize = Taken - b /\ out.linesize >= 2
      BY <1>3, <2>1 DEF LineInv
    <2> HIDE DEF start
    <2> QED BY <1>1, <2>2
  <1>5. Len(eol) \in Nat /\ n + Len(eol) <= Len(in) /\ n <= Len(in) /\ m \in Nat /\ m <= q /\ k <= m /\ k < q
    <2>1. Len(eol) \in Nat
      BY DEF EndOfLine
    <2>2. q = k + n + Len(eol) /\ k < q /\ q <= k + Len(in)
      BY <1>0
    <2>3. k \in Nat /\ Len(in) \in Nat
      BY <1>1
    <2> HIDE DEF k
    <2> QED BY <2>1, <2>2, <2>3
  <1>6. Taken' = q
    BY <1>0, <1>1, <1>5, OutputTakes
  <1>7. piece = SubSeq(stream, k + 1, m) /\ piece \in Seq(Byte) /\ Len(piece) = n
    BY <1>5, WindowStart
  <1>8. eol = SubSeq(stream, m + 1, q) /\ eol \in Seq(Byte)
    <2>1. eol = SubSeq(stream, m + 1, q)
      <3>1. CASE eol = <<>>
        <4>1. Len(eol) = 0
          BY <3>1, EmptySeq
        <4>2. q = m
          BY <1>0, <1>1, <4>1
        <4> HIDE DEF m
        <4>3. SubSeq(stream, m + 1, m) = <<>>
          BY <1>1, <1>5, SubSeqEmpty
        <4> QED BY <3>1, <4>2, <4>3
      <3>2. CASE eol # <<>>
        BY <1>0, <3>2
      <3> QED BY <3>1, <3>2
    <2>2. EndOfLine \in Seq(Byte) /\ <<>> \in Seq(Byte)
      BY DEF EndOfLine, Byte
    <2> QED BY <2>1, <2>2
  <1>9. out'.linesize = (IF start THEN n ELSE out.linesize + n) /\ (start /\ n > 0 => out'.c0 = in[1])
    BY DEF Output
  <1>10. IsEscaped(piece) <=> (n > 1 /\ k = b /\ stream[k + 1] = ".")
    <2> HIDE DEF k, piece, start
    <2>1. CASE start
      BY <1>1, <1>4, <1>7, <1>9, <2>1 DEF IsEscaped
    <2>2. CASE ~start
      BY <1>1, <1>4, <1>7, <1>9, <2>2 DEF IsEscaped
    <2> QED BY <2>1, <2>2
  <1>11. got' = got \o Content((IF IsEscaped(piece) THEN Tail(piece) ELSE piece) \o eol) /\ Go("data")
    BY DEF ApplyText
  <1>12. /\ k = b /\ n <= 1 => stream[k + 1] # "."
         /\ \A j \in (k + 1)..(q - 1) : ~LineEnd(stream, b, j)
         /\ ~DotLine(stream, b)
    BY <1>0
  <1> DEFINE last == IF LineEnd(stream, b, q) THEN q ELSE b
  <1> HIDE DEF k, m, piece, size, start
  <1>13. CASE n > 1 /\ k = b /\ stream[k + 1] = "."
    <2> DEFINE k1 == k + 1
    <2> DEFINE text == SubSeq(stream, k1 + 1, q)
    <2>1. k1 \in Nat /\ k1 <= m /\ k1 < q /\ k + 2 = k1 + 1 /\ k + 1 = k1
      BY <1>1, <1>5, <1>13 DEF m
    <2>2. Reading(stream)[q] = Reader("data", size, last, got \o Content(SubSeq(stream, k + 2, q)))
      <3>1. /\ \A j \in (k + 1)..(q - 1) : ~LineEnd(stream, k, j)
            /\ Reading(stream)[k] = Reader("data", size, k, got) /\ ~DotLine(stream, k)
            /\ stream[k + 1] = "." /\ k + 1 < q /\ last = IF LineEnd(stream, k, q) THEN q ELSE k
        BY <1>2, <1>12, <1>13, <2>1
      <3> HIDE DEF last
      <3>2. Reading(stream)[q] = Reader("data", size, IF LineEnd(stream, k, q) THEN q ELSE k, got \o Content(SubSeq(stream, k + 2, q)))
        BY <1>1, <1>2, <3>1, ReadsEscapedText
      <3> QED BY <3>1, <3>2
    <2>3. Tail(piece) = SubSeq(stream, k1 + 1, m)
      <3> DEFINE t == Tail(piece)
      <3> DEFINE u == SubSeq(stream, k1 + 1, m)
      <3>1. u \in Seq(Byte) /\ Len(u) = m - k1 /\ \A i \in 1..(m - k1) : u[i] = stream[k1 + i]
        BY <1>1, <1>5, <2>1, PieceType
      <3>2. t \in Seq(Byte) /\ Len(t) = n - 1 /\ \A i \in 1..(n - 1) : t[i] = piece[i + 1]
        <4>1. piece # <<>>
          <5>1. Len(piece) > 1
            BY <1>7, <1>13
          <5>2. Len(<<>>) = 0
            OBVIOUS
          <5> QED BY <5>1, <5>2
        <4> QED BY <1>7, <4>1, HeadTailProperties
      <3>3. \A i \in 1..n : piece[i] = stream[k + i]
        <4>1. \A i \in 1..(m - k) : SubSeq(stream, k + 1, m)[i] = stream[k + i]
          BY <1>1, <1>5, PieceType
        <4>2. m - k = n
          BY <1>1 DEF m
        <4> QED BY <1>7, <4>1, <4>2
      <3>4. m - k1 = n - 1
        BY <1>1 DEF m
      <3> HIDE DEF t, u
      <3>5. \A i \in 1..Len(t) : t[i] = u[i]
        <4> TAKE i \in 1..Len(t)
        <4>1. i \in 1..(n - 1) /\ i + 1 \in 1..n /\ k + (i + 1) = k1 + i
          BY <1>1, <3>2
        <4> QED BY <3>1, <3>2, <3>3, <3>4, <4>1
      <3>6. t = u
        BY <3>1, <3>2, <3>4, <3>5, SeqEqual
      <3> QED BY <3>6 DEF t, u
    <2>4. text = SubSeq(stream, k1 + 1, m) \o SubSeq(stream, m + 1, q)
      <3> HIDE DEF k1
      <3> QED BY <1>1, <1>5, <2>1, PieceConcat
    <2>5. text = Tail(piece) \o eol
      <3> HIDE DEF k1
      <3> QED BY <1>8, <2>3, <2>4
    <2>6. got' = got \o Content(text) /\ SubSeq(stream, k + 2, q) = text
      <3>1. IsEscaped(piece)
        BY <1>10, <1>13
      <3> HIDE DEF text
      <3>2. got' = got \o Content(text)
        BY <1>11, <2>5, <3>1
      <3>3. SubSeq(stream, k + 2, q) = text
        BY <2>1 DEF text
      <3> QED BY <3>2, <3>3
    <2>7. got' \in Seq(Event)
      <3>1. text \in Seq(Byte)
        <4> HIDE DEF k1
        <4> QED BY <1>1, <2>1, PieceType
      <3>2. Content(text) \in Seq(Event)
        <4> HIDE DEF text
        <4> QED BY <3>1, ContentType
      <3> HIDE DEF text
      <3> QED BY <1>2, <2>6, <3>2, EventConcat
    <2> HIDE DEF text, last
    <2>8. Reading(stream')[Taken'] = Reader("data", size, last, got')
      BY <1>6, <2>2, <2>6
    <2> QED BY <1>2, <1>6, <1>11, <2>7, <2>8 DEF last
  <1>14. CASE ~(n > 1 /\ k = b /\ stream[k + 1] = ".")
    <2> DEFINE text == SubSeq(stream, k + 1, q)
    <2>1. k = b => stream[k + 1] # "."
      BY <1>12, <1>14
    <2>2. Reading(stream)[q] = Reader("data", size, last, got \o Content(text))
      <3>1. k \in Nat /\ k < q /\ q <= Len(stream) /\ b <= k /\ ~DotLine(stream, b) /\ stream \in Seq(Byte)
        BY <1>1, <1>4, <1>5, <1>12
      <3>2. Reading(stream)[k] = Reader("data", size, b, got) /\ got \in Seq(Event)
        BY <1>2
      <3>3. \A j \in (k + 1)..(q - 1) : ~LineEnd(stream, b, j)
        BY <1>12
      <3>4. Reading(stream)[q] = Reader("data", size, IF LineEnd(stream, b, q) THEN q ELSE b, got \o Content(SubSeq(stream, k + 1, q)))
        BY <2>1, <3>1, <3>2, <3>3, ReadsPlainText
      <3> QED BY <3>4
    <2>3. text = piece \o eol
      <3>1. text = SubSeq(stream, k + 1, m) \o SubSeq(stream, m + 1, q)
        <4>1. k \in Nat /\ m \in Nat /\ k <= m /\ m <= q /\ q <= Len(stream) /\ stream \in Seq(Byte)
          BY <1>1, <1>5
        <4> QED BY <4>1, PieceConcat
      <3> QED BY <1>7, <1>8, <3>1
    <2>4. got' = got \o Content(text)
      <3>1. ~IsEscaped(piece)
        BY <1>10, <1>14
      <3> HIDE DEF text
      <3> QED BY <1>11, <2>3, <3>1
    <2>5. got' \in Seq(Event)
      <3>1. text \in Seq(Byte)
        BY <1>1, <1>5, PieceType
      <3>2. Content(text) \in Seq(Event)
        <4> HIDE DEF text
        <4> QED BY <3>1, ContentType
      <3> HIDE DEF text
      <3> QED BY <1>2, <2>4, <3>2, EventConcat
    <2> HIDE DEF text, last
    <2>6. Reading(stream')[Taken'] = Reader("data", size, last, got')
      BY <1>6, <2>2, <2>4
    <2> QED BY <1>2, <1>6, <1>11, <2>5, <2>6 DEF last
  <1> QED BY <1>13, <1>14

\* A line in the state of data.
LEMMA TextLinePreserves ==
    ASSUME InputInv, loop # "no", UNCHANGED <<stream, sent>>, state = "data", Line
    PROVE  InputInv'
  <1> DEFINE k == Taken
  <1> DEFINE n == Min(Ends) - 1
  <1> DEFINE q == k + n + 2
  <1> DEFINE line == SubSeq(in, 1, n)
  <1> DEFINE r == Reading(stream)[k]
  <1> DEFINE b == r.begin
  <1>1. /\ stream \in Seq(Byte) /\ k \in Nat /\ Len(in) \in Nat /\ Len(stream) \in Nat /\ k + Len(in) <= Len(stream)
        /\ \A h \in 1..Len(in) : in[h] = stream[k + h]
    BY Window
  <1>2. Ends # {} /\ Output(n, EndOfLine, FALSE) /\ expect' = 0 /\ left' = 0 /\ ApplyText(line, EndOfLine)
    BY DEF Line
  <1>3. /\ n \in Nat /\ n + 2 <= Len(in) /\ q \in Nat /\ q <= Len(stream) /\ in[n + 1] = "CR"
        /\ \A c \in Nat : c <= k => LineEnd(stream, c, q)
        /\ \A c \in Nat : \A j \in (k + 2)..(q - 1) : ~LineEnd(stream, c, j)
        /\ SubSeq(stream, k + n + 1, q) = EndOfLine
    BY <1>2, FirstEnd
  <1>4. r.mode = "data" /\ LineInv
    BY DEF InputInv, ReaderInv
  <1>5. r = Reader("data", r.size, b, got) /\ b \in Nat /\ got \in Seq(Event)
    BY <1>4, ReaderIs
  <1>6. /\ b <= k
        /\ IF k = b THEN out.first \/ out.ended
           ELSE /\ ~out.first /\ ~out.ended /\ out.linesize = k - b /\ out.linesize >= 2
                /\ stream[k] = "CR" => k < Len(stream) /\ stream[k + 1] # "LF"
                /\ ~DotLine(stream, b)
    BY <1>4 DEF LineInv
  <1>7. Len(EndOfLine) = 2 /\ EndOfLine # <<>> /\ EndOfLine \in {<<>>, EndOfLine}
    BY DEF EndOfLine
  <1>8. n + Len(EndOfLine) <= Len(in) /\ Taken' = q /\ out'.ended = TRUE
    <2>1. n + Len(EndOfLine) <= Len(in)
      BY <1>3, <1>7
    <2>2. Taken' = k + n + Len(EndOfLine)
      <3> HIDE DEF n
      <3> QED BY <1>2, <1>3, <1>7, <2>1, OutputTakes
    <2>3. out'.ended = TRUE
      BY <1>2, <1>7 DEF Output
    <2> HIDE DEF n, k
    <2> QED BY <1>1, <1>3, <1>7, <2>1, <2>2, <2>3
  <1>9. /\ out'.linesize = (IF k = b THEN n ELSE out.linesize + n)
        /\ k = b => out'.c0 = (IF n = 0 THEN "none" ELSE in[1])
    <2> HIDE DEF n, k, b
    <2> QED BY <1>2, <1>6 DEF Output
  <1> HIDE DEF k, n, q, line, r, b
  <1>10. n > 0 => in[1] = stream[k + 1]
    <2>1. n > 0 => 1 \in 1..Len(in)
      BY <1>1, <1>3
    <2> QED BY <1>1, <2>1
  <1>11. k < q /\ q = k + n + 2
    BY <1>1, <1>3 DEF q
  <1>12. CASE IsEndOfText(EndOfLine)
    <2>1. out'.linesize = 1 /\ out'.c0 = "."
      BY <1>12 DEF IsEndOfText
    <2>2. k = b /\ n = 1
      BY <1>1, <1>3, <1>5, <1>6, <1>9, <2>1
    <2>3. stream[k + 1] = "." /\ stream[k + 2] = "CR" /\ stream[k + 3] = "LF" /\ q = k + 3
      <3>1. stream[k + 1] = "."
        BY <1>9, <1>10, <2>1, <2>2
      <3>2. q = k + 3 /\ q - 1 = k + 2
        BY <1>1, <1>11, <2>2
      <3>3. LineEnd(stream, k, q)
        BY <1>1, <1>3
      <3> QED BY <3>1, <3>2, <3>3 DEF LineEnd
    <2>4. DotLine(stream, k)
      BY <1>1, <1>3, <2>3 DEF DotLine
    <2>5. Reading(stream)[q] = Reader("command", 0, q, got \o EndOfText)
      <3> DEFINE size == r.size
      <3>1. Reading(stream)[k] = Reader("data", size, k, got)
        BY <1>5, <2>2 DEF r
      <3> HIDE DEF size
      <3> QED BY <1>1, <2>3, <2>4, <3>1, ReadsDot
    <2>6. got' = got \o EndOfText /\ Go("busy")
      BY <1>2, <1>12 DEF ApplyText
    <2>7. got' \in Seq(Event)
      <3>1. EndOfText \in Seq(Event)
        <4>1. <<>> \in Seq(Byte)
          OBVIOUS
        <4> QED BY <4>1 DEF EndOfText, Event
      <3> QED BY <1>5, <2>6, <3>1, EventConcat
    <2>8. ReaderInv'
      <3>1. state' = "busy"
        BY <2>6 DEF Go
      <3>2. Reading(stream')[Taken'] = Reader("command", 0, Taken', got')
        BY <1>8, <2>5, <2>6
      <3> QED BY <2>7, <3>1, <3>2 DEF ReaderInv, Reader
    <2>9. left' \in Nat /\ expect' = left' /\ (left' > 0 <=> "busy" = "chunk")
      BY <1>2
    <2>10. n \in Nat /\ n + Len(EndOfLine) <= Len(in) /\ EndOfLine \in {<<>>, EndOfLine} /\ Output(n, EndOfLine, FALSE)
      BY <1>2, <1>3, <1>7, <1>8
    <2> QED BY <2>6, <2>8, <2>9, <2>10, MoreKeeps
  <1>13. CASE ~IsEndOfText(EndOfLine)
    <2>1. k = b /\ n <= 1 => stream[k + 1] # "."
      <3> SUFFICES ASSUME k = b, n <= 1 PROVE stream[k + 1] # "."
        OBVIOUS
      <3>1. CASE n = 0
        <4>1. 1 \in 1..Len(in) /\ in[1] = "CR"
          BY <1>1, <1>3, <3>1
        <4> QED BY <1>1, <4>1
      <3>2. CASE n = 1
        <4>1. out'.linesize = 1 /\ out'.c0 = stream[k + 1]
          BY <1>9, <1>10, <3>2
        <4> QED BY <1>7, <1>13, <4>1 DEF IsEndOfText
      <3> QED BY <1>3, <3>1, <3>2
    <2>2. \A j \in (k + 1)..(q - 1) : ~LineEnd(stream, b, j)
      <3> TAKE j \in (k + 1)..(q - 1)
      <3>1. CASE j = k + 1
        <4>1. j - 1 = k
          BY <1>1, <3>1
        <4>2. CASE k = b
          BY <1>1, <3>1, <4>2 DEF LineEnd
        <4>3. CASE k # b
          BY <1>6, <3>1, <4>1, <4>3 DEF LineEnd
        <4> QED BY <4>2, <4>3
      <3>2. CASE j # k + 1
        BY <1>1, <1>3, <1>5, <3>2
      <3> QED BY <3>1, <3>2
    <2>3. ~DotLine(stream, b)
      <3> SUFFICES ASSUME k = b, DotLine(stream, k) PROVE FALSE
        BY <1>6
      <3>1. stream[k + 1] = "." /\ stream[k + 2] = "CR" /\ stream[k + 3] = "LF"
        BY DEF DotLine
      <3>2. n # 0 /\ n # 1
        <4>1. n # 0
          <5>1. n = 0 => 1 \in 1..Len(in) /\ in[1] = "CR"
            BY <1>1, <1>3
          <5> QED BY <1>1, <3>1, <5>1
        <4> QED BY <1>3, <2>1, <3>1, <4>1
      <3>3. k + 3 \in (k + 2)..(q - 1)
        BY <1>1, <1>3, <1>11, <3>2
      <3>4. LineEnd(stream, k, k + 3)
        <4>1. (k + 3) - 1 = k + 2
          BY <1>1
        <4> QED BY <1>1, <3>1, <4>1 DEF LineEnd
      <3> QED BY <1>1, <1>3, <3>3, <3>4
    <2>4. IsText(n, EndOfLine, q, b)
      <3>1. SubSeq(stream, k + n + 1, q) = EndOfLine
        BY <1>3
      <3>2. q = k + n + Len(EndOfLine) /\ k < q /\ q <= k + Len(in)
        BY <1>1, <1>3, <1>7, <1>11
      <3> QED BY <2>1, <2>2, <2>3, <3>1, <3>2 DEF IsText, b, r, k
    <2>5. /\ \E size \in Nat : Reading(stream')[Taken'] = Reader("data", size, IF LineEnd(stream, b, q) THEN q ELSE b, got')
          /\ Taken' = q /\ got' \in Seq(Event) /\ Go("data")
      BY <1>2, <1>3, <1>5, <1>7, <1>13, <2>4, TextIsRead DEF line
    <2>6. ReaderInv'
      <3>1. LineEnd(stream, b, q)
        BY <1>3, <1>5, <1>6
      <3>2. PICK size \in Nat : Reading(stream')[Taken'] = Reader("data", size, Taken', got')
        BY <2>5, <3>1
      <3>3. state' = "data"
        BY <2>5 DEF Go
      <3>4. LineInv'
        BY <1>3, <1>8, <3>2 DEF LineInv, Reader
      <3> QED BY <2>5, <3>2, <3>3, <3>4 DEF ReaderInv, Reader
    <2>7. left' \in Nat /\ expect' = left' /\ (left' > 0 <=> "data" = "chunk")
      BY <1>2
    <2>8. n \in Nat /\ n + Len(EndOfLine) <= Len(in) /\ EndOfLine \in {<<>>, EndOfLine} /\ Output(n, EndOfLine, FALSE)
      BY <1>2, <1>3, <1>7, <1>8
    <2> QED BY <2>5, <2>6, <2>7, <2>8, MoreKeeps
  <1> QED BY <1>12, <1>13

\* A fragment of a line of text.
LEMMA FragmentPreserves ==
    ASSUME InputInv, loop # "no", UNCHANGED <<stream, sent>>, Fragment
    PROVE  InputInv'
  <1> DEFINE k == Taken
  <1> DEFINE n == Residue
  <1> DEFINE q == k + n
  <1> DEFINE r == Reading(stream)[k]
  <1> DEFINE b == r.begin
  <1>1. /\ stream \in Seq(Byte) /\ in \in Seq(Byte) /\ k \in Nat /\ Len(in) \in Nat /\ Len(stream) \in Nat /\ k + Len(in) <= Len(stream)
        /\ \A h \in 1..Len(in) : in[h] = stream[k + h]
    BY Window
  <1>2. /\ Ends = {} /\ Output(n, <<>>, FALSE) /\ expect' = expect /\ left' = left /\ expect = 0
        /\ InData /\ ~Trivial(n) /\ ApplyText(SubSeq(in, 1, n), <<>>)
    BY DEF Fragment
  <1>3. left = 0 /\ state = "data"
    BY <1>2 DEF InputInv, InputTypeOK, InData
  <1>4. /\ n \in Nat /\ n >= 2 /\ n <= Len(in) /\ in # <<>>
        /\ n = Len(in) \/ n = Len(in) - 1
        /\ n = Len(in) <=> in[Len(in)] # "CR"
    <2>1. in # <<>> => Len(in) > 0 /\ Last(in) = in[Len(in)]
      BY <1>1, EmptySeq DEF Last
    <2>2. Len(in) = 0 => n = 0
      BY <1>1, EmptySeq DEF Residue
    <2>3. n \in Nat /\ (n = Len(in) \/ (in # <<>> /\ n = Len(in) - 1))
      BY <1>1, <2>1 DEF Residue
    <2>4. n >= 2
      <3> HIDE DEF n
      <3> QED BY <1>2, <2>3 DEF Trivial, Fmin
    <2>5. in # <<>>
      <3> HIDE DEF n
      <3> QED BY <2>2, <2>3, <2>4, EmptySeq
    <2>6. n = IF in[Len(in)] = "CR" THEN Len(in) - 1 ELSE Len(in)
      BY <2>1, <2>5 DEF Residue
    <2> HIDE DEF n
    <2> QED BY <1>1, <2>3, <2>4, <2>5, <2>6
  <1>5. r.mode = "data" /\ LineInv
    BY <1>3 DEF InputInv, ReaderInv
  <1>6. r = Reader("data", r.size, b, got) /\ b \in Nat /\ got \in Seq(Event)
    BY <1>5, ReaderIs
  <1>7. /\ b <= k
        /\ IF k = b THEN out.first \/ out.ended
           ELSE /\ ~out.first /\ ~out.ended /\ out.linesize = k - b /\ out.linesize >= 2 /\ out.c0 = stream[b + 1]
                /\ stream[k] = "CR" => k < Len(stream) /\ stream[k + 1] # "LF"
                /\ ~DotLine(stream, b)
    BY <1>5 DEF LineInv
  <1>8. Len(<<>>) = 0 /\ <<>> \in {<<>>, EndOfLine} /\ n + Len(<<>>) <= Len(in)
    <2>1. Len(<<>>) = 0
      OBVIOUS
    <2> HIDE DEF n
    <2> QED BY <1>1, <1>4, <2>1
  <1>9. /\ out'.first = FALSE /\ out'.ended = FALSE
        /\ out'.linesize = (IF k = b THEN n ELSE out.linesize + n)
        /\ out'.c0 = (IF k = b THEN in[1] ELSE out.c0)
    <2>1. n # 0
      BY <1>4
    <2>2. out.first \/ out.ended <=> k = b
      BY <1>7
    <2> HIDE DEF n, k, b
    <2> QED BY <1>2, <2>1, <2>2 DEF Output
  <1> HIDE DEF k, n, q, r, b
  <1>10. q \in Nat /\ k < q /\ q <= Len(stream) /\ q = k + n /\ b < q
    BY <1>1, <1>4, <1>6, <1>7 DEF q
  <1>11. in[1] = stream[k + 1] /\ in[2] = stream[k + 2]
    <2>1. 1 \in 1..Len(in) /\ 2 \in 1..Len(in)
      BY <1>1, <1>4
    <2> QED BY <1>1, <2>1
  <1>12. \A j \in (k + 1)..q : ~LineEnd(stream, b, j)
    <2> TAKE j \in (k + 1)..q
    <2>1. CASE j = k + 1
      <3>1. j - 1 = k
        BY <1>1, <2>1
      <3>2. CASE k = b
        BY <1>1, <2>1, <3>2 DEF LineEnd
      <3>3. CASE k # b
        BY <1>7, <2>1, <3>1, <3>3 DEF LineEnd
      <3> QED BY <3>2, <3>3
    <2>2. CASE j # k + 1
      <3>1. j \in (k + 2)..(k + Len(in))
        BY <1>1, <1>4, <1>10, <2>2
      <3> QED BY <1>2, <1>6, <3>1, NoLineEnd DEF k
    <2> QED BY <2>1, <2>2
  <1>13. ~DotLine(stream, b)
    <2> SUFFICES ASSUME k = b, DotLine(stream, k) PROVE FALSE
      BY <1>7
    <2>1. stream[k + 1] = "." /\ stream[k + 2] = "CR" /\ stream[k + 3] = "LF" /\ k + 3 <= Len(stream)
      BY DEF DotLine
    <2>2. Len(in) > 2
      <3>1. Len(in) # 2
        BY <1>1, <1>4, <1>11, <2>1
      <3> DEFINE l == Len(in)
      <3>2. n \in Nat /\ n >= 2 /\ n <= l /\ l \in Nat /\ l # 2
        BY <1>1, <1>4, <3>1
      <3> HIDE DEF l
      <3>3. l > 2
        BY <3>2
      <3> QED BY <3>3 DEF l
    <2>3. k + 3 \in (k + 2)..(k + Len(in))
      BY <1>1, <2>2
    <2>4. ~LineEnd(stream, k, k + 3)
      BY <1>1, <1>2, <2>3, NoLineEnd DEF k
    <2>5. (k + 3) - 1 = k + 2
      BY <1>1
    <2> QED BY <1>1, <2>1, <2>4, <2>5 DEF LineEnd
  <1>14. IsText(n, <<>>, q, b)
    <2>1. q = k + n + Len(<<>>) /\ k < q /\ q <= k + Len(in) /\ ~(n <= 1)
      BY <1>1, <1>4, <1>8, <1>10
    <2>2. \A j \in (k + 1)..(q - 1) : ~LineEnd(stream, b, j)
      BY <1>10, <1>12
    <2> QED BY <1>13, <2>1, <2>2 DEF IsText, b, r, k
  <1>15. ~IsEndOfText(<<>>)
    BY DEF IsEndOfText
  <1>16. /\ \E size \in Nat : Reading(stream')[Taken'] = Reader("data", size, IF LineEnd(stream, b, q) THEN q ELSE b, got')
         /\ Taken' = q /\ got' \in Seq(Event) /\ Go("data")
    BY <1>2, <1>3, <1>4, <1>6, <1>8, <1>10, <1>14, <1>15, TextIsRead
  <1>17. ~LineEnd(stream, b, q)
    <2>1. q \in (k + 1)..q
      BY <1>1, <1>10
    <2> QED BY <1>12, <2>1
  <1>18. PICK size \in Nat : Reading(stream')[Taken'] = Reader("data", size, b, got')
    BY <1>16, <1>17
  <1>19. LineInv'
    <2>1. out'.linesize = q - b /\ out'.linesize >= 2
      <3>1. k \in Nat /\ n \in Nat /\ n >= 2 /\ b \in Nat /\ q = k + n
        BY <1>1, <1>4, <1>6, <1>10
      <3>2. CASE k = b
        BY <1>9, <3>1, <3>2
      <3>3. CASE k # b
        <4>1. out.linesize = k - b /\ out'.linesize = out.linesize + n /\ b <= k
          BY <1>7, <1>9, <3>3
        <4> QED BY <3>1, <4>1
      <3> QED BY <3>2, <3>3
    <2>2. out'.c0 = stream[b + 1]
      BY <1>7, <1>9, <1>11
    <2>3. stream[q] = "CR" => q < Len(stream) /\ stream[q + 1] # "LF"
      <3> SUFFICES ASSUME stream[q] = "CR" PROVE q < Len(stream) /\ stream[q + 1] # "LF"
        OBVIOUS
      <3>1. n \in 1..Len(in) /\ in[n] = stream[q]
        <4>1. n \in 1..Len(in)
          BY <1>1, <1>4
        <4> QED BY <1>1, <1>10, <4>1
      <3>2. n = Len(in) - 1
        BY <1>4, <3>1
      <3>3. n + 1 \in 1..Len(in) /\ k + (n + 1) = q + 1 /\ Len(in) = n + 1
        BY <1>1, <1>10, <3>1, <3>2
      <3>4. in[n + 1] = stream[q + 1] /\ in[n + 1] = "CR"
        BY <1>1, <1>4, <3>2, <3>3
      <3> QED BY <1>1, <1>10, <3>3, <3>4
    <2>4. b <= q /\ q # b
      BY <1>6, <1>10
    <2> QED BY <1>9, <1>13, <1>16, <1>18, <2>1, <2>2, <2>3, <2>4 DEF LineInv, Reader
  <1>20. ReaderInv'
    <2>1. state' = "data"
      BY <1>16 DEF Go
    <2> QED BY <1>16, <1>18, <1>19, <2>1 DEF ReaderInv, Reader
  <1>21. left' \in Nat /\ expect' = left' /\ (left' > 0 <=> "data" = "chunk")
    BY <1>2, <1>3
  <1>22. n \in Nat /\ n + Len(<<>>) <= Len(in) /\ <<>> \in {<<>>, EndOfLine} /\ Output(n, <<>>, FALSE)
    BY <1>2, <1>4, <1>8
  <1> QED BY <1>16, <1>20, <1>21, <1>22, MoreKeeps

LEMMA NoMorePreserves ==
    ASSUME InputInv, loop # "no", UNCHANGED <<stream, sent>>, NoMore
    PROVE  InputInv'
  <1>1. UNCHANGED <<in, expect, out, state, left, got>> /\ EndLoop(FALSE)
    BY DEF NoMore
  <1>2. UNCHANGED Taken
    BY <1>1 DEF Taken
  <1>3. ReaderInv'
    BY <1>1, <1>2, ReaderUnchanged DEF InputInv
  <1>4. loop' = "no" /\ timer' = "off" /\ flow' \in BOOLEAN
    BY <1>1 DEF EndLoop, InputInv, InputTypeOK
  <1>5. InputTypeOK'
    BY <1>1, <1>4 DEF InputInv, InputTypeOK
  <1> QED BY <1>1, <1>2, <1>3, <1>4, <1>5 DEF InputInv

\* What arrives goes on with what is there.
LEMMA ReceivePreserves ==
    ASSUME InputInv, Receive
    PROVE  InputInv'
  <1> DEFINE k == Taken
  <1>1. PICK n \in 1..MaxPiece :
            /\ sent + n <= Len(stream) /\ sent' = sent + n
            /\ in' = in \o SubSeq(stream, sent + 1, sent + n)
    BY DEF Receive
  <1>2. UNCHANGED <<stream, expect, out, state, left, timer, got>> /\ loop = "no" /\ flow
    BY DEF Receive
  <1>3. /\ stream \in Seq(Byte) /\ in \in Seq(Byte) /\ k \in Nat /\ Len(in) \in Nat /\ Len(stream) \in Nat /\ sent \in Nat
        /\ sent = k + Len(in)
    BY Window
  <1>4. n \in Nat /\ n > 0
    BY LimitsAssumption
  <1> DEFINE m == sent + n
  <1> DEFINE piece == SubSeq(stream, sent + 1, m)
  <1>5. m \in Nat /\ sent <= m /\ m <= Len(stream) /\ k <= sent /\ m - sent = n
    BY <1>1, <1>3, <1>4
  <1> HIDE DEF k, m
  <1>6. piece \in Seq(Byte) /\ Len(piece) = n
    BY <1>3, <1>5, PieceType
  <1>7. in' = in \o piece /\ sent' = m
    BY <1>1 DEF m
  <1>8. in = SubSeq(stream, k + 1, sent)
    BY DEF InputInv, k
  <1>9. in' = SubSeq(stream, k + 1, m)
    <2>1. k \in Nat /\ sent \in Nat /\ m \in Nat /\ k <= sent /\ sent <= m /\ m <= Len(stream) /\ stream \in Seq(Byte)
      BY <1>3, <1>5
    <2>2. SubSeq(stream, k + 1, m) = SubSeq(stream, k + 1, sent) \o SubSeq(stream, sent + 1, m)
      BY <2>1, PieceConcat
    <2> QED BY <1>7, <1>8, <2>2
  <1> HIDE DEF piece
  <1>10. in' \in Seq(Byte) /\ Len(in') = Len(in) + n
    BY <1>3, <1>6, <1>7, ConcatProperties
  <1>11. Taken' = k
    BY <1>3, <1>4, <1>7, <1>10 DEF Taken, m
  <1>12. ReaderInv'
    BY <1>2, <1>11, ReaderUnchanged DEF InputInv, k
  <1>13. /\ loop' \in {"no", "piece", "timeout"} /\ flow' \in BOOLEAN
         /\ state = "busy" => loop' = "no"
    <2>1. CASE state = "busy"
      <3>1. flow' = (Len(in') < SoftLimit) /\ loop' = loop
        BY <2>1 DEF Receive
      <3> QED BY <1>2, <3>1
    <2>2. CASE state # "busy"
      <3>1. loop' = "piece" /\ flow' = flow
        BY <2>2 DEF Receive
      <3>2. flow \in BOOLEAN
        BY DEF InputInv, InputTypeOK
      <3> QED BY <2>2, <3>1, <3>2
    <2> QED BY <2>1, <2>2
  <1>14. sent' \in 0..Len(stream) /\ Len(in') <= sent'
    BY <1>3, <1>4, <1>5, <1>7, <1>10 DEF m
  <1>15. InputTypeOK'
    BY <1>2, <1>10, <1>13, <1>14 DEF InputInv, InputTypeOK
  <1>16. state' = "busy" => loop' = "no" /\ timer' # "zero"
    BY <1>2, <1>13 DEF InputInv
  <1> QED BY <1>2, <1>7, <1>9, <1>11, <1>12, <1>15, <1>16 DEF InputInv

LEMMA CompletePreserves == ASSUME InputInv, Complete PROVE InputInv'
  <1>1. UNCHANGED <<stream, sent, in, expect, out, left, loop, flow, got>> /\ state = "busy" /\ state' = "command"
    BY DEF Complete, buffer
  <1>2. timer' \in {"off", "limit", "zero"}
    BY DEF Complete
  <1>3. UNCHANGED Taken
    BY <1>1 DEF Taken
  <1>4. InputTypeOK'
    BY <1>1, <1>2 DEF InputInv, InputTypeOK
  <1>5. ReaderInv'
    BY <1>1, <1>3 DEF InputInv, ReaderInv, LineInv
  <1> QED BY <1>1, <1>3, <1>4, <1>5 DEF InputInv

LEMMA TimeoutPreserves == ASSUME InputInv, OnTimeout PROVE InputInv'
  <1>1. UNCHANGED <<stream, sent, in, expect, out, state, left, flow, got>> /\ timer = "zero" /\ loop' = "timeout" /\ timer' = "off"
    BY DEF OnTimeout, buffer
  <1>2. UNCHANGED Taken
    BY <1>1 DEF Taken
  <1>3. ReaderInv'
    BY <1>1, <1>2, ReaderUnchanged DEF InputInv
  <1>4. InputTypeOK'
    BY <1>1 DEF InputInv, InputTypeOK
  <1> QED BY <1>1, <1>2, <1>3, <1>4 DEF InputInv

LEMMA MorePreserves == ASSUME InputInv, More PROVE InputInv'
  <1>1. loop # "no" /\ UNCHANGED <<stream, sent>> /\ (ExpectAll \/ ExpectSome \/ Line \/ Fragment \/ NoMore)
    BY DEF More
  <1>2. CASE ExpectAll
    BY <1>1, <1>2, ExpectAllPreserves
  <1>3. CASE ExpectSome
    BY <1>1, <1>3, ExpectSomePreserves
  <1>4. CASE Line
    <2>1. state \in {"command", "data", "chunk", "busy"} /\ state # "busy" /\ state # "chunk"
      BY <1>1, <1>4 DEF Line, InputInv, InputTypeOK
    <2> QED BY <1>1, <1>4, <2>1, CommandPreserves, TextLinePreserves
  <1>5. CASE Fragment
    BY <1>1, <1>5, FragmentPreserves
  <1>6. CASE NoMore
    BY <1>1, <1>6, NoMorePreserves
  <1> QED BY <1>1, <1>2, <1>3, <1>4, <1>5, <1>6

LEMMA InitHolds == InputInit => InputInv
  <1> SUFFICES ASSUME InputInit PROVE InputInv
    OBVIOUS
  <1>1. stream \in Streams /\ stream \in Seq(Byte) /\ sent = 0 /\ in = <<>>
    BY StreamsAssumption DEF InputInit
  <1>2. <<>> \in Seq(Byte) /\ Len(<<>>) = 0 /\ Len(stream) \in Nat /\ <<>> \in Seq(Event)
    BY <1>1
  <1>3. Taken = 0
    <2>1. Len(in) = 0 /\ sent = 0
      BY <1>1, <1>2
    <2> QED BY <2>1 DEF Taken
  <1>4. InputTypeOK
    BY <1>1, <1>2 DEF InputInit, InputTypeOK
  <1>5. SubSeq(stream, 0 + 1, 0) = <<>>
    BY <1>1, SubSeqEmpty
  <1>6. Reading(stream)[Taken] = NewReader
    BY <1>1, <1>3, ReadingStep
  <1>7. ReaderInv
    BY <1>2, <1>3, <1>6 DEF InputInit, ReaderInv, NewReader
  <1> QED BY <1>1, <1>3, <1>4, <1>5, <1>7 DEF InputInv, InputInit

LEMMA InputInvHolds == InputSpec => []InputInv
  <1>1. InputInv /\ [InputNext]_inputVars => InputInv'
    <2> SUFFICES ASSUME InputInv, [InputNext]_inputVars PROVE InputInv'
      OBVIOUS
    <2>1. CASE UNCHANGED inputVars
      <3>1. UNCHANGED <<stream, sent, in, expect, out, state, left, loop, timer, flow, got>>
        BY <2>1 DEF inputVars
      <3>2. UNCHANGED Taken
        BY <3>1 DEF Taken
      <3>3. ReaderInv'
        BY <3>1, <3>2, ReaderUnchanged DEF InputInv
      <3> QED BY <3>1, <3>2, <3>3 DEF InputInv, InputTypeOK
    <2>2. CASE InputNext
      BY <2>2, MorePreserves, ReceivePreserves, CompletePreserves, TimeoutPreserves DEF InputNext
    <2> QED BY <2>1, <2>2
  <1> QED BY <1>1, InitHolds, PTL DEF InputSpec

-----------------------------------------------------------------------------

\* What the line buffer expects is what the protocol still counts, and the buffer
\* never holds more than has been sent (LineBuffer::expect(), ServerProtocol::doBdat()).
THEOREM InputTypeCorrect == InputSpec => []InputTypeOK
  <1>1. InputInv => InputTypeOK
    BY DEF InputInv
  <1> QED BY <1>1, InputInvHolds, PTL

\* However the bytes are cut into pieces and whenever the protocol is busy, it is
\* given exactly what a reader of the whole stream makes of the bytes that the line
\* buffer has given out (LineBuffer::more(), ServerProtocol::isEndOfText(),
\* isEscaped(), doBdatContent()).
THEOREM MeaningIsKept == InputSpec => []SameMeaning
  <1>1. InputInv => SameMeaning
    BY DEF InputInv, ReaderInv, SameMeaning
  <1> QED BY <1>1, InputInvHolds, PTL
=============================================================================
