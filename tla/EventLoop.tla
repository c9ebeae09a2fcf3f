------------------------------ MODULE EventLoop ------------------------------
(***************************************************************************)
(* The event loop of src/src/gnet (epoll) with its timer list.  Objects    *)
(* such as connections own a file descriptor and a timer; the loop waits   *)
(* for events, calls the handlers of the timers that have expired and then *)
(* those of the events it has got hold of.  A handler may start and cancel *)
(* timers, create and delete other objects, and fail, in which case its    *)
(* object is deleted by the owner, all while the loop is in the middle of  *)
(* its lists, and a descriptor that is closed is given out again at once.  *)
(*                                                                         *)
(* A time below Base is the m_time of an immediate timer, the number that  *)
(* adjust() gave it; the clock starts at Base.                             *)
(***************************************************************************)
EXTENDS FiniteSets, Naturals, Sequences

CONSTANTS
    Object,       \* connections, clients, servers
    Null,         \* no object
    Fd,           \* file descriptors
    Kind,         \* the kinds of event, of "read" and "write"
    Base,         \* bound: immediate timers started between two passes
    MaxClock,     \* bound: the last time
    Delays,       \* the intervals that timers are started with
    MaxOps,       \* bound: what one handler does
    Opener        \* the handlers that may create objects: "timer", "event"

ASSUME ConstantsAssumption ==
    /\ IsFiniteSet(Object) /\ Null \notin Object \cup Fd /\ Kind \subseteq {"read", "write"}
    /\ Base \in Nat \ {0} /\ MaxClock \in Nat /\ MaxClock >= Base /\ MaxOps \in Nat
    /\ Delays \subseteq Nat /\ \A d \in Delays : Base + d <= MaxClock
    /\ Opener \subseteq {"timer", "event"}

VARIABLES
    fd,           \* the descriptor of each object; none if it does not exist
    handler,      \* m_list of the event loop: m_handler,
    interest,     \*   m_events
    suppress,     \*   and whether m_suppress_read/write is the current sequence number
    list, added,  \* the timers in m_list and m_list_added of the timer list
    active, time, \* m_active of each object's timer and, while it is, m_time
    soonest,      \* m_soonest
    adjust,       \* m_adjust
    removed,      \* m_removed
    phase,        \* where runOnce() is; "timer" is also m_locked
    now,          \* doTimeouts()'s lazily read clock; 0 until it is read
    expired,      \* the list items it has still to call; Null for one that was reset
    harvest,      \* the events of epoll_wait() that it has not come to yet
    current,      \* the object whose handler runs
    ops,          \* what that handler has done
    clock

epoll  == <<handler, interest, suppress>>
timers == <<list, added, active, time, soonest, adjust, removed>>
pass   == <<phase, now, expired, harvest>>
vars   == <<fd, handler, interest, suppress, list, added, active, time, soonest, adjust, removed,
            phase, now, expired, harvest, current, ops, clock>>

Alive == {o \in Object : fd[o] \in Fd}

TypeOK ==
    /\ fd \in [Object -> Fd \cup {Null}]
    /\ handler \in [Fd -> Object \cup {Null}]
    /\ interest \in [Fd -> SUBSET Kind] /\ suppress \in [Fd -> SUBSET Kind]
    /\ list \subseteq Object /\ added \subseteq Object \ list
    /\ phase # "timer" => added = {} /\ expired = <<>>
    /\ active \in [Object -> BOOLEAN] /\ time \in [Object -> 0..MaxClock]
    /\ soonest \in Object \cup {Null} /\ adjust \in 0..Base /\ removed \in BOOLEAN
    /\ phase \in {"wait", "timer", "event"} /\ now \in 0..MaxClock
    /\ expired \in Seq(Object \cup {Null}) /\ Len(expired) <= Cardinality(Object)
    /\ harvest \subseteq [fd : Fd, kind : Kind, holder : Object \cup {Null}]
    /\ current \in Object \cup {Null} /\ ops \in 0..MaxOps /\ clock \in Base..MaxClock

-----------------------------------------------------------------------------
(* Objects.                                                                *)

\* EventLoop::addRead/addWrite of descriptor f for object o
Register(o, f, k) ==
    /\ handler' = [handler EXCEPT ![f] = o]
    /\ interest' = [interest EXCEPT ![f] = @ \cup k]

\* before the loop runs: an object with its descriptor, and its timer started
Init ==
    \E o \in Object, f \in Fd, d \in Delays :
        /\ fd = [p \in Object |-> IF p = o THEN f ELSE Null]
        /\ handler = [g \in Fd |-> IF g = f THEN o ELSE Null]
        /\ interest = [g \in Fd |-> IF g = f THEN Kind \cap {"read"} ELSE {}]
        /\ suppress = [g \in Fd |-> {}]
        /\ list = {o} /\ added = {}
        /\ active = [p \in Object |-> p = o]
        /\ time = [p \in Object |-> IF p = o /\ d > 0 THEN Base + d ELSE 0]
        /\ soonest = Null /\ removed = FALSE
        /\ adjust = IF d = 0 THEN 1 ELSE 0
        /\ phase = "wait" /\ now = 0 /\ expired = <<>> /\ harvest = {}
        /\ current = Null /\ ops = 0 /\ clock = Base

\* TimerList::add(): the list that is being gone through is left alone
AddTimer(o) == IF phase = "timer" THEN added' = added \cup {o} /\ UNCHANGED list
                                  ELSE list' = list \cup {o} /\ UNCHANGED added

Stop(o) == active' = [active EXCEPT ![o] = FALSE] /\ time' = [time EXCEPT ![o] = 0]

\* (mutant: the items of the pass are not reset)
RemoveTimer_Pass(o) ==
    /\ removed' = TRUE /\ list' = list \ {o} /\ added' = added \ {o}
    /\ Stop(o)
    /\ soonest' = IF soonest = o THEN Null ELSE soonest
    /\ UNCHANGED expired
\* TimerList::remove(), from the timer's destructor
RemoveTimer(o) ==
    /\ removed' = TRUE /\ list' = list \ {o} /\ added' = added \ {o}
    /\ expired' = [i \in DOMAIN expired |-> IF expired[i] = o THEN Null ELSE expired[i]]
    /\ Stop(o)
    /\ soonest' = IF soonest = o THEN Null ELSE soonest

\* (mutant: what has been harvested is not suppressed)
Drop_Raise(f) ==
    /\ handler' = [handler EXCEPT ![f] = Null]
    /\ interest' = [interest EXCEPT ![f] = {}]
    /\ UNCHANGED suppress
\* EventLoop::drop(), from the event handler's destructor
Drop(f) ==
    /\ handler' = [handler EXCEPT ![f] = Null]
    /\ interest' = [interest EXCEPT ![f] = {}]
    /\ suppress' = [suppress EXCEPT ![f] = Kind]

\* the destructors of o; its descriptor is free again
Delete(o) == /\ Drop(fd[o]) /\ RemoveTimer(o)
             /\ fd' = [fd EXCEPT ![o] = Null]

-----------------------------------------------------------------------------
(* What a handler does.  It runs to its end before the loop goes on.       *)

Running == current # Null
Acts    == Running /\ ops < MaxOps /\ ops' = ops + 1

\* updateOnStart()
UpdateOnStart(o, t) ==
    soonest' = IF soonest = o THEN Null
               ELSE IF soonest # Null /\ t < time[soonest] THEN o ELSE soonest

\* startTimer(): immediate timers are numbered
StartTimer(o, d) ==
    /\ Acts /\ o \in Alive
    /\ active' = [active EXCEPT ![o] = TRUE]
    /\ IF d = 0 THEN /\ adjust < Base /\ adjust' = adjust + 1
                     /\ time' = [time EXCEPT ![o] = adjust]
                     /\ UpdateOnStart(o, adjust)
       ELSE /\ clock + d <= MaxClock /\ UNCHANGED adjust
            /\ time' = [time EXCEPT ![o] = clock + d]
            /\ UpdateOnStart(o, clock + d)
    /\ UNCHANGED <<fd, epoll, list, added, removed, pass, current, clock>>

CancelTimer(o) ==
    /\ Acts /\ active[o]
    /\ Stop(o)
    /\ soonest' = IF soonest = o THEN Null ELSE soonest
    /\ UNCHANGED <<fd, epoll, list, added, adjust, removed, pass, current, clock>>

\* a connection is accepted or opened; the descriptor is any that is free
Create(o, f) ==
    /\ Acts /\ phase \in Opener /\ o \notin Alive /\ \A p \in Object : fd[p] # f
    /\ fd' = [fd EXCEPT ![o] = f]
    /\ \E k \in SUBSET Kind \ {{}} : Register(o, f, k)
    /\ AddTimer(o)
    /\ UNCHANGED <<suppress, active, time, soonest, adjust, removed, pass, current, clock>>

\* flow control: dropRead/dropWrite, addRead/addWrite
Unregister(o, k) ==
    /\ Acts /\ o \in Alive /\ k \in interest[fd[o]]
    /\ interest' = [interest EXCEPT ![fd[o]] = @ \ {k}]
    /\ suppress' = [suppress EXCEPT ![fd[o]] = @ \cup {k}]
    /\ UNCHANGED <<fd, handler, timers, pass, current, clock>>
Again(o, k) ==
    /\ Acts /\ o \in Alive /\ k \notin interest[fd[o]]
    /\ Register(o, fd[o], {k})
    /\ UNCHANGED <<fd, suppress, timers, pass, current, clock>>

\* another object is deleted
Destroy(o) ==
    /\ Acts /\ o \in Alive \ {current} /\ Delete(o)
    /\ UNCHANGED <<adjust, phase, now, harvest, current, clock>>

Return ==
    /\ Running /\ current' = Null /\ ops' = 0
    /\ UNCHANGED <<fd, epoll, timers, pass, clock>>

\* an exception: the exception handler of the object, its owner, deletes it
Throw ==
    /\ Running /\ current' = Null /\ ops' = 0
    /\ Delete(current)
    /\ UNCHANGED <<adjust, phase, now, harvest, clock>>

-----------------------------------------------------------------------------
(* The loop.                                                               *)

\* findSoonest(), when there is no cached one; among equals the first in the list
Soonest == {o \in list : active[o] /\ \A p \in list : active[p] => time[o] <= time[p]}
Cached  == IF soonest # Null THEN {soonest} ELSE IF Soonest = {} THEN {Null} ELSE Soonest

\* an event, with the object that waits for it
Holder(f, k) == IF k \in interest[f] THEN handler[f] ELSE Null
Ready == {[fd |-> f, kind |-> k, holder |-> handler[f]] : f \in {g \in Fd : handler[g] # Null}, k \in Kind}

\* the order of std::sort on the time; what is immediate has expired
Expired(o, t) == active[o] /\ (time[o] < Base \/ time[o] <= t)
InTimeOrder(q) == \A i, j \in DOMAIN q : i < j => time[q[i]] <= time[q[j]]
Orders(S) == {q \in [1..Cardinality(S) -> S] : {q[i] : i \in DOMAIN q} = S /\ InTimeOrder(q)}

\* interval() and epoll_wait(), which returns events, or none because the time has come or
\* there was a signal; the timers are gone through if the soonest one has expired.  That
\* the clock may reach it during the wait is Tick.
Poll(E) ==
    /\ phase = "wait" /\ ~Running
    /\ \A e \in E : e.kind \in interest[e.fd]
    /\ harvest' = E
    /\ \E o \in Cached :
        LET due == {p \in list : Expired(p, clock)}
        IN  IF o # Null /\ time[o] <= clock
            THEN /\ phase' = "timer" /\ adjust' = 0
                 /\ expired' \in Orders(due)
                 /\ now' = IF \E p \in list : active[p] /\ time[p] >= Base THEN clock ELSE 0
                 /\ soonest' = IF due = {} THEN o ELSE Null
                 /\ UNCHANGED suppress
            ELSE /\ phase' = "event" /\ soonest' = o
                 /\ suppress' = [f \in Fd |-> {}]
                 /\ UNCHANGED <<adjust, expired, now>>
    /\ UNCHANGED <<fd, handler, interest, list, added, active, time, removed, current, ops, clock>>

\* the next item of the pass: another handler may have deleted the timer, cancelled it or
\* started it again
NextTimeout ==
    /\ phase = "timer" /\ ~Running /\ expired # <<>>
    /\ expired' = Tail(expired)
    /\ LET o == Head(expired)
           t == IF o # Null /\ active[o] /\ time[o] >= Base /\ now = 0 THEN clock ELSE now
       IN  /\ now' = t
           /\ IF o # Null /\ Expired(o, t)
              THEN current' = o /\ Stop(o)
              ELSE UNCHANGED <<current, active, time>>
    /\ UNCHANGED <<fd, epoll, list, added, soonest, adjust, removed, phase, harvest, ops, clock>>

\* (mutant: the added timers are left where they are)
MergeAdded_Later == UNCHANGED <<list, added>>
MergeAdded == list' = list \cup added /\ added' = {}

\* unlock(): the lists are put together and cleaned up, and m_suppress_seq moves on
EndPass ==
    /\ phase = "timer" /\ ~Running /\ expired = <<>>
    /\ phase' = "event" /\ now' = 0
    /\ MergeAdded
    /\ harvest' = {[e EXCEPT !.holder = Holder(e.fd, e.kind)] : e \in harvest}
    /\ removed' = FALSE
    /\ soonest' \in IF removed THEN {Null} ELSE IF added # {} THEN {soonest, Null} ELSE {soonest}
    /\ suppress' = [f \in Fd |-> {}]
    /\ UNCHANGED <<fd, handler, interest, active, time, adjust, expired, current, ops, clock>>

\* one event after the other, of a descriptor the read event before the write event
NextEvent(e) ==
    /\ phase = "event" /\ ~Running /\ e \in harvest
    /\ e.kind = "write" => ~\E d \in harvest : d.fd = e.fd /\ d.kind = "read"
    /\ harvest' = harvest \ {e}
    /\ current' = IF e.kind \in suppress[e.fd] THEN Null ELSE handler[e.fd]
    /\ UNCHANGED <<fd, epoll, timers, phase, now, expired, ops, clock>>

EndEvents ==
    /\ phase = "event" /\ ~Running /\ harvest = {}
    /\ phase' = "wait"
    /\ UNCHANGED <<fd, epoll, timers, now, expired, harvest, current, ops, clock>>

Tick == /\ clock < MaxClock /\ clock' = clock + 1
        /\ UNCHANGED <<fd, epoll, timers, pass, current, ops>>

Handle == \/ \E o \in Object : \/ CancelTimer(o) \/ Destroy(o)
                               \/ \E d \in Delays : StartTimer(o, d)
                               \/ \E f \in Fd : Create(o, f)
                               \/ \E k \in Kind : Unregister(o, k) \/ Again(o, k)
          \/ Return \/ Throw
Loop == \/ \E E \in SUBSET Ready : Poll(E)
        \/ NextTimeout \/ EndPass \/ EndEvents
        \/ \E e \in harvest : NextEvent(e)

Next == Handle \/ Loop \/ Tick
Spec == Init /\ [][Next]_vars

\* time passes, the loop goes on, and a handler returns
Fairness == WF_vars(Loop) /\ WF_vars(Return) /\ WF_vars(Tick)
FairSpec == Spec /\ Fairness

-----------------------------------------------------------------------------
(* Properties.                                                             *)

\* The cached timer, if there is one, exists, is running and is a soonest one, also while
\* handlers start, put off, cancel and delete timers in the middle of a pass.
SoonestIsRight ==
    soonest # Null => /\ soonest \in Alive /\ active[soonest]
                      /\ \A o \in Alive : active[o] => time[soonest] <= time[o]

\* Nothing that the loop may still call belongs to a deleted object: neither the list
\* items of a pass nor the handlers of the descriptors.
NoneDangling ==
    /\ list \cup added = Alive
    /\ \A i \in DOMAIN expired : expired[i] \in Alive \cup {Null}
    /\ \A f \in Fd : handler[f] # Null => fd[handler[f]] = f
    /\ current \in Alive \cup {Null}

\* The two together: what the lists of the loop point to is there, and in the right order.
ListsInv == SoonestIsRight /\ NoneDangling

\* From when the events' turn comes, an event goes to the object that waited for it then or
\* to nobody: not to one that was given the same descriptor since, and not after drop().
EventIsOurs ==
    [][\A e \in harvest \ harvest' : phase = "event" /\ e.holder # Null /\ current' # Null =>
        current' = e.holder /\ e.kind \in interest[e.fd]]_vars

\* Every timer that is started goes off, unless it is cancelled, started again or deleted.
TimersFire == \A o \in Object : active[o] ~> ~active[o]
=============================================================================
