------------------------------ MODULE Forwarding ------------------------------
(***************************************************************************)
(* How the spool is forwarded: the unit that collects requests             *)
(* (main/unit.cpp) and the objects it and the administrators' connections  *)
(* create to work through the spool (gsmtp/gsmtpforward.cpp), each with a  *)
(* routing filter and one SMTP client at a time.  Of the SMTP client only  *)
(* what it does to its owner is here; ClientProtocol has the rest.         *)
(*                                                                         *)
(* Every step is one callback of the event loop.                           *)
(***************************************************************************)
EXTENDS FiniteSetsExt, Integers

CONSTANTS
    Message,      \* message ids, in the order of their file names
    Admin,        \* connections to the administration server
    Unit,         \* the program unit; it is not one of them
    Address,      \* what a forward-to-address can be, besides empty
    Malformed,    \* those that cannot be parsed
    Default,      \* the empty forward-to-address: the --forward-to one
    Selector,     \* client account selectors
    None          \* no client

ASSUME MessageAssumption == Message \subseteq Nat /\ IsFiniteSet(Message)
ASSUME NamesAssumption == Unit \notin Admin /\ Default \notin Address /\ Malformed \subseteq Address

Owner       == Admin \cup {Unit}
Destination == [address : Address \cup {Default}, selector : Selector]
Client      == [dest : Destination, up : BOOLEAN, message : SUBSET Message]
ASSUME NoneAssumption == None \notin Client

VARIABLES
    file,         \* per message: its envelope file
    dest,         \* the destination its envelope gives
    routed,       \* the messages with a ForwardTo field
    local,        \* the messages with no remote recipient
    failLocal,    \* m_config.fail_if_no_remote_recipients
    fwd,          \* per owner: its Forward object
    timer,        \* the unit's m_forwarding_timer is running
    pending,      \* m_forwarding_pending
    owed          \* history: forwarding was requested and not yet begun

spool   == <<file, dest, routed, local>>
vars    == <<file, dest, routed, local, failLocal, fwd, timer, pending, owed>>

\* list: what its iterator has still to offer; held: m_message; filtering: the
\* routing filter is running; continue, error: the two timers; bad: m_unconnectable
Forward == [on : BOOLEAN, list : SUBSET Message, held : SUBSET Message, filtering : BOOLEAN,
            continue : BOOLEAN, error : BOOLEAN, bad : SUBSET Address, client : Client \cup {None}]

Off == [on |-> FALSE, list |-> {}, held |-> {}, filtering |-> FALSE, continue |-> FALSE,
        error |-> FALSE, bad |-> {}, client |-> None]

\* the messages an object has locked: its own and its client's
Held(F)  == F.held \cup (IF F.client = None THEN {} ELSE F.client.message)

\* its client has a message to send
Busy(F)  == F.client # None /\ F.client.message # {}

TypeOK ==
    /\ file \in [Message -> {"none", "new", "locked", "failed", "gone"}]
    /\ dest \in [Message -> Destination]
    /\ routed \subseteq Message /\ local \subseteq Message
    /\ fwd \in [Owner -> Forward]
    /\ failLocal \in BOOLEAN /\ timer \in BOOLEAN /\ pending \in BOOLEAN /\ owed \in BOOLEAN
    /\ \A o \in Owner : fwd[o].on \/ fwd[o] = Off

Init ==
    /\ file = [m \in Message |-> "none"] /\ routed = {} /\ local = {}
    /\ \E d \in Destination : dest = [m \in Message |-> d]
    /\ failLocal \in BOOLEAN
    /\ fwd = [o \in Owner |-> Off]
    /\ timer = FALSE /\ pending = FALSE /\ owed = FALSE

Waiting == {m \in Message : file[m] = "new"}

-----------------------------------------------------------------------------
(* Forward: one message after another.                                     *)

\* a callback's effect on the envelopes: s has become how, then the rest
Files(s, how, failed, freed, taken) ==
    file' = [m \in Message |-> CASE m \in taken  -> "locked"
                                 [] m \in s      -> how
                                 [] m \in failed -> "failed"
                                 [] m \in freed  -> "new"
                                 [] OTHER        -> file[m]]

\* next() passes by what another has locked or removed since the list was made
Wanted(F)     == {m \in F.list : file[m] = "new" /\ m \notin local}
NextOf(F)     == Min(Wanted(F))
LocalFails(F) == {m \in F.list \cap local : failLocal /\ file[m] = "new" /\ \A n \in Wanted(F) : m < n}

\* (mutant: an unreachable address is tried again)
Offer_Again(F, m, d) ==
    IF F.client # None /\ F.client.dest = d THEN [F EXCEPT !.client.message = {m}]
    ELSE [F EXCEPT !.client = [dest |-> d, up |-> FALSE, message |-> {m}]]

\* updateClient() and sendMessage(): a client that goes elsewhere is replaced
Offer(F, m, d) ==
    IF d.address \in F.bad THEN [F EXCEPT !.continue = TRUE]
    ELSE IF F.client # None /\ F.client.dest = d THEN [F EXCEPT !.client.message = {m}]
    ELSE [F EXCEPT !.client = [dest |-> d, up |-> FALSE, message |-> {m}]]

\* start()
Start(F, m) ==
    IF m \in routed THEN [F EXCEPT !.held = {m}, !.filtering = TRUE] ELSE Offer(F, m, dest[m])

\* there is no next message, or its address makes newClient() throw
NoNext(F) == Wanted(F) # {} => NextOf(F) \notin routed /\ dest[NextOf(F)].address \in Malformed

\* sendNext() with a next message; s and how: what became of the client's last one
SendNext(o, F, s, how) ==
    LET m == NextOf(F)
        G == Start([F EXCEPT !.list = {n \in F.list : n > m}], m)
    IN  /\ ~NoNext(F)
        /\ fwd' = [fwd EXCEPT ![o] = G]
        /\ Files(s, how, LocalFails(F), F.held \ G.held, Held(G) \cap {m})

\* an exception reaches the owner: doOnDelete() fails the message of its own, the
\* client's one is just unlocked; then onClientDone() if it is the unit
Delete(o, failed) ==
    /\ fwd' = [fwd EXCEPT ![o] = Off]
    /\ Files({}, "new", failed \cup fwd[o].held, Held(fwd[o]) \ fwd[o].held, {})
    /\ IF o = Unit THEN timer' = (timer \/ pending) /\ pending' = FALSE
                   ELSE UNCHANGED <<timer, pending>>
    /\ UNCHANGED <<dest, routed, local, failLocal, owed>>

others == <<dest, routed, local, failLocal, timer, pending, owed>>

\* onContinueTimeout()
Continue(o) ==
    LET F == [fwd[o] EXCEPT !.continue = FALSE]
    IN  /\ fwd[o].continue
        /\ IF NoNext(F) THEN Delete(o, LocalFails(F)) ELSE SendNext(o, F, {}, "new") /\ UNCHANGED others

\* onErrorTimeout()
Error(o) == fwd[o].error /\ Delete(o, {})

\* routingFilterDone(); the filter may have changed the envelope
RoutingOk(o) ==
    LET m == CHOOSE n \in fwd[o].held : TRUE
    IN  \E d \in Destination :
            LET G == Offer([fwd[o] EXCEPT !.filtering = FALSE], m, d)
            IN  /\ fwd[o].filtering
                /\ IF d.address \in Malformed THEN Delete(o, {})
                   ELSE /\ fwd' = [fwd EXCEPT ![o] = IF G.continue THEN G ELSE [G EXCEPT !.held = {}]]
                        /\ dest' = [dest EXCEPT ![m] = d]
                        /\ UNCHANGED <<file, routed, local, failLocal, timer, pending, owed>>
\* (mutant: the scan does not go on)
RoutingIgnores_Stop(o) ==
    /\ fwd[o].filtering
    /\ fwd' = [fwd EXCEPT ![o].filtering = FALSE]
    /\ UNCHANGED <<file, others>>
RoutingIgnores(o) ==
    /\ fwd[o].filtering
    /\ fwd' = [fwd EXCEPT ![o].filtering = FALSE, ![o].continue = TRUE]
    /\ UNCHANGED <<file, others>>
RoutingFails(o) ==      \* or the message cannot be reopened
    /\ fwd[o].filtering
    /\ fwd' = [fwd EXCEPT ![o].filtering = FALSE, ![o].continue = TRUE, ![o].held = {}]
    /\ Files({}, "new", fwd[o].held, {}, {}) /\ UNCHANGED others

-----------------------------------------------------------------------------
(* The client, as its owner sees it.                                       *)

Connect(o) ==
    /\ fwd[o].client # None /\ ~fwd[o].client.up
    /\ fwd' = [fwd EXCEPT ![o].client.up = TRUE] /\ UNCHANGED <<file, others>>

\* protocolDone() removes, fails or leaves the message, then onMessageDoneSignal();
\* special: the client filter asks to stop.  Done is thrown at the client
MessageDone(o) ==
    LET F == [fwd[o] EXCEPT !.client.message = {}]
        s == fwd[o].client.message
    IN  /\ fwd[o].client # None /\ fwd[o].client.up /\ s # {}
        /\ \E how \in {"gone", "failed", "new"}, special \in BOOLEAN :
            IF special \/ NoNext(F)
            THEN /\ fwd' = [fwd EXCEPT ![o] = [F EXCEPT !.client = None, !.error = TRUE]]
                 /\ Files(s, how, IF special THEN {} ELSE LocalFails(F), {}, {})
            ELSE SendNext(o, F, s, how)
        /\ UNCHANGED others

\* (mutant: the --forward-to address is noted as unreachable as well)
Lose_Default(o) ==
    LET c == fwd[o].client
        F == [fwd[o] EXCEPT !.client = None]
    IN  /\ c # None
        /\ fwd' = [fwd EXCEPT ![o] = IF c.up THEN [F EXCEPT !.error = TRUE]
                                             ELSE [F EXCEPT !.bad = @ \cup {c.dest.address}, !.continue = TRUE]]
        /\ Files(c.message, IF c.up THEN "failed" ELSE "new", {}, {}, {})
        /\ UNCHANGED others

\* the connection fails, or does not come about: onDelete(), onDeletedSignal()
Lose(o) ==
    LET c == fwd[o].client
        F == [fwd[o] EXCEPT !.client = None]
        skip == ~c.up /\ c.dest.address # Default
    IN  /\ c # None
        /\ fwd' = [fwd EXCEPT ![o] = IF skip THEN [F EXCEPT !.bad = @ \cup {c.dest.address}, !.continue = TRUE]
                                             ELSE [F EXCEPT !.error = TRUE]]
        /\ Files(c.message, IF c.up THEN "failed" ELSE "new", {}, {}, {})
        /\ UNCHANGED others

-----------------------------------------------------------------------------
(* The unit, the administrators and the messages.                          *)

\* the constructor makes the list and starts the continue timer
Created == [Off EXCEPT !.on = TRUE, !.list = Waiting, !.continue = TRUE]

\* requestForwarding(): the poll timer, a client's disconnection, a filter's
\* rescan or an administrator's "forward"
Request ==
    /\ timer' = TRUE /\ owed' = TRUE
    /\ UNCHANGED <<spool, failLocal, fwd, pending>>

\* (mutant: a request is not queued)
RequestTimeout_Busy ==
    /\ timer /\ timer' = FALSE
    /\ IF fwd[Unit].on
       THEN UNCHANGED <<fwd, pending, owed>>
       ELSE /\ fwd' = [fwd EXCEPT ![Unit] = IF Waiting = {} THEN Off ELSE Created]
            /\ owed' = FALSE /\ UNCHANGED pending
    /\ UNCHANGED <<spool, failLocal>>

\* onRequestForwardingTimeout()
RequestTimeout ==
    /\ timer /\ timer' = FALSE
    /\ IF fwd[Unit].on
       THEN pending' = TRUE /\ UNCHANGED <<fwd, owed>>
       ELSE /\ fwd' = [fwd EXCEPT ![Unit] = IF Waiting = {} THEN Off ELSE Created]
            /\ owed' = FALSE /\ UNCHANGED pending
    /\ UNCHANGED <<spool, failLocal>>

\* an administrator's "flush"
Flush(a) ==
    /\ ~fwd[a].on /\ Waiting # {}
    /\ fwd' = [fwd EXCEPT ![a] = Created] /\ UNCHANGED <<file, others>>

\* an administrator's connection goes away, with what it owns
Leave(a) ==
    /\ fwd[a].on /\ fwd' = [fwd EXCEPT ![a] = Off]
    /\ Files({}, "new", {}, Held(fwd[a]), {}) /\ UNCHANGED others

\* a message is received
Arrive(m) ==
    /\ file[m] = "none" /\ file' = [file EXCEPT ![m] = "new"]
    /\ \E d \in Destination : dest' = [dest EXCEPT ![m] = d]
    /\ \/ routed' = routed \cup {m} /\ UNCHANGED local
       \/ local' = local \cup {m} /\ UNCHANGED routed
       \/ UNCHANGED <<routed, local>>
    /\ UNCHANGED <<failLocal, fwd, timer, pending, owed>>

-----------------------------------------------------------------------------
Proceed(o) ==
    \/ Continue(o) \/ Error(o) \/ RoutingOk(o) \/ RoutingIgnores(o) \/ RoutingFails(o)
    \/ MessageDone(o) \/ Lose(o)

Next ==
    \/ \E o \in Owner : Proceed(o) \/ Connect(o)
    \/ \E a \in Admin : Flush(a) \/ Leave(a)
    \/ Request \/ RequestTimeout
    \/ \E m \in Message : Arrive(m)

Spec == Init /\ [][Next]_vars

\* timers expire, and everything Forward waits for has a time limit: the filter
\* (--filter-timeout), the connection and each reply
FairSpec == Spec /\ WF_vars(RequestTimeout) /\ WF_vars(Proceed(Unit))

-----------------------------------------------------------------------------
(* Properties.                                                             *)

\* A message's envelope is locked exactly while one object has the message: no
\* message is left locked when a client, a filter or a whole Forward goes away,
\* and two that work on the same spool never have the same one.
LockedIsHeld ==
    /\ \A o \in Owner : \A m \in Held(fwd[o]) :
           file[m] = "locked" /\ \A p \in Owner \ {o} : m \notin Held(fwd[p])
    /\ \A m \in Message : file[m] = "locked" => \E o \in Owner : m \in Held(fwd[o])

\* A Forward is never stranded and never does two things at once: it has one
\* message with the client, or one with the routing filter, or its continue timer
\* is running; only the error timer may stand in for them, or run beside them.
OneThingAtATime ==
    \A o \in Owner :
        LET F == fwd[o]
        IN  /\ F.on => Busy(F) \/ F.filtering \/ F.continue \/ F.error
            /\ ~(Busy(F) /\ F.filtering) /\ ~(Busy(F) /\ F.continue) /\ ~(F.filtering /\ F.continue)
            /\ F.filtering => F.held # {}

\* The two together: whoever has a message is working on it, and nobody else is.
OwnershipInv == LockedIsHeld /\ OneThingAtATime

\* Once a connection to a forward-to-address has failed, no connection to that
\* address is tried again in the same scan.
UnreachableIsSkipped ==
    [][\A o \in Owner : (fwd'[o].client # None /\ ~fwd'[o].client.up /\ fwd'[o].client # fwd[o].client)
                            => fwd'[o].client.dest.address \notin fwd[o].bad]_vars

\* Every request for forwarding, even one made while a scan is in progress, leads
\* to a scan that begins after it, unless the spool is found empty.
RequestIsServed == owed ~> ~owed

\* When Forward is deleted it fails the message of its own only if that message's
\* routing filter is still running.
OwnedWhileFiltering ==
    [][\A o \in Owner : \A m \in fwd[o].held :
            (fwd[o].on /\ ~fwd'[o].on /\ file'[m] = "failed") => fwd[o].filtering]_vars
=============================================================================
