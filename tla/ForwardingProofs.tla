--------------------------- MODULE ForwardingProofs ---------------------------
(***************************************************************************)
(* That the objects which forward the spool keep its messages apart, and   *)
(* never lose hold of one or come to rest, for any number of messages,     *)
(* administrators and addresses.                                           *)
(***************************************************************************)
EXTENDS Forwarding, WellFoundedInduction, TLAPS

\* Of one Forward: beyond OneThingAtATime, that it has one message of its own at most,
\* which is not its client's as well, and makes a client only for a message.
Steady(F) ==
    /\ F.on \/ F = Off
    /\ F.on => Busy(F) \/ F.filtering \/ F.continue \/ F.error
    /\ ~(Busy(F) /\ F.filtering) /\ ~(Busy(F) /\ F.continue) /\ ~(F.filtering /\ F.continue)
    /\ F.filtering => F.held # {}
    /\ \A m, n \in F.held : m = n
    /\ Busy(F) => F.client.message \cap F.held = {}
    /\ F.client # None /\ ~F.client.up => Busy(F)

Status == {"none", "new", "locked", "failed", "gone"}

Inv == TypeOK /\ LockedIsHeld /\ \A o \in Owner : Steady(fwd[o])

-----------------------------------------------------------------------------
(* What the operators return.                                              *)

\* A set of message numbers that is not empty has a least member.
LEMMA MinIsMember == ASSUME NEW S \in SUBSET Nat, S # {} PROVE Min(S) \in S
  <1> DEFINE R == {ss \in Nat \X Nat : ss[1] < ss[2]}
  <1>1. PICK x \in S : \A y \in S : <<y, x>> \notin R
    <2>1. R = OpToRel(<, Nat)
      BY DEF OpToRel
    <2>2. IsWellFoundedOn(R, Nat)
      BY <2>1, NatLessThanWellFounded
    <2> HIDE DEF R
    <2> QED BY <2>2, WFMin
  <1>2. \A y \in S : x =< y
    <2> TAKE y \in S
    <2>1. <<y, x>> \in Nat \X Nat /\ <<y, x>>[1] = y /\ <<y, x>>[2] = x
      OBVIOUS
    <2>2. ~(y < x)
      BY <1>1, <2>1
    <2> QED BY <2>2
  <1> QED BY <1>2 DEF Min

LEMMA NextIsWanted == ASSUME NEW F \in Forward, ~NoNext(F) PROVE NextOf(F) \in Wanted(F)
  <1>1. Wanted(F) \in SUBSET Nat /\ Wanted(F) # {}
    BY MessageAssumption DEF NoNext, Wanted, Forward
  <1> QED BY <1>1, MinIsMember DEF NextOf

\* The messages an object has locked are messages.
LEMMA HeldType == ASSUME NEW F \in Forward PROVE Held(F) \subseteq Message
  BY DEF Held, Forward, Client

\* An object that waits for a filter or its timer exists, and has no message with a client.
LEMMA WaitingIsOn ==
    ASSUME NEW F, Steady(F), F.filtering \/ F.continue
    PROVE  F.on /\ ~Busy(F) /\ Held(F) = F.held
  BY DEF Steady, Off, Busy, Held

LEMMA OwnerIsOn == ASSUME NEW F, Steady(F), F.client # None PROVE F.on
  BY DEF Steady, Off

\* updateClient() leaves the scan waiting for its timer, or gives the client the message.
LEMMA OfferResult ==
    ASSUME NEW F \in Forward, NEW m \in Message, NEW d \in Destination,
           ~Busy(F), ~F.continue
    PROVE  LET G == Offer(F, m, d)
           IN  /\ G \in Forward /\ G.on = F.on /\ G.held = F.held /\ G.filtering = F.filtering
               /\ G.error = F.error /\ G.list = F.list /\ G.bad = F.bad
               /\ \/ G.continue /\ ~Busy(G) /\ Held(G) = Held(F) /\ G.client = F.client
                  \/ ~G.continue /\ Busy(G) /\ G.client.message = {m}
  <1>1. CASE d.address \in F.bad
    BY <1>1 DEF Offer, Forward, Busy, Held
  <1>2. CASE d.address \notin F.bad /\ F.client # None /\ F.client.dest = d
    <2>1. Offer(F, m, d) = [F EXCEPT !.client = [F.client EXCEPT !.message = {m}]]
      BY <1>2 DEF Offer
    <2>2. F.client \in Client /\ [F.client EXCEPT !.message = {m}] \in Client
      BY <1>2 DEF Forward, Client
    <2> QED BY <2>1, <2>2, NoneAssumption DEF Forward, Busy, Client
  <1>3. CASE d.address \notin F.bad /\ ~(F.client # None /\ F.client.dest = d)
    <2> DEFINE c == [dest |-> d, up |-> FALSE, message |-> {m}]
    <2>1. Offer(F, m, d) = [F EXCEPT !.client = c]
      BY <1>3 DEF Offer
    <2>2. c \in Client /\ c.message = {m}
      BY DEF Client
    <2> HIDE DEF c
    <2> QED BY <2>1, <2>2, NoneAssumption DEF Forward, Busy
  <1> QED BY <1>1, <1>2, <1>3

\* start() does one of three things with the next message.
LEMMA StartResult ==
    ASSUME TypeOK, NEW F \in Forward, NEW m \in Message,
           ~Busy(F), ~F.continue, ~F.filtering
    PROVE  LET G == Start(F, m)
           IN  /\ G \in Forward /\ G.on = F.on /\ G.error = F.error /\ G.bad = F.bad
               /\ \/ G.held = {m} /\ G.filtering /\ ~G.continue /\ ~Busy(G) /\ G.client = F.client
                  \/ G.held = F.held /\ ~G.filtering /\ G.continue /\ ~Busy(G) /\ G.client = F.client
                  \/ G.held = F.held /\ ~G.filtering /\ ~G.continue /\ Busy(G) /\ G.client.message = {m}
  <1>1. CASE m \in routed
    BY <1>1 DEF Start, Forward, Busy
  <1>2. CASE m \notin routed
    <2>1. dest[m] \in Destination
      BY DEF TypeOK
    <2> QED BY <1>2, <2>1, OfferResult DEF Start
  <1> QED BY <1>1, <1>2

-----------------------------------------------------------------------------
(* What a callback has to do to keep the invariant.                        *)

\* G is what becomes of one object: it is steady, the messages it has taken were new, and
\* the envelopes of all that it had or has say so.
LEMMA StepInv ==
    ASSUME Inv, NEW o \in Owner, NEW G \in Forward, Steady(G),
           fwd' = [fwd EXCEPT ![o] = G],
           file' \in [Message -> Status],
           UNCHANGED <<routed, local, failLocal>>, dest' \in [Message -> Destination],
           timer' \in BOOLEAN, pending' \in BOOLEAN, owed' \in BOOLEAN,
           \A m \in Message :
               /\ m \in Held(G) => file'[m] = "locked" /\ (m \in Held(fwd[o]) \/ file[m] = "new")
               /\ m \in Held(fwd[o]) \ Held(G) => file'[m] # "locked"
               /\ m \notin Held(fwd[o]) \cup Held(G) =>
                      file'[m] = file[m] \/ (file[m] # "locked" /\ file'[m] # "locked")
    PROVE  Inv'
  <1>1. TypeOK'
    BY DEF Inv, TypeOK, Status, Steady
  <1>2. \A p \in Owner : Held(fwd[p]) \subseteq Message /\ Held(fwd'[p]) \subseteq Message
    BY <1>1, HeldType DEF Inv, TypeOK
  <1>3. fwd'[o] = G /\ \A p \in Owner \ {o} : fwd'[p] = fwd[p]
    BY DEF Inv, TypeOK
  <1>4. ASSUME NEW p \in Owner, NEW m \in Held(fwd'[p])
        PROVE  file'[m] = "locked" /\ \A q \in Owner \ {p} : m \notin Held(fwd'[q])
    <2>1. m \in Message
      BY <1>2
    <2>2. CASE p = o
      BY <1>3, <2>1, <2>2 DEF Inv, LockedIsHeld
    <2>3. CASE p # o
      <3>1. m \in Held(fwd[p]) /\ file[m] = "locked" /\ m \notin Held(fwd[o])
        BY <1>3, <2>3 DEF Inv, LockedIsHeld
      <3>2. m \notin Held(G)
        BY <2>1, <3>1
      <3> QED BY <1>3, <2>1, <2>3, <3>1, <3>2 DEF Inv, LockedIsHeld
    <2> QED BY <2>2, <2>3
  <1>5. ASSUME NEW m \in Message, file'[m] = "locked" PROVE \E p \in Owner : m \in Held(fwd'[p])
    <2>1. CASE m \in Held(G)
      BY <1>3, <2>1
    <2>2. CASE m \notin Held(G)
      <3>1. m \notin Held(fwd[o]) /\ file[m] = "locked"
        BY <1>5, <2>2
      <3>2. PICK p \in Owner : m \in Held(fwd[p])
        BY <3>1 DEF Inv, LockedIsHeld
      <3> QED BY <1>3, <3>1, <3>2
    <2> QED BY <2>1, <2>2
  <1>6. LockedIsHeld'
    BY <1>4, <1>5 DEF LockedIsHeld
  <1>7. \A p \in Owner : Steady(fwd'[p])
    BY <1>3 DEF Inv
  <1> QED BY <1>1, <1>6, <1>7 DEF Inv

\* no message changes hands
LEMMA IdleInv ==
    ASSUME Inv, UNCHANGED fwd, file' \in [Message -> Status],
           \A m \in Message : file'[m] = file[m] \/ (file[m] # "locked" /\ file'[m] # "locked"),
           routed' \subseteq Message, local' \subseteq Message, dest' \in [Message -> Destination],
           UNCHANGED failLocal, timer' \in BOOLEAN, pending' \in BOOLEAN, owed' \in BOOLEAN
    PROVE  Inv'
  <1>1. TypeOK'
    BY DEF Inv, TypeOK, Status
  <1>2. \A o \in Owner : Held(fwd[o]) \subseteq Message
    BY HeldType DEF Inv, TypeOK
  <1>3. LockedIsHeld'
    BY <1>2 DEF Inv, LockedIsHeld
  <1>4. \A o \in Owner : Steady(fwd'[o])
    BY DEF Inv
  <1> QED BY <1>1, <1>3, <1>4 DEF Inv

LEMMA OffIsSteady == Off \in Forward /\ Steady(Off) /\ Held(Off) = {}
  BY DEF Off, Forward, Steady, Busy, Held

-----------------------------------------------------------------------------
(* Forward's callbacks.                                                    *)

\* sendNext(), called by an object that has become F and whose client is done with s
LEMMA SendNextInv ==
    ASSUME Inv, NEW o \in Owner, NEW F \in Forward, NEW s \in SUBSET Message,
           NEW how \in {"gone", "failed", "new"}, SendNext(o, F, s, how),
           F.on, ~Busy(F), ~F.continue, ~F.filtering, F.held \cap s = {},
           F.client # None => F.client.up,
           \A m, n \in F.held : m = n, Held(fwd[o]) = F.held \cup s,
           UNCHANGED others
    PROVE  Inv'
  <1> DEFINE m == NextOf(F)
             H == [F EXCEPT !.list = {n \in F.list : n > m}]
             G == Start(H, m)
  <1>1. fwd' = [fwd EXCEPT ![o] = G] /\ Files(s, how, LocalFails(F), F.held \ G.held, Held(G) \cap {m})
    BY DEF SendNext
  <1>2. m \in Message /\ m \in F.list /\ file[m] = "new" /\ m \notin local
    BY NextIsWanted DEF SendNext, Wanted, Forward
  <1>3. /\ H \in Forward /\ H.on /\ H.held = F.held /\ H.client = F.client /\ ~H.filtering /\ ~H.continue /\ ~Busy(H)
    BY DEF Forward, Busy
  <1> HIDE DEF m, H, G
  <1>4. /\ G \in Forward /\ G.on
        /\ \/ G.held = {m} /\ G.filtering /\ ~G.continue /\ ~Busy(G) /\ G.client = F.client
           \/ G.held = F.held /\ ~G.filtering /\ G.continue /\ ~Busy(G) /\ G.client = F.client
           \/ G.held = F.held /\ ~G.filtering /\ ~G.continue /\ Busy(G) /\ G.client.message = {m}
    BY <1>2, <1>3, StartResult DEF G, Inv
  <1>5. F.held \subseteq Message /\ s \subseteq Message /\ \A n \in F.held \cup s : file[n] = "locked"
    BY DEF Forward, Inv, LockedIsHeld
  <1>6. Steady(G)
    BY <1>2, <1>4, <1>5 DEF Steady
  <1>7. /\ Held(G) = G.held \cup (IF Busy(G) THEN {m} ELSE {})
        /\ \A n \in LocalFails(F) : file[n] = "new" /\ n \in local
    BY <1>4 DEF Held, Busy, LocalFails
  <1>8. file' \in [Message -> Status]
    BY <1>1 DEF Files, Inv, TypeOK, Status
  <1>9. ASSUME NEW n \in Message
        PROVE  /\ n \in Held(G) => file'[n] = "locked" /\ (n \in Held(fwd[o]) \/ file[n] = "new")
               /\ n \in Held(fwd[o]) \ Held(G) => file'[n] # "locked"
               /\ n \notin Held(fwd[o]) \cup Held(G) =>
                      file'[n] = file[n] \/ (file[n] # "locked" /\ file'[n] # "locked")
    <2>1. file'[n] = CASE n \in Held(G) \cap {m}      -> "locked"
                       [] n \in s                     -> how
                       [] n \in LocalFails(F)         -> "failed"
                       [] n \in F.held \ G.held       -> "new"
                       [] OTHER                       -> file[n]
      BY <1>1 DEF Files
    <2> QED BY <1>2, <1>4, <1>5, <1>7, <2>1
  <1> QED BY <1>1, <1>4, <1>6, <1>8, <1>9, StepInv DEF others, Inv, TypeOK

\* what a Forward that goes away gives back
LEMMA DeleteInv ==
    ASSUME Inv, NEW o \in Owner, NEW failed \in SUBSET Message, Delete(o, failed),
           \A m \in failed : file[m] = "new"
    PROVE  Inv'
  <1>1. fwd' = [fwd EXCEPT ![o] = Off]
    BY DEF Delete
  <1>2. fwd[o] \in Forward /\ fwd[o].held \subseteq Held(fwd[o]) /\ Held(fwd[o]) \subseteq Message
    BY HeldType DEF Held, Inv, TypeOK
  <1>3. ASSUME NEW m \in Message
        PROVE  file'[m] = CASE m \in failed \cup fwd[o].held       -> "failed"
                            [] m \in Held(fwd[o]) \ fwd[o].held -> "new"
                            [] OTHER                            -> file[m]
    BY DEF Delete, Files
  <1>4. file' \in [Message -> Status]
    BY DEF Delete, Files, Inv, TypeOK, Status
  <1>5. ASSUME NEW m \in Message
        PROVE  /\ m \in Held(fwd[o]) => file'[m] # "locked"
               /\ m \notin Held(fwd[o]) => file'[m] = file[m] \/ (file[m] # "locked" /\ file'[m] # "locked")
    BY <1>2, <1>3
  <1>6. timer' \in BOOLEAN /\ pending' \in BOOLEAN /\ UNCHANGED <<dest, routed, local, failLocal, owed>>
    BY DEF Delete, Inv, TypeOK
  <1> QED BY <1>1, <1>4, <1>5, <1>6, OffIsSteady, StepInv DEF Inv, TypeOK

LEMMA ContinueInv ==
    ASSUME Inv, NEW o \in Owner, Continue(o)
    PROVE  Inv'
  <1> DEFINE F == [fwd[o] EXCEPT !.continue = FALSE]
  <1>1. fwd[o] \in Forward /\ Steady(fwd[o]) /\ fwd[o].continue
    BY DEF Inv, TypeOK, Continue
  <1>2. /\ F \in Forward /\ F.on /\ ~Busy(F) /\ ~F.continue /\ ~F.filtering
        /\ F.held = fwd[o].held /\ F.list = fwd[o].list /\ Held(fwd[o]) = F.held
        /\ (F.client # None => F.client.up)
    BY <1>1, WaitingIsOn DEF Forward, Steady, Busy
  <1>3. CASE NoNext(F)
    <2>1. Delete(o, LocalFails(F))
      BY <1>3 DEF Continue
    <2>2. LocalFails(F) \subseteq Message /\ \A m \in LocalFails(F) : file[m] = "new"
      BY <1>2 DEF LocalFails, Forward
    <2> QED BY <2>1, <2>2, DeleteInv
  <1>4. CASE ~NoNext(F)
    <2>1. SendNext(o, F, {}, "new") /\ UNCHANGED others
      BY <1>4 DEF Continue
    <2> HIDE DEF F
    <2> QED BY <1>1, <1>2, <2>1, SendNextInv DEF Steady
  <1> QED BY <1>3, <1>4

LEMMA ErrorInv ==
    ASSUME Inv, NEW o \in Owner, Error(o)
    PROVE  Inv'
  BY DeleteInv DEF Error

LEMMA RoutingOkInv ==
    ASSUME Inv, NEW o \in Owner, RoutingOk(o)
    PROVE  Inv'
  <1> DEFINE m == CHOOSE n \in fwd[o].held : TRUE
             F == [fwd[o] EXCEPT !.filtering = FALSE]
  <1>1. PICK d \in Destination :
            /\ fwd[o].filtering
            /\ IF d.address \in Malformed THEN Delete(o, {})
               ELSE /\ fwd' = [fwd EXCEPT ![o] = IF Offer(F, m, d).continue THEN Offer(F, m, d)
                                                 ELSE [Offer(F, m, d) EXCEPT !.held = {}]]
                    /\ dest' = [dest EXCEPT ![m] = d]
                    /\ UNCHANGED <<file, routed, local, failLocal, timer, pending, owed>>
    BY DEF RoutingOk
  <1>2. fwd[o] \in Forward /\ Steady(fwd[o])
    BY DEF Inv, TypeOK
  <1>3. m \in fwd[o].held /\ fwd[o].held = {m} /\ m \in Message
    BY <1>1, <1>2 DEF Steady, Forward
  <1>4. /\ F \in Forward /\ F.on /\ ~Busy(F) /\ ~F.continue /\ ~F.filtering /\ F.held = {m}
        /\ (F.client # None => F.client.up) /\ Held(fwd[o]) = {m} /\ Held(F) = {m}
    BY <1>1, <1>2, <1>3, WaitingIsOn DEF Forward, Steady, Busy, Held
  <1> HIDE DEF m, F
  <1>5. CASE d.address \in Malformed
    BY <1>1, <1>5, DeleteInv
  <1>6. CASE d.address \notin Malformed
    <2> DEFINE G == Offer(F, m, d)
               H == [G EXCEPT !.held = {}]
    <2>1. /\ G \in Forward /\ G.on /\ G.held = {m} /\ ~G.filtering
          /\ \/ G.continue /\ ~Busy(G) /\ Held(G) = {m} /\ G.client = F.client
             \/ ~G.continue /\ Busy(G) /\ G.client.message = {m}
      BY <1>3, <1>4, OfferResult
    <2>2. file[m] = "locked"
      BY <1>4 DEF Inv, LockedIsHeld
    <2>3. fwd' = [fwd EXCEPT ![o] = IF G.continue THEN G ELSE H]
      BY <1>1, <1>6
    <2>0. /\ dest' \in [Message -> Destination] /\ file' \in [Message -> Status] /\ UNCHANGED file
          /\ timer' \in BOOLEAN /\ pending' \in BOOLEAN /\ owed' \in BOOLEAN
          /\ UNCHANGED <<routed, local, failLocal>>
      BY <1>1, <1>3, <1>6 DEF Inv, TypeOK, Status
    <2> HIDE DEF G
    <2>4. CASE G.continue
      <3>1. Steady(G)
        BY <1>4, <2>1, <2>4 DEF Steady
      <3>2. fwd' = [fwd EXCEPT ![o] = G]
        BY <2>3, <2>4
      <3> QED BY <1>4, <2>0, <2>1, <2>2, <2>4, <3>1, <3>2, StepInv
    <2>5. CASE ~G.continue
      <3>1. H \in Forward /\ Busy(H) /\ H.client.message = {m} /\ Held(H) = {m} /\ H.on
            /\ ~H.filtering /\ ~H.continue /\ H.held = {}
        BY <2>1, <2>5 DEF Forward, Busy, Held
      <3> HIDE DEF H
      <3>2. Steady(H)
        BY <3>1 DEF Steady
      <3>3. fwd' = [fwd EXCEPT ![o] = H]
        BY <2>3, <2>5
      <3> QED BY <1>4, <2>0, <2>2, <3>1, <3>2, <3>3, StepInv
    <2> QED BY <2>4, <2>5
  <1> QED BY <1>5, <1>6

LEMMA RoutingIgnoresInv ==
    ASSUME Inv, NEW o \in Owner, RoutingIgnores(o)
    PROVE  Inv'
  <1> DEFINE G == [fwd[o] EXCEPT !.filtering = FALSE, !.continue = TRUE]
  <1>1. fwd[o] \in Forward /\ Steady(fwd[o]) /\ fwd[o].filtering
    BY DEF Inv, TypeOK, RoutingIgnores
  <1>2. fwd' = [fwd EXCEPT ![o] = G] /\ UNCHANGED <<file, others>>
    BY <1>1 DEF RoutingIgnores, Inv, TypeOK
  <1>3. G \in Forward /\ Held(G) = Held(fwd[o]) /\ Steady(G)
    BY <1>1, WaitingIsOn DEF Forward, Held, Steady, Busy
  <1>4. Held(G) \subseteq Message /\ \A m \in Held(G) : file[m] = "locked"
    BY <1>3, HeldType DEF Inv, LockedIsHeld
  <1> HIDE DEF G
  <1> QED BY <1>2, <1>3, <1>4, StepInv DEF others, Inv, TypeOK, Status

LEMMA RoutingFailsInv ==
    ASSUME Inv, NEW o \in Owner, RoutingFails(o)
    PROVE  Inv'
  <1> DEFINE G == [fwd[o] EXCEPT !.filtering = FALSE, !.continue = TRUE, !.held = {}]
  <1>1. fwd[o] \in Forward /\ Steady(fwd[o]) /\ fwd[o].filtering
    BY DEF Inv, TypeOK, RoutingFails
  <1>2. fwd' = [fwd EXCEPT ![o] = G] /\ UNCHANGED others /\ Files({}, "new", fwd[o].held, {}, {})
    BY <1>1 DEF RoutingFails, Inv, TypeOK
  <1>3. G \in Forward /\ Held(G) = {} /\ Held(fwd[o]) = fwd[o].held /\ Steady(G)
    BY <1>1, WaitingIsOn DEF Forward, Held, Steady, Busy
  <1> HIDE DEF G
  <1>4. file' = [m \in Message |-> IF m \in fwd[o].held THEN "failed" ELSE file[m]]
    BY <1>2 DEF Files
  <1> QED BY <1>2, <1>3, <1>4, StepInv DEF others, Inv, TypeOK, Status

-----------------------------------------------------------------------------
(* The client's signals.                                                   *)

LEMMA ConnectInv ==
    ASSUME Inv, NEW o \in Owner, Connect(o)
    PROVE  Inv'
  <1> DEFINE c == [fwd[o].client EXCEPT !.up = TRUE]
             G == [fwd[o] EXCEPT !.client = c]
  <1>1. fwd[o] \in Forward /\ Steady(fwd[o]) /\ fwd[o].client # None
    BY DEF Inv, TypeOK, Connect
  <1>2. fwd' = [fwd EXCEPT ![o] = G] /\ UNCHANGED <<file, others>>
    BY <1>1 DEF Connect, Inv, TypeOK
  <1>3. c \in Client /\ c.message = fwd[o].client.message /\ c.up
    BY <1>1 DEF Forward, Client
  <1> HIDE DEF c
  <1>4. G \in Forward /\ Held(G) = Held(fwd[o]) /\ Steady(G)
    BY <1>1, <1>3, NoneAssumption DEF Forward, Held, Steady, Busy, Off
  <1>5. Held(G) \subseteq Message /\ \A m \in Held(G) : file[m] = "locked"
    BY <1>4, HeldType DEF Inv, LockedIsHeld
  <1> HIDE DEF G
  <1> QED BY <1>2, <1>4, <1>5, StepInv DEF others, Inv, TypeOK, Status

\* a client that goes away, after protocolDone() or because of its connection
LEMMA NoClientInv ==
    ASSUME Inv, NEW o \in Owner, NEW how \in {"gone", "failed", "new"}, NEW failed \in SUBSET Message,
           NEW G \in Forward, fwd[o].client # None, fwd' = [fwd EXCEPT ![o] = G],
           Files(fwd[o].client.message, how, failed, {}, {}), UNCHANGED others,
           \A m \in failed : file[m] = "new",
           G.client = None, G.held = fwd[o].held, Steady(G)
    PROVE  Inv'
  <1>1. fwd[o] \in Forward /\ Steady(fwd[o]) /\ fwd[o].client \in Client
    BY DEF Inv, TypeOK, Forward
  <1>3. Held(G) = fwd[o].held /\ Held(fwd[o]) = fwd[o].held \cup fwd[o].client.message
    BY DEF Held
  <1>4. Held(fwd[o]) \subseteq Message /\ \A m \in Held(fwd[o]) : file[m] = "locked"
    BY <1>1, HeldType DEF Inv, LockedIsHeld
  <1>5. fwd[o].client.message \cap fwd[o].held = {}
    BY <1>1 DEF Steady, Busy
  <1>6. ASSUME NEW m \in Message
        PROVE  file'[m] = CASE m \in fwd[o].client.message -> how
                            [] m \in failed               -> "failed"
                            [] OTHER                      -> file[m]
    BY DEF Files
  <1>7. file' \in [Message -> Status]
    BY DEF Files, Inv, TypeOK, Status
  <1>8. ASSUME NEW m \in Message
        PROVE  /\ m \in Held(G) => file'[m] = "locked" /\ m \in Held(fwd[o])
               /\ m \in Held(fwd[o]) \ Held(G) => file'[m] # "locked"
               /\ m \notin Held(fwd[o]) => file'[m] = file[m] \/ (file[m] # "locked" /\ file'[m] # "locked")
    BY <1>3, <1>4, <1>5, <1>6
  <1>9. /\ UNCHANGED <<routed, local, failLocal>> /\ dest' \in [Message -> Destination]
        /\ timer' \in BOOLEAN /\ pending' \in BOOLEAN /\ owed' \in BOOLEAN
    BY DEF others, Inv, TypeOK
  <1> QED BY <1>3, <1>7, <1>8, <1>9, StepInv

LEMMA MessageDoneInv ==
    ASSUME Inv, NEW o \in Owner, MessageDone(o)
    PROVE  Inv'
  <1> DEFINE c == [fwd[o].client EXCEPT !.message = {}]
             F == [fwd[o] EXCEPT !.client = c]
             s == fwd[o].client.message
             N == [F EXCEPT !.client = None, !.error = TRUE]
  <1>1. fwd[o] \in Forward /\ Steady(fwd[o]) /\ fwd[o].client # None /\ s # {} /\ Busy(fwd[o])
    BY DEF Inv, TypeOK, MessageDone, Busy
  <1>2. PICK how \in {"gone", "failed", "new"}, special \in BOOLEAN :
            IF special \/ NoNext(F)
            THEN /\ fwd' = [fwd EXCEPT ![o] = N]
                 /\ Files(s, how, IF special THEN {} ELSE LocalFails(F), {}, {})
            ELSE SendNext(o, F, s, how)
    BY DEF MessageDone
  <1>3. fwd[o].client \in Client /\ c \in Client /\ c.message = {} /\ c.up /\ s \in SUBSET Message
    BY <1>1 DEF Forward, Client, MessageDone
  <1> HIDE DEF c
  <1>4. /\ F \in Forward /\ ~Busy(F) /\ F.on /\ ~F.continue /\ ~F.filtering /\ F.held = fwd[o].held
        /\ Held(fwd[o]) = F.held \cup s /\ F.held \cap s = {} /\ \A m, n \in F.held : m = n
        /\ F.client.up
    BY <1>1, <1>3, OwnerIsOn DEF Forward, Busy, Steady, Held
  <1>5. UNCHANGED others
    BY DEF MessageDone
  <1> HIDE DEF F, s
  <1>6. CASE special \/ NoNext(F)
    <2>1. N \in Forward /\ N.client = None /\ N.on /\ N.error /\ N.held = F.held /\ ~N.filtering /\ ~N.continue
      BY <1>4 DEF Forward
    <2> DEFINE failed == IF special THEN {} ELSE LocalFails(F)
    <2>2. failed \in SUBSET Message /\ \A m \in failed : file[m] = "new"
      BY <1>4 DEF LocalFails, Forward
    <2> HIDE DEF N
    <2>3. fwd' = [fwd EXCEPT ![o] = N] /\ Files(fwd[o].client.message, how, failed, {}, {})
      BY <1>2, <1>6 DEF s
    <2> HIDE DEF failed
    <2>4. N.held = fwd[o].held /\ Steady(N)
      BY <1>1, <1>4, <2>1 DEF Steady, Busy
    <2> QED BY <1>1, <1>5, <2>1, <2>2, <2>3, <2>4, NoClientInv, Zenon
  <1>7. CASE ~(special \/ NoNext(F))
    BY <1>2, <1>3, <1>4, <1>5, <1>7, SendNextInv
  <1> QED BY <1>6, <1>7

LEMMA LoseInv ==
    ASSUME Inv, NEW o \in Owner, Lose(o)
    PROVE  Inv'
  <1> DEFINE c == fwd[o].client
             F == [fwd[o] EXCEPT !.client = None]
             S == [F EXCEPT !.bad = @ \cup {c.dest.address}, !.continue = TRUE]
             E == [F EXCEPT !.error = TRUE]
  <1>1. fwd[o] \in Forward /\ Steady(fwd[o]) /\ c # None /\ c \in Client
    BY DEF Inv, TypeOK, Lose, Forward
  <1>2. fwd[o].on /\ (c.up \/ Busy(fwd[o]))
    BY <1>1, OwnerIsOn DEF Steady
  <1>3. /\ fwd' = [fwd EXCEPT ![o] = IF ~c.up /\ c.dest.address # Default THEN S ELSE E]
        /\ Files(c.message, IF c.up THEN "failed" ELSE "new", {}, {}, {}) /\ UNCHANGED others
    BY DEF Lose
  <1>4. c.dest.address \in Address \cup {Default}
    BY <1>1 DEF Client, Destination
  <1>5. CASE ~c.up /\ c.dest.address # Default
    <2>1. /\ S \in Forward /\ S.client = None /\ S.on /\ S.held = fwd[o].held
          /\ S.filtering = fwd[o].filtering /\ S.continue
      BY <1>1, <1>2, <1>4, <1>5 DEF Forward
    <2>2. fwd' = [fwd EXCEPT ![o] = S] /\ Files(fwd[o].client.message, "new", {}, {}, {})
      BY <1>3, <1>5
    <2> HIDE DEF S
    <2>3. Steady(S)
      BY <1>1, <1>2, <1>5, <2>1 DEF Steady, Busy
    <2>4. {} \in SUBSET Message /\ \A m \in {} : file[m] = "new"
      OBVIOUS
    <2> QED BY <1>1, <1>3, <2>1, <2>2, <2>3, <2>4, NoClientInv, Zenon
  <1>6. CASE c.up \/ c.dest.address = Default
    <2>1. /\ E \in Forward /\ E.client = None /\ E.on /\ E.held = fwd[o].held
          /\ E.filtering = fwd[o].filtering /\ E.continue = fwd[o].continue /\ E.error
      BY <1>1, <1>2 DEF Forward
    <2>2. /\ fwd' = [fwd EXCEPT ![o] = E]
          /\ Files(fwd[o].client.message, IF c.up THEN "failed" ELSE "new", {}, {}, {})
      BY <1>3, <1>6
    <2> HIDE DEF E
    <2>3. Steady(E)
      BY <1>1, <2>1 DEF Steady, Busy
    <2>4. /\ (IF c.up THEN "failed" ELSE "new") \in {"gone", "failed", "new"}
          /\ {} \in SUBSET Message /\ \A m \in {} : file[m] = "new"
      OBVIOUS
    <2> QED BY <1>1, <1>3, <2>1, <2>2, <2>3, <2>4, NoClientInv, Zenon
  <1> QED BY <1>5, <1>6

-----------------------------------------------------------------------------
(* The unit, the administrators, and the theorems.                         *)

LEMMA CreatedIsSteady == Created \in Forward /\ Steady(Created) /\ Held(Created) = {}
  BY DEF Created, Waiting, Off, Forward, Steady, Busy, Held

LEMMA FlushInv ==
    ASSUME Inv, NEW a \in Admin, Flush(a)
    PROVE  Inv'
  <1>1. a \in Owner /\ Held(fwd[a]) = {} /\ fwd' = [fwd EXCEPT ![a] = Created] /\ UNCHANGED <<file, others>>
    BY OffIsSteady DEF Flush, Owner, Inv, TypeOK
  <1> QED BY <1>1, CreatedIsSteady, StepInv DEF others, Inv, TypeOK, Status

LEMMA LeaveInv ==
    ASSUME Inv, NEW a \in Admin, Leave(a)
    PROVE  Inv'
  <1>1. a \in Owner /\ fwd[a] \in Forward
    BY DEF Owner, Inv, TypeOK
  <1>2. fwd' = [fwd EXCEPT ![a] = Off] /\ UNCHANGED others
    BY DEF Leave
  <1>3. file' = [m \in Message |-> IF m \in Held(fwd[a]) THEN "new" ELSE file[m]]
    BY DEF Leave, Files
  <1> QED BY <1>1, <1>2, <1>3, OffIsSteady, StepInv DEF others, Inv, TypeOK, Status

LEMMA RequestTimeoutInv ==
    ASSUME Inv, RequestTimeout
    PROVE  Inv'
  <1>1. Unit \in Owner
    BY DEF Owner
  <1>2. UNCHANGED <<spool, failLocal>> /\ timer' \in BOOLEAN /\ pending' \in BOOLEAN /\ owed' \in BOOLEAN
    BY DEF RequestTimeout, Inv, TypeOK
  <1>3. CASE fwd[Unit].on
    <2>1. UNCHANGED fwd
      BY <1>3 DEF RequestTimeout
    <2> QED BY <1>2, <2>1, IdleInv DEF spool, Inv, TypeOK, Status
  <1>4. CASE ~fwd[Unit].on
    <2>1. PICK G \in {Off, Created} : fwd' = [fwd EXCEPT ![Unit] = G]
      BY <1>4 DEF RequestTimeout
    <2>2. Held(fwd[Unit]) = {}
      BY <1>1, <1>4, OffIsSteady DEF Inv, TypeOK
    <2>3. G \in Forward /\ Steady(G) /\ Held(G) = {}
      BY OffIsSteady, CreatedIsSteady
    <2> QED BY <1>1, <1>2, <2>1, <2>2, <2>3, StepInv DEF spool, Inv, TypeOK, Status
  <1> QED BY <1>3, <1>4

LEMMA RequestInv ==
    ASSUME Inv, Request
    PROVE  Inv'
  BY IdleInv DEF Request, spool, Inv, TypeOK, Status

LEMMA ArriveInv ==
    ASSUME Inv, NEW m \in Message, Arrive(m)
    PROVE  Inv'
  <1>1. file[m] = "none" /\ file' = [file EXCEPT ![m] = "new"] /\ dest' \in [Message -> Destination]
    BY DEF Arrive, Inv, TypeOK
  <1>2. routed' \subseteq Message /\ local' \subseteq Message /\ UNCHANGED <<failLocal, fwd, timer, pending, owed>>
    BY DEF Arrive, Inv, TypeOK
  <1>3. file' \in [Message -> Status]
    BY <1>1 DEF Inv, TypeOK, Status
  <1>4. \A n \in Message : file'[n] = file[n] \/ (file[n] # "locked" /\ file'[n] # "locked")
    BY <1>1 DEF Inv, TypeOK
  <1> QED BY <1>1, <1>2, <1>3, <1>4, IdleInv DEF Inv, TypeOK

LEMMA InitInv == Init => Inv
  <1> SUFFICES ASSUME Init PROVE Inv
    OBVIOUS
  <1>1. TypeOK
    BY OffIsSteady DEF Init, TypeOK
  <1>2. LockedIsHeld /\ \A o \in Owner : Steady(fwd[o])
    BY OffIsSteady DEF Init, LockedIsHeld
  <1> QED BY <1>1, <1>2 DEF Inv

LEMMA NextInv == Inv /\ [Next]_vars => Inv'
  <1> SUFFICES ASSUME Inv, [Next]_vars PROVE Inv'
    OBVIOUS
  <1>1. ASSUME NEW o \in Owner, Proceed(o) \/ Connect(o) PROVE Inv'
    BY <1>1, ContinueInv, ErrorInv, RoutingOkInv, RoutingIgnoresInv, RoutingFailsInv, MessageDoneInv,
       LoseInv, ConnectInv DEF Proceed
  <1>2. ASSUME NEW a \in Admin, Flush(a) \/ Leave(a) PROVE Inv'
    BY <1>2, FlushInv, LeaveInv
  <1>3. ASSUME Request \/ RequestTimeout PROVE Inv'
    BY <1>3, RequestInv, RequestTimeoutInv
  <1>4. ASSUME NEW m \in Message, Arrive(m) PROVE Inv'
    BY <1>4, ArriveInv
  <1>5. CASE UNCHANGED vars
    BY <1>5, IdleInv DEF vars, Inv, TypeOK, Status
  <1> QED BY <1>1, <1>2, <1>3, <1>4, <1>5 DEF Next

THEOREM Invariance == Spec => []Inv
  BY InitInv, NextInv, PTL DEF Spec

\* The unit, its Forward objects and the spool keep their types.
THEOREM TypeCorrect == Spec => []TypeOK
  <1>1. Inv => TypeOK
    BY DEF Inv
  <1> QED BY <1>1, Invariance, PTL

\* However many objects forward the spool, a locked message has exactly one that holds it, and that
\* one has a client, a filter or a timer at work.
THEOREM Ownership == Spec => []OwnershipInv
  <1>1. Inv => OwnershipInv
    BY DEF Inv, OwnershipInv, OneThingAtATime, Steady
  <1> QED BY <1>1, Invariance, PTL

-----------------------------------------------------------------------------
(* Addresses that cannot be connected to.                                  *)

\* from F to G no client is made for an address that is known to be unreachable
Skips(F, G) == G.client # None /\ ~G.client.up /\ G.client # F.client => G.client.dest.address \notin F.bad

LEMMA OfferSkips ==
    ASSUME NEW F \in Forward, NEW m, NEW d
    PROVE  Skips(F, Offer(F, m, d)) /\ Skips(F, [Offer(F, m, d) EXCEPT !.held = {}])
  <1>1. CASE d.address \in F.bad
    BY <1>1 DEF Offer, Skips, Forward
  <1>2. CASE d.address \notin F.bad
    <2> DEFINE c == IF F.client # None /\ F.client.dest = d THEN [F.client EXCEPT !.message = {m}]
                    ELSE [dest |-> d, up |-> FALSE, message |-> {m}]
    <2>1. Offer(F, m, d) = [F EXCEPT !.client = c]
      BY <1>2 DEF Offer
    <2>2. c.dest = d
      BY DEF Forward, Client
    <2> HIDE DEF c
    <2> QED BY <1>2, <2>1, <2>2 DEF Skips, Forward
  <1> QED BY <1>1, <1>2

\* the same of sendNext(), for an object that has become F and whose client is up if F has another
LEMMA SendNextSkips ==
    ASSUME TypeOK, NEW o \in Owner, NEW F \in Forward, NEW s, NEW how, SendNext(o, F, s, how),
           F.bad = fwd[o].bad, F.client = fwd[o].client \/ F.client.up
    PROVE  Skips(fwd[o], fwd'[o])
  <1> DEFINE m == NextOf(F)
             H == [F EXCEPT !.list = {n \in F.list : n > m}]
             G == Start(H, m)
  <1>1. fwd'[o] = G
    BY DEF SendNext, TypeOK
  <1>2. m \in Message /\ dest[m] \in Destination
    BY NextIsWanted DEF SendNext, Wanted, Forward, TypeOK
  <1>3. H \in Forward /\ H.client = F.client /\ H.bad = F.bad
    BY DEF Forward
  <1> HIDE DEF m, H
  <1>4. CASE m \in routed
    BY <1>1, <1>3, <1>4 DEF Start, Skips, Forward
  <1>5. CASE m \notin routed
    <2>1. Skips(H, G)
      BY <1>2, <1>3, <1>5, OfferSkips DEF Start
    <2> QED BY <1>1, <1>3, <2>1 DEF Skips
  <1> QED BY <1>4, <1>5

LEMMA ProceedSkips ==
    ASSUME TypeOK, NEW o \in Owner, Proceed(o) \/ Connect(o)
    PROVE  Skips(fwd[o], fwd'[o])
  <1>1. fwd[o] \in Forward /\ \A failed : Delete(o, failed) => fwd'[o].client = None
    BY DEF TypeOK, Delete, Off
  <1>2. CASE Continue(o)
    <2> DEFINE F == [fwd[o] EXCEPT !.continue = FALSE]
    <2>1. F \in Forward /\ F.bad = fwd[o].bad /\ F.client = fwd[o].client
      BY <1>1 DEF Forward
    <2>2. Delete(o, LocalFails(F)) \/ SendNext(o, F, {}, "new")
      BY <1>2 DEF Continue
    <2> HIDE DEF F
    <2> QED BY <1>1, <2>1, <2>2, SendNextSkips DEF Skips
  <1>3. CASE Error(o)
    BY <1>1, <1>3 DEF Error, Skips
  <1>4. CASE RoutingOk(o)
    <2> DEFINE m == CHOOSE n \in fwd[o].held : TRUE
               F == [fwd[o] EXCEPT !.filtering = FALSE]
    <2>1. PICK d \in Destination :
            \/ Delete(o, {})
            \/ fwd' = [fwd EXCEPT ![o] = IF Offer(F, m, d).continue THEN Offer(F, m, d)
                                         ELSE [Offer(F, m, d) EXCEPT !.held = {}]]
      BY <1>4 DEF RoutingOk
    <2>2. F \in Forward /\ F.client = fwd[o].client /\ F.bad = fwd[o].bad
      BY <1>1 DEF Forward
    <2> HIDE DEF F, m
    <2>3. CASE Delete(o, {})
      BY <1>1, <2>3 DEF Skips
    <2>4. CASE ~Delete(o, {})
      <3>1. fwd'[o] \in {Offer(F, m, d), [Offer(F, m, d) EXCEPT !.held = {}]}
        BY <2>1, <2>4 DEF TypeOK
      <3>2. Skips(F, Offer(F, m, d)) /\ Skips(F, [Offer(F, m, d) EXCEPT !.held = {}])
        BY <2>2, OfferSkips
      <3>3. Skips(F, fwd'[o])
        BY <3>1, <3>2
      <3> QED BY <2>2, <3>3 DEF Skips
    <2> QED BY <2>3, <2>4
  <1>5. CASE RoutingIgnores(o)
    BY <1>1, <1>5 DEF RoutingIgnores, Skips, TypeOK, Forward
  <1>6. CASE RoutingFails(o)
    BY <1>1, <1>6 DEF RoutingFails, Skips, TypeOK, Forward
  <1>7. CASE MessageDone(o)
    <2> DEFINE F == [fwd[o] EXCEPT !.client.message = {}]
    <2>1. fwd[o].client \in Client /\ fwd[o].client.up
      BY <1>1, <1>7 DEF MessageDone, Forward
    <2>2. F \in Forward /\ F.bad = fwd[o].bad /\ F.client.up
      BY <1>1, <2>1 DEF Forward, Client
    <2>3. \/ fwd' = [fwd EXCEPT ![o] = [F EXCEPT !.client = None, !.error = TRUE]]
          \/ \E how : SendNext(o, F, fwd[o].client.message, how)
      BY <1>7 DEF MessageDone
    <2>4. [F EXCEPT !.client = None, !.error = TRUE].client = None
      BY <2>2 DEF Forward
    <2> HIDE DEF F
    <2> QED BY <2>2, <2>3, <2>4, SendNextSkips DEF Skips, TypeOK
  <1>8. CASE Lose(o)
    <2>1. fwd'[o].client = None
      BY <1>1, <1>8 DEF Lose, TypeOK, Forward
    <2> QED BY <2>1 DEF Skips
  <1>9. CASE Connect(o)
    <2>1. fwd[o].client \in Client /\ fwd'[o].client.up
      BY <1>1, <1>9 DEF Connect, TypeOK, Forward, Client
    <2> QED BY <2>1 DEF Skips
  <1> QED BY <1>2, <1>3, <1>4, <1>5, <1>6, <1>7, <1>8, <1>9 DEF Proceed

\* the others leave the object alone, or make a new one, which has no client
LEMMA OtherSkips ==
    ASSUME TypeOK, NEW o \in Owner, [Next]_vars, ~(Proceed(o) \/ Connect(o))
    PROVE  Skips(fwd[o], fwd'[o])
  <1>1. fwd'[o] \in {fwd[o], Off, Created}
    <2>1. ASSUME NEW p \in Owner \ {o}, Proceed(p) \/ Connect(p) PROVE fwd'[o] = fwd[o]
      BY <2>1 DEF Proceed, Continue, Error, RoutingOk, RoutingIgnores, RoutingFails, MessageDone, Lose,
         Connect, Delete, SendNext, TypeOK
    <2>2. ASSUME NEW a \in Admin, Flush(a) \/ Leave(a) PROVE fwd'[o] \in {fwd[o], Off, Created}
      BY <2>2 DEF Flush, Leave, TypeOK
    <2>3. ASSUME Request \/ RequestTimeout PROVE fwd'[o] \in {fwd[o], Off, Created}
      BY <2>3 DEF Request, RequestTimeout, TypeOK
    <2>4. ASSUME NEW m \in Message, Arrive(m) PROVE fwd'[o] = fwd[o]
      BY <2>4 DEF Arrive
    <2> QED BY <2>1, <2>2, <2>3, <2>4 DEF Next, vars
  <1>2. Off.client = None /\ Created.client = None
    BY DEF Off, Created
  <1> QED BY <1>1, <1>2 DEF Skips

\* In one scan no connection is tried to an address that could not be connected to.
THEOREM UnreachableSkipped == Spec => UnreachableIsSkipped
  <1>1. ASSUME TypeOK, [Next]_vars, NEW o \in Owner
        PROVE  (fwd'[o].client # None /\ ~fwd'[o].client.up /\ fwd'[o].client # fwd[o].client)
                   => fwd'[o].client.dest.address \notin fwd[o].bad
    <2>1. Skips(fwd[o], fwd'[o])
      BY <1>1, ProceedSkips, OtherSkips
    <2> QED BY <2>1 DEF Skips
  <1>2. TypeOK /\ [Next]_vars => [\A o \in Owner :
            (fwd'[o].client # None /\ ~fwd'[o].client.up /\ fwd'[o].client # fwd[o].client)
                => fwd'[o].client.dest.address \notin fwd[o].bad]_vars
    BY <1>1
  <1> QED BY <1>2, TypeCorrect, PTL DEF Spec, UnreachableIsSkipped
===============================================================================
