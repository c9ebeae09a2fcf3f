----------------------------- MODULE FiltersProofs -----------------------------
(***************************************************************************)
(* That a chain of filters has one filter at work at a time, and answers   *)
(* for the message that it was started for, whatever the filters are, in   *)
(* whatever order their programs and servers answer, and whenever the      *)
(* chain is cancelled or started again.  Not so if spamd closes the        *)
(* connection after its answer: see StaysOpen.                             *)
(***************************************************************************)
EXTENDS Filters, SequenceTheorems, TLAPS

\* spamd leaves it to the filter to close the connection
StaysOpen == ~Closes

AtRest == {"none", "idle"}
Peers(k) == CASE k = "file" -> {"none"}
              [] k = "exec" -> {"none", "run"}
              [] k = "net"  -> {"none", "connecting", "asked", "waiting", "idle"}
              [] k = "spam" -> {"none", "connecting", "waiting", "partial", "idle"}

\* Of filter i, when the filters are f and the timers P are running: whatever is going to
\* answer is about the current message, and there is one such thing.
Sound(f, P, i) ==
    /\ f[i].peer \in Peers(chain[i])
    /\ <<"done", i>> \in P => /\ f[i].peer \in AtRest /\ <<"send", i>> \notin P
                              /\ f[i].said # None /\ f[i].text = f[i].said
    /\ <<"send", i>> \in P => f[i].peer = "asked"
    /\ f[i].peer \notin AtRest => f[i].said = None /\ (chain[i] = "net" => f[i].text = None)
    /\ chain[i] = "net" /\ f[i].peer = "idle" => f[i].text # None
    /\ chain[i] = "spam" /\ f[i].text # None => ~f[i].text.special

Quiet(f, P, i) == f[i].peer \in AtRest /\ <<"done", i>> \notin P /\ <<"send", i>> \notin P

Good(f, q) ==
    /\ f \in [Position -> Filter] /\ q \in Seq(Timer) /\ IsInjective(q)
    /\ \A i \in Position : Sound(f, ToSet(q), i)

\* The filters before i have passed the message, and those behind it have not seen it.
Passed(f, i) ==
    /\ \A j \in Position : j < i => f[j].said # None /\ f[j].said.is = "ok" /\ f[j].text = f[j].said
    /\ \A j \in Position : j > i => f[j].said = None

Others(f, q, i) == \A j \in Position \ {i} : Quiet(f, ToSet(q), j)

\* What is known between two steps of a handler: the filters f and the timers q are not yet
\* those of the state.
Working(f, q) ==
    /\ Good(f, q)
    /\ \A i \in Position : ~(running /\ index = i) => Quiet(f, ToSet(q), i)
    /\ running => out = None /\ Passed(f, index)

Inv == TypeOK /\ Working(filter, soon)

-----------------------------------------------------------------------------
(* The queue of zero-length timers.                                        *)

\* A timer is in the queue once, so that the first one that is like t is t.
LEMMA FiredIs ==
    ASSUME NEW q \in Seq(Timer), IsInjective(q), NEW t
    PROVE  /\ Fired(q, t) \in Seq(Timer) /\ IsInjective(Fired(q, t))
           /\ ToSet(Fired(q, t)) = ToSet(q) \ {t}
  <1> DEFINE I == {j \in 1..Len(q) : q[j] = t}
  <1>1. Fired(q, t) = IF I # {} THEN SubSeq(q, 1, Min(I) - 1) \o SubSeq(q, Min(I) + 1, Len(q)) ELSE q
    BY DEF Fired, RemoveFirst, RemoveAt, SelectInSeq
  <1>2. DOMAIN q = 1..Len(q)
    OBVIOUS
  <1>3. CASE I = {}
    BY <1>1, <1>2, <1>3 DEF ToSet
  <1>4. CASE I # {}
    <2>1. PICK i \in 1..Len(q) : q[i] = t
      BY <1>4
    <2>2. I = {i}
      BY <2>1 DEF IsInjective
    <2>3. Min({i}) = i
      BY DEF Min
    <2> DEFINE r == SubSeq(q, 1, i - 1) \o SubSeq(q, i + 1, Len(q))
    <2>4. Fired(q, t) = r
      BY <1>1, <1>4, <2>2, <2>3
    <2> HIDE DEF I
    <2>5. /\ r \in Seq(Timer) /\ Len(r) = Len(q) - 1
          /\ \A j \in 1..Len(r) : r[j] = IF j < i THEN q[j] ELSE q[j + 1]
      <3> DEFINE u == SubSeq(q, 1, i - 1)
                 v == SubSeq(q, i + 1, Len(q))
      <3>1. u \in Seq(Timer) /\ Len(u) = i - 1 /\ \A j \in 1..(i - 1) : u[j] = q[j]
        OBVIOUS
      <3>2. v \in Seq(Timer) /\ Len(v) = Len(q) - i /\ \A j \in 1..(Len(q) - i) : v[j] = q[i + j]
        OBVIOUS
      <3> HIDE DEF u, v
      <3>3. /\ u \o v \in Seq(Timer) /\ Len(u \o v) = Len(u) + Len(v)
            /\ \A j \in 1..(Len(u) + Len(v)) : (u \o v)[j] = IF j <= Len(u) THEN u[j] ELSE v[j - Len(u)]
        BY <3>1, <3>2, ConcatProperties
      <3>4. r = u \o v
        BY DEF u, v
      <3> HIDE DEF r
      <3>5. Len(u) = i - 1 /\ Len(v) = Len(q) - i
        BY <3>1, <3>2
      <3>6. ASSUME NEW j \in 1..Len(r) PROVE r[j] = IF j < i THEN q[j] ELSE q[j + 1]
        <4>1. CASE j < i
          BY <3>1, <3>3, <3>4, <3>5, <4>1
        <4>2. CASE j >= i
          <5>1. r[j] = v[j - (i - 1)] /\ j - (i - 1) \in 1..(Len(q) - i)
            BY <3>3, <3>4, <3>5, <4>2
          <5>2. v[j - (i - 1)] = q[i + (j - (i - 1))]
            BY <3>2, <5>1
          <5>3. i + (j - (i - 1)) = j + 1
            OBVIOUS
          <5> QED BY <4>2, <5>1, <5>2, <5>3
        <4>3. j \in Nat /\ i \in Nat
          BY <3>3, <3>4, <3>5
        <4> QED BY <4>1, <4>2, <4>3
      <3> QED BY <3>3, <3>4, <3>5, <3>6
    <2> HIDE DEF r
    <2>6. IsInjective(r)
      BY <2>5 DEF IsInjective
    <2>7. ToSet(r) = ToSet(q) \ {t}
      <3>1. ASSUME NEW w \in ToSet(r) PROVE w \in ToSet(q) /\ w # t
        BY <2>1, <2>5, <3>1 DEF ToSet, IsInjective
      <3>2. ASSUME NEW k \in 1..Len(q), q[k] # t PROVE q[k] \in ToSet(r)
        <4>1. CASE k < i
          BY <2>5, <4>1 DEF ToSet
        <4>2. CASE k > i
          <5>1. k - 1 \in 1..Len(r) /\ r[k - 1] = q[k]
            BY <2>5, <4>2
          <5> QED BY <2>5, <5>1 DEF ToSet
        <4> QED BY <2>1, <3>2, <4>1, <4>2
      <3>3. \A w \in ToSet(q) : \E k \in 1..Len(q) : w = q[k]
        BY <1>2 DEF ToSet
      <3> QED BY <3>1, <3>2, <3>3
    <2> QED BY <2>4, <2>5, <2>6, <2>7
  <1> QED BY <1>3, <1>4

LEMMA LateIs ==
    ASSUME NEW q \in Seq(Timer), IsInjective(q), NEW t \in Timer
    PROVE  /\ Late(q, t) \in Seq(Timer) /\ IsInjective(Late(q, t))
           /\ ToSet(Late(q, t)) = ToSet(q) \cup {t}
  <1> DEFINE r == Fired(q, t)
  <1>1. r \in Seq(Timer) /\ IsInjective(r) /\ ToSet(r) = ToSet(q) \ {t}
    BY FiredIs
  <1>2. Late(q, t) = Append(r, t)
    BY DEF Late
  <1> HIDE DEF r
  <1>3. /\ Append(r, t) \in Seq(Timer) /\ Len(Append(r, t)) = Len(r) + 1
        /\ \A i \in 1..Len(r) : Append(r, t)[i] = r[i]
        /\ Append(r, t)[Len(r) + 1] = t
    BY <1>1
  <1>4. \A i \in 1..Len(r) : r[i] # t
    BY <1>1 DEF ToSet
  <1>5. IsInjective(Append(r, t))
    BY <1>1, <1>3, <1>4 DEF IsInjective
  <1>6. ToSet(Append(r, t)) = ToSet(r) \cup {t}
    BY <1>1, <1>3 DEF ToSet
  <1> QED BY <1>1, <1>2, <1>3, <1>5, <1>6

-----------------------------------------------------------------------------
(* What the handlers of the filters do.                                    *)

LEMMA Chain ==
    ASSUME TypeOK
    PROVE  /\ Len(chain) \in Nat \ {0} /\ Position = 1..Len(chain) /\ Position \subseteq Nat
           /\ \A i \in Position : chain[i] \in {"file", "exec", "net", "spam"}
  BY ChainsAssumption DEF TypeOK, Position

LEMMA AnswersAre ==
    /\ \A v \in {"ok", "abandon", "fail"} : Says(v) \in Answer /\ Says(v).is = v /\ ~Says(v).special
    /\ \A a \in Answer : ~a.special => a = Says(a.is)
    /\ \A c : Exit(c) \in Answer
  <1>1. \A v \in {"ok", "abandon", "fail"} : Says(v) \in Answer /\ Says(v).is = v /\ ~Says(v).special
    BY DEF Says, Answer
  <1>2. \A a \in Answer : ~a.special => a = Says(a.is)
    BY DEF Says, Answer
  <1>3. ASSUME NEW c PROVE Exit(c) \in Answer
    <2> DEFINE v == CASE c \in {0, 101, 103} \/ (c = 102 /\ side = "client") -> "ok"
                      [] c = 100 \/ (c = 102 /\ side = "server") \/ (c = 104 /\ side = "client") -> "abandon"
                      [] OTHER -> "fail"
               b == c \in (IF side = "server" THEN {102, 103, 104} ELSE {102, 104, 105})
    <2>1. v \in {"ok", "abandon", "fail"}
      OBVIOUS
    <2>2. b \in BOOLEAN
      OBVIOUS
    <2>3. Exit(c) = [is |-> v, special |-> b]
      BY Zenon DEF Exit
    <2> HIDE DEF v, b
    <2> QED BY <2>1, <2>2, <2>3 DEF Answer
  <1> QED BY <1>1, <1>2, <1>3

\* Filter i and its timers change, the others stay.
LEMMA OneChanges ==
    ASSUME NEW f, NEW q, Good(f, q), NEW i \in Position,
           NEW g \in [Position -> Filter], NEW r \in Seq(Timer), IsInjective(r),
           \A j \in Position \ {i} : g[j] = f[j],
           \A k \in {"done", "send"}, j \in Position \ {i} : <<k, j>> \in ToSet(r) <=> <<k, j>> \in ToSet(q),
           Sound(g, ToSet(r), i)
    PROVE  Good(g, r) /\ (Others(f, q, i) => Others(g, r, i))
  BY DEF Good, Sound, Others, Quiet

\* A filter is started: it has not seen the message, or it has and is going to say so.
LEMMA StartFilterIs ==
    ASSUME TypeOK, NEW f, NEW q, Good(f, q), NEW i \in Position, Quiet(f, ToSet(q), i),
           f[i].said = None, NEW x \in StartFilter(f, q, i)
    PROVE  /\ Good(x[1], x[2]) /\ \A j \in Position \ {i} : x[1][j] = f[j]
           /\ Others(f, q, i) => Others(x[1], x[2], i)
  <1> DEFINE g == x[1]
             r == x[2]
  <1>1. f \in [Position -> Filter] /\ q \in Seq(Timer) /\ IsInjective(q) /\ Sound(f, ToSet(q), i)
    BY DEF Good
  <1>2. <<"done", i>> \in Timer /\ <<"send", i>> \in Timer
    BY DEF Timer
  <1>3. chain[i] \in {"file", "exec", "net", "spam"}
    BY Chain
  <1>4. SUFFICES /\ g \in [Position -> Filter] /\ r \in Seq(Timer) /\ IsInjective(r)
                 /\ \A j \in Position \ {i} : g[j] = f[j]
                 /\ \A k \in {"done", "send"}, j \in Position \ {i} :
                        <<k, j>> \in ToSet(r) <=> <<k, j>> \in ToSet(q)
                 /\ Sound(g, ToSet(r), i)
    <2> HIDE DEF g, r
    <2> QED BY OneChanges DEF g, r
  <1>5. CASE chain[i] = "file"
    <2>1. PICK a \in Answer : g = Learn(f, i, a) /\ r = Late(q, <<"done", i>>)
      BY <1>5 DEF StartFilter
    <2>2. /\ g \in [Position -> Filter] /\ \A j \in Position \ {i} : g[j] = f[j]
          /\ g[i].peer = f[i].peer /\ g[i].text = a /\ g[i].said = a
      BY <1>1, <2>1 DEF Learn, Filter
    <2>3. r \in Seq(Timer) /\ IsInjective(r) /\ ToSet(r) = ToSet(q) \cup {<<"done", i>>}
      BY <1>1, <1>2, <2>1, LateIs
    <2> HIDE DEF g, r
    <2>4. Sound(g, ToSet(r), i)
      BY <1>1, <1>5, <2>2, <2>3, NoneAssumption DEF Sound, Quiet, Peers, AtRest
    <2> QED BY <2>2, <2>3, <2>4
  <1>6. CASE chain[i] = "exec"
    <2>1. g = [f EXCEPT ![i].peer = "run"] /\ r = q
      BY <1>6 DEF StartFilter
    <2>2. /\ g \in [Position -> Filter] /\ \A j \in Position \ {i} : g[j] = f[j]
          /\ g[i].peer = "run" /\ g[i].said = None
      BY <1>1, <2>1 DEF Filter
    <2> HIDE DEF g, r
    <2>3. Sound(g, ToSet(r), i)
      BY <1>1, <1>6, <2>1, <2>2 DEF Sound, Quiet, Peers, AtRest
    <2> QED BY <1>1, <2>1, <2>2, <2>3
  <1>7. CASE chain[i] = "spam"
    <2>1. g = [f EXCEPT ![i].peer = "connecting", ![i].once = FALSE, ![i].text = None] /\ r = q
      BY <1>7 DEF StartFilter
    <2>2. /\ g \in [Position -> Filter] /\ \A j \in Position \ {i} : g[j] = f[j]
          /\ g[i].peer = "connecting" /\ g[i].said = None /\ g[i].text = None
      BY <1>1, <2>1 DEF Filter
    <2> HIDE DEF g, r
    <2>3. Sound(g, ToSet(r), i)
      BY <1>1, <1>7, <2>1, <2>2 DEF Sound, Quiet, Peers, AtRest
    <2> QED BY <1>1, <2>1, <2>2, <2>3
  <1>8. CASE chain[i] = "net"
    <2> DEFINE d == Fired(q, <<"done", i>>)
               p == IF f[i].peer = "idle" THEN "asked" ELSE "connecting"
               e == IF f[i].peer = "idle" THEN Late(d, <<"send", i>>) ELSE Fired(d, <<"send", i>>)
    <2>1. StartFilter(f, q, i) = {<<[f EXCEPT ![i].once = FALSE, ![i].text = None, ![i].peer = p], e>>}
      BY <1>8 DEF StartFilter
    <2>2. p \in {"asked", "connecting"}
      OBVIOUS
    <2>3. d \in Seq(Timer) /\ IsInjective(d) /\ ToSet(d) = ToSet(q) \ {<<"done", i>>}
      BY <1>1, FiredIs
    <2> HIDE DEF d
    <2>4. /\ e \in Seq(Timer) /\ IsInjective(e)
          /\ ToSet(e) = IF f[i].peer = "idle" THEN ToSet(d) \cup {<<"send", i>>}
                                              ELSE ToSet(d) \ {<<"send", i>>}
      <3>1. CASE f[i].peer = "idle"
        BY <1>2, <2>3, <3>1, LateIs
      <3>2. CASE f[i].peer # "idle"
        BY <2>3, <3>2, FiredIs
      <3> QED BY <3>1, <3>2
    <2> HIDE DEF e
    <2>5. p = IF f[i].peer = "idle" THEN "asked" ELSE "connecting"
      OBVIOUS
    <2> HIDE DEF p
    <2> DEFINE h == [f EXCEPT ![i].once = FALSE, ![i].text = None, ![i].peer = p]
    <2>6. g = h /\ r = e
      <3> HIDE DEF h
      <3>1. StartFilter(f, q, i) = {<<h, e>>}
        BY <2>1 DEF h
      <3> QED BY <3>1
    <2>7. /\ h \in [Position -> Filter] /\ \A j \in Position \ {i} : h[j] = f[j]
          /\ h[i].said = None /\ h[i].text = None /\ h[i].peer = p
      <3> DEFINE n == [f[i] EXCEPT !.once = FALSE, !.text = None, !.peer = p]
      <3>1. f[i] \in Filter
        BY <1>1
      <3>2. n \in Filter /\ n.said = None /\ n.text = None /\ n.peer = p
        BY <2>2, <3>1 DEF Filter
      <3>3. h = [f EXCEPT ![i] = n]
        BY <1>1
      <3> HIDE DEF n, h
      <3> QED BY <1>1, <3>2, <3>3
    <2> HIDE DEF h
    <2> HIDE DEF g, r
    <2>8. Sound(g, ToSet(r), i)
      BY <1>1, <1>8, <2>3, <2>4, <2>5, <2>6, <2>7 DEF Sound, Quiet, Peers, AtRest
    <2> QED BY <2>3, <2>4, <2>6, <2>7, <2>8
  <1> QED BY <1>3, <1>5, <1>6, <1>7, <1>8

-----------------------------------------------------------------------------
(* The chain.                                                              *)

\* What the step has come to.
LEMMA NextState ==
    ASSUME TypeOK, UNCHANGED <<chain, side>>, starts' \in 0..MaxStarts,
           running' \in BOOLEAN, index' \in Position, out' \in Answer \cup {None},
           passing' \subseteq ToSet(soon'), Good(filter', soon'),
           \A i \in Position : ~(running' /\ index' = i) => Quiet(filter', ToSet(soon'), i),
           running' => out' = None /\ Passed(filter', index')
    PROVE  Inv'
  <1>1. Position' = Position
    BY DEF Position
  <1>2. \A i \in Position : Sound(filter', ToSet(soon'), i)
    BY DEF Good
  <1>3. \A i \in Position : CASE chain[i] = "file" -> filter'[i].peer = "none"
                              [] chain[i] = "exec" -> filter'[i].peer \in {"none", "run"}
                              [] chain[i] = "net"  -> filter'[i].peer \notin {"run", "partial"}
                              [] OTHER -> filter'[i].peer \notin {"run", "asked"}
    <2> TAKE i \in Position
    <2>1. chain[i] \in {"file", "exec", "net", "spam"} /\ filter'[i].peer \in Peers(chain[i])
      BY <1>2, Chain DEF Sound
    <2> QED BY <2>1 DEF Peers
  <1>4. TypeOK'
    <2>1. filter' \in [Position -> Filter] /\ soon' \in Seq(Timer) /\ IsInjective(soon')
      BY DEF Good
    <2>2. Timer' = Timer
      BY <1>1 DEF Timer
    <2> QED BY <1>1, <1>3, <2>1, <2>2 DEF TypeOK
  <1>5. Good(filter, soon)'
    <2>1. Timer' = Timer
      BY <1>1 DEF Timer
    <2>2. \A i \in Position : Sound(filter, ToSet(soon), i)'
      BY <1>2 DEF Sound
    <2> QED BY <1>1, <2>1, <2>2 DEF Good
  <1>6. Working(filter, soon)'
    BY <1>1, <1>5 DEF Working, Quiet, Passed
  <1> QED BY <1>4, <1>6 DEF Inv

\* What the chain says, if it says anything.
Truly == out' # out /\ out' # None => running /\ out = None /\ Earned(out')

\* A filter has answered, the one that the chain is connected to or another.
LEMMA EmitIs ==
    ASSUME TypeOK, NEW f, NEW q, Working(f, q), NEW i \in Position, NEW a \in Answer,
           running /\ index = i => Quiet(f, ToSet(q), i) /\ f[i].said = a /\ f[i].text = a,
           Emit(f, q, i, a), UNCHANGED <<chain, side, starts>>
    PROVE  Inv' /\ Truly
  <1>1. /\ Good(f, q) /\ starts' \in 0..MaxStarts /\ running \in BOOLEAN /\ index \in Position
        /\ out \in Answer \cup {None} /\ Position = 1..Len(chain) /\ Len(chain) \in Nat \ {0}
    BY Chain DEF Working, TypeOK
  <1>2. CASE ~(running /\ index = i)
    <2>1. filter' = f /\ soon' = q /\ passing' \subseteq ToSet(q) /\ UNCHANGED <<running, index, out>>
      BY <1>2 DEF Emit, Timers
    <2> QED BY <1>1, <2>1, NextState DEF Working, Truly
  <1>3. CASE running /\ index = i
    <2>1. FilterDone(f, q, i, a) /\ Quiet(f, ToSet(q), i) /\ f[i].said = a /\ f[i].text = a
      BY <1>3 DEF Emit
    <2>2. out = None /\ Passed(f, i) /\ a # None
      BY <1>3, NoneAssumption DEF Working
    <2>3. CASE a.is = "ok" /\ i < Len(chain)
      <3>1. PICK x \in StartFilter(f, q, i + 1) :
               /\ index' = i + 1 /\ UNCHANGED <<running, out>>
               /\ filter' = x[1] /\ soon' = x[2] /\ passing' \subseteq ToSet(x[2])
        BY <2>1, <2>3 DEF FilterDone, Timers
      <3>2. i + 1 \in Position /\ i + 1 # i /\ i \in Nat
        BY <1>1, <2>3
      <3>3. Quiet(f, ToSet(q), i + 1) /\ Others(f, q, i + 1) /\ f[i + 1].said = None
        BY <1>1, <1>3, <2>1, <2>2, <3>2 DEF Working, Others, Passed
      <3>4. /\ Good(filter', soon') /\ \A j \in Position \ {i + 1} : filter'[j] = f[j]
            /\ Others(filter', soon', i + 1)
        BY <1>1, <3>1, <3>2, <3>3, StartFilterIs
      <3>5. Passed(filter', i + 1)
        <4>1. ASSUME NEW j \in Position, j < i + 1
              PROVE  filter'[j].said # None /\ filter'[j].said.is = "ok" /\ filter'[j].text = filter'[j].said
          <5>1. filter'[j] = f[j] /\ (j < i \/ j = i)
            BY <1>1, <3>2, <3>4, <4>1
          <5> QED BY <2>1, <2>2, <2>3, <5>1 DEF Passed
        <4>2. ASSUME NEW j \in Position, j > i + 1 PROVE filter'[j].said = None
          <5>1. filter'[j] = f[j] /\ j > i
            BY <1>1, <3>2, <3>4, <4>2
          <5> QED BY <2>2, <5>1 DEF Passed
        <4> QED BY <4>1, <4>2 DEF Passed
      <3> QED BY <1>1, <1>3, <2>2, <3>1, <3>2, <3>4, <3>5, NextState DEF Others, Truly
    <2>4. CASE ~(a.is = "ok" /\ i < Len(chain))
      <3>1. /\ running' = FALSE /\ out' = [is |-> a.is, special |-> Special(f, i)]
            /\ filter' = f /\ soon' = q /\ passing' \subseteq ToSet(q) /\ index' = index
        BY <2>1, <2>4 DEF FilterDone, Timers
      <3>2. \A j \in Position : Quiet(f, ToSet(q), j)
        BY <1>3, <2>1 DEF Working
      <3>3. \A j \in Position : IF j <= i THEN f[j].said # None /\ f[j].text = f[j].said
                                         ELSE f[j].said = None
        BY <1>1, <2>1, <2>2 DEF Passed
      <3>4. Special(f, i) = \E j \in {k \in Position : f[k].said # None} : f[j].said.special
        <4>1. \A j \in Position : j \in 1..i <=> j <= i
          BY <1>1
        <4>2. 1..i \subseteq Position
          BY <1>1
        <4> QED BY <3>3, <4>1, <4>2 DEF Special
      <3>5. Special(f, i) \in BOOLEAN
        BY <3>4
      <3>6. out' \in Answer /\ out'.is = a.is /\ out'.special = Special(f, i)
        BY <3>1, <3>5 DEF Answer
      <3>7. Earned(out')
        <4>1. CASE a.is = "ok"
          <5>1. i = Len(chain)
            BY <1>1, <2>4, <4>1
          <5>2. \A j \in Position : j < i \/ j = i
            BY <1>1, <5>1
          <5>3. \A j \in Position : f[j].said # None /\ f[j].said.is = "ok"
            BY <2>1, <2>2, <4>1, <5>2 DEF Passed
          <5> QED BY <3>1, <3>4, <3>6, <4>1, <5>3 DEF Earned
        <4>2. CASE a.is # "ok"
          <5>1. i \in {k \in Position : f[k].said # None} /\ f[i].said.is = a.is
            BY <2>1, <2>2
          <5>2. \A j \in {k \in Position : f[k].said # None} : j <= i
            BY <3>3
          <5> QED BY <3>1, <3>4, <3>6, <4>2, <5>1, <5>2 DEF Earned
        <4> QED BY <4>1, <4>2
      <3>8. Inv'
        BY <1>1, <3>1, <3>2, <3>6, NextState
      <3> QED BY <1>3, <2>2, <3>7, <3>8 DEF Truly
    <2> QED BY <2>3, <2>4
  <1> QED BY <1>2, <1>3

\* A filter goes on, without an answer: the one that is at work, or one whose peer is
\* lost after it has answered.
LEMMA FilterIs ==
    ASSUME Inv, NEW i \in Position, filter' \in [Position -> Filter],
           soon' \in Seq(Timer), IsInjective(soon'),
           \A j \in Position \ {i} : filter'[j] = filter[j],
           \A k \in {"done", "send"}, j \in Position \ {i} : <<k, j>> \in ToSet(soon') <=> <<k, j>> \in ToSet(soon),
           Sound(filter', ToSet(soon'), i),
           \/ running /\ index = i
           \/ /\ Quiet(filter', ToSet(soon'), i)
              /\ filter'[i].said = filter[i].said
              /\ filter'[i].text = filter[i].text,
           passing' \subseteq ToSet(soon'), UNCHANGED <<chain, side, starts, running, index, out>>
    PROVE  Inv' /\ Truly
  <1>1. Good(filter, soon)
    BY DEF Inv, Working
  <1>2. Good(filter', soon')
    BY <1>1, OneChanges
  <1>3. ASSUME NEW j \in Position, ~(running /\ index = j) PROVE Quiet(filter', ToSet(soon'), j)
    BY <1>3 DEF Inv, Working, Quiet
  <1>4. running => Passed(filter', index)
    BY DEF Inv, Working, Passed
  <1>5. TypeOK /\ starts' \in 0..MaxStarts /\ running' \in BOOLEAN /\ index' \in Position
        /\ out' \in Answer \cup {None} /\ (running => out = None)
    BY DEF Inv, TypeOK, Working
  <1> QED BY <1>2, <1>3, <1>4, <1>5, NextState DEF Truly

\* The filter that is at work is stopped; its answer may have been forgotten before.
LEMMA CancelFilterIs ==
    ASSUME Inv, NEW f \in [Position -> Filter],
           \A i \in Position : /\ f[i].peer = filter[i].peer /\ f[i].text = filter[i].text
                               /\ (running /\ index = i) \/ Quiet(filter, ToSet(soon), i),
           NEW g, NEW r, g = CancelFilter(f, index), r = CancelTimers(soon, index)
    PROVE  Good(g, r) /\ \A i \in Position : Quiet(g, ToSet(r), i) /\ g[i].said = f[i].said
  <1> DEFINE k == index
  <1>1. k \in Position /\ Good(filter, soon) /\ soon \in Seq(Timer) /\ IsInjective(soon)
    BY DEF Inv, TypeOK, Working
  <1> DEFINE q == Fired(soon, <<"done", k>>)
  <1>2. q \in Seq(Timer) /\ IsInjective(q) /\ ToSet(q) = ToSet(soon) \ {<<"done", k>>}
    BY <1>1, FiredIs
  <1>3. r = Fired(q, <<"send", k>>)
    BY DEF CancelTimers
  <1> HIDE DEF q
  <1>4. r \in Seq(Timer) /\ IsInjective(r) /\ ToSet(r) = ToSet(q) \ {<<"send", k>>}
    BY <1>2, <1>3, FiredIs
  <1>5. chain[k] \in {"file", "exec", "net", "spam"} /\ Sound(filter, ToSet(soon), k)
    BY <1>1, Chain DEF Inv, Good
  <1>6. PICK p, x, o : /\ p = (IF chain[k] = "spam" /\ f[k].peer = "idle" THEN f[k].peer ELSE "none")
                       /\ x = (IF chain[k] \in {"net", "spam"} THEN None ELSE f[k].text)
                       /\ o = (chain[k] = "net" \/ f[k].once)
                       /\ g = [f EXCEPT ![k].peer = p, ![k].text = x, ![k].once = o]
    BY DEF CancelFilter
  <1>7. f[k] \in Filter /\ p \in {"none", "idle"} /\ x \in Answer \cup {None} /\ o \in BOOLEAN
    BY <1>1, <1>6 DEF Filter
  <1>8. /\ g \in [Position -> Filter] /\ \A j \in Position \ {k} : g[j] = f[j]
        /\ g[k].peer = p /\ g[k].text = x /\ g[k].said = f[k].said
    <2> DEFINE n == [f[k] EXCEPT !.peer = p, !.text = x, !.once = o]
    <2>1. n \in Filter /\ n.peer = p /\ n.text = x /\ n.said = f[k].said
      BY <1>7 DEF Filter
    <2>2. g = [f EXCEPT ![k] = n]
      BY <1>1, <1>6
    <2> HIDE DEF n
    <2> QED BY <1>1, <2>1, <2>2
  <1>9. ASSUME NEW i \in Position
        PROVE  Sound(g, ToSet(r), i) /\ Quiet(g, ToSet(r), i) /\ g[i].said = f[i].said
    <2>1. CASE i = k
      <3>1. Quiet(g, ToSet(r), k)
        BY <1>2, <1>4, <1>7, <1>8 DEF Quiet, AtRest
      <3>2. Sound(g, ToSet(r), k)
        BY <1>5, <1>6, <1>8, <3>1 DEF Sound, Quiet, Peers, AtRest
      <3> QED BY <1>8, <2>1, <3>1, <3>2
    <2>2. CASE i # k
      <3>1. Quiet(filter, ToSet(soon), i) /\ Sound(filter, ToSet(soon), i) /\ g[i] = f[i]
        BY <1>1, <1>8, <2>2 DEF Good
      <3>2. <<"done", i>> \notin ToSet(r) /\ <<"send", i>> \notin ToSet(r)
        BY <1>2, <1>4, <3>1 DEF Quiet
      <3> QED BY <3>1, <3>2 DEF Quiet, Sound
    <2> QED BY <2>1, <2>2
  <1> QED BY <1>4, <1>8, <1>9 DEF Good

LEMMA CancelInv == ASSUME Inv, Cancel PROVE Inv' /\ Truly
  <1>1. /\ filter' = CancelFilter(filter, index) /\ soon' = CancelTimers(soon, index)
        /\ passing' \subseteq ToSet(soon') /\ running' = FALSE
        /\ UNCHANGED <<chain, side, starts, index, out>>
    BY DEF Cancel, Timers
  <1>2. filter \in [Position -> Filter]
        /\ \A i \in Position : (running /\ index = i) \/ Quiet(filter, ToSet(soon), i)
    BY DEF Inv, TypeOK, Working
  <1>3. Good(filter', soon') /\ \A i \in Position : Quiet(filter', ToSet(soon'), i)
    BY <1>1, <1>2, CancelFilterIs
  <1>4. TypeOK /\ starts' \in 0..MaxStarts /\ running' \in BOOLEAN /\ index' \in Position
        /\ out' \in Answer \cup {None}
    BY <1>1 DEF Inv, TypeOK
  <1> QED BY <1>1, <1>3, <1>4, NextState DEF Truly

LEMMA StartInv == ASSUME Inv, Start PROVE Inv' /\ Truly
  <1> DEFINE f == [i \in Position |-> [filter[i] EXCEPT !.said = None]]
             g == IF running THEN CancelFilter(f, index) ELSE f
             q == IF running THEN CancelTimers(soon, index) ELSE soon
  <1>1. PICK x \in StartFilter(g, q, 1) :
           /\ filter' = x[1] /\ soon' = x[2] /\ passing' \subseteq ToSet(soon')
           /\ running' = TRUE /\ index' = 1 /\ out' = None /\ starts' = starts + 1 /\ starts < MaxStarts
           /\ UNCHANGED <<chain, side>>
    BY DEF Start, Timers
  <1>2. /\ filter \in [Position -> Filter] /\ TypeOK /\ Good(filter, soon)
        /\ \A i \in Position : (running /\ index = i) \/ Quiet(filter, ToSet(soon), i)
    BY DEF Inv, TypeOK, Working
  <1>3. /\ f \in [Position -> Filter]
        /\ \A i \in Position : f[i].peer = filter[i].peer /\ f[i].text = filter[i].text /\ f[i].said = None
    <2>1. \A i \in Position : filter[i] \in Filter
      BY <1>2
    <2> QED BY <2>1 DEF Filter
  <1> HIDE DEF f
  <1>4. Good(g, q) /\ \A i \in Position : Quiet(g, ToSet(q), i) /\ g[i].said = None
    <2>1. CASE running
      BY <1>2, <1>3, <2>1, CancelFilterIs
    <2>2. CASE ~running
      <3>1. g = f /\ q = soon
        BY <2>2
      <3> HIDE DEF g, q
      <3>2. ASSUME NEW i \in Position
            PROVE  Sound(g, ToSet(q), i) /\ Quiet(g, ToSet(q), i) /\ g[i].said = None
        <4>1. Quiet(filter, ToSet(soon), i) /\ Sound(filter, ToSet(soon), i)
          BY <1>2, <2>2 DEF Good
        <4> QED BY <1>3, <3>1, <4>1 DEF Quiet, Sound
      <3> QED BY <1>2, <1>3, <3>1, <3>2 DEF Good
    <2> QED BY <2>1, <2>2
  <1> HIDE DEF g, q
  <1>5. 1 \in Position /\ Position = 1..Len(chain) /\ Len(chain) \in Nat
    BY <1>2, Chain
  <1>6. /\ Good(filter', soon') /\ \A j \in Position \ {1} : filter'[j] = g[j]
        /\ Others(filter', soon', 1)
    BY <1>1, <1>2, <1>4, <1>5, StartFilterIs DEF Others
  <1>7. Passed(filter', 1)
    <2>1. \A j \in Position : ~(j < 1) /\ (j > 1 => j \in Position \ {1})
      BY <1>5
    <2> QED BY <1>4, <1>6, <2>1 DEF Passed
  <1>8. starts' \in 0..MaxStarts
    BY <1>1, <1>2, BoundsAssumption DEF TypeOK
  <1> QED BY <1>1, <1>2, <1>5, <1>6, <1>7, <1>8, NextState DEF Truly, Others

-----------------------------------------------------------------------------
(* Timers and events.                                                      *)

LEMMA TurnInv == ASSUME Inv, Turn PROVE Inv' /\ Truly
  <1>1. passing' \subseteq ToSet(soon') /\ UNCHANGED <<chain, side, starts, running, index, filter, soon, out>>
    BY DEF Turn
  <1>2. /\ TypeOK /\ starts' \in 0..MaxStarts /\ running' \in BOOLEAN /\ index' \in Position
        /\ out' \in Answer \cup {None} /\ Good(filter', soon')
    BY <1>1 DEF Inv, TypeOK, Working
  <1> QED BY <1>1, <1>2, NextState DEF Inv, Working, Truly

\* Only the filter that is at work has timers, or a peer that is busy.
LEMMA AtWork ==
    ASSUME Inv, NEW i \in Position,
           <<"done", i>> \in ToSet(soon) \/ <<"send", i>> \in ToSet(soon) \/ filter[i].peer \notin AtRest
    PROVE  running /\ index = i
  BY DEF Inv, Working, Quiet

LEMMA DoneTimeoutInv == ASSUME Inv, NEW i \in Position, DoneTimeout(i) PROVE Inv' /\ Truly
  <1> DEFINE q == Fired(soon, <<"done", i>>)
  <1>1. /\ soon \in Seq(Timer) /\ IsInjective(soon) /\ filter \in [Position -> Filter] /\ TypeOK
        /\ Sound(filter, ToSet(soon), i) /\ Working(filter, soon) /\ Good(filter, soon)
    BY DEF Inv, TypeOK, Working, Good
  <1>2. <<"done", i>> \in ToSet(soon) /\ UNCHANGED <<chain, side, starts>>
    BY DEF DoneTimeout, Expires, Inv, TypeOK
  <1>3. running /\ index = i
    BY <1>2, AtWork
  <1>4. q \in Seq(Timer) /\ IsInjective(q) /\ ToSet(q) = ToSet(soon) \ {<<"done", i>>}
    BY <1>1, FiredIs
  <1>5. /\ filter[i].peer \in AtRest /\ <<"send", i>> \notin ToSet(soon)
        /\ filter[i].said # None /\ filter[i].text = filter[i].said /\ filter[i] \in Filter
    BY <1>1, <1>2 DEF Sound
  <1>6. Result(i) = filter[i].text /\ filter[i].text \in Answer
    <2>1. filter[i].text \in Answer
      BY <1>5 DEF Filter
    <2>2. chain[i] = "spam" => filter[i].text = Says(filter[i].text.is)
      BY <1>1, <1>5, <2>1, AnswersAre DEF Sound
    <2> QED BY <1>5, <2>1, <2>2 DEF Result
  <1> DEFINE h == [filter EXCEPT ![i].once = TRUE]
  <1>7. /\ h \in [Position -> Filter] /\ \A j \in Position \ {i} : h[j] = filter[j]
        /\ h[i].peer = filter[i].peer /\ h[i].text = filter[i].text /\ h[i].said = filter[i].said
    BY <1>1 DEF Filter
  <1>8. DoneTimeout(i) => \/ \E f \in {filter, h} : Emit(f, q, i, Result(i))
                          \/ filter' = filter /\ soon' = q /\ passing' \subseteq ToSet(q)
                             /\ UNCHANGED <<running, index, out>>
    BY DEF DoneTimeout, Timers
  <1> HIDE DEF q, h
  <1>9. ASSUME NEW f \in {filter, h} PROVE Working(f, q) /\ Quiet(f, ToSet(q), i) /\ f[i].said = Result(i)
                                           /\ f[i].text = Result(i) /\ Sound(f, ToSet(q), i)
    <2>1. /\ f \in [Position -> Filter] /\ \A j \in Position \ {i} : f[j] = filter[j]
          /\ f[i].peer = filter[i].peer /\ f[i].text = filter[i].text /\ f[i].said = filter[i].said
      BY <1>1, <1>7
    <2>2. Sound(f, ToSet(q), i) /\ Quiet(f, ToSet(q), i)
      BY <1>1, <1>4, <1>5, <2>1 DEF Sound, Quiet
    <2>3. Good(f, q)
      BY <1>1, <1>4, <2>1, <2>2, OneChanges
    <2>4. \A j \in Position : ~(running /\ index = j) => Quiet(f, ToSet(q), j)
      BY <1>1, <1>4, <2>1, <2>2 DEF Working, Quiet
    <2>5. running => out = None /\ Passed(f, index)
      BY <1>1, <1>3, <2>1 DEF Working, Passed
    <2> QED BY <1>5, <1>6, <2>1, <2>2, <2>3, <2>4, <2>5 DEF Working
  <1>10. CASE \E f \in {filter, h} : Emit(f, q, i, Result(i))
    BY <1>1, <1>2, <1>6, <1>9, <1>10, EmitIs
  <1>11. CASE filter' = filter /\ soon' = q /\ passing' \subseteq ToSet(q) /\ UNCHANGED <<running, index, out>>
    BY <1>1, <1>2, <1>3, <1>4, <1>9, <1>11, FilterIs
  <1> QED BY <1>8, <1>10, <1>11

LEMMA SendTimeoutInv == ASSUME Inv, NEW i \in Position, SendTimeout(i) PROVE Inv' /\ Truly
  <1>1. /\ soon \in Seq(Timer) /\ IsInjective(soon) /\ filter \in [Position -> Filter]
        /\ Sound(filter, ToSet(soon), i)
    BY DEF Inv, TypeOK, Working, Good
  <1>2. /\ <<"send", i>> \in ToSet(soon) /\ soon' = Fired(soon, <<"send", i>>)
        /\ passing' \subseteq ToSet(soon') /\ UNCHANGED <<chain, side, starts, running, index, out>>
        /\ filter' = [filter EXCEPT ![i].peer = IF @ = "asked" THEN "waiting" ELSE @]
    BY DEF SendTimeout, Expires, Timers, Inv, TypeOK
  <1>3. running /\ index = i /\ filter[i].peer = "asked"
    BY <1>1, <1>2, AtWork DEF Sound
  <1>4. soon' \in Seq(Timer) /\ IsInjective(soon') /\ ToSet(soon') = ToSet(soon) \ {<<"send", i>>}
    BY <1>1, <1>2, FiredIs
  <1>5. /\ filter' \in [Position -> Filter] /\ \A j \in Position \ {i} : filter'[j] = filter[j]
        /\ filter'[i].peer = "waiting" /\ filter'[i].text = filter[i].text /\ filter'[i].said = filter[i].said
    BY <1>1, <1>2, <1>3 DEF Filter
  <1>6. chain[i] \in {"file", "exec", "net", "spam"}
    BY Chain DEF Inv
  <1>7. Sound(filter', ToSet(soon'), i)
    BY <1>1, <1>3, <1>4, <1>5, <1>6 DEF Sound, Peers, AtRest
  <1> QED BY <1>2, <1>3, <1>4, <1>5, <1>7, FilterIs

LEMMA TaskEndsInv == ASSUME Inv, NEW i \in Position, NEW c, TaskEnds(i, c) PROVE Inv' /\ Truly
  <1> DEFINE a == Exit(c)
             f == [Learn(filter, i, a) EXCEPT ![i].peer = "none"]
  <1>1. /\ filter[i].peer = "run" /\ Emit(f, soon, i, a) /\ UNCHANGED <<chain, side, starts>>
    BY DEF TaskEnds
  <1>2. /\ soon \in Seq(Timer) /\ IsInjective(soon) /\ filter \in [Position -> Filter] /\ TypeOK
        /\ Sound(filter, ToSet(soon), i) /\ Working(filter, soon) /\ Good(filter, soon)
    BY DEF Inv, TypeOK, Working, Good
  <1>3. a \in Answer
    BY AnswersAre
  <1> HIDE DEF a
  <1>4. running /\ index = i
    BY <1>1, AtWork DEF AtRest
  <1>5. chain[i] = "exec"
    <2>1. chain[i] \in {"file", "exec", "net", "spam"}
      BY <1>2, Chain
    <2> QED BY <1>1, <1>2, <2>1 DEF Sound, Peers
  <1>6. /\ filter[i].said = None /\ <<"done", i>> \notin ToSet(soon) /\ <<"send", i>> \notin ToSet(soon)
    BY <1>1, <1>2 DEF Sound, AtRest
  <1>7. /\ f \in [Position -> Filter] /\ \A j \in Position \ {i} : f[j] = filter[j]
        /\ f[i].peer = "none" /\ f[i].text = a /\ f[i].said = a
    BY <1>2, <1>3, <1>6 DEF Learn, Filter
  <1> HIDE DEF f
  <1>8. Sound(f, ToSet(soon), i) /\ Quiet(f, ToSet(soon), i)
    BY <1>2, <1>5, <1>6, <1>7 DEF Sound, Quiet, Peers, AtRest
  <1>9. Good(f, soon)
    BY <1>2, <1>7, <1>8, OneChanges
  <1>10. Working(f, soon)
    <2>1. \A j \in Position : ~(running /\ index = j) => Quiet(f, ToSet(soon), j)
      BY <1>2, <1>4, <1>7 DEF Working, Quiet
    <2>2. out = None /\ Passed(f, index)
      BY <1>2, <1>4, <1>7 DEF Working, Passed
    <2> QED BY <1>9, <2>1, <2>2 DEF Working
  <1> QED BY <1>1, <1>2, <1>3, <1>7, <1>8, <1>10, EmitIs

\* The connection is there, or there is some of the answer.
LEMMA PeerInv ==
    ASSUME Inv, NEW i \in Position, Connected(i) \/ Begun(i)
    PROVE  Inv' /\ Truly
  <1>1. PICK p \in {"waiting", "partial"} :
           /\ filter' = [filter EXCEPT ![i].peer = p] /\ filter[i].peer \notin AtRest /\ filter[i].peer # "asked"
           /\ chain[i] = "spam" \/ (p = "waiting" /\ filter[i].peer = "connecting")
           /\ UNCHANGED <<chain, side, starts, running, index, soon, passing, out>>
    BY DEF Connected, Begun, AtRest
  <1>2. /\ soon \in Seq(Timer) /\ IsInjective(soon) /\ filter \in [Position -> Filter]
        /\ Sound(filter, ToSet(soon), i) /\ passing \subseteq ToSet(soon)
    BY DEF Inv, TypeOK, Working, Good
  <1>3. running /\ index = i
    BY <1>1, AtWork
  <1>4. /\ filter' \in [Position -> Filter] /\ \A j \in Position \ {i} : filter'[j] = filter[j]
        /\ filter'[i].peer = p /\ filter'[i].text = filter[i].text /\ filter'[i].said = filter[i].said
    BY <1>1, <1>2 DEF Filter
  <1>5. chain[i] \in {"file", "exec", "net", "spam"}
    BY Chain DEF Inv
  <1>6. Sound(filter', ToSet(soon'), i)
    BY <1>1, <1>2, <1>4, <1>5 DEF Sound, Peers, AtRest
  <1> QED BY <1>1, <1>2, <1>3, <1>4, <1>6, FilterIs

\* An answer, or a loss: of the request that is unanswered, or of a connection that is
\* not needed any more.
LEMMA SendResultInv ==
    ASSUME Inv, StaysOpen, NEW i \in Position, NEW p \in AtRest, NEW a \in Answer, ~a.special,
           SendResult(i, p, a), UNCHANGED <<chain, side, starts, running, index, out>>,
           \/ filter[i].peer \in {"connecting", "asked", "waiting", "partial"} /\ (p = "idle" => filter[i].peer # "asked")
           \/ filter[i].peer = "idle" /\ chain[i] = "net" /\ p = "none"
    PROVE  Inv' /\ Truly
  <1> DEFINE f == [filter EXCEPT ![i].peer = p]
             q == IF p = "none" THEN Fired(soon, <<"send", i>>) ELSE soon
  <1>1. /\ soon \in Seq(Timer) /\ IsInjective(soon) /\ filter \in [Position -> Filter] /\ TypeOK
        /\ Sound(filter, ToSet(soon), i)
    BY DEF Inv, TypeOK, Working, Good
  <1>2. /\ q \in Seq(Timer) /\ IsInjective(q)
        /\ ToSet(q) = IF p = "none" THEN ToSet(soon) \ {<<"send", i>>} ELSE ToSet(soon)
    BY <1>1, FiredIs
  <1>3. /\ f \in [Position -> Filter] /\ \A j \in Position \ {i} : f[j] = filter[j]
        /\ f[i].peer = p /\ f[i].text = filter[i].text /\ f[i].said = filter[i].said
    BY <1>1 DEF Filter, AtRest
  <1>4. IF chain[i] = "net" /\ filter[i].text # None
        THEN filter' = f /\ soon' = q /\ passing' \subseteq ToSet(q)
        ELSE /\ filter' = [f EXCEPT ![i].text = a, ![i].said = IF @ = None THEN a ELSE @]
             /\ soon' = Late(q, <<"done", i>>) /\ passing' \subseteq ToSet(soon')
    <2>1. SendResult(i, p, a) <=> IF chain[i] = "net" /\ filter[i].text # None
                                  THEN filter' = f /\ Timers(q)
                                  ELSE filter' = Learn(f, i, a) /\ Timers(Late(q, <<"done", i>>))
      BY DEF SendResult
    <2>2. CASE chain[i] = "net" /\ filter[i].text # None
      BY <2>1, <2>2 DEF Timers
    <2>3. CASE ~(chain[i] = "net" /\ filter[i].text # None)
      BY <2>1, <2>3 DEF Timers, Learn
    <2> QED BY <2>2, <2>3
  <1>5. chain[i] \in {"file", "exec", "net", "spam"} /\ <<"done", i>> \in Timer
    BY <1>1, Chain DEF Timer
  <1> HIDE DEF f, q
  <1>6. CASE filter[i].peer = "idle"
    <2>1. /\ chain[i] = "net" /\ p = "none" /\ filter[i].text # None
          /\ <<"send", i>> \notin ToSet(soon) /\ ToSet(q) = ToSet(soon)
      BY <1>1, <1>2, <1>6 DEF Sound, AtRest
    <2>2. filter' = f /\ soon' = q /\ passing' \subseteq ToSet(q)
      BY <1>4, <2>1
    <2>3. Sound(filter', ToSet(soon'), i)
      BY <1>1, <1>3, <2>1, <2>2 DEF Sound, Peers, AtRest
    <2>4. ~(running /\ index = i) => Quiet(filter', ToSet(soon'), i)
      BY <1>3, <2>1, <2>2 DEF Inv, Working, Quiet, AtRest
    <2> QED BY <1>2, <1>3, <2>1, <2>2, <2>3, <2>4, FilterIs
  <1>7. CASE filter[i].peer # "idle"
    <2>1. filter[i].peer \notin AtRest /\ running /\ index = i
      BY <1>7, AtWork DEF AtRest
    <2>2. chain[i] \in {"net", "spam"} /\ (chain[i] = "net" => filter[i].text = None) /\ filter[i].said = None
      BY <1>1, <1>5, <1>7, <2>1 DEF Sound, Peers
    <2>3. <<"send", i>> \notin ToSet(q)
      BY <1>1, <1>2, <1>7 DEF Sound, AtRest
    <2>4. /\ filter' = [f EXCEPT ![i].text = a, ![i].said = IF @ = None THEN a ELSE @]
          /\ soon' = Late(q, <<"done", i>>) /\ passing' \subseteq ToSet(soon')
      BY <1>4, <2>2
    <2>5. /\ filter' \in [Position -> Filter] /\ \A j \in Position \ {i} : filter'[j] = filter[j]
          /\ filter'[i].peer = p /\ filter'[i].text = a /\ filter'[i].said = a
      BY <1>3, <2>2, <2>4 DEF Filter
    <2>6. soon' \in Seq(Timer) /\ IsInjective(soon') /\ ToSet(soon') = ToSet(q) \cup {<<"done", i>>}
      BY <1>2, <1>5, <2>4, LateIs
    <2>7. Sound(filter', ToSet(soon'), i)
      BY <2>2, <2>3, <2>5, <2>6, NoneAssumption DEF Sound, Peers, AtRest
    <2> QED BY <1>2, <2>1, <2>4, <2>5, <2>6, <2>7, FilterIs
  <1> QED BY <1>6, <1>7

LEMMA AnswerInv ==
    ASSUME Inv, StaysOpen, NEW i \in Position, Reply(i) \/ ClientTimeout(i) \/ Broken(i)
    PROVE  Inv' /\ Truly
  <1>1. \A v \in {"ok", "abandon", "fail"} : Says(v) \in Answer /\ ~Says(v).special
    BY AnswersAre
  <1>2. CASE Reply(i)
    <2>1. PICK v \in {"ok", "abandon", "fail"} : SendResult(i, "idle", Says(v))
      BY <1>2 DEF Reply
    <2>2. filter[i].peer \in {"waiting", "partial"} /\ UNCHANGED <<chain, side, starts, running, index, out>>
      BY <1>2 DEF Reply
    <2> QED BY <1>1, <2>1, <2>2, SendResultInv DEF AtRest
  <1>3. CASE ClientTimeout(i) \/ Broken(i)
    <2>1. /\ SendResult(i, "none", Says("fail")) /\ UNCHANGED <<chain, side, starts, running, index, out>>
          /\ \/ filter[i].peer \in {"connecting", "asked", "waiting", "partial"}
             \/ filter[i].peer = "idle" /\ chain[i] = "net"
      BY <1>3 DEF ClientTimeout, Broken, Fails, StaysOpen
    <2> QED BY <1>1, <2>1, SendResultInv DEF AtRest
  <1> QED BY <1>2, <1>3

-----------------------------------------------------------------------------
(* The theorems.                                                           *)

LEMMA NextInv == ASSUME Inv, StaysOpen, [Next]_vars PROVE Inv' /\ Truly
  <1>1. CASE Next
    <2>1. ASSUME NEW i \in Position, TaskDone(i) \/ TaskTimeout(i) PROVE Inv' /\ Truly
      BY <2>1, TaskEndsInv DEF TaskDone, TaskTimeout
    <2>2. CASE Loop
      BY <2>2, TurnInv, DoneTimeoutInv, SendTimeoutInv DEF Loop
    <2> QED BY <1>1, <2>1, <2>2, StartInv, CancelInv, PeerInv, AnswerInv DEF Next
  <1>2. CASE UNCHANGED vars
    <2>1. /\ TypeOK /\ starts' \in 0..MaxStarts /\ running' \in BOOLEAN /\ index' \in Position
          /\ out' \in Answer \cup {None} /\ Good(filter', soon') /\ passing' \subseteq ToSet(soon')
          /\ UNCHANGED vars
      BY <1>2 DEF Inv, TypeOK, Working, vars
    <2> QED BY <2>1, NextState DEF Inv, Working, Truly, vars
  <1> QED BY <1>1, <1>2

LEMMA InitInv == ASSUME Init PROVE Inv
  <1>1. Idle \in Filter /\ Idle.peer = "none" /\ Idle.text = None
    BY DEF Idle, Filter
  <1>2. /\ filter \in [Position -> Filter] /\ \A i \in Position : filter[i] = Idle
        /\ soon \in Seq(Timer) /\ IsInjective(soon) /\ ToSet(soon) = {} /\ passing = {}
    BY <1>1 DEF Init, IsInjective, ToSet
  <1>3. /\ chain \in Chains /\ side \in {"server", "client"} /\ starts \in 0..MaxStarts
        /\ running = FALSE /\ index = 1 /\ out = None
    BY BoundsAssumption DEF Init
  <1>4. Len(chain) \in Nat \ {0} /\ Position = 1..Len(chain)
        /\ \A i \in Position : chain[i] \in {"file", "exec", "net", "spam"}
    BY <1>3, ChainsAssumption DEF Position
  <1>5. TypeOK
    <2>1. \A i \in Position : CASE chain[i] = "file" -> filter[i].peer = "none"
                              [] chain[i] = "exec" -> filter[i].peer \in {"none", "run"}
                              [] chain[i] = "net"  -> filter[i].peer \notin {"run", "partial"}
                              [] OTHER -> filter[i].peer \notin {"run", "asked"}
      <3> TAKE i \in Position
      <3>1. filter[i].peer = "none"
        BY <1>1, <1>2
      <3> QED BY <3>1
    <2>2. index \in Position /\ passing \subseteq ToSet(soon) /\ out \in Answer \cup {None}
      BY <1>2, <1>3, <1>4
    <2> QED BY <1>2, <1>3, <2>1, <2>2 DEF TypeOK
  <1>6. \A i \in Position : Sound(filter, ToSet(soon), i) /\ Quiet(filter, ToSet(soon), i)
    BY <1>1, <1>2, <1>4 DEF Sound, Quiet, Peers, AtRest
  <1> QED BY <1>2, <1>3, <1>5, <1>6 DEF Inv, Working, Good

THEOREM Invariance == ASSUME StaysOpen PROVE Spec => []Inv
  <1>1. Inv /\ [Next]_vars => Inv'
    BY NextInv
  <1> QED BY <1>1, InitInv, PTL DEF Spec

\* The chain and its filters are type correct, in particular no timer is in the queue
\* twice (gfilterchain.cpp, and the filters that it is made of).
THEOREM TypeCorrect == ASSUME StaysOpen PROVE Spec => []TypeOK
  <1>1. Inv => TypeOK
    BY DEF Inv
  <1> QED BY <1>1, Invariance, PTL

\* However often the chain is cancelled and started again, nothing is left running that
\* could answer for the next message (FilterChain::start() and cancel()).
THEOREM OneWorks == ASSUME StaysOpen PROVE Spec => []OnlyOneWorks
  <1>1. Inv => OnlyOneWorks
    BY DEF Inv, Working, Quiet, AtRest, OnlyOneWorks
  <1> QED BY <1>1, Invariance, PTL

\* The chain answers once for each start, and a message that passes has been passed by
\* each of its filters (FilterChain::onFilterDone()).
THEOREM AnswersAreEarned == ASSUME StaysOpen PROVE Spec => AnswerIsEarned
  <1>1. Inv /\ [Next]_vars => [out' # out /\ out' # None => running /\ out = None /\ Earned(out')]_vars
    BY NextInv DEF Truly
  <1> QED BY <1>1, Invariance, PTL DEF Spec, AnswerIsEarned
=============================================================================
