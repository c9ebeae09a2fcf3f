------------------------------- MODULE Filters -------------------------------
(***************************************************************************)
(* A chain of filters (gfilters/gfilterchain.cpp) and the four kinds of    *)
(* filter that can be in it: those that work on the message's files at     *)
(* once (gsimplefilterbase.cpp), programs (gexecutablefilter.cpp), network *)
(* scanners (gnetworkfilter.cpp with gsmtp/grequestclient.cpp) and spamd   *)
(* (gspamfilter.cpp with gsmtp/gspamclient.cpp).  The user of the chain,   *)
(* a session or a client, starts it for one message after the other, and   *)
(* may cancel it or start it again while it is running.                    *)
(*                                                                         *)
(* The filters answer through timers of zero length, so that what happens  *)
(* in a turn of the event loop and in which order matters: a turn begins   *)
(* with the timers that have run out, in the order they were started, and  *)
(* goes on with the events.                                                *)
(***************************************************************************)
EXTENDS Naturals, SequencesExt

CONSTANTS
    Chains,       \* the configured filter lists: sequences of kinds
    MaxLength,    \* bound: filters in a chain
    MaxStarts,    \* bound: how often the chain is started
    Closes,       \* spamd closes the connection some time after its answer
    None          \* no answer

ASSUME ChainsAssumption ==
    \A c \in Chains : c \in Seq({"file", "exec", "net", "spam"}) /\ Len(c) \in 1..MaxLength
ASSUME BoundsAssumption == MaxStarts \in Nat /\ MaxLength \in Nat /\ Closes \in BOOLEAN

Answer == [is : {"ok", "abandon", "fail"}, special : BOOLEAN]
Says(v)  == [is |-> v, special |-> FALSE]
ASSUME NoneAssumption == None \notin Answer

\* peer: the script or the connection; text: m_result, m_exit or m_text; once: m_emitted;
\* said: history, what the filter found out first about the current message
Filter == [peer : {"none", "run", "connecting", "asked", "waiting", "partial", "idle"},
           text : Answer \cup {None}, once : BOOLEAN, said : Answer \cup {None}]
Idle   == [peer |-> "none", text |-> None, once |-> FALSE, said |-> None]

VARIABLES
    chain, side,  \* configuration: the kinds, and server or client filter
    starts,       \* how often the chain has been started
    running,      \* m_running
    index,        \* which filter m_filter is; while running its signal is connected
    filter,       \* m_filters
    soon,         \* the zero-length timers, in the order they were started
    passing,      \* those that the current pass of the timer list has still to call
    out           \* what the chain has signalled for the current message

vars == <<chain, side, starts, running, index, filter, soon, passing, out>>

Position == DOMAIN chain
Timer    == {"done", "send"} \X Position

TypeOK ==
    /\ chain \in Chains /\ side \in {"server", "client"}
    /\ starts \in 0..MaxStarts /\ running \in BOOLEAN /\ index \in Position
    /\ filter \in [Position -> Filter]
    /\ soon \in Seq(Timer) /\ IsInjective(soon) /\ passing \subseteq ToSet(soon)
    /\ out \in Answer \cup {None}
    /\ \A i \in Position : CASE chain[i] = "file" -> filter[i].peer = "none"
                             [] chain[i] = "exec" -> filter[i].peer \in {"none", "run"}
                             [] chain[i] = "net"  -> filter[i].peer \notin {"run", "partial"}
                             [] OTHER -> filter[i].peer \notin {"run", "asked"}

Init ==
    /\ chain \in Chains /\ side \in {"server", "client"}
    /\ starts = 0 /\ running = FALSE /\ index = 1
    /\ filter = [i \in Position |-> Idle]
    /\ soon = <<>> /\ passing = {} /\ out = None

-----------------------------------------------------------------------------
(* The filters.                                                            *)

\* Exit, the exit codes of filter programs
Codes == {0, 1, 100, 101, 102, 103, 104, 105}
Exit(c) ==
    [is |-> CASE c \in {0, 101, 103} \/ (c = 102 /\ side = "client") -> "ok"
              [] c = 100 \/ (c = 102 /\ side = "server") \/ (c = 104 /\ side = "client") -> "abandon"
              [] OTHER -> "fail",
     special |-> c \in (IF side = "server" THEN {102, 103, 104} ELSE {102, 104, 105})]

Fired(q, t) == RemoveFirst(q, t)
Late(q, t)  == Append(Fired(q, t), t)      \* startTimer(0), also of a running timer

\* what a filter has found out
Learn(f, i, a) == [f EXCEPT ![i].text = a, ![i].said = IF @ = None THEN a ELSE @]

\* (mutant: the scanner's signal stays used up)
StartFilter_Once(f, q, i) ==
    CASE chain[i] = "file" -> {<<Learn(f, i, a), Late(q, <<"done", i>>)>> : a \in Answer}
      [] chain[i] = "exec" -> {<<[f EXCEPT ![i].peer = "run"], q>>}
      [] chain[i] = "net"  ->
            LET g == [f EXCEPT ![i].text = None, ![i].peer = IF @ = "idle" THEN "asked" ELSE "connecting"]
                r == Fired(q, <<"done", i>>)
            IN  {<<g, IF f[i].peer = "idle" THEN Late(r, <<"send", i>>) ELSE Fired(r, <<"send", i>>)>>}
      [] chain[i] = "spam" ->
            {<<[f EXCEPT ![i].peer = "connecting", ![i].once = FALSE, ![i].text = None], q>>}

\* start() of filter i with the filters f and the timers q: what they can be afterwards.
\* The scanner's connection is used again, spamd's is not; the request goes out when the
\* connection is made, or with the next turn if there is one.
StartFilter(f, q, i) ==
    CASE chain[i] = "file" -> {<<Learn(f, i, a), Late(q, <<"done", i>>)>> : a \in Answer}
      [] chain[i] = "exec" -> {<<[f EXCEPT ![i].peer = "run"], q>>}
      [] chain[i] = "net"  ->
            LET g == [f EXCEPT ![i].once = FALSE, ![i].text = None,
                               ![i].peer = IF @ = "idle" THEN "asked" ELSE "connecting"]
                r == Fired(q, <<"done", i>>)
            IN  {<<g, IF f[i].peer = "idle" THEN Late(r, <<"send", i>>) ELSE Fired(r, <<"send", i>>)>>}
      [] chain[i] = "spam" ->
            {<<[f EXCEPT ![i].peer = "connecting", ![i].once = FALSE, ![i].text = None], q>>}

\* (mutant: a program is left to run)
CancelFilter_Task(f, i) ==
    IF chain[i] \in {"net", "spam"} THEN [f EXCEPT ![i].peer = "none", ![i].text = None] ELSE f
\* cancel() of a filter: the program is killed, the connection is dropped, but spamd's is
\* not when it has answered
CancelFilter(f, i) ==
    [f EXCEPT ![i].peer = IF chain[i] = "spam" /\ @ = "idle" THEN @ ELSE "none",
              ![i].text = IF chain[i] \in {"net", "spam"} THEN None ELSE @,
              ![i].once = chain[i] = "net" \/ @]
CancelTimers(q, i) == Fired(Fired(q, <<"done", i>>), <<"send", i>>)

\* (mutant: the pass still calls a timer that has been cancelled)
Timers_Pass(q) == soon' = q /\ UNCHANGED passing
Timers(q) == soon' = q /\ passing' = passing \cap ToSet(q)

-----------------------------------------------------------------------------
(* The chain.                                                              *)

\* (mutant: special() looks at the last filter only)
Special_Last(f, i) == f[i].text.special
\* special(), of the filters that have been done
Special(f, i) == \E j \in 1..i : f[j].text # None /\ f[j].text.special

\* onFilterDone(), with filter i's result a
FilterDone(f, q, i, a) ==
    IF a.is = "ok" /\ i < Len(chain)
    THEN /\ index' = i + 1
         /\ \E x \in StartFilter(f, q, i + 1) : filter' = x[1] /\ Timers(x[2])
         /\ UNCHANGED <<running, out>>
    ELSE /\ running' = FALSE /\ out' = [is |-> a.is, special |-> Special(f, i)]
         /\ filter' = f /\ Timers(q) /\ UNCHANGED index

\* the done signal of filter i, which the chain may not be connected to
Emit(f, q, i, a) ==
    IF running /\ index = i THEN FilterDone(f, q, i, a)
    ELSE filter' = f /\ Timers(q) /\ UNCHANGED <<running, index, out>>

\* start() for the next message
Start ==
    /\ starts < MaxStarts /\ starts' = starts + 1
    /\ running' = TRUE /\ index' = 1 /\ out' = None
    /\ LET f == [i \in Position |-> [filter[i] EXCEPT !.said = None]]
           g == IF running THEN CancelFilter(f, index) ELSE f
           q == IF running THEN CancelTimers(soon, index) ELSE soon
       IN  \E x \in StartFilter(g, q, 1) : filter' = x[1] /\ Timers(x[2])
    /\ UNCHANGED <<chain, side>>

Cancel ==
    /\ running /\ running' = FALSE
    /\ filter' = CancelFilter(filter, index)
    /\ Timers(CancelTimers(soon, index))
    /\ UNCHANGED <<chain, side, starts, index, out>>

-----------------------------------------------------------------------------
(* Timers.                                                                 *)

\* the next turn, and what has run out by then
Turn == /\ passing = {} /\ soon # <<>> /\ passing' = ToSet(soon)
        /\ UNCHANGED <<chain, side, starts, running, index, filter, soon, out>>

First == SelectInSeq(soon, LAMBDA t : t \in passing)

\* the next one of the pass
Expires(t) == t \in passing /\ soon[First] = t

\* onTimeout() of a file filter and of the scanner, onDoneTimeout() of spamd's
Result(i) == IF chain[i] = "spam" /\ (filter[i].text = None \/ filter[i].text.is = "ok")
             THEN Says("ok") ELSE filter[i].text

DoneTimeout(i) ==
    /\ Expires(<<"done", i>>)
    /\ LET q == Fired(soon, <<"done", i>>)
       IN  IF chain[i] = "file" THEN Emit(filter, q, i, Result(i))
           ELSE IF filter[i].once THEN filter' = filter /\ Timers(q) /\ UNCHANGED <<running, index, out>>
           ELSE Emit([filter EXCEPT ![i].once = TRUE], q, i, Result(i))
    /\ UNCHANGED <<chain, side, starts>>

\* RequestClient::onTimeout(), of a client that is connected
SendTimeout(i) ==
    /\ Expires(<<"send", i>>)
    /\ filter' = [filter EXCEPT ![i].peer = IF @ = "asked" THEN "waiting" ELSE @]
    /\ Timers(Fired(soon, <<"send", i>>))
    /\ UNCHANGED <<chain, side, starts, running, index, out>>

-----------------------------------------------------------------------------
(* Events.                                                                 *)

Event == passing = {}

TaskEnds(i, c) ==
    /\ Event /\ filter[i].peer = "run"
    /\ Emit([Learn(filter, i, Exit(c)) EXCEPT ![i].peer = "none"], soon, i, Exit(c))
    /\ UNCHANGED <<chain, side, starts>>

\* the program has ended; or the time is up and it is killed
TaskDone(i) == \E c \in Codes : TaskEnds(i, c)
TaskTimeout(i) == TaskEnds(i, 1)

\* onConnect(): the request is sent
Connected(i) ==
    /\ Event /\ filter[i].peer = "connecting"
    /\ filter' = [filter EXCEPT ![i].peer = "waiting"]
    /\ UNCHANGED <<chain, side, starts, running, index, soon, passing, out>>

\* sendResult(), of the scanner the first one only, and clientEvent() and clientDeleted()
\* of spamd's filter
SendResult(i, p, a) ==
    LET f == [filter EXCEPT ![i].peer = p]
        q == IF p = "none" THEN Fired(soon, <<"send", i>>) ELSE soon
    IN  IF chain[i] = "net" /\ filter[i].text # None
        THEN filter' = f /\ Timers(q)
        ELSE filter' = Learn(f, i, a) /\ Timers(Late(q, <<"done", i>>))

\* some lines of spamd's answer: the response timer is cancelled with the first of them
Begun(i) ==
    /\ Event /\ chain[i] = "spam" /\ filter[i].peer = "waiting"
    /\ filter' = [filter EXCEPT ![i].peer = "partial"]
    /\ UNCHANGED <<chain, side, starts, running, index, soon, passing, out>>

Reply(i) ==
    /\ Event /\ filter[i].peer \in {"waiting", "partial"}
    /\ \E v \in {"ok", "fail"} \cup (IF chain[i] = "net" THEN {"abandon"} ELSE {}) :
            SendResult(i, "idle", Says(v))
    /\ UNCHANGED <<chain, side, starts, running, index, out>>

\* an exception of the client: no connection, no answer in time, disconnected, a bad answer
Fails(i) == /\ SendResult(i, "none", Says("fail"))
            /\ UNCHANGED <<chain, side, starts, running, index, out>>

ClientTimeout(i) == Event /\ filter[i].peer \in {"connecting", "waiting"} /\ Fails(i)
Broken(i) ==
    /\ Event
    /\ \/ filter[i].peer \in {"connecting", "asked", "waiting", "partial"}
       \/ filter[i].peer = "idle" /\ (chain[i] = "net" \/ (Closes /\ <<"done", i>> \notin ToSet(soon)))
    /\ Fails(i)

-----------------------------------------------------------------------------
Loop == Turn \/ \E i \in Position : DoneTimeout(i) \/ SendTimeout(i)

Next == \/ Start \/ Cancel \/ Loop
        \/ \E i \in Position : \/ TaskDone(i) \/ TaskTimeout(i) \/ ClientTimeout(i)
                               \/ Connected(i) \/ Begun(i) \/ Reply(i) \/ Broken(i)

Spec == Init /\ [][Next]_vars

\* The timers run out, --filter-timeout included.  Of the peers only spamd has a duty: to
\* finish, or to close the connection, once it has begun to answer; no timer is running then.
FairSpec ==
    /\ Spec /\ WF_vars(Loop)
    /\ \A i \in 1..MaxLength : /\ WF_vars(i \in Position /\ (TaskTimeout(i) \/ ClientTimeout(i)))
                       /\ WF_vars(i \in Position /\ filter[i].peer = "partial" /\ (Reply(i) \/ Broken(i)))

-----------------------------------------------------------------------------
(* Properties.                                                             *)

\* Only the filter whose turn it is has anything going on: when another one is started, or
\* the chain is done or cancelled, no program is left running, no request is unanswered and
\* no timer is left that could answer for the message that follows.
OnlyOneWorks ==
    \A i \in Position : ~ (running /\ index = i) =>
        filter[i].peer \in {"none", "idle"} /\ <<"done", i>> \notin ToSet(soon)
                                            /\ <<"send", i>> \notin ToSet(soon)

\* The chain answers once for each message it is started for and not after it has been
\* cancelled (gsmtp/gfilter.h:78-88); a message passes only if each filter has passed this
\* very message, and otherwise the answer is that of the filter that has stopped it.
Earned(a) ==
    LET said(i) == filter'[i].said
        last    == {i \in Position : said(i) # None}
    IN  /\ IF a.is = "ok" THEN \A i \in Position : said(i) # None /\ said(i).is = "ok"
           ELSE \E i \in last : said(i).is = a.is /\ \A j \in last : j <= i
        /\ a.special = \E i \in last : said(i).special

AnswerIsEarned == [][out' # out /\ out' # None => running /\ out = None /\ Earned(out')]_vars

\* The user of the chain is not kept waiting, whatever the programs and servers do.
EveryStartEnds == running ~> ~ running
=============================================================================
