----------------------------- MODULE ServerInput -----------------------------
(***************************************************************************)
(* From the bytes an SMTP client sends to the commands and the content the *)
(* server's protocol sees: the line buffer (gnet/glinebuffer.cpp), which   *)
(* gets them in arbitrary pieces and gives out lines, fragments of lines   *)
(* and chunks, the input buffer that holds what comes while the protocol   *)
(* is busy (gsmtp/gsmtpserverbufferin.cpp), and the protocol's two ways to *)
(* read content: DATA with its dots, and BDAT.  What the commands do is in *)
(* ServerProtocol.                                                         *)
(*                                                                         *)
(* A byte is a string; the word of a command counts as one byte, and so    *)
(* does the size of a BDAT chunk.                                          *)
(***************************************************************************)
EXTENDS Integers, SequencesExt

CONSTANTS
    Streams,      \* what a client may send, as sequences of bytes
    MaxPiece,     \* the longest piece of it that arrives at once
    SoftLimit     \* input_buffer_soft_limit

Size == [b \in {"BDAT 1", "BDAT 2", "BDAT 3"} |->
            CASE b = "BDAT 1" -> 1 [] b = "BDAT 2" -> 2 [] OTHER -> 3]
Byte == {"a", ".", "CR", "LF", "DATA", "RCPT"} \cup DOMAIN Size
Fmin == 2         \* LineBuffer::Config::smtp()

ASSUME StreamsAssumption == \A s \in Streams : s \in Seq(Byte)
ASSUME LimitsAssumption == MaxPiece \in Nat \ {0} /\ SoftLimit \in Nat \ {0}

VARIABLES
    stream,       \* all that the client sends
    sent,         \* how much of it has arrived
    in,           \* m_in, from m_pos on
    expect,       \* m_expect
    out,          \* m_out: what is remembered of the last piece of output
    state,        \* the protocol's state
    left,         \* m_bdat_arg - m_bdat_sum
    loop,         \* more() is called in a loop, because of a piece or of the timer
    timer,        \* ServerBufferIn's m_timer
    flow,         \* m_flow_on
    got           \* history: what the protocol has been given

buffer == <<in, expect, out>>
inputVars   == <<stream, sent, in, expect, out, state, left, loop, timer, flow, got>>

InputTypeOK ==
    /\ stream \in Seq(Byte) /\ sent \in 0..Len(stream)
    /\ in \in Seq(Byte) /\ Len(in) <= sent
    /\ out \in [first : BOOLEAN, ended : BOOLEAN, linesize : Nat, c0 : Byte \cup {"none"}]
    /\ state \in {"command", "data", "chunk", "busy"}
    /\ loop \in {"no", "piece", "timeout"} /\ timer \in {"off", "limit", "zero"} /\ flow \in BOOLEAN
    \* what the line buffer expects is what the protocol still counts
    /\ left \in Nat /\ expect = left /\ (left > 0 <=> state = "chunk")

InputInit ==
    /\ stream \in Streams /\ sent = 0
    /\ in = <<>> /\ expect = 0
    /\ out = [first |-> TRUE, ended |-> FALSE, linesize |-> 0, c0 |-> "none"]
    /\ state = "command" /\ left = 0
    /\ loop = "no" /\ timer = "off" /\ flow = TRUE
    /\ got = <<>>

InData == state \in {"data", "chunk"}
EndOfLine == <<"CR", "LF">>

\* the events of the protocol, one per byte of content
Command(line) == <<[kind |-> "command", data |-> line]>>
Content(s)    == [i \in 1..Len(s) |-> [kind |-> "content", data |-> <<s[i]>>]]
EndOfText     == <<[kind |-> "end", data |-> <<>>]>>

-----------------------------------------------------------------------------
(* The protocol's apply().                                                 *)

\* the loop ends: applySome(), apply() and onTimeout()
EndLoop(busy) ==
    /\ loop' = "no"
    /\ timer' = IF busy THEN "limit" ELSE "off"
    /\ flow' = IF loop = "timeout" THEN flow \/ ~busy
                                   ELSE flow /\ (busy => Len(in') < SoftLimit)

Go(s) == state' = s /\ IF s = "busy" THEN EndLoop(TRUE) ELSE UNCHANGED <<loop, timer, flow>>

IsEndOfText(eol)    == eol # <<>> /\ out'.linesize = 1 /\ out'.c0 = "."
IsEscaped(piece)    == Len(piece) > 1 /\ Len(piece) = out'.linesize /\ out'.c0 = "."

ApplyText(piece, eol) ==
    IF IsEndOfText(eol)
    THEN got' = got \o EndOfText /\ Go("busy")
    ELSE got' = got \o Content((IF IsEscaped(piece) THEN Tail(piece) ELSE piece) \o eol) /\ Go("data")

\* a command may have to wait for a verifier
ApplyCommand(line) ==
    /\ got' = got \o Command(line)
    /\ CASE line = <<"DATA">> -> Go("data")
         [] Len(line) = 1 /\ line[1] \in DOMAIN Size -> Go("chunk")
         [] line = <<"RCPT">> -> Go("command") \/ Go("busy")
         [] OTHER -> Go("command")

ApplyChunk(piece) ==
    got' = got \o Content(piece) /\ Go(IF left' = 0 THEN "command" ELSE "chunk")

-----------------------------------------------------------------------------
(* LineBuffer::more().                                                     *)

\* Output::set()
Output(n, eol, force) ==
    LET start == out.first \/ out.ended
    IN  /\ in' = SubSeq(in, n + Len(eol) + 1, Len(in))
        /\ out' = [first    |-> force,
                   ended    |-> eol # <<>>,
                   linesize |-> IF start THEN n ELSE out.linesize + n,
                   c0       |-> IF ~start THEN out.c0 ELSE IF n = 0 THEN "none" ELSE in[1]]

\* (mutant: a fragment may be a single byte)
Trivial_One(n) == n < 1
Trivial(n) == n < Fmin

Ends == {i \in 1..(Len(in) - 1) : in[i] = "CR" /\ in[i + 1] = "LF"}
\* findSubStringAtEnd(): all but what may be half of a line ending
Residue == IF in # <<>> /\ Last(in) = "CR" THEN Len(in) - 1 ELSE Len(in)

\* (mutant: the expectation is not reset)
ExpectAll_Keep ==
    /\ 0 < expect /\ expect <= Len(in)
    /\ Output(expect, <<>>, TRUE) /\ UNCHANGED expect /\ left' = left - expect
    /\ ApplyChunk(SubSeq(in, 1, expect))

ExpectAll ==
    /\ 0 < expect /\ expect <= Len(in)
    /\ Output(expect, <<>>, TRUE) /\ expect' = 0 /\ left' = left - expect
    /\ ApplyChunk(SubSeq(in, 1, expect))

ExpectSome ==
    /\ expect > Len(in) /\ InData /\ ~Trivial(Len(in))
    /\ Output(Len(in), <<>>, FALSE) /\ expect' = expect - Len(in) /\ left' = left - Len(in)
    /\ ApplyChunk(in)

Line ==
    /\ expect = 0 /\ Ends # {}
    /\ LET n == Min(Ends) - 1
           line == SubSeq(in, 1, n)
           size == IF state = "command" /\ n = 1 /\ in[1] \in DOMAIN Size THEN Size[in[1]] ELSE 0
       IN  /\ Output(n, EndOfLine, FALSE)
           /\ expect' = size /\ left' = size
           /\ IF state = "data" THEN ApplyText(line, EndOfLine) ELSE ApplyCommand(line)

Fragment ==
    /\ expect = 0 /\ Ends = {} /\ InData /\ Residue > 0 /\ ~Trivial(Residue)
    /\ Output(Residue, <<>>, FALSE) /\ UNCHANGED <<expect, left>>
    /\ ApplyText(SubSeq(in, 1, Residue), <<>>)

NoMore ==
    /\ IF expect > 0 THEN expect > Len(in) /\ Trivial(Len(in))
       ELSE Ends = {} /\ (InData => Residue = 0 \/ Trivial(Residue))
    /\ EndLoop(FALSE) /\ UNCHANGED <<in, expect, out, state, left, got>>

More == /\ loop # "no" /\ (ExpectAll \/ ExpectSome \/ Line \/ Fragment \/ NoMore)
        /\ UNCHANGED <<stream, sent>>

-----------------------------------------------------------------------------
(* ServerBufferIn.                                                         *)

\* apply(): while the protocol is busy the bytes are only kept
Receive ==
    /\ flow /\ loop = "no"
    /\ \E n \in 1..MaxPiece :
        /\ sent + n <= Len(stream) /\ sent' = sent + n
        /\ in' = in \o SubSeq(stream, sent + 1, sent + n)
    /\ IF state = "busy"
       THEN flow' = (Len(in') < SoftLimit) /\ UNCHANGED loop
       ELSE loop' = "piece" /\ UNCHANGED flow
    /\ UNCHANGED <<stream, expect, out, state, left, timer, got>>

\* (mutant: the input is not looked at again)
Complete_NoChange ==
    /\ state = "busy" /\ loop = "no" /\ state' = "command"
    /\ UNCHANGED <<stream, sent, buffer, left, loop, timer, flow, got>>

\* the protocol is no longer busy: onProtocolChange()
Complete ==
    /\ state = "busy" /\ loop = "no" /\ state' = "command"
    /\ timer' = IF timer = "off" THEN "off" ELSE "zero"
    /\ UNCHANGED <<stream, sent, buffer, left, loop, flow, got>>

OnTimeout ==
    /\ timer = "zero" /\ loop = "no" /\ loop' = "timeout" /\ timer' = "off"
    /\ UNCHANGED <<stream, sent, buffer, state, left, flow, got>>

InputNext == More \/ Receive \/ Complete \/ OnTimeout

InputSpec == InputInit /\ [][InputNext]_inputVars

\* callbacks return, timers expire, the filter and the verifier have time limits
\* and the network delivers what was sent
InputFairSpec == InputSpec /\ WF_inputVars(More) /\ WF_inputVars(Receive) /\ WF_inputVars(Complete) /\ WF_inputVars(OnTimeout)

-----------------------------------------------------------------------------
(* The reference: a reader that has the whole stream before it.            *)

Event == [kind : {"command", "content", "end"}, data : Seq(Byte)]

\* what is read, since which byte, and what the stream has meant so far
NewReader == [mode |-> "command", size |-> 0, begin |-> 0, given |-> <<>>]

\* byte k ends the line that begins after byte b
LineEnd(s, b, k) == k >= b + 2 /\ s[k - 1] = "CR" /\ s[k] = "LF"
\* that line is a single dot
DotLine(s, b) == b + 3 <= Len(s) /\ s[b + 1] = "." /\ s[b + 2] = "CR" /\ s[b + 3] = "LF"

ReadCommand(s, k, r) ==
    LET line == SubSeq(s, r.begin + 1, k - 2)
        size == IF Len(line) = 1 /\ line[1] \in DOMAIN Size THEN Size[line[1]] ELSE 0
    IN  IF ~LineEnd(s, r.begin, k) THEN r
        ELSE [mode  |-> IF line = <<"DATA">> THEN "data" ELSE IF size > 0 THEN "chunk" ELSE "command",
              size  |-> size,
              begin |-> k,
              given |-> r.given \o Command(line)]

\* a dot that begins a line is not a part of the text
ReadText(s, k, r) ==
    IF DotLine(s, r.begin)
    THEN IF k < r.begin + 3 THEN r
         ELSE [mode |-> "command", size |-> 0, begin |-> k, given |-> r.given \o EndOfText]
    ELSE [mode  |-> "data",
          size  |-> r.size,
          begin |-> IF LineEnd(s, r.begin, k) THEN k ELSE r.begin,
          given |-> IF k = r.begin + 1 /\ s[k] = "." THEN r.given ELSE r.given \o Content(<<s[k]>>)]

ReadChunk(s, k, r) ==
    LET whole == k = r.begin + r.size
    IN  [mode  |-> IF whole THEN "command" ELSE "chunk",
         size  |-> IF whole THEN 0 ELSE r.size,
         begin |-> IF whole THEN k ELSE r.begin,
         given |-> r.given \o Content(<<s[k]>>)]

ReadByte(s, k, r) ==
    CASE r.mode = "command" -> ReadCommand(s, k, r)
      [] r.mode = "data"    -> ReadText(s, k, r)
      [] OTHER              -> ReadChunk(s, k, r)

\* the reader after each byte
Reading(s) == LET reader[k \in 0..Len(s)] == IF k = 0 THEN NewReader ELSE ReadByte(s, k, reader[k - 1])
              IN  reader

\* the bytes that the line buffer has given out
Taken == sent - Len(in)

\* However the bytes of a client are cut into pieces, and whenever the protocol is
\* busy, it is given the commands and the content that the whole stream means: no
\* line is split or joined, the end of the text is seen only at a line that is a
\* single dot, one leading dot is removed, and a chunk has exactly its size
\* (LineBuffer::more(), ServerProtocol::isEndOfText(), isEscaped(), doBdatContent()).
SameMeaning == got = Reading(stream)[Taken].given

\* Every complete line and chunk that is sent is given to the protocol in the end,
\* with the flow switched off and on as often as it may be (ServerBufferIn).
AllIsRead ==
    LET reader == Reading(stream)
    IN  <>[]IsPrefix(reader[reader[Len(stream)].begin].given, got)
=============================================================================
