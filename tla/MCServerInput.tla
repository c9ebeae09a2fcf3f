---------------------------- MODULE MCServerInput ----------------------------
(* Small instances of ServerInput: every short text of a message and every   *)
(* short chunk, between commands, and some pipelined commands.              *)
EXTENDS ServerInput, TLC

Crlf == <<"CR", "LF">>
Raw  == {"a", ".", "CR", "LF"}
Texts(n) == UNION {[1..k -> Raw] : k \in 0..n}

\* DATA, a text, the end of the text and a command
Data(n) == {<<"DATA">> \o Crlf \o t \o Crlf \o <<".">> \o Crlf \o <<"RCPT">> \o Crlf : t \in Texts(n)}
\* a chunk of each size, whose bytes may look like line endings, and a command
Chunks == {<<b>> \o Crlf \o t \o <<"RCPT">> \o Crlf : b \in DOMAIN Size, t \in [1..3 -> Raw]}
Pipelined == {<<"RCPT">> \o Crlf \o <<"RCPT">> \o Crlf \o <<"BDAT 2">> \o Crlf \o <<"CR", "LF">>
                \o <<"DATA">> \o Crlf \o <<".">> \o Crlf \o <<"RCPT">> \o Crlf}
Sessions == Data(5) \cup Chunks \cup Pipelined

-----------------------------------------------------------------------------
(* What a stream means, line by line and chunk by chunk.                   *)

Unstuff(line) == IF line # <<>> /\ line[1] = "." THEN Tail(line) ELSE line

RECURSIVE Meaning(_, _)
Meaning(mode, s) ==
    LET at == {i \in 1..(Len(s) - 1) : s[i] = "CR" /\ s[i + 1] = "LF"}
        line == SubSeq(s, 1, Min(at) - 1)
        rest == SubSeq(s, Min(at) + 2, Len(s))
    IN  IF mode \in Nat \ {0}
        THEN IF Len(s) < mode THEN Content(s)
             ELSE Content(SubSeq(s, 1, mode)) \o Meaning(0, SubSeq(s, mode + 1, Len(s)))
        ELSE IF at = {} THEN IF mode = 0 THEN <<>> ELSE Content(Unstuff(s))
        ELSE IF mode = 0
        THEN Command(line) \o Meaning(CASE line = <<"DATA">> -> -1
                                       [] Len(line) = 1 /\ line[1] \in DOMAIN Size -> Size[line[1]]
                                       [] OTHER -> 0, rest)
        ELSE IF line = <<".">> THEN EndOfText \o Meaning(0, rest)
        ELSE Content(Unstuff(line \o EndOfLine)) \o Meaning(mode, rest)

\* The reader of ServerInput, which goes byte by byte, finds the same meaning.
ASSUME ReadingIsMeaning ==
    \A s \in Sessions : \A n \in 0..Len(s) :
        LET t == SubSeq(s, 1, n) IN Reading(t)[n].given = Meaning(0, t)
=============================================================================
