--------------------------- MODULE StreamFraming ---------------------------
(* Reading a ByteStream or a StringStream: every operation serves what it    *)
(* can from the read-ahead and fills it from the conduit until it can        *)
(* answer.  The conduit hands over its bytes in chunks of any size.          *)
EXTENDS Naturals, Sequences, SequencesExt

CONSTANTS MaxBytes,  \* length of the conduit's content
          MaxReads   \* operations in one behaviour

\* "lead" and "cont" are the two bytes of one UTF-8 character.
Alphabet == {"a", "cr", "nl", "lead", "cont"}
Delim == <<"cr", "nl">>

VARIABLES rest,    \* bytes still in the conduit
          rbuf,    \* the read-ahead
          call,    \* the operation in progress
          answer,  \* the last operation's answer
          reads
frameVars == <<rest, rbuf, call, answer, reads>>

NoCall == [op |-> "none", n |-> 0, whole |-> <<>>, fills |-> 0, eof |-> FALSE]
NoAnswer == [call |-> NoCall, got |-> <<>>, err |-> FALSE, left |-> <<>>]

FrameInit ==
    /\ rest \in SeqOf(Alphabet, MaxBytes)
    /\ rbuf = <<>> /\ call = NoCall /\ answer = NoAnswer /\ reads = 0

Smaller(a, b) == IF a < b THEN a ELSE b
\* find_subsequence: the index just past the first occurrence, or 0
Past(buf, delim) ==
    LET at == {i \in 1..Len(buf) : i >= Len(delim) /\ SubSeq(buf, i - Len(delim) + 1, i) = delim}
    IN IF at = {} THEN 0 ELSE CHOOSE i \in at : \A j \in at : i <= j

\* utf8_split: the longest valid prefix, and whether what follows can never be valid
ValidUpTo(buf) ==
    LET good(i) == \A j \in 1..i : \/ buf[j] \in {"a", "cr", "nl"}
                                   \/ buf[j] = "lead" /\ j < i /\ buf[j + 1] = "cont"
                                   \/ buf[j] = "cont" /\ j > 1 /\ buf[j - 1] = "lead"
        ok == {i \in 0..Len(buf) : good(i)}
    IN CHOOSE i \in ok : \A j \in ok : j <= i
HardOnAnyRest(buf) == ValidUpTo(buf) < Len(buf)
HardInvalid(buf) ==
    LET v == ValidUpTo(buf) IN v < Len(buf) /\ ~(v + 1 = Len(buf) /\ buf[v + 1] = "lead")

\* What an operation does next: fill again, take a number of buffered bytes
\* (peek takes none of the ones it shows), or raise.
Fill == [do |-> "fill", take |-> 0, show |-> 0]
Take(k) == [do |-> "answer", take |-> k, show |-> k]
Show(k) == [do |-> "answer", take |-> 0, show |-> k]
Raise(k) == [do |-> "raise", take |-> k, show |-> 0]

read(c) == IF rbuf = <<>> /\ c.fills = 0 THEN Fill ELSE Take(Len(rbuf))
read_n(c) == IF rbuf = <<>> /\ c.fills = 0 THEN Fill ELSE Take(Smaller(c.n, Len(rbuf)))
peek(c) == IF Len(rbuf) < c.n /\ ~c.eof THEN Fill ELSE Show(Smaller(c.n, Len(rbuf)))
readExactly(c) == IF Len(rbuf) >= c.n THEN Take(c.n) ELSE IF c.eof THEN Raise(0) ELSE Fill
readWhole(c) == IF rbuf = <<>> /\ ~c.eof THEN Fill ELSE Take(Len(rbuf))
readAll(c) == IF c.eof THEN Take(Len(rbuf)) ELSE Fill
UntilIn(c, delim) == IF Past(rbuf, delim) # 0 THEN Take(Past(rbuf, delim))
                     ELSE IF c.eof THEN Take(Len(rbuf)) ELSE Fill
readUntil(c) == UntilIn(c, Delim)
readUntilLimit(c) == IF Past(rbuf, Delim) = 0 /\ Len(rbuf) > c.n /\ ~c.eof THEN Raise(0)
                     ELSE readUntil(c)
\* readLine drains its line before decoding it
Decoded(d) == IF d.do = "answer" /\ ValidUpTo(SubSeq(rbuf, 1, d.take)) < d.take
              THEN Raise(d.take) ELSE d
readLine(c) == Decoded(UntilIn(c, <<"nl">>))
readText(c) == IF rbuf = <<>> THEN IF c.eof THEN Take(0) ELSE Fill
               ELSE IF ValidUpTo(rbuf) > 0 THEN Take(ValidUpTo(rbuf))
               ELSE IF HardInvalid(rbuf) \/ c.eof THEN Raise(0) ELSE Fill

NextStep(c) == CASE c.op = "read" -> read(c) [] c.op = "read:" -> read_n(c)
              [] c.op = "peek:" -> peek(c) [] c.op = "readExactly:" -> readExactly(c)
              [] c.op = "readUntil:" -> readUntil(c) [] c.op = "limit:" -> readUntilLimit(c)
              [] c.op = "readAll" -> readAll(c) [] c.op = "readLine" -> readLine(c)
              [] c.op = "text" -> readText(c)
Ops == {"read", "read:", "peek:", "readExactly:", "readUntil:", "limit:", "readAll", "readLine", "text"}

Begin(op, n) ==
    /\ call = NoCall /\ reads < MaxReads
    /\ n > 0 => op \in {"read:", "peek:", "readExactly:", "limit:"}
    /\ call' = [op |-> op, n |-> n, whole |-> rbuf \o rest, fills |-> 0, eof |-> FALSE]
    /\ reads' = reads + 1
    /\ UNCHANGED <<rest, rbuf, answer>>

\* fill_once: a chunk of any size, or end of file
fill_once ==
    /\ call # NoCall /\ NextStep(call).do = "fill"
    /\ \E k \in (IF rest = <<>> THEN {0} ELSE 1..Len(rest)) :
          /\ rbuf' = rbuf \o SubSeq(rest, 1, k)
          /\ rest' = SubSeq(rest, k + 1, Len(rest))
          /\ call' = [call EXCEPT !.fills = 1, !.eof = (k = 0)]
    /\ UNCHANGED <<answer, reads>>

\* drain_up_to / peek_up_to and the answer
Finish ==
    LET d == NextStep(call) IN
    /\ call # NoCall /\ d.do # "fill"
    /\ rbuf' = SubSeq(rbuf, d.take + 1, Len(rbuf))
    /\ answer' = [call |-> call, got |-> SubSeq(rbuf, 1, d.show), err |-> d.do = "raise",
                  left |-> SubSeq(rbuf, d.take + 1, Len(rbuf)) \o rest]
    /\ call' = NoCall
    /\ UNCHANGED <<rest, reads>>

FrameNext == (\E op \in Ops, n \in 0..2 : Begin(op, n)) \/ fill_once \/ Finish
FrameSpec == FrameInit /\ [][FrameNext]_frameVars

(* What a read answers does not depend on how the bytes were chunked: it is  *)
(* the answer for the whole of what was unread when it began.  No byte is    *)
(* lost, repeated or reordered, a frame ends at the first delimiter even     *)
(* when it straddles chunks, and text is never cut inside a character nor    *)
(* refused because a character arrived in two chunks.                        *)
AnswerForWholeInput ==
    LET c == answer.call
        w == c.whole
        got == answer.got
        UpTo(d) == IF Past(w, d) = 0 THEN w ELSE SubSeq(w, 1, Past(w, d))
        first(n) == SubSeq(w, 1, Smaller(n, Len(w)))
    IN
    /\ ~answer.err /\ c.op # "peek:" => got \o answer.left = w
    /\ c.op = "peek:" => got = first(c.n) /\ answer.left = w
    /\ c.op = "readExactly:" => IF Len(w) >= c.n THEN got = first(c.n) ELSE answer.err
    /\ c.op = "readAll" => got = w
    /\ c.op = "readUntil:" => got = UpTo(Delim)
    /\ c.op = "limit:" => IF answer.err THEN Past(first(c.n + 1), Delim) = 0 ELSE got = UpTo(Delim)
    /\ c.op = "readLine" => IF ValidUpTo(UpTo(<<"nl">>)) < Len(UpTo(<<"nl">>)) THEN answer.err
                            ELSE got = UpTo(<<"nl">>)
    /\ c.op = "read:" => Len(got) <= c.n /\ (got = <<>> => c.n = 0 \/ w = <<>>)
    /\ c.op = "text" => /\ answer.err = (w # <<>> /\ ValidUpTo(w) = 0)
                        /\ ~answer.err => ValidUpTo(got) = Len(got) /\ (got = <<>> => w = <<>>)
=============================================================================
