------------------------------ MODULE Output ------------------------------
(***************************************************************************)
(* The capture of a command's output (output.go, truncateToLimit in        *)
(* executor.go): a buffer that keeps the first or the last bytes of what   *)
(* the command writes, the last ones in a ring, and the cut of what it     *)
(* kept to max_output_bytes. A byte is known by its place in the stream;   *)
(* ostream says which of them begin a character.                           *)
(***************************************************************************)
EXTENDS Integers, Sequences

CONSTANTS
  UTFMax,         \* utf8.UTFMax
  MaxPerWrite     \* bound: bytes in one write

\* A character may take more than one byte.
ASSUME OutputAssumption == UTFMax \in Nat /\ UTFMax >= 2 /\ MaxPerWrite \in Nat

VARIABLES
  oreq,      \* [stream: the bytes, max: max_output_bytes, tail, decode]
  cb,        \* cappedBuffer: limit, buf, start, full, total
  oans       \* the answer of finishOutput

outVars == <<oreq, cb, oans>>

NoAnswer == [done |-> FALSE, text |-> <<>>, truncated |-> FALSE]

\* newCappedBuffer, with room for the rest of a character at the cut.
NewCappedBuffer(max) == [limit |-> max + UTFMax - 1, buf |-> <<>>, start |-> 0, full |-> FALSE, total |-> 0]

OutputStarts(requests) ==
  /\ oreq \in requests
  /\ cb = NewCappedBuffer(oreq.max)
  /\ oans = NoAnswer

Less(m, n) == IF m < n THEN m ELSE n

-----------------------------------------------------------------------------
(* Write.                                                                  *)

\* The bytes of p that a full ring takes from start on.
Wrapped(b, p) ==
  [b EXCEPT !.buf = [i \in 1..Len(b.buf) |->
                       LET k == (i - 1 - b.start + b.limit) % b.limit IN IF k < Len(p) THEN p[k + 1] ELSE b.buf[i]],
            !.start = (b.start + Len(p)) % b.limit]

\* Mutant of Filled: the ring begins behind the bytes that filled it.
FilledAtEnd(b, p) ==
  LET fill == b.limit - Len(b.buf)
  IN  Wrapped([b EXCEPT !.buf = b.buf \o SubSeq(p, 1, fill), !.full = TRUE, !.start = Len(b.buf)],
              SubSeq(p, fill + 1, Len(p)))

\* A write that fills the ring: the rest of it wraps.
Filled(b, p) ==
  LET fill == b.limit - Len(b.buf)
  IN  Wrapped([b EXCEPT !.buf = b.buf \o SubSeq(p, 1, fill), !.full = TRUE, !.start = 0],
              SubSeq(p, fill + 1, Len(p)))

Kept(b, p, tail) ==
  CASE ~tail -> [b EXCEPT !.buf = b.buf \o SubSeq(p, 1, Less(Len(p), b.limit - Len(b.buf)))]
    [] tail /\ Len(p) >= b.limit ->
         [b EXCEPT !.buf = SubSeq(p, Len(p) - b.limit + 1, Len(p)), !.start = 0, !.full = TRUE]
    [] tail /\ Len(p) < b.limit /\ ~b.full /\ Len(b.buf) + Len(p) <= b.limit -> [b EXCEPT !.buf = b.buf \o p]
    [] tail /\ Len(p) < b.limit /\ ~b.full /\ Len(b.buf) + Len(p) > b.limit -> Filled(b, p)
    [] OTHER -> Wrapped(b, p)

\* The command writes n bytes.
CappedWrite(n) ==
  /\ ~oans.done /\ cb.total + n <= Len(oreq.stream)
  /\ cb' = Kept([cb EXCEPT !.total = @ + n], [i \in 1..n |-> cb.total + i], oreq.tail)
  /\ UNCHANGED <<oreq, oans>>

\* Bytes and truncated.
Bytes(b) ==
  IF ~oreq.tail \/ ~b.full \/ b.start = 0 THEN b.buf
  ELSE SubSeq(b.buf, b.start + 1, Len(b.buf)) \o SubSeq(b.buf, 1, b.start)
IsTruncated(b) == b.total > Len(b.buf)

-----------------------------------------------------------------------------
(* finishOutput.                                                           *)

BeginsChar(s, i) == oreq.stream[s[i]] = "head"

\* truncateToLimit: where the first bytes of s end, at most UTFMax - 1 before
\* max; s[c + 1] is the first byte that is dropped.
IsHeadCut(s, max, c) ==
  /\ c <= 0 \/ c = max - UTFMax + 1 \/ BeginsChar(s, c + 1)
  /\ \A d \in (c + 1)..max : d > 0 /\ ~BeginsChar(s, d + 1)
HeadCut(s, max) == CHOOSE c \in (max - UTFMax + 1)..max : IsHeadCut(s, max, c)

\* ... and where the last ones begin.
IsTailCut(s, from, c) ==
  /\ c >= Len(s) \/ c = from + UTFMax - 1 \/ BeginsChar(s, c + 1)
  /\ \A d \in from..(c - 1) : d < Len(s) /\ ~BeginsChar(s, d + 1)
TailCut(s, max) ==
  LET from == Len(s) - max IN CHOOSE c \in from..(from + UTFMax - 1) : IsTailCut(s, from, c)

TruncateToLimit(s, max, tail) ==
  CASE Len(s) <= max -> s
    [] Len(s) > max /\ max <= 0 -> <<>>
    [] Len(s) > max /\ max > 0 /\ ~tail -> SubSeq(s, 1, HeadCut(s, max))
    [] OTHER -> SubSeq(s, TailCut(s, max) + 1, Len(s))

\* Bytes to be decoded are cut at max itself.
CutForDecoding(s, max, tail) ==
  CASE Len(s) <= max -> s
    [] Len(s) > max /\ tail -> SubSeq(s, Len(s) - max + 1, Len(s))
    [] OTHER -> SubSeq(s, 1, max)

\* The command has ended. What the decoder makes of the bytes is left out.
FinishOutput ==
  /\ ~oans.done
  /\ oans' = [done |-> TRUE,
              text |-> IF oreq.decode THEN CutForDecoding(Bytes(cb), oreq.max, oreq.tail)
                       ELSE TruncateToLimit(Bytes(cb), oreq.max, oreq.tail),
              truncated |-> IsTruncated(cb) \/ Len(Bytes(cb)) > oreq.max]
  /\ UNCHANGED <<oreq, cb>>

OutputNext == (\E n \in 0..MaxPerWrite : CappedWrite(n)) \/ FinishOutput

-----------------------------------------------------------------------------
(* What holds.                                                             *)

\* The n bytes of the stream after the first from.
Run(from, n) == [i \in 1..n |-> from + i]

\* Whatever the sizes of the writes, the buffer holds the first or the last
\* bytes written, in their order, as many as it may, and knows whether it
\* dropped any (Write, Bytes, truncated).
BufferKeepsTheEdge ==
  LET n == Less(cb.limit, cb.total)
      from == IF oreq.tail THEN cb.total - n ELSE 0
  IN  Bytes(cb) = Run(from, n) /\ IsTruncated(cb) = (cb.total > n)

\* Places where a character of the first t bytes begins, or their end, that
\* leave no more than max bytes, and the one of them that leaves most.
Edges(r, t) ==
  {i \in 0..t : (i = t \/ r.stream[i + 1] = "head") /\ IF r.tail THEN t - i <= r.max ELSE i <= r.max}
BestEdge(r, t) == CHOOSE i \in Edges(r, t) : \A j \in Edges(r, t) : IF r.tail THEN i <= j ELSE i >= j

WholeText(r, t) ==
  LET n == Less(r.max, t)
      edge == BestEdge(r, t)
  IN  CASE r.decode -> Run(IF r.tail THEN t - n ELSE 0, n)
        [] ~r.decode /\ r.tail -> Run(edge, t - edge)
        [] OTHER -> Run(0, edge)

\* The text of an answer is the longest run of whole characters at its end of
\* the output that fits max_output_bytes (of bytes, if it is decoded
\* afterwards), and the answer says truncated exactly if something is missing
\* (finishOutput, truncateToLimit).
TextIsWholeCharacters ==
  oans.done => /\ oans.text = WholeText(oreq, cb.total)
               /\ oans.truncated = (Len(oans.text) < cb.total)

\* From the writes of the command to the text of the answer nothing is lost that
\* fits (cappedBuffer, finishOutput).
OutputIsExact == BufferKeepsTheEdge /\ TextIsWholeCharacters

-----------------------------------------------------------------------------
(* Why it holds.                                                           *)

\* What a command may be asked to capture: text, so that a character begins at
\* most UTFMax bytes back.
OutputRequest(r) ==
  /\ r.stream \in Seq({"head", "more"}) /\ r.max \in Nat /\ r.tail \in BOOLEAN /\ r.decode \in BOOLEAN
  /\ \A i \in 1..Len(r.stream) : \E j \in 1..i : i - j < UTFMax /\ r.stream[j] = "head"

\* A ring of limit bytes that ends with the total-th, and begins behind start.
Ring(limit, total, start) ==
  [i \in 1..limit |-> IF i > start THEN total - limit + i - start ELSE total + i - start]

\* What the fields of the buffer say of one another between two writes.
BufferInv(b, tail) ==
  IF ~tail THEN ~b.full /\ b.start = 0 /\ b.buf = Run(0, Less(b.limit, b.total))
  ELSE IF ~b.full THEN b.start = 0 /\ b.total <= b.limit /\ b.buf = Run(0, b.total)
  ELSE b.start < b.limit /\ b.total >= b.limit /\ b.buf = Ring(b.limit, b.total, b.start)

OutputInv ==
  /\ OutputRequest(oreq)
  /\ cb \in [limit : {oreq.max + UTFMax - 1}, buf : Seq(Int), start : Nat, full : BOOLEAN,
             total : 0..Len(oreq.stream)]
  /\ BufferInv(cb, oreq.tail)
  /\ TextIsWholeCharacters

OutputSpec(requests) == OutputStarts(requests) /\ [][OutputNext]_outVars

=============================================================================
