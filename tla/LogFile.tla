------------------------------ MODULE LogFile ------------------------------
(***************************************************************************)
(* The log as its readers meet it: the file behind one path, written by    *)
(* other programs while remote_wait_for and remote_tail_log read it. It is *)
(* appended to byte by byte (a reader may see half a line), truncated in   *)
(* place, or rotated: moved away and created again as another inode.       *)
(* External to the repository; what matters of a byte is whether it ends a *)
(* line and what it adds to a match of the pattern.                        *)
(***************************************************************************)
EXTENDS Integers, Sequences, FiniteSetsExt

CONSTANTS
  MaxLen,      \* bound: bytes in the file
  MaxGens,     \* bound: files created and truncations
  MaxClock,    \* bound: the clock stops here
  MtimeGrain   \* resolution of the file system's mtime, in ticks

ASSUME LogFileAssumption ==
  MaxLen \in Nat \ {0} /\ MaxGens \in Nat \ {0} /\ MaxClock \in Nat /\ MtimeGrain \in Nat \ {0}

Newline == "n"
Bytes == {"x", "m", Newline}

\* The pattern: it matches at position j of b. Two bytes, so that it can be cut.
Hit(b, j) == b[j] = "x" /\ b[j + 1] = "m"

VARIABLES
  file,   \* [ino, gen, bytes, mtime]; ino = 0: no file. gen: one value per creation or truncation
  gens,   \* generations so far
  clock

logVars == <<file, gens, clock>>

Present == file.ino # 0
Size == Len(file.bytes)
Mtime == clock - (clock % MtimeGrain)

LogTypeOK ==
  /\ file \in [ino : 0..MaxGens, gen : 0..MaxGens, bytes : Seq(Bytes), mtime : 0..MaxClock]
  /\ Size <= MaxLen /\ gens \in 0..MaxGens /\ clock \in 0..MaxClock

\* A reader may start with no file, or with one that holds something.
LogStarts(contents) ==
  /\ clock = 0
  /\ \E b \in contents, i \in 0..1 :
       file = [ino |-> i, gen |-> i, bytes |-> IF i = 0 THEN <<>> ELSE b, mtime |-> 0]
  /\ gens = file.ino
LogInit == LogStarts({<<>>, <<"x">>, <<"x", "m">>, <<"x", Newline>>})

CreateFile ==
  /\ ~Present /\ gens < MaxGens
  /\ gens' = gens + 1
  /\ file' = [ino |-> gens + 1, gen |-> gens + 1, bytes |-> <<>>, mtime |-> Mtime]
  /\ UNCHANGED clock

AppendByte(b) ==
  /\ Present /\ Size < MaxLen
  /\ file' = [file EXCEPT !.bytes = Append(@, b), !.mtime = Mtime]
  /\ UNCHANGED <<gens, clock>>

TruncateFile ==
  /\ Present /\ Size > 0 /\ gens < MaxGens
  /\ gens' = gens + 1
  /\ file' = [file EXCEPT !.gen = gens + 1, !.bytes = <<>>, !.mtime = Mtime]
  /\ UNCHANGED clock

\* A write in place that keeps the size.
Overwrite(i, b) ==
  /\ i <= Size
  /\ file' = [file EXCEPT !.bytes[i] = b, !.mtime = Mtime]
  /\ UNCHANGED <<gens, clock>>

RemoveFile ==
  /\ Present
  /\ file' = [ino |-> 0, gen |-> 0, bytes |-> <<>>, mtime |-> 0]
  /\ UNCHANGED <<gens, clock>>

ClockTick ==
  /\ clock < MaxClock
  /\ clock' = clock + 1
  /\ UNCHANGED <<file, gens>>

\* A step of the writers, which append bytes of B.
LogStep(B) == CreateFile \/ TruncateFile \/ RemoveFile \/ (\E b \in B : AppendByte(b))

-----------------------------------------------------------------------------
(* Lines of a byte string, by position.                                    *)

LineStarts(b) == {i \in 1..Len(b) : i = 1 \/ b[i - 1] = Newline}
Newlines(b) == {i \in 1..Len(b) : b[i] = Newline}

\* The i-th number of S, smallest first.
Nth(S, i) == CHOOSE x \in S : Cardinality({y \in S : y <= x}) = i

\* Positions of the newlines, in order.
NewlineSeq(b) == [i \in 1..Cardinality(Newlines(b)) |-> Nth(Newlines(b), i)]

\* Position of the last newline of b, 0 if it has none.
LastNewline(b) == Max(Newlines(b) \cup {0})

=============================================================================
