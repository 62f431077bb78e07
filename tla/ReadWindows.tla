---------------------------- MODULE ReadWindows ----------------------------
(***************************************************************************)
(* remote_read_file (readops.go): one window of a file per call, by bytes, *)
(* by lines, the last bytes or the last lines, trimmed so that no window   *)
(* cuts a character of UTF-8, GBK or GB18030 (fileops.go: utf8Edges,       *)
(* detectEncoding). A client reads on at the cursor it was given until the *)
(* file ends. A file is a sequence of bytes, of which only the class       *)
(* matters: "n" a newline, "d" a digit, "a" a letter, "C" and "E" lead     *)
(* bytes of two and three byte UTF-8 characters, "T" a continuation byte;  *)
(* the last three are all lead and trail bytes of GBK. Bytes that only     *)
(* other GB18030 rows use, NUL and invalid UTF-8 are left out.             *)
(***************************************************************************)
EXTENDS Integers, Sequences, FiniteSets

CONSTANT
  NoCursor  \* nothing to read on; no cursor of these files

VARIABLES
  rreq,   \* the request: [file, mode, enc, max, at, to], to: end_line or tail_lines
  rat,    \* cursor of the last call: an offset, or a line number
  rpage,  \* its window: [off, len, more, capped, next, cut, enc]
  rnext   \* cursor to go on with

readVars == <<rreq, rat, rpage, rnext>>

LeastOf(a, b) == IF a < b THEN a ELSE b
MostOf(a, b) == IF a > b THEN a ELSE b
MaxIn(S) == CHOOSE x \in S : \A y \in S : y <= x
MinIn(S) == CHOOSE x \in S : \A y \in S : x <= y
CutOut(f, off, len) == SubSeq(f, off + 1, off + len)

-----------------------------------------------------------------------------
(* UTF-8 and GBK.                                                          *)

RuneStart(b) == b # "T"
High(b) == b \in {"C", "E", "T"}

\* utf8.FullRune of s[i..]: not cut off by the end of s.
FullRune(s, i) ==
  CASE s[i] = "C" -> i + 1 <= Len(s)
    [] s[i] = "E" -> i + 2 <= Len(s) \/ (i + 1 = Len(s) /\ s[i + 1] # "T")
    [] OTHER -> TRUE

\* utf8.DecodeRune at s[i]: the length of the character, 0 if it is invalid.
RuneLen(s, i) ==
  CASE s[i] = "C" -> IF i + 1 <= Len(s) /\ s[i + 1] = "T" THEN 2 ELSE 0
    [] s[i] = "E" -> IF i + 2 <= Len(s) /\ s[i + 1] = "T" /\ s[i + 2] = "T" THEN 3 ELSE 0
    [] s[i] = "T" -> 0
    [] OTHER -> 1

\* utf8Sequences from s[i]: <<good, bad>>.
RECURSIVE Utf8Sequences(_, _, _, _)
Utf8Sequences(s, i, good, bad) ==
  IF i > Len(s) THEN <<good, bad>>
  ELSE LET n == RuneLen(s, i)
       IN  Utf8Sequences(s, i + MostOf(n, 1), IF n > 1 THEN good + 1 ELSE good, IF n = 0 THEN bad + 1 ELSE bad)

\* gbkPairs from s[i]: <<good, bad>>.
RECURSIVE GbkPairs(_, _, _, _)
GbkPairs(s, i, good, bad) ==
  IF i > Len(s) \/ (i = Len(s) /\ High(s[i])) THEN <<good, bad>>
  ELSE IF ~High(s[i]) THEN GbkPairs(s, i + 1, good, bad)
  ELSE IF s[i + 1] \notin {"n", "d"} THEN GbkPairs(s, i + 2, good + 1, bad)
  ELSE GbkPairs(s, i + 1, good, bad + 1)

\* utf8Edges: [start, end] of s without the characters its edges cut.
Utf8Edges(s) ==
  LET starts == {i \in 0..LeastOf(Len(s), 3) : \A j \in 1..i : ~RuneStart(s[j])}
      start == MaxIn(starts)
      heads == {i \in MostOf(start + 1, Len(s) - 3)..Len(s) : RuneStart(s[i])}
      cut == heads # {} /\ ~FullRune(s, MaxIn(heads))
  IN  [start |-> start, end |-> IF cut THEN MaxIn(heads) - 1 ELSE Len(s)]

DetectEncoding(s) ==
  LET e == Utf8Edges(s)
      u == Utf8Sequences(CutOut(s, e.start, e.end - e.start), 1, 0, 0)
      g == GbkPairs(s, 1, 0, 0)
  IN  CASE u[2] = 0 -> "utf-8"
        [] u[1] > 0 /\ (u[2] * 50 <= u[1] \/ u[2] <= g[2]) -> "utf-8"
        [] g[1] > 0 /\ g[2] * 20 <= g[1] /\ g[2] < u[2] -> "gbk"
        [] OTHER -> "unknown"

IsGB(enc) == enc \in {"gbk", "gb18030"}

\* gbCharLen at s[i]: a character cut off by the end counts in full.
GbCharLen(s, i, enc) ==
  LET left == Len(s) - i + 1
  IN  CASE ~High(s[i]) -> 1
        [] left < 2 -> 2
        [] s[i + 1] \notin {"n", "d"} -> 2
        [] enc = "gb18030" /\ s[i + 1] = "d" ->
             IF (left > 2 /\ ~High(s[i + 2])) \/ (left > 3 /\ s[i + 3] # "d") THEN 1 ELSE 4
        [] OTHER -> 1

\* gbWholeChars of s from i on: where its last whole character ends.
RECURSIVE GbWholeChars(_, _, _)
GbWholeChars(s, i, enc) ==
  IF i > Len(s) \/ i + GbCharLen(s, i, enc) - 1 > Len(s) THEN i - 1
  ELSE GbWholeChars(s, i + GbCharLen(s, i, enc), enc)

\* Mutant of GbLastBoundary: in GB18030 too a digit is taken for a character.
GbLastBoundaryDigit(s, enc) == MaxIn({i \in 1..Len(s) : s[i] \in {"n", "d"}} \cup {0})

\* gbLastBoundary: the last byte that can only be a character of its own; 0 if none.
GbLastBoundary(s, enc) ==
  MaxIn({i \in 1..Len(s) : s[i] \in (IF enc = "gb18030" THEN {"n"} ELSE {"n", "d"})} \cup {0})

\* gbHeadSkip: bytes of the window at off that belong to a character begun
\* before it. gbSyncScan reaches the start of these files.
RECURSIVE GbSkipFrom(_, _, _, _)
GbSkipFrom(s, p, off, enc) == IF p >= off THEN p - off ELSE GbSkipFrom(s, p + GbCharLen(s, p + 1, enc), off, enc)

GbHeadSkip(f, off, len, enc) ==
  IF off = 0 \/ len = 0 THEN 0
  ELSE LeastOf(len, GbSkipFrom(CutOut(f, 0, off + LeastOf(len, 4)), GbLastBoundary(CutOut(f, 0, off), enc), off, enc))

\* windowEdges: [start, end] of data without what the edges of the window cut.
WindowEdges(data, enc, head, tail) ==
  CASE IsGB(enc) -> [start |-> 0, end |-> IF tail THEN GbWholeChars(data, GbLastBoundary(data, enc) + 1, enc) ELSE Len(data)]
    [] enc = "utf-8" ->
         LET e == Utf8Edges(data)
             start == IF head THEN e.start ELSE 0
         IN  [start |-> start, end |-> IF tail THEN MostOf(e.end, start) ELSE Len(data)]
    [] OTHER -> [start |-> 0, end |-> Len(data)]

-----------------------------------------------------------------------------
(* Windows: [off, len, more, capped, next, cut]. next is the start_line of   *)
(* the next line window.                                                     *)

NewlinesIn(f, off, len) == {i \in 1..len : f[off + i] = "n"}
LineStartsAt(f, off) == off = 0 \/ f[off] = "n"
LineOffsets(f) == {o \in 0..(Len(f) - 1) : LineStartsAt(f, o)}
WindowLines(f, off, len) ==
  Cardinality(NewlinesIn(f, off, len)) + (IF len > 0 /\ f[off + len] # "n" THEN 1 ELSE 0)

\* readByteWindow: up to the last newline, when that lies in its second half.
ByteWindow(f, offset, max) ==
  LET off == LeastOf(offset, Len(f))
      n == LeastOf(max, Len(f) - off)
      nl == {i \in NewlinesIn(f, off, n) : i - 1 >= n \div 2}
      more == off + n < Len(f)
  IN  [off |-> off, len |-> IF more /\ nl # {} THEN MaxIn(nl) ELSE n, more |-> more, capped |-> more, next |-> 0, cut |-> FALSE]

\* alignToLine, for truncate_mode=tail.
AlignToLine(f, w) ==
  LET nl == NewlinesIn(f, w.off, w.len)
  IN  IF LineStartsAt(f, w.off) \/ nl = {} \/ MinIn(nl) - 1 >= w.len \div 2 THEN w
      ELSE [w EXCEPT !.off = @ + MinIn(nl), !.len = @ - MinIn(nl)]

\* The last max bytes, when the file is longer than max behind the offset.
TailBytesWindow(f, offset, max) ==
  IF Len(f) - max > offset THEN AlignToLine(f, ByteWindow(f, Len(f) - max, max)) ELSE ByteWindow(f, offset, max)

\* Offset of line k, the size if there is none.
LineOffset(f, k) ==
  LET s == {o \in LineOffsets(f) : Cardinality({p \in LineOffsets(f) : p <= o}) = k}
  IN  IF s = {} THEN Len(f) ELSE MaxIn(s)

\* The line after the last one, from start to end, that fits in max.
FirstUnread(f, start, end, max) ==
  LET off == LineOffset(f, start)
      L == Cardinality(LineOffsets(f))
      over == {k \in start..LeastOf(L, end) : LineOffset(f, k + 1) - off > max}
  IN  IF over = {} THEN LeastOf(L, end) + 1 ELSE MinIn(over)

\* readLineWindow: lines start..end, at most max bytes of them; a first line
\* longer than that is cut.
LineWindow(f, start, end, max) ==
  LET off == LineOffset(f, start)
      next == FirstUnread(f, start, end, max)
      len == LineOffset(f, next) - off
      more == off + len < Len(f)
  IN  CASE off = Len(f) -> [off |-> off, len |-> 0, more |-> FALSE, capped |-> FALSE, next |-> 0, cut |-> FALSE]
        [] next = start -> [off |-> off, len |-> max, more |-> TRUE, capped |-> TRUE, next |-> start + 1, cut |-> TRUE]
        [] OTHER -> [off |-> off, len |-> len, more |-> more, capped |-> more /\ next <= end,
                     next |-> IF more THEN next ELSE 0, cut |-> FALSE]

OneLineTooMany(f, off, len, n) == WindowLines(f, off, len) > n

\* readTailBytes and readTailWindow: the last n lines, at most max bytes of them.
LastLinesWindow(f, n, max) ==
  LET cap == LeastOf(Len(f), max)
      base == Len(f) - cap
      nl == NewlinesIn(f, base, cap)
      short == cap < Len(f)
      keep(m) == MaxIn({i \in nl \cup {0} : Cardinality({j \in nl : j <= i}) <= Cardinality(nl) - m})
      from == IF Cardinality(nl) > n THEN keep(n) ELSE IF short /\ nl # {} THEN MinIn(nl) ELSE 0
      skip == IF OneLineTooMany(f, base + from, cap - from, n) THEN keep(n - 1) ELSE from
      off == base + skip
  IN  [off |-> off, len |-> Len(f) - off, more |-> FALSE, next |-> 0, cut |-> FALSE,
       capped |-> short /\ (WindowLines(f, off, Len(f) - off) < n \/ ~LineStartsAt(f, off))]

-----------------------------------------------------------------------------
(* A call and its cursors.                                                 *)

RawWindow(r, at) ==
  CASE r.mode = "bytes" -> ByteWindow(r.file, at, r.max)
    [] r.mode = "tail" -> TailBytesWindow(r.file, at, r.max)
    [] r.mode = "lines" -> LineWindow(r.file, at, r.to, r.max)
    [] r.mode = "last" -> LastLinesWindow(r.file, r.to, r.max)

\* ReadFileContent: a window smaller than one character is kept as it is.
Trimmed(f, w, asked) ==
  LET enc == IF asked = "auto" THEN DetectEncoding(CutOut(f, w.off, w.len)) ELSE asked
      midLine == ~LineStartsAt(f, w.off)
      skip == IF midLine /\ IsGB(enc) THEN GbHeadSkip(f, w.off, w.len, enc) ELSE 0
      e == WindowEdges(CutOut(f, w.off + skip, w.len - skip), enc, midLine /\ ~IsGB(enc), w.more)
      v == IF e.end > e.start THEN [w EXCEPT !.off = @ + skip + e.start, !.len = e.end - e.start] ELSE w
  IN  [off |-> v.off, len |-> v.len, more |-> v.more, capped |-> v.capped, next |-> v.next, cut |-> v.cut, enc |-> enc]

\* readCursors
Cursor(r, w) ==
  CASE r.mode = "bytes" /\ w.more -> w.off + w.len
    [] r.mode = "lines" /\ w.next > 0 /\ w.next <= r.to -> w.next
    [] OTHER -> NoCursor

NoPage == [off |-> 0, len |-> 0, more |-> TRUE, capped |-> FALSE, next |-> 0, cut |-> FALSE, enc |-> "none"]

ReadStarts(requests) == rreq \in requests /\ rat = NoCursor /\ rpage = NoPage /\ rnext = rreq.at

ReadFileContent ==
  /\ rnext # NoCursor
  /\ \E w \in {Trimmed(rreq.file, RawWindow(rreq, rnext), rreq.enc)} :
       rpage' = w /\ rat' = rnext /\ rnext' = Cursor(rreq, w)
  /\ UNCHANGED rreq

-----------------------------------------------------------------------------
(* What holds.                                                             *)

CharLen == CASE rreq.enc = "gbk" -> 2 [] rreq.enc = "gb18030" -> 4 [] OTHER -> 3

\* Offsets at which a character of the whole file starts or the file ends.
RECURSIVE GbStarts(_, _, _)
GbStarts(f, p, enc) == IF p >= Len(f) THEN {Len(f)} ELSE {p} \cup GbStarts(f, p + GbCharLen(f, p + 1, enc), enc)
CharStarts ==
  IF IsGB(rreq.enc) THEN GbStarts(rreq.file, 0, rreq.enc)
  ELSE {o \in 0..Len(rreq.file) : o = Len(rreq.file) \/ RuneStart(rreq.file[o + 1])}

PageEnd == rpage.off + rpage.len
Called == rat # NoCursor

\* Reading on by next_offset gives the file without a gap and without a byte
\* twice, and comes to its end: every window starts where the one before ended,
\* holds at least one byte if there is one, and only the last one ends the file
\* (readByteWindow, windowEdges, gbHeadSkip, readCursors).
BytePagesJoin ==
  Called /\ rreq.mode = "bytes" =>
    /\ rat \in CharStarts => rpage.off = LeastOf(rat, Len(rreq.file))
    /\ rnext # NoCursor => rnext = PageEnd /\ rnext > rat
    /\ rnext = NoCursor => PageEnd = Len(rreq.file)

\* No window starts or ends inside a character of the file, whichever bytes lie
\* at its edges, if max_bytes leaves room for one whole character from where it
\* was asked to start (utf8Edges, gbHeadSkip, gbWholeChars).
NoCharacterCut ==
  LET onChar == rreq.mode = "lines" \/ (rreq.mode = "bytes" /\ rat \in CharStarts)
      room == IF onChar THEN CharLen ELSE 2 * CharLen - 1
  IN  Called /\ rpage.len > 0 /\ rreq.max >= room /\ (\E c \in CharStarts : rat <= c /\ c < Len(rreq.file)) =>
        {rpage.off, PageEnd} \subseteq CharStarts

\* A window cut out of UTF-8 text is never taken for GBK (detectEncoding).
CutTextIsUtf8 == Called /\ rreq.enc = "auto" => rpage.enc = "utf-8"

\* Reading on by next_start_line gives every line from the first to end_line:
\* a window holds whole lines from start_line up to the next window's, except a
\* line that alone is longer than max_bytes, whose window is a part of it
\* (readLineWindow, readCursors).
LinePagesCover ==
  Called /\ rreq.mode = "lines" =>
    LET last == IF rnext = NoCursor THEN rreq.to ELSE rnext - 1
    IN  /\ rpage.off = LineOffset(rreq.file, rat)
        /\ IF rpage.cut THEN rpage.len \in 1..rreq.max /\ (rnext # NoCursor => rnext = rat + 1)
                             /\ PageEnd < LineOffset(rreq.file, rat + 1)
           ELSE PageEnd = LineOffset(rreq.file, last + 1) /\ rpage.len <= rreq.max

\* The last lines of a file are exactly that: not one more because the last has
\* no newline, and fewer, or one without its head, only when the answer says
\* that it was capped (readTailWindow).
LastLinesExact ==
  Called /\ rreq.mode = "last" =>
    LET n == Cardinality(LineOffsets(rreq.file))
        want == LineOffset(rreq.file, MostOf(n - rreq.to, 0) + 1)
    IN  /\ PageEnd = Len(rreq.file)
        /\ ~rpage.capped => rpage.off = want
        /\ rpage.capped => rpage.off > want

\* Windows joined by their cursors are the file: no byte or line missing or
\* twice, no character cut, no encoding mistaken (ReadFileContent).
WindowsAreExact == BytePagesJoin /\ NoCharacterCut /\ CutTextIsUtf8 /\ LinePagesCover /\ LastLinesExact

=============================================================================
