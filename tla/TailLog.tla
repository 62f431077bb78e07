------------------------------ MODULE TailLog ------------------------------
(***************************************************************************)
(* remote_tail_log (taillog.go): a client that polls a growing log, each   *)
(* call with the cursor of the answer before. A call opens the path, reads *)
(* the size, then reads; with follow_seconds it sleeps and opens again     *)
(* until there is something new or its time is over. The client works      *)
(*   - by byte offset, starting from a call in tail mode (the last lines), *)
(*   - by line number, starting after line 1, or                           *)
(*   - with a filter in tail mode (one call: tailMatches, block by block). *)
(* windowEdges, which keeps a capped page from ending inside a character,  *)
(* may cut up to MaxTrim bytes here; what it cuts is in ReadWindows.       *)
(***************************************************************************)
EXTENDS LogFile

CONSTANTS
  TailLines,      \* lines asked for in tail mode
  TailMaxBytes,   \* max_bytes
  MaxTailLines,   \* lines one line-cursor call returns
  TailBlockSize,  \* tailBlockSize
  MaxTailScan,    \* maxTailScanBytes
  MaxTrim,        \* bytes of a cut character
  MaxTailed       \* bound: bytes in the file while it is tailed by a cursor

ASSUME TailLogAssumption ==
  /\ {TailLines, TailMaxBytes, MaxTailLines, TailBlockSize, MaxTailScan} \subseteq Nat \ {0}
  /\ MaxTrim \in Nat /\ MaxTailed \in Nat

VARIABLES
  tmode,    \* "none", "tail" (no cursor yet), "offset", "line", "match"
  tstep,    \* "idle", "open", "scanning", "done"
  cursor,   \* next since_offset or since_line
  fd,       \* the open file: [ino, gen, size] as of Open; bytes: once it was moved away
  page,     \* the answer of tail mode until the next: "none", "whole" or "truncated"
  scan,     \* tailMatches: [pos, upto, matches, truncated]
  got       \* ghost: [gen, base, bytes or lines returned since base]

tailVars == <<tmode, tstep, cursor, fd, page, scan, got>>

NoFd == [ino |-> 0, gen |-> 0, size |-> 0, bytes |-> <<>>]
NoScan == [pos |-> 0, upto |-> 0, matches |-> <<>>, truncated |-> FALSE]

TailTypeOK ==
  /\ tmode \in {"none", "tail", "offset", "line", "match"}
  /\ tstep \in {"idle", "open", "scanning", "done"}
  /\ cursor \in 0..MaxLen /\ (tmode \in {"offset", "line"} => cursor > 0)
  /\ page \in {"none", "whole", "truncated"}

TailStarts(mode) ==
  /\ tmode = mode /\ tstep = "idle" /\ fd = NoFd /\ scan = NoScan
  /\ cursor = IF mode = "line" THEN 1 ELSE 0
  /\ page = "none"
  /\ got = [gen |-> file.gen, base |-> cursor, data |-> <<>>]

\* The complete lines of b, without their newline.
Lines(b) ==
  LET nl == NewlineSeq(b)
  IN  [i \in 1..Len(nl) |-> SubSeq(b, IF i = 1 THEN 1 ELSE nl[i - 1] + 1, nl[i] - 1)]

-----------------------------------------------------------------------------
(* Open and stat. A missing file is an error; the client tries again. With  *)
(* follow_seconds a call without news sleeps and reads again with its own   *)
(* cursor: the client's next read, be it of this call or of the next.       *)

TailOpen ==
  /\ tstep = "idle" /\ tmode # "none" /\ Present
  /\ fd' = [ino |-> file.ino, gen |-> file.gen, size |-> Size, bytes |-> <<>>]
  /\ tstep' = IF tmode = "match" THEN "scanning" ELSE "open"
  /\ scan' = IF tmode = "match" THEN [NoScan EXCEPT !.pos = Size, !.upto = Size] ELSE scan
  /\ UNCHANGED <<logVars, tmode, cursor, page, got>>

\* What a read through fd sees: the file as it is now, or as it was moved away.
Behind == IF file.ino = fd.ino THEN file.bytes ELSE fd.bytes
BehindGen == IF file.ino = fd.ino THEN file.gen ELSE fd.gen

\* What the next call with this cursor is: since_offset=0 and since_line=0 are tail mode.
ModeOf(kind, c) == IF c = 0 THEN "tail" ELSE kind

\* The cursor counts in a file that is gone and nothing has shown it.
Astray == [gen |-> 0, base |-> 0, data |-> <<>>]

-----------------------------------------------------------------------------
(* since_offset                                                            *)

\* The file shrank below the cursor: restart from the head.
Shrunk == fd.size < cursor

\* A capped page ends at the last newline of its second half, and not inside a character.
CutPage(b) ==
  LET i == LastNewline(b)
      r == IF i > 0 /\ i - 1 >= Len(b) \div 2 THEN SubSeq(b, 1, i) ELSE b
  IN  {SubSeq(r, 1, e) : e \in {k \in 1..Len(r) : Len(r) - k <= MaxTrim}} \cup (IF r = <<>> THEN {r} ELSE {})

\* Mutant of EndOffset: the cursor is past the file although the page was capped.
EndOffsetSize(off, p) == fd.size

EndOffset(off, p) == off + Len(p)

ReadOffset ==
  /\ tstep = "open" /\ tmode = "offset"
  /\ LET off == IF Shrunk THEN 0 ELSE cursor
         toRead == Min({fd.size - off, TailMaxBytes})
         raw == SubSeq(Behind, off + 1, Min({off + toRead, Len(Behind)}))
         capped == fd.size - off > TailMaxBytes
     IN  \E p \in (IF capped THEN CutPage(raw) ELSE {raw}) :
           /\ cursor' = EndOffset(off, p)
           /\ tmode' = ModeOf("offset", cursor')
           /\ got' = IF Shrunk THEN [gen |-> BehindGen, base |-> 0, data |-> p]
                     ELSE IF got.gen = BehindGen /\ got.gen # 0 THEN [got EXCEPT !.data = @ \o p]
                     ELSE Astray
  /\ tstep' = "idle"
  /\ page' = "none" /\ fd' = NoFd
  /\ UNCHANGED <<logVars, scan>>

-----------------------------------------------------------------------------
(* since_line: collectLinesAfter. A last line without newline is not there yet. *)

\* How many of the lines after line c of b one call returns.
Fits(b, c) ==
  LET nl == NewlineSeq(b)
      Total(k) == nl[c + k] - nl[c] - k  \* bytes of k lines, newlines not counted
  IN  Max({0} \cup {k \in 1..Min({Len(nl) - c, MaxTailLines}) : Total(k) <= TailMaxBytes})

\* The next cursor when n lines of `all` were returned: past those, or past the file.
EndLine(all, n) == IF cursor + n < Len(all) THEN cursor + n ELSE Len(all)

ReadLine ==
  /\ tstep = "open" /\ tmode = "line"
  /\ \E all \in {Lines(Behind)} :
     LET n == IF Len(all) > cursor THEN Fits(Behind, cursor) ELSE 0
     IN  \/ /\ cursor' = EndLine(all, n)
            /\ tmode' = ModeOf("line", cursor')
            /\ got' = IF got.gen = BehindGen /\ got.gen # 0
                      THEN [got EXCEPT !.data = @ \o SubSeq(all, cursor + 1, cursor + n)] ELSE Astray
         \/ /\ Len(all) <= cursor  \* no news: sleep
            /\ UNCHANGED <<cursor, tmode, got>>
  /\ tstep' = "idle"
  /\ fd' = NoFd
  /\ UNCHANGED <<logVars, page, scan>>

-----------------------------------------------------------------------------
(* Tail mode without a filter: readTailBytes.                              *)

LastBytes(n, b) == SubSeq(b, Len(b) - n + 1, Len(b))

\* Blocks are read backwards until they hold more newlines than lines are
\* wanted, or max_bytes, or the whole file.
TailBuffer(b) ==
  LET cap == Min({Len(b), TailMaxBytes})
      sizes == {Min({k * TailBlockSize, cap}) : k \in 1..MaxLen}
      enough == {s \in sizes : Cardinality(Newlines(LastBytes(s, b))) > TailLines} \cup {cap}
  IN  LastBytes(Min(enough), b)

\* From the start of the last lines; without enough of them and capped, from the first line start.
FromLineStart(buf, nl, capped) ==
  SubSeq(buf, 1 + (CASE Len(nl) > TailLines -> nl[Len(nl) - TailLines]
                     [] Len(nl) \in 1..TailLines /\ capped -> nl[1]
                     [] OTHER -> 0), Len(buf))

\* Of a followed call only the last read counts, so it is not told apart from
\* one made later.
ReadTail ==
  /\ tstep = "open" /\ tmode = "tail"
  /\ \E b \in {SubSeq(Behind, 1, Min({fd.size, Len(Behind)}))} : \E buf \in {TailBuffer(b)} :
       LET capped == Len(buf) < Len(b) /\ Len(buf) >= TailMaxBytes
           p == FromLineStart(buf, NewlineSeq(buf), capped)
       IN  IF Len(b) < fd.size THEN page' = "none" /\ got' = Astray  \* truncated since the stat
           ELSE /\ page' = IF capped THEN "truncated" ELSE "whole"
                /\ got' = [gen |-> BehindGen, base |-> fd.size - Len(p), data |-> p]
  /\ cursor' = fd.size
  /\ tmode' = ModeOf("offset", cursor')
  /\ tstep' = "idle" /\ fd' = NoFd
  /\ UNCHANGED <<logVars, scan>>

-----------------------------------------------------------------------------
(* Tail mode with a filter: tailMatches.                                   *)

LineMatches(b, s) == \E j \in s..(Len(b) - 1) : Hit(b, j) /\ \A k \in s..j : b[k] # Newline
LineLen(b, s) == Min({e \in Newlines(b) : e >= s} \cup {Len(b) + 1}) - s

\* The lines that begin in bytes pos + 1..upto. The first may begin before pos.
StartsIn(b, pos, upto) ==
  {s \in LineStarts(b) : s <= upto /\ (pos < s - 1 \/ (s = 1 /\ pos = 0))}

\* Starts of the matching ones, newest first.
Matching(b, starts) ==
  LET hits == {s \in starts : LineMatches(b, s)}
      n == Cardinality(hits)
  IN  [i \in 1..n |-> Nth(hits, n + 1 - i)]

\* How many of the newest matches `all` max_bytes has room for.
Room(b, all) ==
  LET used[k \in 0..Len(all)] == IF k = 0 THEN 0 ELSE used[k - 1] + LineLen(b, all[k]) + 1
  IN  Max({k \in 0..Len(all) : \A j \in 1..k : used[j] - 1 <= TailMaxBytes})

ScanBlock ==
  /\ tstep = "scanning"
  /\ scan.pos > 0 /\ Len(scan.matches) < TailLines /\ ~scan.truncated
  /\ LET b == file.bytes
         read == Len(b) - scan.pos
         block == Min({Max({TailBlockSize, scan.upto - scan.pos}), scan.pos, MaxTailScan - read})
         pos == scan.pos - block
         starts == StartsIn(b, pos, scan.upto)
         found == scan.matches \o Matching(b, starts)
         all == SubSeq(found, 1, Min({TailLines, Len(found)}))
         upto == IF starts = {} THEN scan.upto ELSE Min(starts) - 1
     IN  scan' = IF read >= MaxTailScan THEN [scan EXCEPT !.truncated = TRUE]
                 ELSE [pos |-> pos, upto |-> upto, matches |-> SubSeq(all, 1, Room(b, all)),
                       truncated |-> Room(b, all) < Len(all)]
  /\ UNCHANGED <<logVars, tmode, tstep, cursor, fd, page, got>>

ScanDone ==
  /\ tstep = "scanning"
  /\ scan.pos = 0 \/ Len(scan.matches) >= TailLines \/ scan.truncated
  /\ tstep' = "done"
  /\ UNCHANGED <<logVars, tmode, cursor, fd, page, scan, got>>

TailPoll == TailOpen \/ ReadOffset \/ ReadLine \/ ReadTail
TailCall == TailPoll \/ ScanBlock \/ ScanDone

\* A client with a filter asks once, of a file written before; for the others
\* it makes no difference what matches.
TailEnv ==
  /\ \/ tmode = "match" /\ tstep = "idle" /\ LogStep(Bytes)
     \/ tmode \in {"tail", "offset", "line"} /\ LogStep({"x", Newline}) /\ Len(file'.bytes) <= MaxTailed
  /\ got' = IF got.gen # file'.gen THEN Astray ELSE got
  /\ fd' = IF fd.ino # 0 /\ fd.ino = file.ino /\ file'.ino = 0 THEN [fd EXCEPT !.bytes = file.bytes] ELSE fd
  /\ UNCHANGED <<tmode, tstep, cursor, page, scan>>

TailNext == TailCall \/ TailEnv

-----------------------------------------------------------------------------
(* Properties.                                                             *)

\* The file is the one that the cursor counts in.
Tracked == Present /\ got.gen = file.gen

\* Pages join: as long as the file is the one the cursor counts in, what a
\* byte-offset client was given is the file from where it started up to its
\* cursor, nothing missing and nothing twice, capped pages included.
OffsetPagesJoin ==
  tmode = "offset" /\ Tracked =>
    got.data = SubSeq(file.bytes, got.base + 1, cursor)

\* The same for lines: a line-cursor client gets every complete line after its
\* first cursor once, in order, and never half a line, although the capped
\* answer and the uncapped one compute end_line differently.
LinePagesJoin ==
  tmode = "line" /\ Tracked =>
    got.data = SubSeq(Lines(file.bytes), got.base + 1, cursor)

\* Tail mode returns the end of the file from the start of a line: the last N
\* complete lines and the unfinished one, however the blocks fall; less only
\* when it says truncated.
TailIsLastLines ==
  tmode = "offset" /\ page # "none" /\ Tracked =>
    LET n == Cardinality(Newlines(got.data))
        atLine == got.base = 0 \/ file.bytes[got.base] = Newline
    IN  /\ page = "whole" => atLine /\ (n = TailLines \/ got.base = 0)
        /\ n <= TailLines /\ Len(got.data) <= TailMaxBytes
        /\ atLine \/ n = 0

\* The newest matches, at most n, of the lines of b that begin after byte u.
Newest(b, u, n) ==
  LET all == Matching(b, {s \in LineStarts(b) : s > u})
  IN  SubSeq(all, 1, Min({n, Len(all)}))

\* grep X log | tail -n N: at every block the matches found are the newest of
\* the whole file, in order; all the wanted ones at the end, unless truncated.
MatchesAreLast ==
  tmode = "match" /\ tstep \in {"scanning", "done"} =>
    /\ \E k \in 0..TailLines : scan.matches = Newest(file.bytes, 0, k)
    /\ tstep = "done" /\ ~scan.truncated => scan.matches = Newest(file.bytes, 0, TailLines)

\* A client that keeps polling catches up with a file that stays: capped pages
\* always advance, and an offset left behind by a truncation recovers. A line
\* longer than max_bytes stops a line cursor; the others do not.
LinesFit == \A s \in LineStarts(file.bytes) : LineLen(file.bytes, s) <= TailMaxBytes

TailCatchesUp ==
  /\ <>[](tmode \in {"tail", "offset"} /\ Present) => <>[](cursor = Size)
  /\ <>[](tmode = "line" /\ Present /\ LinesFit) => <>[](cursor >= Cardinality(Newlines(file.bytes)))

\* Whichever way a client reads on, remote_tail_log leaves nothing out and gives
\* nothing twice, and says so when it had to (TailLog, tailReadOnce,
\* collectLinesAfter, tailMatches).
TailAnswersHold == TailTypeOK /\ OffsetPagesJoin /\ LinePagesJoin /\ TailIsLastLines /\ MatchesAreLast

-----------------------------------------------------------------------------
(* Why it holds.                                                           *)

\* A client, in one of the modes it may start in, of a log that may hold any of
\* contents.
TailSpec(contents) ==
  LogStarts(contents) /\ (\E m \in {"tail", "line", "match"} : TailStarts(m)) /\ [][TailNext]_<<logVars, tailVars>>

TailStateOK ==
  /\ fd \in [ino : 0..MaxGens, gen : 0..MaxGens, size : 0..MaxLen, bytes : Seq(Bytes)] /\ Len(fd.bytes) <= MaxLen
  /\ got \in [gen : 0..MaxGens, base : 0..MaxLen, data : {got.data}]

\* Generations only grow; a call whose client is on track has the file open that
\* its cursor counts in, and finds at least what it saw at the stat.
OpenInv ==
  /\ file.gen <= gens /\ fd.gen <= gens /\ got.gen <= gens /\ (Present <=> file.gen > 0)
  /\ tstep = "open" => fd.gen > 0 /\ (fd.gen = file.gen => fd.ino = file.ino /\ fd.size <= Size)
  /\ tstep = "open" /\ Tracked => fd.gen = file.gen

\* The cursor is in the file, not before where the client began.
CursorInv ==
  Tracked =>
    /\ tmode = "offset" => got.base <= cursor /\ cursor <= Size
    /\ tmode = "line" => got.base = 1 /\ (cursor = 1 \/ cursor <= Len(Lines(file.bytes)))

\* Unless truncated, the matches are the newest of the lines that begin after
\* upto, and once the scan is at byte 0 these are all.
ScanInv ==
  tmode = "match" /\ tstep \in {"scanning", "done"} =>
    /\ scan \in [pos : 0..Size, upto : 0..Size, matches : {scan.matches}, truncated : BOOLEAN]
    /\ ~scan.truncated => scan.matches = Newest(file.bytes, scan.upto, TailLines)
    /\ ~scan.truncated /\ scan.pos = 0 => \A s \in LineStarts(file.bytes) : s > scan.upto

TailInv ==
  LogTypeOK /\ TailTypeOK /\ TailStateOK /\ OpenInv /\ CursorInv /\ ScanInv
  /\ OffsetPagesJoin /\ LinePagesJoin /\ TailIsLastLines /\ MatchesAreLast

=============================================================================
