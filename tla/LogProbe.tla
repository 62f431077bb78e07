------------------------------ MODULE LogProbe -----------------------------
(***************************************************************************)
(* The probes of remote_wait_for on a file: file_exists, file_contains and *)
(* log_regex (buildProbe, scanFileForMatch of waitfor.go). One check is a  *)
(* stat of the path, then an open and a scan of whatever is at the path by *)
(* then; between the two, and between two checks, the file is written,     *)
(* truncated and rotated. What a closure remembers from check to check is  *)
(* here `offset` and `seen` of log_regex and `scanned` of file_contains.   *)
(* Checks repeat until one is satisfied; deadlines are in module Waits.    *)
(***************************************************************************)
EXTENDS LogFile

CONSTANTS
  MaxScan,      \* maxWaitScanBytes: bytes one scan reads
  MaxLineHead,  \* maxWaitLineBytes: bytes of a line the pattern is matched on
  SettleTime,   \* age an mtime must have for an unchanged file to be skipped
  MaxContains   \* bound: bytes in the file while file_contains watches it

ASSUME LogProbeAssumption ==
  /\ MaxScan \in Nat \ {0} /\ MaxLineHead \in 1..MaxScan
  /\ SettleTime \in Nat /\ SettleTime >= MtimeGrain
  /\ MaxContains \in Nat

Conditions == {"file_exists", "file_contains", "log_regex"}

VARIABLES
  cond,      \* the condition; "none": nobody waits
  step,      \* "stat", "at", "scan", or "satisfied"
  fi,        \* os.FileInfo of this check's stat
  at,        \* file_contains: time just before this check's scan
  offset,    \* log_regex: bytes scanned so far
  seen,      \* log_regex: inode of the last stat, 0 for nil
  scanned,   \* file_contains: stat of the last scan without a match; ino = 0 for nil
  scannedAt, \* ... and its time
  ghost      \* [start, base]: the generation the wait began in, and where; [gen]: the last one read from 0;
             \* [changed]: the file was written after the last scan; [stale]: a skip missed that

probeVars == <<cond, step, fi, at, offset, seen, scanned, scannedAt, ghost>>

NoInfo == [ino |-> 0, size |-> 0, mtime |-> 0]
Stat == [ino |-> file.ino, size |-> Size, mtime |-> file.mtime]
Infos == [ino : 0..MaxGens, size : 0..MaxLen, mtime : 0..MaxClock]

ProbeTypeOK ==
  /\ cond \in Conditions \cup {"none"} /\ step \in {"stat", "at", "scan", "satisfied"}
  /\ fi \in Infos /\ scanned \in Infos /\ at \in 0..MaxClock /\ scannedAt \in 0..MaxClock
  /\ offset \in 0..MaxLen /\ seen \in 0..MaxGens

\* buildProbe: log_regex counts only what is appended from now on.
ProbeStarts(c) ==
  /\ cond = c /\ step = "stat"
  /\ offset = (IF c = "log_regex" THEN Size ELSE 0)
  /\ seen = (IF c = "log_regex" THEN file.ino ELSE 0)
  /\ fi = NoInfo /\ scanned = NoInfo /\ at = 0 /\ scannedAt = 0
  /\ ghost = [start |-> file.gen, base |-> offset, gen |-> file.gen, changed |-> FALSE, stale |-> FALSE]

-----------------------------------------------------------------------------
(* scanFileForMatch(path, off)                                             *)

\* What one call reads.
Window(b, off) == SubSeq(b, off + 1, IF off + MaxScan < Len(b) THEN off + MaxScan ELSE Len(b))

\* The line that starts at s matches on its first MaxLineHead bytes.
MatchesFrom(b, s) ==
  \E j \in s..(Len(b) - 1) :
    /\ j + 1 < s + MaxLineHead /\ Hit(b, j)
    /\ \A k \in s..j : b[k] # Newline

Found(b, off) == \E s \in LineStarts(Window(b, off)) : MatchesFrom(Window(b, off), s)

\* Mutants of Consumed: half a line is counted as read; a line longer than
\* the read cap is not skipped.
ConsumedHalfLine(b, off) == Len(Window(b, off))
ConsumedNoSkip(b, off) == LastNewline(Window(b, off))

\* Bytes of complete lines scanned; a line that fills the read cap is skipped.
Consumed(b, off) ==
  LET w == Window(b, off)
  IN  IF Newlines(w) = {} /\ Len(w) = MaxScan THEN Len(w) ELSE LastNewline(w)

-----------------------------------------------------------------------------
(* One check.                                                              *)

NotPresent ==
  /\ step = "stat" /\ cond \in Conditions /\ ~Present
  /\ UNCHANGED <<logVars, probeVars>>

FileExists ==
  /\ step = "stat" /\ cond = "file_exists" /\ Present
  /\ step' = "satisfied"
  /\ UNCHANGED <<logVars, cond, fi, at, offset, seen, scanned, scannedAt, ghost>>

\* Truncated, or rotated to a new file: start over.
Restart == Size < offset \/ (seen # 0 /\ seen # file.ino)

StatLog ==
  /\ step = "stat" /\ cond = "log_regex" /\ Present
  /\ offset' = IF Restart THEN 0 ELSE offset
  /\ seen' = file.ino
  /\ ghost' = IF offset' = 0 THEN [ghost EXCEPT !.gen = file.gen] ELSE ghost
  /\ step' = "scan"
  /\ UNCHANGED <<logVars, cond, fi, at, scanned, scannedAt>>

ScanLog ==
  /\ step = "scan" /\ cond = "log_regex"
  /\ \/ /\ Present /\ Found(file.bytes, offset)
        /\ step' = "satisfied" /\ UNCHANGED offset
     \/ /\ Present /\ ~Found(file.bytes, offset)
        /\ step' = "stat" /\ offset' = offset + Consumed(file.bytes, offset)
     \/ /\ ~Present
        /\ step' = "stat" /\ UNCHANGED offset
  /\ UNCHANGED <<logVars, cond, fi, at, seen, scanned, scannedAt, ghost>>

\* Same inode, size and mtime, and the mtime was old when the last scan ran.
Unchanged == scanned # NoInfo /\ Stat = scanned /\ scannedAt - file.mtime > SettleTime

StatContains ==
  /\ step = "stat" /\ cond = "file_contains" /\ Present
  /\ fi' = Stat
  /\ step' = IF Unchanged THEN "stat" ELSE "at"
  /\ ghost' = [ghost EXCEPT !.stale = Unchanged /\ ghost.changed]
  /\ UNCHANGED <<logVars, cond, at, offset, seen, scanned, scannedAt>>

\* time.Now() between the stat and the scan.
TakeAt ==
  /\ step = "at"
  /\ at' = clock /\ step' = "scan"
  /\ UNCHANGED <<logVars, cond, fi, offset, seen, scanned, scannedAt, ghost>>

ScanContains ==
  /\ step = "scan" /\ cond = "file_contains"
  /\ \/ /\ Present /\ Found(file.bytes, 0)
        /\ step' = "satisfied" /\ UNCHANGED <<scanned, scannedAt, ghost>>
     \/ /\ Present /\ ~Found(file.bytes, 0)
        /\ step' = "stat" /\ scanned' = fi /\ scannedAt' = at
        /\ ghost' = [ghost EXCEPT !.changed = FALSE]
     \/ /\ ~Present
        /\ step' = "stat" /\ UNCHANGED <<scanned, scannedAt, ghost>>
  /\ UNCHANGED <<logVars, cond, fi, at, offset, seen>>

Probe ==
  NotPresent \/ FileExists \/ StatLog \/ ScanLog \/ StatContains \/ TakeAt \/ ScanContains

\* Others write the file. A log is never overwritten in place, and only
\* file_contains looks at the clock.
ProbeEnv ==
  /\ cond # "none" /\ step # "satisfied"
  /\ \/ LogStep(Bytes)
     \/ cond = "file_contains" /\ (ClockTick \/ \E i \in 1..Size : \E b \in Bytes : Overwrite(i, b))
  /\ cond = "file_contains" => Len(file'.bytes) <= MaxContains
  /\ ghost' = [ghost EXCEPT !.changed = cond = "file_contains" /\ (@ \/ file' # file)]
  /\ UNCHANGED <<cond, step, fi, at, offset, seen, scanned, scannedAt>>

ProbeNext == Probe \/ ProbeEnv

-----------------------------------------------------------------------------
(* Properties.                                                             *)

\* What counts for log_regex: what was appended since the wait began, and all
\* of a file that took the place of the first one. A truncation counts as a new
\* start once a check has noticed it: regrown past the offset before the next
\* check it cannot be told from appended lines.
Counted == SubSeq(file.bytes, (IF file.gen = ghost.start THEN ghost.base ELSE 0) + 1, Size)
Noticed == file.gen = file.ino \/ file.gen = ghost.gen

\* log_regex passes over no match: no complete line that counts lies below the
\* offset with a match on its head, whatever half lines, over-long lines,
\* truncations and rotations the checks met.
LogPassesNoMatch ==
  cond = "log_regex" /\ Present /\ seen = file.ino /\ Noticed =>
    \A s \in LineStarts(Counted), e \in Newlines(Counted) :
      MatchesFrom(Counted, s) /\ s <= e => e + Size - Len(Counted) > offset

\* file_contains never takes a changed file for the one it scanned: a check
\* that skips the scan skips a file nobody has written since the last scan.
SkipIsSound == ~ghost.stale

\* Something that the probe has to report is in the file.
Reportable ==
  /\ Present
  /\ CASE cond = "file_exists" -> TRUE
       [] cond = "file_contains" -> Found(file.bytes, 0)
       [] cond = "log_regex" ->
            Noticed /\ \E s \in LineStarts(Counted) : MatchesFrom(Counted, s)
       [] OTHER -> FALSE

\* A match that stays in the file is found: neither a half line, nor a line
\* longer than one scan before it, nor an earlier rotation hides it for good.
MatchIsFound == <>[]Reportable => <>(step = "satisfied")

\* A check of a wait on a file misses nothing: log_regex passes over no match,
\* file_contains skips no changed file (buildProbe, scanFileForMatch).
ProbeMissesNothing == LogTypeOK /\ ProbeTypeOK /\ LogPassesNoMatch /\ SkipIsSound

-----------------------------------------------------------------------------
(* Why nothing is missed.                                                  *)

\* Where in the file the counting begins.
Base == IF file.gen = ghost.start THEN ghost.base ELSE 0

\* No line of b after base that begins at or below off matches, nor will one: its
\* end, or all of its head, is below off too.
Passed(b, base, off) ==
  /\ base <= off /\ off <= Len(b)
  /\ \A i \in (base + 1)..off :
       i = base + 1 \/ b[i - 1] = Newline =>
         /\ ~MatchesFrom(b, i)
         /\ (\E e \in i..off : b[e] = Newline) \/ i + MaxLineHead - 1 <= off

GhostTypeOK ==
  ghost \in [start : 0..MaxGens, base : 0..MaxLen, gen : 0..MaxGens, changed : BOOLEAN, stale : BOOLEAN]

\* Generations only grow, and a file seen before is never taken for a new one.
GenerationsInv ==
  /\ file.ino <= gens /\ file.gen <= gens /\ seen <= gens /\ ghost.gen <= gens /\ ghost.start <= gens
  /\ Present => file.gen > 0
  /\ cond = "log_regex" /\ seen = 0 => offset = 0 /\ step # "scan"
  /\ cond = "log_regex" /\ Present /\ file.gen = ghost.start =>
       file.gen = file.ino /\ seen = file.ino

PassedInv == cond = "log_regex" /\ Present /\ seen = file.ino /\ Noticed => Passed(file.bytes, Base, offset)

\* A write after the last scan has left an mtime that is too new for a skip.
SettledInv ==
  /\ scannedAt <= clock /\ at <= clock /\ (step = "at" => cond = "file_contains")
  /\ ghost.changed /\ Present => file.mtime > scannedAt - MtimeGrain

ProbeInv == LogTypeOK /\ ProbeTypeOK /\ GhostTypeOK /\ GenerationsInv /\ PassedInv /\ SettledInv /\ SkipIsSound

\* A wait on a log that may hold any of contents.
ProbeSpec(contents) ==
  LogStarts(contents) /\ (\E c \in Conditions : ProbeStarts(c)) /\ [][ProbeNext]_<<logVars, probeVars>>

=============================================================================
