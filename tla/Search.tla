------------------------------ MODULE Search ------------------------------
(***************************************************************************)
(* remote_search_content (searchops.go). A search walks a tree, reads each *)
(* file line by line, and returns a page of matches with their context, or *)
(* of matching files; a client asks for the next page with next_offset,    *)
(* and the server searches from the start again, skipping what was         *)
(* returned. The deadline may pass wherever the code looks at it. A tree   *)
(* is the sequence of its entries in walk order; a file is the sequence of *)
(* its lines, TRUE where the pattern matches; every returned line costs    *)
(* one unit of the output cap.                                             *)
(***************************************************************************)
EXTENDS Integers, Sequences, FiniteSets

CONSTANTS
  MaxSearchOutput,  \* maxSearchOutputBytes
  DeadlineEvery,    \* lines between two looks at the deadline
  MayTimeOut        \* whether the deadline may pass

ASSUME SearchAssumption ==
  MaxSearchOutput \in Nat \ {0} /\ DeadlineEvery \in Nat \ {0} /\ MayTimeOut \in BOOLEAN

\* Why the walk skips an entry, and counts it.
SkipReasons == {"binary", "too_large", "unreadable", "not_regular", "symlink_dir", "outside_roots", "broken_symlink"}

\* What newSearchOpts makes of a request.
SearchRequests ==
  [tree : Seq([kind : SkipReasons \cup {"ignored", "file"}, lines : Seq(BOOLEAN)]),
   mode : {"content", "files", "count"}, before : Nat, after : Nat, max : Nat \ {0}]

VARIABLES
  sreq,   \* one of SearchRequests
  sat,    \* the entry and the line the search is at: <<entry, line>>; line 0: not opened
  srun,   \* searchRun, with the locals of searchFile
  spage,  \* the results of this page: matches [file, line, ctx], or files [file, count]
  sall    \* what the client has of earlier pages

searchVars == <<sreq, sat, srun, spage, sall>>

NewRun(offset) ==
  [offset |-> offset, skipped |-> 0, returned |-> 0, out |-> 0, stopped |-> FALSE, timedOut |-> FALSE,
   truncated |-> FALSE, next |-> 0, total |-> 0, searched |-> 0, skippedFiles |-> 0,
   cur |-> 0, afterLeft |-> 0, emitted |-> 0, count |-> 0, ended |-> FALSE]

SearchStarts(requests) ==
  sreq \in requests /\ sat = <<1, 0>> /\ srun = NewRun(0) /\ spage = <<>> /\ sall = <<>>

FileLines(e) == sreq.tree[e].lines

-----------------------------------------------------------------------------

\* full
Full(r) == r.returned >= sreq.max \/ r.out >= MaxSearchOutput

\* Mutant of Stop: the offset of this page is left out of the next.
StopAtReturned(r) == [r EXCEPT !.stopped = TRUE, !.truncated = TRUE, !.next = r.returned]

\* stop: there is a result beyond a full page.
Stop(r) == [r EXCEPT !.stopped = TRUE, !.truncated = TRUE, !.next = r.offset + r.returned]

\* pastDeadline
TimeOut(r) == [r EXCEPT !.stopped = TRUE, !.timedOut = TRUE, !.truncated = TRUE]

\* addFile, in the modes that return files: <<run, page>>.
AddFile(r, e, n) ==
  IF Full(r) THEN <<Stop(r), spage>>
  ELSE IF r.skipped < r.offset THEN <<[r EXCEPT !.skipped = @ + 1, !.total = @ + n], spage>>
  ELSE <<[r EXCEPT !.returned = @ + 1, !.out = @ + 1, !.total = @ + n], Append(spage, [file |-> e, line |-> n, ctx |-> {}])>>

\* The end of searchFile, also when it stops early: <<run, page>>.
FileDone(r) ==
  CASE sreq.mode = "content" -> <<[r EXCEPT !.total = @ + r.count], spage>>
    [] sreq.mode = "count" /\ r.count > 0 -> AddFile(r, sat[1], r.count)
    [] OTHER -> <<r, spage>>

\* The walk goes on behind the entry.
NextEntry(r, page) == srun' = r /\ spage' = page /\ sat' = <<sat[1] + 1, 0>> /\ UNCHANGED <<sreq, sall>>

\* Lines of the ring not yet returned.
BeforeLines(n) == {l \in 1..(n - 1) : l >= n - sreq.before /\ l > srun.emitted}

\* A matching line, content mode: the run and the page behind it.
AddMatch(n) ==
  LET e == sat[1]
      before == BeforeLines(n)
  IN  IF srun.skipped < srun.offset
      THEN <<[srun EXCEPT !.skipped = @ + 1, !.afterLeft = 0, !.count = @ + 1], spage>>
      ELSE <<[srun EXCEPT !.count = @ + 1, !.out = @ + Cardinality(before) + 1, !.returned = @ + 1,
                          !.cur = Len(spage) + 1, !.emitted = n, !.afterLeft = sreq.after],
             Append(spage, [file |-> e, line |-> n, ctx |-> before])>>

\* A line behind a match that is returned as its context.
AfterLine(n) ==
  <<[srun EXCEPT !.out = @ + 1, !.afterLeft = @ - 1, !.emitted = n], [spage EXCEPT ![srun.cur].ctx = @ \cup {n}]>>

\* The walk at an entry: ignored (hidden, excluded or not included), skipped
\* for a reason, or opened, unless the deadline has passed.
Walk ==
  LET e == sreq.tree[sat[1]]
  IN  /\ ~srun.stopped /\ sat[1] <= Len(sreq.tree) /\ sat[2] = 0
      /\ \/ e.kind = "ignored" /\ NextEntry(srun, spage)
         \/ e.kind \in SkipReasons /\ NextEntry([srun EXCEPT !.skippedFiles = @ + 1], spage)
         \/ /\ e.kind = "file"
            /\ srun' = [srun EXCEPT !.searched = @ + 1, !.cur = 0, !.afterLeft = 0, !.emitted = 0, !.count = 0]
            /\ sat' = <<sat[1], 1>>
            /\ UNCHANGED <<sreq, spage, sall>>
         \/ /\ e.kind \in {"binary", "unreadable", "file"} /\ MayTimeOut
            /\ srun' = TimeOut(srun)
            /\ UNCHANGED <<sreq, sat, spage, sall>>

Reading == ~srun.stopped /\ sat[1] <= Len(sreq.tree) /\ sat[2] > 0

\* The next line of the file, with the run and page p; the file is done with p.
Onward(p) == srun' = p[1] /\ spage' = p[2] /\ sat' = <<sat[1], sat[2] + 1>> /\ UNCHANGED <<sreq, sall>>
Breaks(p) == srun' = p[1] /\ spage' = p[2] /\ UNCHANGED <<sreq, sat, sall>>

\* searchFile at a line that matches.
MatchingLine(e, n) ==
  \/ sreq.mode = "content" /\ Full(srun) /\ Breaks(FileDone(Stop(srun)))
  \/ sreq.mode = "content" /\ ~Full(srun) /\ Onward(AddMatch(n))
  \/ sreq.mode = "files" /\ NextEntry(AddFile(srun, e, 0)[1], AddFile(srun, e, 0)[2])
  \/ sreq.mode = "count" /\ Onward(<<[srun EXCEPT !.count = @ + 1], spage>>)

\* searchFile at a line.
SearchLine ==
  LET e == sat[1]
      n == sat[2]
  IN  /\ Reading /\ n <= Len(FileLines(e))
      /\ \/ n % DeadlineEvery = 0 /\ MayTimeOut /\ Breaks(FileDone(TimeOut(srun)))
         \/ FileLines(e)[n] /\ MatchingLine(e, n)
         \/ ~FileLines(e)[n] /\ Onward(IF srun.afterLeft > 0 /\ srun.cur > 0 THEN AfterLine(n) ELSE <<srun, spage>>)

\* The end of a file.
EndFile ==
  /\ Reading /\ sat[2] > Len(FileLines(sat[1]))
  /\ NextEntry(FileDone(srun)[1], FileDone(srun)[2])

\* finish: a search that ran out of time gives no cursor.
Finish ==
  /\ ~srun.ended /\ (srun.stopped \/ sat[1] > Len(sreq.tree))
  /\ srun' = [srun EXCEPT !.ended = TRUE, !.next = IF srun.timedOut THEN 0 ELSE @]
  /\ UNCHANGED <<sreq, sat, spage, sall>>

\* The client asks for the next page.
NextPage ==
  /\ srun.ended /\ srun.truncated /\ srun.next > 0
  /\ sall' = sall \o spage
  /\ spage' = <<>> /\ srun' = NewRun(srun.next) /\ sat' = <<1, 0>>
  /\ UNCHANGED sreq

SearchNext == Walk \/ SearchLine \/ EndFile \/ Finish \/ NextPage

-----------------------------------------------------------------------------
(* What holds.                                                             *)

\* The results of a file: every matching line, the file, or its matches counted.
Matching(e) == {l \in 1..Len(FileLines(e)) : FileLines(e)[l]}
ResultsOf(e) ==
  IF sreq.tree[e].kind # "file" \/ Matching(e) = {} THEN {}
  ELSE CASE sreq.mode = "content" -> {<<e, l>> : l \in Matching(e)}
         [] sreq.mode = "files" -> {<<e, 0>>}
         [] sreq.mode = "count" -> {<<e, Cardinality(Matching(e))>>}
Results == UNION {ResultsOf(e) : e \in 1..Len(sreq.tree)}

\* x is the i-th of the results R in walk order.
IsNth(R, x, i) ==
  /\ <<x.file, x.line>> \in R
  /\ Cardinality({r \in R : r[1] < x.file \/ (r[1] = x.file /\ r[2] <= x.line)}) = i

\* Page after page a client gets every result once and in order, no page holds
\* more than max_results, and a page says that it is the last one exactly when
\* it is, unless the deadline ended the search, which may also cut the count of
\* the last file short (stop, full, addFile, searchFile).
SearchPagesExact ==
  srun.ended =>
    LET got == sall \o spage
        exact == IF srun.timedOut /\ sreq.mode = "count" THEN Len(got) - 1 ELSE Len(got)
    IN  /\ Len(got) <= Cardinality(Results) /\ \A i \in 1..exact : IsNth(Results, got[i], i)
        /\ sreq.mode = "content" => srun.total = srun.skipped + srun.returned
        /\ Len(spage) <= sreq.max
        /\ ~srun.timedOut => srun.truncated = (Len(got) < Cardinality(Results))
        /\ srun.truncated /\ ~srun.timedOut => Len(spage) > 0 /\ srun.next = Len(got)

Emitted(page, e) == {i \in 1..Len(page) : page[i].file = e}
LinesAt(page, i) == page[i].ctx \cup {page[i].line}
LinesOf(page, e) == UNION {LinesAt(page, i) : i \in Emitted(page, e)}

\* In one page no line of a file is returned twice, as a match or as context,
\* and every match has all of its context: the lines before it, and those behind
\* it up to the next match (BeforeLines and AfterLine of searchFile).
ContextOnceAndWhole ==
  srun.ended /\ sreq.mode = "content" =>
    \A e \in 1..Len(sreq.tree) : \A i \in Emitted(spage, e) :
      LET n == spage[i].line
      IN  /\ n \notin spage[i].ctx
          /\ \A j \in Emitted(spage, e) \ {i} : LinesAt(spage, i) \cap LinesAt(spage, j) = {}
          /\ \A l \in 1..(n - 1) : l >= n - sreq.before => l \in LinesOf(spage, e)
          /\ ~srun.timedOut =>
               \A l \in (n + 1)..Len(FileLines(e)) :
                 l <= n + sreq.after /\ (\A k \in (n + 1)..l : ~FileLines(e)[k]) => l \in LinesOf(spage, e)

=============================================================================
