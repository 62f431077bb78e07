---------------------------- MODULE ReadFiles ----------------------------
(***************************************************************************)
(* remote_read_files and the lines mode of remote_read_file (readops.go).  *)
(* Several files share one budget: the smallest is read first, each with   *)
(* an equal share of what is left. A file is a number of bytes with what   *)
(* the expansion of a glob looks at; numbering its lines doubles it. A     *)
(* client of the lines mode asks again for the lines a page left out.      *)
(***************************************************************************)
EXTENDS Integers, Sequences, FiniteSets

CONSTANTS
  MaxReadFiles,     \* maxReadFiles
  MinShare,         \* minReadFilesShare
  ItemOverhead,     \* readItemOverhead
  NumberedPrefix    \* the length of the number before a picked line

ASSUME ReadFilesAssumption ==
  {MaxReadFiles, MinShare, ItemOverhead} \subseteq Nat \ {0} /\ NumberedPrefix \in Nat

VARIABLES
  freq,  \* [kind |-> "files", paths, budget, numbered] or
         \* [kind |-> "lines", file: the lengths of its lines, want, max]
  fres   \* files: the answer so far; lines: what the client has so far

filesVars == <<freq, fres>>

Total(s) == LET sum[i \in 0..Len(s)] == IF i = 0 THEN 0 ELSE sum[i - 1] + s[i] IN sum[Len(s)]
Lower(m, n) == IF m < n THEN m ELSE n
Upper(m, n) == IF m > n THEN m ELSE n

-----------------------------------------------------------------------------
(* The jobs of a call.                                                     *)

\* A path names a file, or is a glob with its matches in order. Each file is
\* [size, statSize, hidden, outside, regular, readable].
Unmatched == [size |-> 0, statSize |-> 0, hidden |-> FALSE, outside |-> TRUE, regular |-> FALSE, readable |-> FALSE]
Job(f, err) == [file |-> f, err |-> err]

\* The jobs expandReadPath makes of a pattern: regular files inside the roots,
\* hidden ones only if the pattern asks for them, and at most MaxReadFiles.
Matched(p) ==
  LET eligible(f) == (p.dotOK \/ ~f.hidden) /\ ~f.outside /\ f.regular
      files[i \in 0..Len(p.matches)] ==
        IF i = 0 THEN <<>>
        ELSE IF Len(files[i - 1]) < MaxReadFiles /\ eligible(p.matches[i]) THEN Append(files[i - 1], Job(p.matches[i], FALSE))
        ELSE files[i - 1]
  IN  files[Len(p.matches)]

ExpandReadPath(p) ==
  IF ~p.glob THEN <<Job(p.matches[1], p.matches[1].outside)>>
  ELSE IF p.inRoots /\ Matched(p) # <<>> THEN Matched(p)
  ELSE <<Job(Unmatched, TRUE)>>

\* All jobs, and those that are read.
AllJobs(paths) ==
  LET jobs[i \in 0..Len(paths)] == IF i = 0 THEN <<>> ELSE jobs[i - 1] \o ExpandReadPath(paths[i]) IN jobs[Len(paths)]
Jobs(paths) == SubSeq(AllJobs(paths), 1, Lower(Len(AllJobs(paths)), MaxReadFiles))

\* The size the order goes by: a job with an error, or a file that cannot be
\* looked at, counts as empty.
StatSize(j) == IF j.err THEN 0 ELSE j.file.statSize

\* Smallest first, otherwise as requested.
Order(jobs, i, k) ==
  StatSize(jobs[i]) < StatSize(jobs[k]) \/ (StatSize(jobs[i]) = StatSize(jobs[k]) /\ i <= k)

NoReads == [state |-> "new", jobs |-> <<>>, todo |-> {}, left |-> 0, remaining |-> 0, items |-> <<>>,
            files |-> {}, notRead |-> 0, truncated |-> FALSE, got |-> <<>>, want |-> {}, missing |-> {}]

ReadFilesStarts(requests) == freq \in requests /\ fres = NoReads

\* ReadFiles up to its loop.
Expand ==
  /\ freq.kind = "files" /\ fres.state = "new"
  /\ \E jobs \in {Jobs(freq.paths)} :
       fres' = [fres EXCEPT !.state = "reading", !.jobs = jobs, !.todo = 1..Len(jobs), !.remaining = freq.budget,
                            !.left = Cardinality({i \in 1..Len(jobs) : ~jobs[i].err}),
                            !.items = [i \in 1..Len(jobs) |-> [state |-> "none", content |-> 0, cut |-> FALSE]]]
  /\ UNCHANGED freq

-----------------------------------------------------------------------------
(* The loop of ReadFiles.                                                  *)

\* Mutant of Share: the least share is given even when nothing is left.
ShareAtLeast(remaining, left) == Upper(remaining \div left, MinShare)

Share(remaining, left) == Upper(remaining \div left, Lower(remaining, MinShare))

\* What ReadFileContent returns of a file with max_bytes = max.
Numbered(n) == IF freq.numbered THEN 2 * n ELSE n
Content(f, max) == Numbered(Lower(f.size, max))

\* The next job of the order gets its item; what it spent is no longer there.
Settle(i, state, content, cut, spent) ==
  fres' = [fres EXCEPT !.todo = @ \ {i}, !.left = IF fres.jobs[i].err THEN @ ELSE @ - 1, !.remaining = @ - spent,
                       !.items[i] = [state |-> state, content |-> content, cut |-> cut]]

ReadOne(i) ==
  LET j == fres.jobs[i]
      share == Share(fres.remaining, fres.left)
      content == Content(j.file, share)
  IN  /\ freq.kind = "files" /\ fres.state = "reading"
      /\ \A k \in fres.todo : Order(fres.jobs, i, k)
      /\ UNCHANGED freq
      /\ \/ j.err /\ Settle(i, "failed", 0, FALSE, 0)
         \/ ~j.err /\ share <= 0 /\ Settle(i, "unread", 0, FALSE, 0)
         \/ ~j.err /\ share > 0 /\ ~(j.file.readable /\ j.file.regular) /\ Settle(i, "failed", 0, FALSE, 0)
         \/ /\ ~j.err /\ share > 0 /\ j.file.readable /\ j.file.regular
            /\ Settle(i, "read", content, j.file.size > share, content + ItemOverhead)

\* The answer: the items in request order, without the unread ones.
EndFiles ==
  LET answered == {i \in 1..Len(fres.items) : fres.items[i].state # "unread"}
      notRead == Len(AllJobs(freq.paths)) - Cardinality(answered)
  IN  /\ freq.kind = "files" /\ fres.state = "reading" /\ fres.todo = {}
      /\ fres' = [fres EXCEPT !.state = "done", !.files = answered, !.notRead = notRead,
                              !.truncated = notRead > 0 \/ \E i \in answered : fres.items[i].cut]
      /\ UNCHANGED freq

-----------------------------------------------------------------------------
(* readPickedLines.                                                        *)

NumberedLen(l) == freq.file[l] + NumberedPrefix

\* The lines wanted up to l, joined by newlines; the first one is cut to max.
PageLen(want, l) ==
  LET first == CHOOSE k \in want : \A j \in want : k <= j
      later(k) == IF k \in want \ {first} THEN 1 + NumberedLen(k) ELSE 0
  IN  Lower(NumberedLen(first), freq.max) + Total([k \in 1..l |-> later(k)])

\* The lines of one page: those before the first that does not fit.
Page(want) ==
  LET there == {l \in want : l <= Len(freq.file)}
  IN  {l \in there : \A k \in there : k <= l => (\A j \in there : k <= j) \/ PageLen(there, k) <= freq.max}

\* One call, and the lines its client asks for next: those from the cursor
\* next_start_line on.
ReadPickedLines ==
  /\ freq.kind = "lines" /\ fres.state \in {"new", "reading"}
  /\ \E want \in {IF fres.state = "new" THEN freq.want ELSE fres.want} : \E page \in {Page(want)} :
       LET rest == {l \in want : l <= Len(freq.file)} \ page
           cursor == CHOOSE l \in rest : \A k \in rest : l <= k
       IN  fres' = IF rest = {}
                   THEN [fres EXCEPT !.state = "done", !.got = Append(@, page), !.want = {}, !.missing = {l \in want : l > Len(freq.file)}]
                   ELSE [fres EXCEPT !.state = "reading", !.got = Append(@, page), !.want = {l \in want : l >= cursor}]
  /\ UNCHANGED freq

ReadFilesNext == Expand \/ (\E i \in fres.todo : ReadOne(i)) \/ EndFiles \/ ReadPickedLines

-----------------------------------------------------------------------------
(* What holds.                                                             *)

ItemIs(i, s) == fres.items[i].state = s

\* No budget is spent twice: without line numbers the contents stay within
\* max_bytes, with them within twice as much, however small the shares get
\* (ReadFiles).
BudgetHolds ==
  freq.kind = "files" /\ fres.state # "new" =>
    Total([i \in 1..Len(fres.items) |-> fres.items[i].content]) <= Numbered(freq.budget)

Fits(jobs) == Total([i \in 1..Len(jobs) |-> IF jobs[i].err THEN 0 ELSE Numbered(jobs[i].file.size) + ItemOverhead]) <= freq.budget

\* Files did not change between the stat and the read.
Steady == \A i \in 1..Len(fres.jobs) : fres.jobs[i].file.size = fres.jobs[i].file.statSize

\* The file came back cut to its share, or was left unread.
Short(i) == (ItemIs(i, "read") /\ fres.items[i].cut) \/ ItemIs(i, "unread")
Whole(i) == ItemIs(i, "read") /\ ~fres.items[i].cut

\* A file of a size between the two could not be read, and its share went to
\* the larger ones.
Freed(i, j) ==
  \E k \in 1..Len(fres.jobs) :
    /\ ItemIs(k, "failed") /\ ~fres.jobs[k].err
    /\ fres.jobs[k].file.statSize \in fres.jobs[i].file.statSize..fres.jobs[j].file.statSize

\* As long as files do not change between stat and read: files that fit the
\* budget together all come back whole; and if they do not, no file comes back
\* whole while a smaller one is cut or left unread, unless one in between could
\* not be read (ReadFiles).
SmallFilesAreWhole ==
  freq.kind = "files" /\ fres.state = "done" /\ Steady =>
    /\ Fits(fres.jobs) => \A i \in 1..Len(fres.jobs) : ~Short(i)
    /\ \A i, j \in 1..Len(fres.jobs) :
         Short(i) /\ Whole(j) /\ fres.jobs[j].file.size > fres.jobs[i].file.size => Freed(i, j)

\* Page after page, a client that asks for the lines left out gets each line
\* there is once and hears of every other one (readPickedLines).
PickedLinesOnce ==
  freq.kind = "lines" =>
    LET got == UNION {fres.got[i] : i \in 1..Len(fres.got)}
    IN  /\ \A i, j \in 1..Len(fres.got) : i # j => fres.got[i] \cap fres.got[j] = {}
        /\ fres.state = "reading" => got \cup fres.want = freq.want /\ fres.got[Len(fres.got)] # {}
        /\ fres.state = "done" => got \cup fres.missing = freq.want /\ got \subseteq 1..Len(freq.file)

\* The budget is kept and spent where it reads most files whole, and what did
\* not fit is named (ReadFiles, readPickedLines).
ReadFilesExact == BudgetHolds /\ SmallFilesAreWhole /\ PickedLinesOnce

-----------------------------------------------------------------------------
(* Why it holds.                                                           *)

ReadFile ==
  [size : Nat, statSize : Nat, hidden : BOOLEAN, outside : BOOLEAN, regular : BOOLEAN, readable : BOOLEAN]
ReadPath == {p \in [glob : BOOLEAN, dotOK : BOOLEAN, inRoots : BOOLEAN, matches : Seq(ReadFile)] : p.glob \/ Len(p.matches) = 1}
ReadJob == [file : ReadFile, err : BOOLEAN]
ReadItem == [state : {"none", "failed", "unread", "read"}, content : Nat, cut : BOOLEAN]

FilesRequest == [kind : {"files"}, paths : Seq(ReadPath), budget : Nat \ {0}, numbered : BOOLEAN]
LinesRequest == [kind : {"lines"}, file : Seq(Nat), want : SUBSET (Nat \ {0}), max : Nat \ {0}]

\* Calls with any of these requests.
ReadFilesSpec(requests) == ReadFilesStarts(requests) /\ [][ReadFilesNext]_filesVars

\* The jobs not yet tried that will take a share.
Due == {i \in fres.todo : ~fres.jobs[i].err}

FilesTypeOK ==
  fres \in [state : {"new", "reading", "done"}, jobs : Seq(ReadJob), todo : SUBSET Nat, left : Int, remaining : Int,
            items : Seq(ReadItem), files : SUBSET Nat, notRead : Int, truncated : BOOLEAN,
            got : Seq(SUBSET Nat), want : SUBSET Nat, missing : SUBSET Nat]

\* The loop: what it has not reached has no item, and comes later in the order
\* than what it has.
LoopInv ==
  /\ Len(fres.items) = Len(fres.jobs) /\ fres.todo \subseteq 1..Len(fres.jobs) /\ fres.left = Cardinality(Due)
  /\ \A i \in fres.todo : ItemIs(i, "none") /\ fres.items[i].content = 0
  /\ \A i \in 1..Len(fres.jobs) : (i \in fres.todo \/ \A k \in fres.todo : Order(fres.jobs, i, k))
                                 /\ (ItemIs(i, "read") \/ ItemIs(i, "unread") => ~fres.jobs[i].err)

\* What was spent came out of the budget; only line numbers go beyond it.
SpentInv ==
  \E spent \in {Total([i \in 1..Len(fres.items) |-> fres.items[i].content])} :
    spent \in Nat /\ spent + fres.remaining <= freq.budget /\ spent <= Numbered(freq.budget)

\* Files that fit together leave room for those still to be read.
Claim(i) == IF i \in Due THEN Numbered(fres.jobs[i].file.size) + ItemOverhead ELSE 0
FitInv ==
  Steady /\ Fits(fres.jobs) =>
    /\ Total([i \in 1..Len(fres.jobs) |-> Claim(i)]) <= fres.remaining
    /\ \A i \in 1..Len(fres.jobs) : ~Short(i)

\* A share that was too small for a file does not grow to its size again,
\* unless a later file gives its share back.
Tight(i) ==
  \/ fres.remaining <= 0
  \/ fres.left > 0 => Share(fres.remaining, fres.left) < fres.jobs[i].file.size
GivenBack(i) ==
  \E k \in (1..Len(fres.jobs)) \ fres.todo :
    ItemIs(k, "failed") /\ ~fres.jobs[k].err /\ fres.jobs[k].file.statSize >= fres.jobs[i].file.statSize
ShareInv ==
  Steady =>
    /\ \A i \in 1..Len(fres.jobs) : Short(i) => Tight(i) \/ GivenBack(i)
    /\ \A i, j \in 1..Len(fres.jobs) :
         Short(i) /\ Whole(j) /\ fres.jobs[j].file.size > fres.jobs[i].file.size => Freed(i, j)

\* The pages so far and the lines still asked for are parts of what was wanted.
PagesInv ==
  /\ fres.state = "new" => fres.got = <<>>
  /\ fres.state = "reading" => \A i \in 1..Len(fres.got) : fres.got[i] \cap fres.want = {}
  /\ \A i \in 1..Len(fres.got) : fres.got[i] \subseteq 1..Len(freq.file)
  /\ PickedLinesOnce

FilesInv ==
  /\ FilesTypeOK
  /\ freq.kind = "files" => freq \in FilesRequest /\ (fres.state = "new" \/ (LoopInv /\ SpentInv /\ FitInv /\ ShareInv))
  /\ freq.kind = "lines" => freq \in LinesRequest /\ PagesInv

=============================================================================
