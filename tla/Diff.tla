------------------------------- MODULE Diff -------------------------------
(***************************************************************************)
(* remote_diff and the previews of remote_write_file (diff.go, diffops.go):*)
(* the unified diff of two files, and the comparison of two trees with a   *)
(* limit on their entries and a deadline. A text is a sequence of lines, a *)
(* line the number of its words, the spaces between them and its ending;   *)
(* every line of a diff costs one unit of max_bytes. A tree maps names to  *)
(* entries: absent, a directory, a link, or a file with its content, whose *)
(* size tells some contents apart. The names are numbers in sorted order.  *)
(***************************************************************************)
EXTENDS Integers, Sequences, FiniteSets

CONSTANTS
  DiffContext,         \* diffContext
  MaxDiffCells,        \* maxDiffCells
  MaxDiffTreeEntries,  \* maxDiffTreeEntries
  MaxDiffListed,       \* maxDiffListed
  MaxTreeDiffs,        \* maxTreeDiffs
  DiffMayTimeOut       \* whether the deadline may pass

VARIABLES
  dreq,  \* [kind |-> "files", form, recoded, ignoreSpace, old, new, max] or
         \* [kind |-> "tree", left, right, showDiffs]
  dres   \* files: the answer; tree: the lists so far

diffVars == <<dreq, dres>>

Absent == [kind |-> "absent"]
Size(e) == IF e.content = 0 THEN 0 ELSE 1

NoDiff == [state |-> "new", out |-> <<>>, added |-> 0, removed |-> 0, truncated |-> FALSE,
           lists |-> [s \in {"added", "removed", "changed", "type"} |-> <<>>],
           same |-> 0, unchecked |-> 0, diffs |-> <<>>, at |-> 1, identical |-> FALSE]

DiffStarts(requests) == dreq \in requests /\ dres = NoDiff

Smaller(m, n) == IF m < n THEN m ELSE n
Larger(m, n) == IF m > n THEN m ELSE n

-----------------------------------------------------------------------------
(* unifiedDiff. Indexes count from 0 as in the code; a[i + 1] is line i.     *)

Op(k, text, i, j) == [kind |-> k, text |-> text, oldIdx |-> i, newIdx |-> j]

\* Length of the longest common subsequence of a[i:] and b[j:].
RECURSIVE Lcs(_, _, _, _)
Lcs(a, b, i, j) ==
  IF i >= Len(a) \/ j >= Len(b) THEN 0
  ELSE IF a[i + 1] = b[j + 1] THEN 1 + Lcs(a, b, i + 1, j + 1)
  ELSE Larger(Lcs(a, b, i + 1, j), Lcs(a, b, i, j + 1))

\* Ties go to the deletion.
DeleteFirst(a, b, i, j) == i < Len(a) /\ (j = Len(b) \/ Lcs(a, b, i + 1, j) >= Lcs(a, b, i, j + 1))

\* diffMiddle from i and j on, at offset o of both texts.
RECURSIVE DiffMiddle(_, _, _, _, _)
DiffMiddle(a, b, i, j, o) ==
  IF i = Len(a) /\ j = Len(b) THEN <<>>
  ELSE IF i < Len(a) /\ j < Len(b) /\ a[i + 1] = b[j + 1]
  THEN <<Op(" ", a[i + 1], o + i, o + j)>> \o DiffMiddle(a, b, i + 1, j + 1, o)
  ELSE IF DeleteFirst(a, b, i, j)
  THEN <<Op("-", a[i + 1], o + i, o + j)>> \o DiffMiddle(a, b, i + 1, j, o)
  ELSE <<Op("+", b[j + 1], o + i, o + j)>> \o DiffMiddle(a, b, i, j + 1, o)

\* A middle too large for the table is one replaced block.
ReplaceBlock(a, b, o) ==
  [i \in 1..Len(a) |-> Op("-", a[i], o + i - 1, o)] \o [j \in 1..Len(b) |-> Op("+", b[j], o + Len(a), o + j - 1)]

\* Common lines at the start and, of the rest, at the end.
CommonHead(a, b) ==
  CHOOSE p \in 0..Smaller(Len(a), Len(b)) :
    /\ \A i \in 1..p : a[i] = b[i]
    /\ p < Smaller(Len(a), Len(b)) => a[p + 1] # b[p + 1]

\* Mutant of CommonTail: the lines of the head are counted again.
CommonTailWhole(a, b, p) ==
  CHOOSE q \in 0..Smaller(Len(a), Len(b)) :
    /\ \A i \in 0..(q - 1) : a[Len(a) - i] = b[Len(b) - i]
    /\ q < Smaller(Len(a), Len(b)) => a[Len(a) - q] # b[Len(b) - q]

CommonTail(a, b, p) ==
  LET most == Smaller(Len(a), Len(b)) - p
  IN  CHOOSE q \in 0..most :
        /\ \A i \in 0..(q - 1) : a[Len(a) - i] = b[Len(b) - i]
        /\ q < most => a[Len(a) - q] # b[Len(b) - q]

\* The edit script with the context it needs.
DiffOps(a, b) ==
  LET p == CommonHead(a, b)
      q == CommonTail(a, b, p)
      am == SubSeq(a, p + 1, Len(a) - q)
      bm == SubSeq(b, p + 1, Len(b) - q)
      from == Larger(0, p - DiffContext)
  IN  [i \in 1..(p - from) |-> Op(" ", a[from + i], from + i - 1, from + i - 1)]
      \o (IF Len(am) * Len(bm) > MaxDiffCells THEN ReplaceBlock(am, bm, p) ELSE DiffMiddle(am, bm, 0, 0, p))
      \o [k \in 1..Smaller(q, DiffContext) |-> Op(" ", a[Len(a) - q + k], Len(a) - q + k - 1, Len(b) - q + k - 1)]

Kinds(ops, from, to, ks) == {i \in from..to : ops[i].kind \in ks}

\* The line number in a hunk's header.
HunkStart(idx, count) == IF count = 0 THEN idx ELSE idx + 1

\* The last change of the hunk that begins with the change at `first`.
RECURSIVE LastChange(_, _, _)
LastChange(ops, last, i) ==
  IF i > Len(ops) \/ (ops[i].kind # " " /\ i - last - 1 > 2 * DiffContext) THEN last
  ELSE LastChange(ops, IF ops[i].kind # " " THEN i ELSE last, i + 1)

\* The hunks from op `start` on: headers and lines.
RECURSIVE Hunks(_, _)
Hunks(ops, start) ==
  LET changes == Kinds(ops, start, Len(ops), {"-", "+"})
  IN  IF changes = {} THEN <<>>
      ELSE LET first == CHOOSE i \in changes : \A j \in changes : i <= j
               lo == Larger(start, first - DiffContext)
               hi == Smaller(Len(ops), LastChange(ops, first, first + 1) + DiffContext)
               oldCount == Cardinality(Kinds(ops, lo, hi, {" ", "-"}))
               newCount == Cardinality(Kinds(ops, lo, hi, {" ", "+"}))
               header == [kind |-> "@", old |-> HunkStart(ops[lo].oldIdx, oldCount), oldCount |-> oldCount,
                          new |-> HunkStart(ops[lo].newIdx, newCount), newCount |-> newCount]
           IN  <<header>> \o SubSeq(ops, lo, hi) \o Hunks(ops, hi + 1)

\* The lines unifiedDiff sees: without the carriage return at their end.
SplitDiffLines(t) == [i \in 1..Len(t) |-> [t[i] EXCEPT !.cr = FALSE]]
\* ... and with single spaces between the words.
SqueezeSpace(t) == [i \in 1..Len(t) |-> [t[i] EXCEPT !.cr = FALSE, !.spaces = 1]]

\* unifiedDiff, cut at max.
UnifiedDiff(old, new, max) ==
  LET ops == DiffOps(SplitDiffLines(old), SplitDiffLines(new))
      out == Hunks(ops, 1)
      note == IF old # new /\ out = <<>> THEN <<[kind |-> "only line endings differ"]>> ELSE out
  IN  [out |-> SubSeq(note, 1, Smaller(Len(note), max)), truncated |-> Len(out) > max,
       added |-> Cardinality(Kinds(ops, 1, Len(ops), {"+"})), removed |-> Cardinality(Kinds(ops, 1, Len(ops), {"-"}))]

SameBytes == dreq.old = dreq.new /\ ~dreq.recoded

Reply(out, added, removed, truncated, identical) ==
  dres' = [dres EXCEPT !.state = "done", !.out = out, !.added = added, !.removed = removed,
                       !.truncated = truncated, !.identical = identical]

\* diffFiles. A large file is compared by its digest, whatever the request.
DiffFiles ==
  LET a == IF dreq.ignoreSpace THEN SqueezeSpace(dreq.old) ELSE dreq.old
      b == IF dreq.ignoreSpace THEN SqueezeSpace(dreq.new) ELSE dreq.new
  IN  /\ dreq.kind = "files" /\ dres.state = "new"
      /\ UNCHANGED dreq
      /\ \/ SameBytes /\ Reply(<<>>, 0, 0, FALSE, TRUE)
         \/ ~SameBytes /\ dreq.form # "text" /\ Reply(<<>>, 0, 0, FALSE, FALSE)
         \/ /\ ~SameBytes /\ dreq.form = "text" /\ dreq.ignoreSpace /\ a = b
            /\ Reply(<<>>, 0, 0, FALSE, TRUE)
         \/ /\ ~SameBytes /\ dreq.form = "text" /\ ~(dreq.ignoreSpace /\ a = b)
            /\ \E d \in {UnifiedDiff(a, b, dreq.max)} : Reply(d.out, d.added, d.removed, d.truncated, FALSE)

-----------------------------------------------------------------------------
(* Trees.                                                                  *)

\* walkForDiff: the first entries of a tree, in walk order.
Walked(t) ==
  [n \in DOMAIN t |-> IF Cardinality({m \in 1..n : t[m] # Absent}) <= MaxDiffTreeEntries THEN t[n] ELSE Absent]
WalkCapped(t) == Cardinality({n \in DOMAIN t : t[n] # Absent}) > MaxDiffTreeEntries

\* sameContent: sizes, then digests.
SameContent(l, r) == Size(l) = Size(r) /\ l.content = r.content

\* Which list a name that is compared goes to.
Category(l, r) ==
  CASE r = Absent -> "removed"
    [] l = Absent -> "added"
    [] l.kind # r.kind -> "type"
    [] l.kind = "symlink" -> IF l.to = r.to THEN "same" ELSE "changed"
    [] l.kind = "file" -> IF l.unreadable \/ r.unreadable \/ ~SameContent(l, r) THEN "changed" ELSE "same"
    [] OTHER -> "same"

\* A changed file is shown with its diff while there are few of them; that the
\* diffs may also use up max_bytes is left out.
ShowsDiff(l, r) == dreq.showDiffs /\ Len(dres.diffs) < MaxTreeDiffs /\ ~l.unreadable /\ ~r.unreadable

\* diffTrees at the next name. Once the deadline has passed, files on both
\* sides are no longer read.
CompareName ==
  LET n == dres.at
      l == Walked(dreq.left)[n]
      r == Walked(dreq.right)[n]
      files == l.kind = "file" /\ r.kind = "file"
      c == Category(l, r)
  IN  /\ dreq.kind = "tree" /\ dres.state = "new" /\ n <= Len(dreq.left)
      /\ UNCHANGED dreq
      /\ \/ l = Absent /\ r = Absent /\ dres' = [dres EXCEPT !.at = @ + 1]
         \/ /\ l # Absent \/ r # Absent
            /\ ~(files /\ dres.unchecked > 0)
            /\ dres' = IF c = "same" THEN [dres EXCEPT !.at = @ + 1, !.same = @ + 1]
                       ELSE [dres EXCEPT !.at = @ + 1, !.lists[c] = Append(@, n),
                                         !.diffs = IF files /\ ShowsDiff(l, r) THEN Append(@, n) ELSE @]
         \/ /\ files /\ (dres.unchecked > 0 \/ DiffMayTimeOut)
            /\ dres' = [dres EXCEPT !.at = @ + 1, !.unchecked = @ + 1]

IsIdentical(lists, truncated) == (\A s \in DOMAIN lists : lists[s] = <<>>) /\ ~truncated

\* The lists are cut and the verdict is given.
EndTrees ==
  LET long == \E s \in DOMAIN dres.lists : Len(dres.lists[s]) > MaxDiffListed
      truncated == WalkCapped(dreq.left) \/ WalkCapped(dreq.right) \/ long \/ dres.unchecked > 0
      lists == [s \in DOMAIN dres.lists |-> SubSeq(dres.lists[s], 1, Smaller(Len(dres.lists[s]), MaxDiffListed))]
  IN  /\ dreq.kind = "tree" /\ dres.state = "new" /\ dres.at > Len(dreq.left)
      /\ dres' = [dres EXCEPT !.state = "done", !.truncated = truncated, !.lists = lists,
                              !.identical = IsIdentical(lists, truncated)]
      /\ UNCHANGED dreq

DiffNext == DiffFiles \/ CompareName \/ EndTrees

-----------------------------------------------------------------------------
(* What holds.                                                             *)

DiffDone(kind) == dres.state = "done" /\ dreq.kind = kind

Broken == [word |-> 0, spaces |-> 0, cr |-> FALSE]

\* patch: the text that the diff out[k..] makes of old, of which `from` lines
\* are behind; <<Broken>> ends it if a header or a line does not fit.
RECURSIVE Patch(_, _, _, _)
Patch(out, k, old, from) ==
  IF k > Len(out) THEN SubSeq(old, from + 1, Len(old))
  ELSE CASE out[k].kind = "@" ->
              LET to == IF out[k].oldCount = 0 THEN out[k].old ELSE out[k].old - 1
              IN  IF to \notin from..Len(old) THEN <<Broken>> ELSE SubSeq(old, from + 1, to) \o Patch(out, k + 1, old, to)
         [] out[k].kind = "+" -> <<out[k].text>> \o Patch(out, k + 1, old, from)
         [] OTHER -> IF out[k].kind \notin {" ", "-"} \/ from >= Len(old) \/ old[from + 1] # out[k].text THEN <<Broken>>
                     ELSE (IF out[k].kind = "-" THEN <<>> ELSE <<out[k].text>>) \o Patch(out, k + 1, old, from + 1)

\* The lines of out the hunk at k counts.
HunkLines(out, k) ==
  {i \in (k + 1)..Len(out) : \A j \in (k + 1)..i : out[j].kind # "@"}

\* The patch from the new text to the old one.
Backwards(out) ==
  LET back(o) == CASE o.kind = "@" -> [o EXCEPT !.old = o.new, !.oldCount = o.newCount, !.new = o.old, !.newCount = o.oldCount]
                   [] o.kind = "+" -> [o EXCEPT !.kind = "-"]
                   [] o.kind = "-" -> [o EXCEPT !.kind = "+"]
                   [] OTHER -> o
  IN  [i \in 1..Len(out) |-> back(out[i])]

\* The answer names no difference only if there is none of the kind it was
\* asked for, and a diff that is not cut is a patch: applied to the old text it
\* gives the new one and backwards the old one again, every header counts its
\* lines, and the numbers of added and removed lines are those of the diff
\* (diffFiles, unifiedDiff).
DiffIsAPatch ==
  DiffDone("files") =>
    LET out == dres.out
        seen(t) == IF dreq.ignoreSpace THEN SqueezeSpace(t) ELSE SplitDiffLines(t)
    IN  /\ dres.identical = (SameBytes \/ (dreq.form = "text" /\ dreq.ignoreSpace /\ seen(dreq.old) = seen(dreq.new)))
        /\ dreq.form = "text" /\ out = <<>> /\ ~dres.truncated => seen(dreq.old) = seen(dreq.new)
        /\ dreq.form = "text" /\ ~dres.truncated /\ seen(dreq.old) # seen(dreq.new) =>
             /\ Patch(out, 1, seen(dreq.old), 0) = seen(dreq.new)
             /\ Patch(Backwards(out), 1, seen(dreq.new), 0) = seen(dreq.old)
             /\ dres.added = Cardinality(Kinds(out, 1, Len(out), {"+"}))
             /\ dres.removed = Cardinality(Kinds(out, 1, Len(out), {"-"}))
             /\ \A k \in 1..Len(out) : out[k].kind = "@" =>
                  /\ out[k].oldCount = Cardinality({i \in HunkLines(out, k) : out[i].kind \in {" ", "-"}})
                  /\ out[k].newCount = Cardinality({i \in HunkLines(out, k) : out[i].kind \in {" ", "+"}})

Equal(l, r) == l = r /\ (l.kind = "file" => ~l.unreadable)
Listed(s) == {dres.lists[s][i] : i \in 1..Len(dres.lists[s])}

\* Two trees called identical are equal, and an answer that does not say that it
\* was cut short names every difference once and in the right list, whenever
\* the deadline passed and wherever a limit cut (walkForDiff, diffTrees).
TreeVerdictHolds ==
  DiffDone("tree") =>
    /\ dres.identical => \A n \in 1..Len(dreq.left) : Equal(dreq.left[n], dreq.right[n])
    /\ ~dres.truncated => \A n \in 1..Len(dreq.left) :
         Equal(dreq.left[n], dreq.right[n]) = (\A s \in DOMAIN dres.lists : n \notin Listed(s))
    /\ \A i \in 1..Len(dres.diffs) : LET n == dres.diffs[i] IN dreq.left[n].content # dreq.right[n].content
    /\ \A s, t \in DOMAIN dres.lists : s # t => Listed(s) \cap Listed(t) = {}

\* What the diff says of two files or two trees is true of them (Diff).
DiffHolds == DiffIsAPatch /\ TreeVerdictHolds

=============================================================================
