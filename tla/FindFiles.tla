----------------------------- MODULE FindFiles -----------------------------
(***************************************************************************)
(* remote_find_files (searchops.go: FindFiles; globs.go: walkTree). A walk *)
(* collects the entries of a tree that match, up to a limit, and may sort  *)
(* them by time or size before it returns the first. The tree is the       *)
(* sequence of its entries in walk order: the depth, whether the entry is  *)
(* a directory (that can be read), whether it is hidden or excluded,       *)
(* whether name, type, time and size filters take it, and its sort key.    *)
(***************************************************************************)
EXTENDS Integers, Sequences, FiniteSets

CONSTANT MaxFindScan  \* maxFindScanEntries

ASSUME FindAssumption == MaxFindScan \in Nat \ {0}

\* Only a directory has entries below it.
FindRequests ==
  {q \in [tree : Seq([depth : Nat \ {0}, dir : BOOLEAN, readable : BOOLEAN, hidden : BOOLEAN, wanted : BOOLEAN, key : Int]),
          depth : Nat, sort : BOOLEAN, max : Nat \ {0}] :
     \A i \in 1..(Len(q.tree) - 1) : q.tree[i + 1].depth > q.tree[i].depth => q.tree[i].dir}

VARIABLES
  nreq,   \* one of FindRequests; depth 0: any
  fat,    \* the next entry of the walk
  fskip,  \* depth of the directory the walk does not enter; 0: none
  nres    \* [entries, truncated, dirsSkipped, ended]

findVars == <<nreq, fat, fskip, nres>>

NoResults == [entries |-> <<>>, truncated |-> FALSE, dirsSkipped |-> 0, ended |-> FALSE]

FindStarts(requests) == nreq \in requests /\ fat = 1 /\ fskip = 0 /\ nres = NoResults

\* A sorted result needs every candidate.
CollectCap == IF nreq.sort THEN MaxFindScan ELSE nreq.max

TooDeep(e) == nreq.depth > 0 /\ e.depth > nreq.depth

\* SkipDir for a directory, nothing for another entry.
Pass(e) == fskip' = (IF e.dir THEN e.depth ELSE 0) /\ fat' = fat + 1

\* The walk at one entry. A directory that cannot be read is an entry like
\* another before the walk fails to enter it.
FindEntry ==
  LET e == nreq.tree[fat]
  IN  /\ ~nres.ended /\ fat <= Len(nreq.tree)
      /\ UNCHANGED nreq
      /\ \/ fskip > 0 /\ e.depth > fskip /\ fat' = fat + 1 /\ UNCHANGED <<fskip, nres>>
         \/ /\ fskip = 0 \/ e.depth <= fskip
            /\ \/ (e.hidden \/ TooDeep(e)) /\ Pass(e) /\ UNCHANGED nres
               \/ /\ ~e.hidden /\ ~TooDeep(e)
                  /\ fat' = fat + 1
                  /\ fskip' = IF e.readable THEN 0 ELSE e.depth
                  /\ nres' = IF e.wanted /\ Len(nres.entries) >= CollectCap
                             THEN [nres EXCEPT !.truncated = TRUE, !.ended = TRUE]  \* SkipAll
                             ELSE [nres EXCEPT !.entries = IF e.wanted THEN Append(@, fat) ELSE @,
                                               !.dirsSkipped = IF e.readable THEN @ ELSE @ + 1]

Key(i) == nreq.tree[i].key

\* sort.SliceStable, largest key first.
Rank(s, i) == Cardinality({j \in 1..Len(s) : Key(s[j]) > Key(s[i]) \/ (Key(s[j]) = Key(s[i]) /\ j <= i)})
Sorted(s) == [k \in 1..Len(s) |-> s[CHOOSE i \in 1..Len(s) : Rank(s, i) = k]]

\* The result is sorted, then cut.
FindEnd ==
  LET all == IF nreq.sort THEN Sorted(nres.entries) ELSE nres.entries
  IN  /\ fat <= Len(nreq.tree) => nres.ended
      /\ fat <= Len(nreq.tree) + 1
      /\ fat' = Len(nreq.tree) + 2
      /\ nres' = IF Len(all) > nreq.max THEN [nres EXCEPT !.entries = SubSeq(all, 1, nreq.max), !.truncated = TRUE, !.ended = TRUE]
                 ELSE [nres EXCEPT !.entries = all, !.ended = TRUE]
      /\ UNCHANGED <<nreq, fskip>>

FindNext == FindEntry \/ FindEnd

-----------------------------------------------------------------------------
(* What holds.                                                             *)

Found == fat = Len(nreq.tree) + 2

\* j is an ancestor of i in the walk.
Above(j, i) ==
  j < i /\ nreq.tree[j].depth < nreq.tree[i].depth
  /\ \A k \in (j + 1)..i : nreq.tree[k].depth > nreq.tree[j].depth

Reachable(i) ==
  /\ ~TooDeep(nreq.tree[i]) /\ ~nreq.tree[i].hidden
  /\ \A j \in 1..i : Above(j, i) => ~nreq.tree[j].hidden /\ nreq.tree[j].readable

Wanted == {i \in 1..Len(nreq.tree) : Reachable(i) /\ nreq.tree[i].wanted}

\* What the scan limit lets it collect when it sorts.
Seen == IF nreq.sort THEN {i \in Wanted : Cardinality({j \in Wanted : j <= i}) <= MaxFindScan} ELSE Wanted

Ahead(i, j) == IF nreq.sort THEN Key(i) > Key(j) \/ (Key(i) = Key(j) /\ i < j) ELSE i < j

\* A find returns the entries that match and lie below no hidden, excluded or
\* too deep directory: the first in walk order, or the largest by the key among
\* those the scan limit lets it collect, and says that it is truncated exactly
\* when it has left some out (FindFiles).
FindIsTop ==
  Found =>
    LET got == {nres.entries[k] : k \in 1..Len(nres.entries)}
    IN  /\ got \subseteq Seen /\ Cardinality(got) = Len(nres.entries)
        /\ Len(nres.entries) = (IF Cardinality(Seen) < nreq.max THEN Cardinality(Seen) ELSE nreq.max)
        /\ \A k, l \in 1..Len(nres.entries) : k < l => Ahead(nres.entries[k], nres.entries[l])
        /\ \A i \in got, j \in Seen \ got : Ahead(i, j)
        /\ nres.truncated = (Cardinality(Wanted) > Len(nres.entries))

=============================================================================
