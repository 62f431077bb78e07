---------------------------- MODULE SearchProofs ----------------------------
(***************************************************************************)
(* Search and find for every tree, every request and every number of pages,*)
(* whenever the deadline passes.                                           *)
(*   - SearchInv: what is on the pages are the first results in walk order;*)
(*     the run counts them, and goes on or has stopped at a result.        *)
(*   - ContextInv: every match on the page has the context it can have so  *)
(*     far, and only the last match still collects.                        *)
(*   - FindInv: the walk has collected the first entries that match, and   *)
(*     skips what lies below one entry that it does not enter.             *)
(***************************************************************************)
EXTENDS Searches, Counting, SequenceTheorems

-----------------------------------------------------------------------------
(* Search: the results there are.                                          *)

\* The request a search is about.
Searched == sreq \in SearchRequests

LEMMA SearchedIs ==
  ASSUME Searched
  PROVE  /\ Len(sreq.tree) \in Nat /\ sreq.mode \in {"content", "files", "count"}
         /\ sreq.before \in Nat /\ sreq.after \in Nat /\ sreq.max \in Nat /\ sreq.max > 0
         /\ \A e \in 1..Len(sreq.tree) :
              /\ sreq.tree[e].kind \in SkipReasons \cup {"ignored", "file"}
              /\ FileLines(e) \in Seq(BOOLEAN) /\ Len(FileLines(e)) \in Nat
              /\ \A l \in 1..Len(FileLines(e)) : FileLines(e)[l] \in BOOLEAN
<1> DEFINE E == [kind : SkipReasons \cup {"ignored", "file"}, lines : Seq(BOOLEAN)]
<1>1. /\ sreq.tree \in Seq(E) /\ sreq.mode \in {"content", "files", "count"}
      /\ sreq.before \in Nat /\ sreq.after \in Nat /\ sreq.max \in Nat /\ sreq.max > 0
  BY DEF Searched, SearchRequests
<1> HIDE DEF E
<1>2. Len(sreq.tree) \in Nat /\ \A e \in 1..Len(sreq.tree) : sreq.tree[e] \in E
  BY <1>1, LenProperties, ElementOfSeq
<1>3. \A x \in E : x.kind \in SkipReasons \cup {"ignored", "file"} /\ x.lines \in Seq(BOOLEAN)
  BY DEF E
<1>4. \A s \in Seq(BOOLEAN) : Len(s) \in Nat /\ \A l \in 1..Len(s) : s[l] \in BOOLEAN
  BY LenProperties, ElementOfSeq
<1> QED
  BY <1>1, <1>2, <1>3, <1>4 DEF FileLines

\* The results of a file in each mode.
LEMMA ResultsOfFile ==
  ASSUME NEW e, sreq.tree[e].kind = "file", Matching(e) # {}
  PROVE  /\ sreq.mode = "content" => ResultsOf(e) = {<<e, l>> : l \in Matching(e)}
         /\ sreq.mode = "files" => ResultsOf(e) = {<<e, 0>>}
         /\ sreq.mode = "count" => ResultsOf(e) = {<<e, Cardinality(Matching(e))>>}
<1>1. "content" # "files" /\ "content" # "count" /\ "files" # "count"
  OBVIOUS
<1>2. ASSUME sreq.mode = "content" PROVE ResultsOf(e) = {<<e, l>> : l \in Matching(e)}
  BY <1>1, <1>2, Zenon DEF ResultsOf
<1>3. ASSUME sreq.mode = "files" PROVE ResultsOf(e) = {<<e, 0>>}
  BY <1>1, <1>3, Zenon DEF ResultsOf
<1>4. ASSUME sreq.mode = "count" PROVE ResultsOf(e) = {<<e, Cardinality(Matching(e))>>}
  BY <1>1, <1>4, Zenon DEF ResultsOf
<1> QED
  BY <1>2, <1>3, <1>4

LEMMA ResultsOfNone ==
  ASSUME NEW e, sreq.tree[e].kind # "file" \/ Matching(e) = {}
  PROVE  ResultsOf(e) = {}
BY Zenon DEF ResultsOf

\* Where a search has results.
LEMMA ResultsAre ==
  ASSUME Searched
  PROVE  /\ \A r \in Results : /\ r[1] \in 1..Len(sreq.tree) /\ r[2] \in Nat /\ r = <<r[1], r[2]>>
                               /\ sreq.tree[r[1]].kind = "file" /\ Matching(r[1]) # {}
         /\ \A e \in 1..Len(sreq.tree) : sreq.tree[e].kind = "file" =>
              /\ sreq.mode = "content" => \A l : <<e, l>> \in Results <=> l \in Matching(e)
              /\ sreq.mode = "files" => \A l : <<e, l>> \in Results <=> Matching(e) # {} /\ l = 0
              /\ sreq.mode = "count" => \A l : <<e, l>> \in Results <=> Matching(e) # {} /\ l = Cardinality(Matching(e))
         /\ IsFiniteSet(Results)
         /\ \A e \in 1..Len(sreq.tree) : IsFiniteSet(Matching(e)) /\ Cardinality(Matching(e)) \in Nat
<1> DEFINE n == Len(sreq.tree)
<1>1. n \in Nat /\ sreq.mode \in {"content", "files", "count"}
  BY SearchedIs
<1>2. ASSUME NEW e \in 1..n
      PROVE  Matching(e) \in SUBSET Nat /\ IsFiniteSet(Matching(e)) /\ Cardinality(Matching(e)) \in Nat
  <2>1. IsFiniteSet(1..Len(FileLines(e)))
    BY SearchedIs, FS_Interval
  <2>2. Matching(e) \in SUBSET (1..Len(FileLines(e)))
    BY DEF Matching
  <2> QED
    BY <2>1, <2>2, SearchedIs, FS_Subset, FS_CardinalityType
<1>3. ASSUME NEW e \in 1..n
      PROVE  /\ IsFiniteSet(ResultsOf(e))
             /\ \A r \in ResultsOf(e) : /\ r[1] = e /\ r[2] \in Nat /\ r = <<r[1], r[2]>>
                                        /\ sreq.tree[e].kind = "file" /\ Matching(e) # {}
  <2>1. CASE sreq.tree[e].kind # "file" \/ Matching(e) = {}
    BY <2>1, FS_EmptySet, ResultsOfNone
  <2>2. CASE sreq.tree[e].kind = "file" /\ Matching(e) # {} /\ sreq.mode = "content"
    <3> DEFINE f == [l \in Matching(e) |-> <<e, l>>]
    <3>1. ResultsOf(e) = {<<e, l>> : l \in Matching(e)}
      BY <2>2, ResultsOfFile
    <3>2. f \in Surjection(Matching(e), ResultsOf(e))
      BY <3>1 DEF Surjection
    <3> HIDE DEF f
    <3>3. IsFiniteSet(ResultsOf(e))
      BY <1>2, <3>2, FS_Surjection
    <3> QED
      BY <1>2, <2>2, <3>1, <3>3
  <2>3. CASE sreq.tree[e].kind = "file" /\ Matching(e) # {} /\ sreq.mode = "files"
    <3>1. ResultsOf(e) = {<<e, 0>>}
      BY <2>3, ResultsOfFile
    <3>2. IsFiniteSet({<<e, 0>>})
      BY FS_Singleton
    <3>3. \A r \in {<<e, 0>>} : r[1] = e /\ r[2] \in Nat /\ r = <<r[1], r[2]>>
      OBVIOUS
    <3> QED
      BY <2>3, <3>1, <3>2, <3>3
  <2>4. CASE sreq.tree[e].kind = "file" /\ Matching(e) # {} /\ sreq.mode = "count"
    <3> DEFINE c == Cardinality(Matching(e))
    <3>1. ResultsOf(e) = {<<e, c>>}
      BY <2>4, ResultsOfFile
    <3>2. c \in Nat
      BY <1>2
    <3> HIDE DEF c
    <3>3. IsFiniteSet({<<e, c>>})
      BY FS_Singleton
    <3>4. \A r \in {<<e, c>>} : r[1] = e /\ r[2] \in Nat /\ r = <<r[1], r[2]>>
      BY <3>2
    <3> QED
      BY <2>4, <3>1, <3>3, <3>4
  <2> QED
    BY <1>1, <2>1, <2>2, <2>3, <2>4
<1>4. \A r : r \in Results <=> \E e \in 1..n : r \in ResultsOf(e)
  BY DEF Results
<1>5. IsFiniteSet(Results)
  <2> DEFINE F == {ResultsOf(e) : e \in 1..n}
             g == [e \in 1..n |-> ResultsOf(e)]
  <2>1. g \in Surjection(1..n, F)
    BY DEF Surjection
  <2>2. IsFiniteSet(1..n)
    BY <1>1, FS_Interval
  <2>3. \A T \in F : IsFiniteSet(T)
    BY <1>3
  <2> HIDE DEF g
  <2>4. IsFiniteSet(F)
    BY <2>1, <2>2, FS_Surjection
  <2> HIDE DEF F
  <2>5. IsFiniteSet(UNION F)
    BY <2>3, <2>4, FS_UNION
  <2> QED
    BY <2>5 DEF F, Results
<1>6. ASSUME NEW e \in 1..n, NEW l
      PROVE  <<e, l>> \in Results <=> <<e, l>> \in ResultsOf(e)
  BY <1>3, <1>4
<1>7. ASSUME NEW e \in 1..n, sreq.tree[e].kind = "file"
      PROVE  /\ sreq.mode = "content" => \A l : <<e, l>> \in Results <=> l \in Matching(e)
             /\ sreq.mode = "files" => \A l : <<e, l>> \in Results <=> Matching(e) # {} /\ l = 0
             /\ sreq.mode = "count" => \A l : <<e, l>> \in Results <=> Matching(e) # {} /\ l = Cardinality(Matching(e))
  <2>1. ASSUME sreq.mode = "content", NEW l PROVE <<e, l>> \in ResultsOf(e) <=> l \in Matching(e)
    BY <1>7, <2>1, ResultsOfFile, ResultsOfNone
  <2>2. ASSUME sreq.mode = "files", NEW l PROVE <<e, l>> \in ResultsOf(e) <=> Matching(e) # {} /\ l = 0
    BY <1>7, <2>2, ResultsOfFile, ResultsOfNone
  <2>3. ASSUME sreq.mode = "count", NEW l
        PROVE  <<e, l>> \in ResultsOf(e) <=> Matching(e) # {} /\ l = Cardinality(Matching(e))
    BY <1>7, <2>3, ResultsOfFile, ResultsOfNone
  <2> QED
    BY <1>6, <2>1, <2>2, <2>3
<1> QED
  BY <1>2, <1>3, <1>4, <1>5, <1>7

\* The results that a search at `at` has passed.
Behind(at) == {r \in Results : r[1] < at[1] \/ (sreq.mode = "content" /\ r[1] = at[1] /\ r[2] < at[2])}

\* The next result after those passed.
LEMMA NextResult ==
  ASSUME Searched, NEW B \in SUBSET Results, NEW r \in Results, r \notin B, NEW x,
         x.file = r[1], x.line = r[2],
         \A s \in Results : s \in B \cup {r} <=> s[1] < r[1] \/ (s[1] = r[1] /\ s[2] <= r[2])
  PROVE  /\ Cardinality(B) \in Nat /\ Cardinality(B \cup {r}) = Cardinality(B) + 1
         /\ Cardinality(B) + 1 <= Cardinality(Results) /\ Cardinality(Results) \in Nat
         /\ IsNth(Results, x, Cardinality(B) + 1)
<1>1. IsFiniteSet(Results) /\ r = <<r[1], r[2]>>
  BY ResultsAre
<1>2. IsFiniteSet(B)
  BY <1>1, FS_Subset
<1>3. Cardinality(B) \in Nat /\ Cardinality(Results) \in Nat
  BY <1>1, <1>2, FS_CardinalityType
<1>4. Cardinality(B \cup {r}) = Cardinality(B) + 1
  BY <1>2, FS_AddElement
<1>5. B \cup {r} \in SUBSET Results
  OBVIOUS
<1>6. Cardinality(B \cup {r}) <= Cardinality(Results)
  BY <1>1, <1>5, FS_Subset
<1>7. {s \in Results : s[1] < x.file \/ (s[1] = x.file /\ s[2] <= x.line)} = B \cup {r}
  BY <1>5
<1>8. IsNth(Results, x, Cardinality(B) + 1)
  BY <1>1, <1>4, <1>7 DEF IsNth
<1> QED
  BY <1>3, <1>4, <1>6, <1>8

\* What the walk passes between two places.
LEMMA PassEntry ==
  ASSUME Searched, NEW e \in Nat, NEW n \in Nat,
         \A l : <<e, l>> \in Results => sreq.mode = "content" /\ l < n
  PROVE  Behind(<<e + 1, 0>>) = Behind(<<e, n>>)
<1>1. ASSUME NEW r \in Results PROVE r \in Behind(<<e + 1, 0>>) <=> r \in Behind(<<e, n>>)
  <2>1. r[1] \in Nat /\ r[2] \in Nat /\ r = <<r[1], r[2]>>
    BY ResultsAre, SearchedIs
  <2>2. r[1] = e => sreq.mode = "content" /\ r[2] < n
    BY <2>1
  <2> QED
    BY <2>1, <2>2 DEF Behind
<1> QED
  BY <1>1 DEF Behind

LEMMA PassLine ==
  ASSUME Searched, NEW e \in Nat, NEW n \in Nat, sreq.mode = "content" => <<e, n>> \notin Results
  PROVE  Behind(<<e, n + 1>>) = Behind(<<e, n>>)
<1>1. ASSUME NEW r \in Results PROVE r \in Behind(<<e, n + 1>>) <=> r \in Behind(<<e, n>>)
  <2>1. r[1] \in Nat /\ r[2] \in Nat /\ r = <<r[1], r[2]>>
    BY ResultsAre, SearchedIs
  <2>2. sreq.mode = "content" /\ r[1] = e => r[2] # n
    BY <2>1
  <2> QED
    BY <2>1, <2>2 DEF Behind
<1> QED
  BY <1>1 DEF Behind

\* Opening a file passes nothing: lines are counted from one.
LEMMA PassOpening ==
  ASSUME Searched, NEW e \in Nat
  PROVE  Behind(<<e, 1>>) = Behind(<<e, 0>>)
<1>1. <<e, 0>> \notin Results \/ sreq.mode # "content"
  <2> SUFFICES ASSUME <<e, 0>> \in Results, sreq.mode = "content" PROVE FALSE
    OBVIOUS
  <2>1. e \in 1..Len(sreq.tree) /\ sreq.tree[e].kind = "file"
    BY ResultsAre
  <2>2. 0 \in Matching(e)
    BY <2>1, ResultsAre
  <2> QED
    BY <2>2 DEF Matching
<1>2. 0 \in Nat /\ 0 + 1 = 1
  OBVIOUS
<1>3. Behind(<<e, 0 + 1>>) = Behind(<<e, 0>>)
  BY <1>1, <1>2, PassLine
<1> QED
  BY <1>2, <1>3

\* A result that the walk passes is the next one.
IsNext(at, r, next) ==
  /\ r \in Results /\ r \notin Behind(at) /\ Behind(next) = Behind(at) \cup {r}
  /\ \A s \in Results : s \in Behind(at) \cup {r} <=> s[1] < r[1] \/ (s[1] = r[1] /\ s[2] <= r[2])

LEMMA PassMatch ==
  ASSUME Searched, sreq.mode = "content", NEW e \in Nat, NEW n \in Nat, <<e, n>> \in Results
  PROVE  IsNext(<<e, n>>, <<e, n>>, <<e, n + 1>>)
<1>1. \A r \in Results : r[1] \in Nat /\ r[2] \in Nat /\ r = <<r[1], r[2]>>
  BY ResultsAre, SearchedIs
<1> QED
  BY <1>1 DEF IsNext, Behind

LEMMA PassFile ==
  ASSUME Searched, sreq.mode # "content", NEW e \in Nat, NEW n \in Nat, NEW c \in Nat, <<e, c>> \in Results
  PROVE  IsNext(<<e, n>>, <<e, c>>, <<e + 1, 0>>)
<1>1. \A r \in Results : r[1] \in Nat /\ r[2] \in Nat /\ r = <<r[1], r[2]>>
  BY ResultsAre, SearchedIs
<1>2. \A l : <<e, l>> \in Results => l = c
  <2>1. e \in 1..Len(sreq.tree) /\ sreq.tree[e].kind = "file"
    BY ResultsAre
  <2>2. sreq.mode \in {"files", "count"}
    BY SearchedIs
  <2> QED
    BY <2>1, <2>2, ResultsAre
<1>3. \A r \in Results : r[1] = e => r = <<e, c>>
  BY <1>1, <1>2
<1> QED
  BY <1>1, <1>3 DEF IsNext, Behind

LEMMA PassAll ==
  ASSUME Searched, NEW e \in Nat, NEW n \in Nat, e > Len(sreq.tree)
  PROVE  Behind(<<e, n>>) = Results
<1>1. \A r \in Results : r[1] \in 1..Len(sreq.tree)
  BY ResultsAre
<1> QED
  BY <1>1, SearchedIs DEF Behind

LEMMA PassNone == Searched => Behind(<<1, 0>>) = {}
<1>1. Searched => \A r \in Results : r[1] \in 1..Len(sreq.tree) /\ r[2] \in Nat
  BY ResultsAre
<1> QED
  BY <1>1 DEF Behind

-----------------------------------------------------------------------------
(* Search: the list a client collects.                                     *)

RunType ==
  [offset : Nat, skipped : Nat, returned : Nat, out : Nat, stopped : BOOLEAN, timedOut : BOOLEAN,
   truncated : BOOLEAN, next : Nat, total : Nat, searched : Nat, skippedFiles : Nat,
   cur : Nat, afterLeft : Nat, emitted : Nat, count : Nat, ended : BOOLEAN]
Hits == [file : Nat, line : Nat, ctx : SUBSET Nat]

LEMMA RunIs ==
  ASSUME NEW r \in RunType
  PROVE  /\ r.offset \in Nat /\ r.skipped \in Nat /\ r.returned \in Nat /\ r.out \in Nat
         /\ r.stopped \in BOOLEAN /\ r.timedOut \in BOOLEAN /\ r.truncated \in BOOLEAN /\ r.next \in Nat
         /\ r.total \in Nat /\ r.cur \in Nat /\ r.afterLeft \in Nat /\ r.emitted \in Nat /\ r.count \in Nat
         /\ r.ended \in BOOLEAN /\ r.searched \in Nat /\ r.skippedFiles \in Nat
BY DEF RunType

\* What two states of a run have in common: the results, the matches counted,
\* the match that collects context, and how it goes on.
SameResults(p, r) == p.offset = r.offset /\ p.skipped = r.skipped /\ p.returned = r.returned /\ p.out = r.out
SameCounts(p, r) == p.total = r.total /\ p.count = r.count
SameMatch(p, r) == p.cur = r.cur /\ p.afterLeft = r.afterLeft /\ p.emitted = r.emitted
SameEnd(p, r) ==
  p.stopped = r.stopped /\ p.timedOut = r.timedOut /\ p.truncated = r.truncated /\ p.next = r.next /\ p.ended = r.ended

\* The updates of a run.
LEMMA StopIs ==
  ASSUME NEW r \in RunType
  PROVE  LET p == Stop(r)
         IN  /\ p \in RunType /\ SameResults(p, r) /\ SameCounts(p, r) /\ SameMatch(p, r)
             /\ p.stopped = TRUE /\ p.truncated = TRUE /\ p.next = r.offset + r.returned /\ p.timedOut = r.timedOut /\ p.ended = r.ended
<1> DEFINE n == r.offset + r.returned
<1>1. n \in Nat
  BY RunIs
<1> HIDE DEF n
<1>2. [r EXCEPT !.stopped = TRUE, !.truncated = TRUE, !.next = n] \in RunType
  BY <1>1, Zenon DEF RunType
<1> QED
  BY <1>2 DEF Stop, n, RunType, SameResults, SameCounts, SameMatch

LEMMA TimeOutIs ==
  ASSUME NEW r \in RunType
  PROVE  LET p == TimeOut(r)
         IN  /\ p \in RunType /\ SameResults(p, r) /\ SameCounts(p, r) /\ SameMatch(p, r)
             /\ p.stopped = TRUE /\ p.truncated = TRUE /\ p.timedOut = TRUE /\ p.next = r.next /\ p.ended = r.ended
<1>2. [r EXCEPT !.stopped = TRUE, !.timedOut = TRUE, !.truncated = TRUE] \in RunType
  BY Zenon DEF RunType
<1> QED
  BY <1>2 DEF TimeOut, RunType, SameResults, SameCounts, SameMatch

LEMMA SkipsFile ==
  ASSUME NEW r \in RunType,
         NEW c \in Nat
  PROVE  LET p == [r EXCEPT !.skipped = @ + 1, !.total = @ + c]
         IN  /\ p \in RunType /\ SameMatch(p, r) /\ SameEnd(p, r)
             /\ p.offset = r.offset /\ p.returned = r.returned /\ p.out = r.out /\ p.count = r.count /\ p.skipped = r.skipped + 1 /\ p.total = r.total + c
<1> DEFINE a == r.skipped + 1
           b == r.total + c
<1>1. a \in Nat /\ b \in Nat
  BY RunIs
<1> HIDE DEF a, b
<1>2. [r EXCEPT !.skipped = a, !.total = b] \in RunType
  BY <1>1, Zenon DEF RunType
<1> QED
  BY <1>2 DEF a, b, RunType, SameMatch, SameEnd

LEMMA ReturnsFile ==
  ASSUME NEW r \in RunType,
         NEW c \in Nat
  PROVE  LET p == [r EXCEPT !.returned = @ + 1, !.out = @ + 1, !.total = @ + c]
         IN  /\ p \in RunType /\ SameMatch(p, r) /\ SameEnd(p, r)
             /\ p.offset = r.offset /\ p.skipped = r.skipped /\ p.count = r.count /\ p.returned = r.returned + 1 /\ p.out = r.out + 1 /\ p.total = r.total + c
<1> DEFINE a == r.returned + 1
           b == r.out + 1
           d == r.total + c
<1>1. a \in Nat /\ b \in Nat /\ d \in Nat
  BY RunIs
<1> HIDE DEF a, b, d
<1>2. [r EXCEPT !.returned = a, !.out = b, !.total = d] \in RunType
  BY <1>1, Zenon DEF RunType
<1> QED
  BY <1>2 DEF a, b, d, RunType, SameMatch, SameEnd

LEMMA TotalsFile ==
  ASSUME NEW r \in RunType
  PROVE  LET p == [r EXCEPT !.total = @ + r.count]
         IN  /\ p \in RunType /\ SameResults(p, r) /\ SameMatch(p, r) /\ SameEnd(p, r)
             /\ p.count = r.count /\ p.total = r.total + r.count
<1> DEFINE a == r.total + r.count
<1>1. a \in Nat
  BY RunIs
<1> HIDE DEF a
<1>2. [r EXCEPT !.total = a] \in RunType
  BY <1>1, Zenon DEF RunType
<1> QED
  BY <1>2 DEF a, RunType, SameResults, SameMatch, SameEnd

LEMMA CountsSkip ==
  ASSUME NEW r \in RunType
  PROVE  LET p == [r EXCEPT !.skippedFiles = @ + 1]
         IN  /\ p \in RunType /\ SameResults(p, r) /\ SameCounts(p, r) /\ SameMatch(p, r) /\ SameEnd(p, r)
             /\ p.searched = r.searched
<1> DEFINE a == r.skippedFiles + 1
<1>1. a \in Nat
  BY RunIs
<1> HIDE DEF a
<1>2. [r EXCEPT !.skippedFiles = a] \in RunType
  BY <1>1, Zenon DEF RunType
<1> QED
  BY <1>2 DEF a, RunType, SameResults, SameCounts, SameMatch, SameEnd

LEMMA OpensFile ==
  ASSUME NEW r \in RunType
  PROVE  LET p == [r EXCEPT !.searched = @ + 1, !.cur = 0, !.afterLeft = 0, !.emitted = 0, !.count = 0]
         IN  /\ p \in RunType /\ SameResults(p, r) /\ SameEnd(p, r)
             /\ p.total = r.total /\ p.count = 0 /\ p.cur = 0 /\ p.afterLeft = 0 /\ p.emitted = 0
<1> DEFINE a == r.searched + 1
<1>1. a \in Nat
  BY RunIs
<1> HIDE DEF a
<1>2. [r EXCEPT !.searched = a, !.cur = 0, !.afterLeft = 0, !.emitted = 0, !.count = 0] \in RunType
  BY <1>1, Zenon DEF RunType
<1> QED
  BY <1>2 DEF a, RunType, SameResults, SameEnd

LEMMA SkipsMatch ==
  ASSUME NEW r \in RunType
  PROVE  LET p == [r EXCEPT !.skipped = @ + 1, !.afterLeft = 0, !.count = @ + 1]
         IN  /\ p \in RunType /\ SameEnd(p, r)
             /\ p.offset = r.offset /\ p.returned = r.returned /\ p.out = r.out /\ p.total = r.total /\ p.cur = r.cur /\ p.emitted = r.emitted /\ p.skipped = r.skipped + 1 /\ p.count = r.count + 1 /\ p.afterLeft = 0
<1> DEFINE a == r.skipped + 1
           b == r.count + 1
<1>1. a \in Nat /\ b \in Nat
  BY RunIs
<1> HIDE DEF a, b
<1>2. [r EXCEPT !.skipped = a, !.afterLeft = 0, !.count = b] \in RunType
  BY <1>1, Zenon DEF RunType
<1> QED
  BY <1>2 DEF a, b, RunType, SameEnd

\* The run with one more match, whose context before it has c lines.
Matched(r, c, k, n, m) ==
  [r EXCEPT !.count = @ + 1, !.out = @ + c + 1, !.returned = @ + 1, !.cur = k, !.emitted = n, !.afterLeft = m]

LEMMA ReturnsMatch ==
  ASSUME NEW r \in RunType, NEW c \in Nat, NEW k \in Nat, NEW n \in Nat, NEW m \in Nat
  PROVE  LET p == Matched(r, c, k, n, m)
         IN  /\ p \in RunType /\ SameEnd(p, r)
             /\ p.offset = r.offset /\ p.skipped = r.skipped /\ p.total = r.total /\ p.count = r.count + 1
             /\ p.returned = r.returned + 1 /\ p.cur = k /\ p.emitted = n /\ p.afterLeft = m
<1> DEFINE a == r.count + 1
           b == r.out + c + 1
           d == r.returned + 1
<1>1. a \in Nat /\ b \in Nat /\ d \in Nat
  BY RunIs
<1> HIDE DEF a, b, d
<1>2. [r EXCEPT !.count = a, !.out = b, !.returned = d, !.cur = k, !.emitted = n, !.afterLeft = m] \in RunType
  BY <1>1, Zenon DEF RunType
<1> QED
  BY <1>2 DEF Matched, a, b, d, RunType, SameEnd

LEMMA AddsContext ==
  ASSUME NEW r \in RunType,
         r.afterLeft > 0,
         NEW n \in Nat
  PROVE  LET p == [r EXCEPT !.out = @ + 1, !.afterLeft = @ - 1, !.emitted = n]
         IN  /\ p \in RunType /\ SameCounts(p, r) /\ SameEnd(p, r)
             /\ p.offset = r.offset /\ p.skipped = r.skipped /\ p.returned = r.returned /\ p.cur = r.cur /\ p.afterLeft = r.afterLeft - 1 /\ p.emitted = n
<1> DEFINE a == r.out + 1
           b == r.afterLeft - 1
<1>1. a \in Nat /\ b \in Nat
  BY RunIs
<1> HIDE DEF a, b
<1>2. [r EXCEPT !.out = a, !.afterLeft = b, !.emitted = n] \in RunType
  BY <1>1, Zenon DEF RunType
<1> QED
  BY <1>2 DEF a, b, RunType, SameCounts, SameEnd

LEMMA CountsMatch ==
  ASSUME NEW r \in RunType
  PROVE  LET p == [r EXCEPT !.count = @ + 1]
         IN  /\ p \in RunType /\ SameResults(p, r) /\ SameMatch(p, r) /\ SameEnd(p, r)
             /\ p.total = r.total /\ p.count = r.count + 1
<1> DEFINE a == r.count + 1
<1>1. a \in Nat
  BY RunIs
<1> HIDE DEF a
<1>2. [r EXCEPT !.count = a] \in RunType
  BY <1>1, Zenon DEF RunType
<1> QED
  BY <1>2 DEF a, RunType, SameResults, SameMatch, SameEnd

LEMMA Ends ==
  ASSUME NEW r \in RunType,
         NEW n \in Nat
  PROVE  LET p == [r EXCEPT !.ended = TRUE, !.next = n]
         IN  /\ p \in RunType /\ SameResults(p, r) /\ SameCounts(p, r) /\ SameMatch(p, r)
             /\ p.stopped = r.stopped /\ p.timedOut = r.timedOut /\ p.truncated = r.truncated /\ p.ended = TRUE /\ p.next = n
<1>2. [r EXCEPT !.ended = TRUE, !.next = n] \in RunType
  BY Zenon DEF RunType
<1> QED
  BY <1>2 DEF RunType, SameResults, SameCounts, SameMatch

LEMMA NewRunIs ==
  ASSUME NEW n \in Nat
  PROVE  LET p == NewRun(n)
         IN  /\ p \in RunType /\ p.offset = n /\ p.skipped = 0 /\ p.returned = 0 /\ p.out = 0
             /\ p.stopped = FALSE /\ p.timedOut = FALSE /\ p.truncated = FALSE /\ p.next = 0 /\ p.ended = FALSE
             /\ p.total = 0 /\ p.count = 0 /\ p.cur = 0 /\ p.afterLeft = 0 /\ p.emitted = 0
<1>1. NewRun(n) \in RunType
  BY Zenon DEF NewRun, RunType
<1> QED
  BY <1>1 DEF NewRun

\* A place the search can be at.
IsPlace(at) ==
  /\ at \in Nat \X Nat /\ at[1] \in 1..(Len(sreq.tree) + 1)
  /\ at[2] > 0 => /\ at[1] <= Len(sreq.tree) /\ sreq.tree[at[1]].kind = "file"
                   /\ at[2] <= Len(FileLines(at[1])) + 1

SearchTypeOK(at, r, page, got) == IsPlace(at) /\ r \in RunType /\ page \in Seq(Hits) /\ got \in Seq(Hits)

\* What earlier pages brought, and this one so far, is the beginning of the
\* results; only the count of a file that the deadline cut short may be wrong.
Listed(r, page, got) ==
  /\ Len(got) = r.offset /\ r.offset <= Cardinality(Results)
  /\ \A i \in 1..Len(got) : IsNth(Results, got[i], i)
  /\ r.returned = Len(page) /\ r.returned <= sreq.max /\ r.skipped <= r.offset
  /\ r.returned > 0 => r.skipped = r.offset
  /\ r.returned = 0 => r.out = 0
  /\ \A i \in 1..Len(page) :
       i < Len(page) \/ ~(r.timedOut /\ sreq.mode = "count") => IsNth(Results, page[i], r.offset + i)

\* A search that goes on has skipped or returned every result it has passed.
GoesOn(at, r) ==
  /\ ~r.truncated /\ ~r.timedOut /\ r.next = 0 /\ r.cur <= r.returned
  /\ r.skipped + r.returned = Cardinality(Behind(at))
  /\ at[2] > 0 /\ sreq.mode = "count" => r.count = Cardinality({l \in Matching(at[1]) : l < at[2]})
  /\ at[2] > 0 /\ sreq.mode = "files" => \A l \in Matching(at[1]) : l >= at[2]
  /\ sreq.mode = "content" => r.total + (IF at[2] > 0 THEN r.count ELSE 0) = r.skipped + r.returned
  /\ r.ended => at[1] > Len(sreq.tree)

\* A search that stopped ran out of time, or has a full page and met a further
\* result.
HasStopped(r) ==
  /\ r.truncated
  /\ sreq.mode = "content" => r.total = r.skipped + r.returned
  /\ r.offset + r.returned <= Cardinality(Results)
  /\ ~r.timedOut => r.returned > 0 /\ r.next = r.offset + r.returned /\ r.next < Cardinality(Results)
  /\ r.timedOut /\ r.ended => r.next = 0

PagesOK(at, r, page, got) ==
  /\ SearchTypeOK(at, r, page, got)
  /\ Listed(r, page, got)
  /\ ~r.stopped => GoesOn(at, r)
  /\ r.stopped => HasStopped(r)

LEMMA ResultsCount ==
  ASSUME Searched, NEW at
  PROVE  /\ Cardinality(Results) \in Nat /\ Cardinality(Behind(at)) \in Nat
         /\ Cardinality(Behind(at)) <= Cardinality(Results)
<1>1. IsFiniteSet(Results) /\ Behind(at) \in SUBSET Results
  BY ResultsAre DEF Behind
<1> QED
  BY <1>1, FS_Subset, FS_CardinalityType

\* The next result, counted.
LEMMA NextCounted ==
  ASSUME Searched, NEW at, NEW q, NEW next, IsNext(at, q, next), NEW x, x.file = q[1], x.line = q[2]
  PROVE  /\ Cardinality(Behind(at)) \in Nat /\ Cardinality(Results) \in Nat
         /\ Cardinality(Behind(next)) = Cardinality(Behind(at)) + 1
         /\ Cardinality(Behind(at)) + 1 <= Cardinality(Results)
         /\ IsNth(Results, x, Cardinality(Behind(at)) + 1)
<1>1. Behind(at) \in SUBSET Results
  BY DEF Behind
<1> QED
  BY <1>1, NextResult DEF IsNext

\* A page that is full holds something.
LEMMA FullIs ==
  ASSUME Searched, NEW r \in RunType, r.returned = 0 => r.out = 0, Full(r)
  PROVE  r.returned > 0
BY RunIs, SearchedIs, SearchAssumption DEF Full

\* A search that is stopped by a result beyond its page.
LEMMA StopListed ==
  ASSUME Searched, NEW at, NEW r, NEW page, NEW got, PagesOK(at, r, page, got), ~r.stopped, Full(r),
         Cardinality(Behind(at)) < Cardinality(Results), NEW next, IsPlace(next),
         NEW p \in RunType, SameResults(p, r), p.stopped = TRUE, p.truncated = TRUE,
         p.next = r.offset + r.returned, p.timedOut = r.timedOut,
         sreq.mode = "content" => p.total = p.skipped + p.returned
  PROVE  PagesOK(next, p, page, got)
<1>1. r \in RunType /\ Listed(r, page, got) /\ GoesOn(at, r) /\ page \in Seq(Hits) /\ got \in Seq(Hits)
  BY DEF PagesOK, SearchTypeOK
<1>3. r.returned > 0
  BY <1>1, FullIs DEF Listed
<1>4. /\ r.offset \in Nat /\ r.skipped \in Nat /\ r.returned \in Nat
      /\ Cardinality(Behind(at)) \in Nat /\ Cardinality(Results) \in Nat
  BY <1>1, RunIs, ResultsCount
<1>5. Listed(p, page, got)
  BY <1>1 DEF Listed, SameResults
<1>6. r.offset + r.returned < Cardinality(Results) /\ ~p.timedOut
  BY <1>1, <1>3, <1>4 DEF Listed, GoesOn
<1>7. HasStopped(p)
  BY <1>3, <1>4, <1>6 DEF HasStopped, SameResults
<1> QED
  BY <1>1, <1>5, <1>7 DEF PagesOK, SearchTypeOK

\* A search that runs out of time.
LEMMA TimeOutListed ==
  ASSUME Searched, NEW at, NEW r, NEW page, NEW got, PagesOK(at, r, page, got), ~r.stopped, ~r.ended,
         NEW next, IsPlace(next),
         NEW p \in RunType, SameResults(p, r), p.stopped = TRUE, p.truncated = TRUE, p.timedOut = TRUE, ~p.ended,
         sreq.mode = "content" => p.total = p.skipped + p.returned
  PROVE  PagesOK(next, p, page, got)
<1>1. r \in RunType /\ Listed(r, page, got) /\ GoesOn(at, r) /\ page \in Seq(Hits) /\ got \in Seq(Hits)
  BY DEF PagesOK, SearchTypeOK
<1>2. /\ r.offset \in Nat /\ r.skipped \in Nat /\ r.returned \in Nat /\ ~r.timedOut
      /\ Cardinality(Behind(at)) \in Nat /\ Cardinality(Results) \in Nat
      /\ Cardinality(Behind(at)) <= Cardinality(Results)
  BY <1>1, RunIs, ResultsCount DEF GoesOn
<1>3. Listed(p, page, got)
  BY <1>1, <1>2 DEF Listed, SameResults
<1>4. r.offset + r.returned <= Cardinality(Results)
  BY <1>1, <1>2 DEF Listed, GoesOn
<1>5. HasStopped(p)
  BY <1>2, <1>4 DEF HasStopped, SameResults
<1> QED
  BY <1>1, <1>3, <1>5 DEF PagesOK, SearchTypeOK

\* A search that goes on without a result.
LEMMA OnListed ==
  ASSUME Searched, NEW at, NEW r, NEW page, NEW got, PagesOK(at, r, page, got), ~r.stopped, ~r.ended,
         NEW next, IsPlace(next), Behind(next) = Behind(at),
         NEW p \in RunType, SameResults(p, r), SameEnd(p, r), p.cur <= p.returned,
         NEW grown \in Seq(Hits), Len(grown) = Len(page),
         \A i \in 1..Len(page) : grown[i].file = page[i].file /\ grown[i].line = page[i].line,
         next[2] > 0 /\ sreq.mode = "count" => p.count = Cardinality({l \in Matching(next[1]) : l < next[2]}),
         next[2] > 0 /\ sreq.mode = "files" => \A l \in Matching(next[1]) : l >= next[2],
         sreq.mode = "content" => p.total + (IF next[2] > 0 THEN p.count ELSE 0) = p.skipped + p.returned
  PROVE  PagesOK(next, p, grown, got)
<1>1. r \in RunType /\ Listed(r, page, got) /\ GoesOn(at, r) /\ got \in Seq(Hits)
  BY DEF PagesOK, SearchTypeOK
<1>2. \A k : \A i \in 1..Len(page) : IsNth(Results, page[i], k) => IsNth(Results, grown[i], k)
  BY DEF IsNth
<1>3. Listed(p, grown, got)
  BY <1>1, <1>2 DEF Listed, SameResults, SameEnd
<1>4. GoesOn(next, p) /\ ~p.stopped
  BY <1>1 DEF GoesOn, SameResults, SameEnd
<1> QED
  BY <1>1, <1>3, <1>4 DEF PagesOK, SearchTypeOK

\* The page with one more result.
LEMMA PageGrows ==
  ASSUME NEW page \in Seq(Hits), NEW x \in Hits
  PROVE  /\ Append(page, x) \in Seq(Hits) /\ Len(page) \in Nat /\ Len(Append(page, x)) = Len(page) + 1
         /\ \A i \in 1..(Len(page) + 1) : Append(page, x)[i] = IF i <= Len(page) THEN page[i] ELSE x
BY AppendProperties, LenProperties

\* A result that is returned.
LEMMA ReturnListed ==
  ASSUME Searched, NEW at, NEW r, NEW page, NEW got, PagesOK(at, r, page, got), ~r.stopped,
         ~Full(r), ~(r.skipped < r.offset),
         NEW x \in Hits, IsNth(Results, x, Cardinality(Behind(at)) + 1),
         NEW p \in RunType, p.offset = r.offset, p.skipped = r.skipped, p.returned = r.returned + 1, p.timedOut = r.timedOut
  PROVE  Listed(p, Append(page, x), got)
<1> DEFINE grown == Append(page, x)
<1>1. r \in RunType /\ Listed(r, page, got) /\ GoesOn(at, r) /\ page \in Seq(Hits)
  BY DEF PagesOK, SearchTypeOK
<1>2. /\ Len(page) \in Nat /\ Len(grown) = Len(page) + 1
      /\ \A i \in 1..(Len(page) + 1) : grown[i] = IF i <= Len(page) THEN page[i] ELSE x
  BY <1>1, PageGrows
<1> HIDE DEF grown
<1>3. r.offset \in Nat /\ r.skipped \in Nat /\ r.returned \in Nat /\ Cardinality(Behind(at)) \in Nat
      /\ p.returned \in Nat /\ r.timedOut = FALSE
  BY <1>1, RunIs, ResultsCount DEF GoesOn
<1>4. r.skipped = r.offset /\ r.returned + 1 <= sreq.max /\ Cardinality(Behind(at)) = r.offset + r.returned
  BY <1>1, <1>3, SearchedIs DEF Listed, Full, GoesOn
<1>5. ASSUME NEW i \in 1..Len(grown) PROVE IsNth(Results, grown[i], p.offset + i)
  <2>1. CASE i <= Len(page)
    <3>1. i \in 1..Len(page) /\ grown[i] = page[i]
      BY <1>2, <2>1
    <3> QED
      BY <1>1, <1>3, <3>1 DEF Listed
  <2>2. CASE ~(i <= Len(page))
    <3>1. i = Len(page) + 1 /\ grown[i] = x
      BY <1>2, <2>2
    <3>2. Cardinality(Behind(at)) + 1 = p.offset + i
      BY <1>1, <1>3, <1>4, <3>1 DEF Listed
    <3> QED
      BY <3>1, <3>2
  <2> QED
    BY <2>1, <2>2
<1>6. Listed(p, grown, got)
  BY <1>1, <1>2, <1>3, <1>4, <1>5 DEF Listed
<1> QED
  BY <1>6 DEF grown

\* What addFile does with a result whose count is right.
LEMMA AddFileListed ==
  ASSUME Searched, sreq.mode # "content", NEW e \in 1..Len(sreq.tree), NEW n \in Nat, NEW c \in Nat, NEW r, NEW got,
         PagesOK(<<e, n>>, r, spage, got), ~r.stopped, ~r.ended, <<e, c>> \in Results
  PROVE  PagesOK(<<e + 1, 0>>, AddFile(r, e, c)[1], AddFile(r, e, c)[2], got)
<1> DEFINE at == <<e, n>>
           next == <<e + 1, 0>>
           x == [file |-> e, line |-> c, ctx |-> {}]
           B == Cardinality(Behind(at))
           R == Cardinality(Results)
<1>1. /\ B \in Nat /\ R \in Nat /\ Cardinality(Behind(next)) = B + 1 /\ B + 1 <= R
      /\ IsNth(Results, x, B + 1)
  <2>1. e \in Nat /\ IsNext(at, <<e, c>>, next)
    BY PassFile, SearchedIs
  <2>2. x.file = <<e, c>>[1] /\ x.line = <<e, c>>[2]
    OBVIOUS
  <2> HIDE DEF x, at, next
  <2> QED
    BY <2>1, <2>2, NextCounted
<1>2. IsPlace(next) /\ next[2] = 0
  BY SearchedIs DEF IsPlace
<1>3. x \in Hits
  BY SearchedIs DEF Hits
<1> HIDE DEF at, next
<1>4. r \in RunType /\ spage \in Seq(Hits) /\ got \in Seq(Hits) /\ Listed(r, spage, got) /\ GoesOn(at, r)
  BY DEF PagesOK, SearchTypeOK, at
<1>5. /\ r.offset \in Nat /\ r.skipped \in Nat /\ r.returned \in Nat /\ r.skipped + r.returned = B
      /\ r.stopped = FALSE /\ r.ended = FALSE
  BY <1>4, RunIs DEF GoesOn
<1> HIDE DEF B, R
<1>6. CASE Full(r)
  <2>1. AddFile(r, e, c) = <<Stop(r), spage>>
    BY <1>6 DEF AddFile
  <2>2. PagesOK(at, r, spage, got)
    BY DEF at
  <2> DEFINE p == Stop(r)
  <2>3. /\ p \in RunType /\ SameResults(p, r) /\ p.stopped = TRUE /\ p.truncated = TRUE
        /\ p.next = r.offset + r.returned /\ p.timedOut = r.timedOut
    BY <1>4, StopIs
  <2>4. B < R
    BY <1>1
  <2> HIDE DEF p
  <2>5. PagesOK(next, p, spage, got)
    BY <1>2, <1>5, <1>6, <2>2, <2>3, <2>4, StopListed DEF B, R
  <2> QED
    BY <2>1, <2>5 DEF next, p
<1>7. CASE ~Full(r) /\ r.skipped < r.offset
  <2> DEFINE p == [r EXCEPT !.skipped = @ + 1, !.total = @ + c]
  <2>1. AddFile(r, e, c) = <<p, spage>>
    BY <1>7 DEF AddFile
  <2>2. /\ p \in RunType /\ SameMatch(p, r) /\ SameEnd(p, r) /\ p.offset = r.offset /\ p.returned = r.returned /\ p.out = r.out
        /\ p.skipped = r.skipped + 1
    BY <1>4, SkipsFile
  <2> HIDE DEF p
  <2>3. Listed(p, spage, got)
    BY <1>4, <1>5, <1>7, <2>2 DEF Listed, SameEnd
  <2>4. GoesOn(next, p) /\ ~p.stopped
    <3>1. p.skipped + p.returned = Cardinality(Behind(next))
      <4>1. r.skipped + r.returned + 1 = Cardinality(Behind(next))
        BY <1>1, <1>5
      <4>2. p.skipped + p.returned = r.skipped + r.returned + 1
        BY <1>5, <2>2
      <4> QED
        BY <4>1, <4>2
    <3>2. p.cur <= p.returned
      BY <1>4, <2>2 DEF GoesOn, SameMatch
    <3> QED
      BY <1>2, <1>4, <1>5, <2>2, <3>1, <3>2 DEF GoesOn, SameEnd
  <2>5. PagesOK(next, p, spage, got)
    BY <1>2, <1>4, <2>2, <2>3, <2>4 DEF PagesOK, SearchTypeOK
  <2> QED
    BY <2>1, <2>5 DEF next
<1>8. CASE ~Full(r) /\ ~(r.skipped < r.offset)
  <2> DEFINE p == [r EXCEPT !.returned = @ + 1, !.out = @ + 1, !.total = @ + c]
             page == Append(spage, x)
  <2>1. AddFile(r, e, c) = <<p, page>>
    BY <1>8 DEF AddFile
  <2>2. /\ p \in RunType /\ SameMatch(p, r) /\ SameEnd(p, r) /\ p.offset = r.offset /\ p.skipped = r.skipped
        /\ p.returned = r.returned + 1
    BY <1>4, ReturnsFile
  <2> HIDE DEF p, x
  <2>3. page \in Seq(Hits)
    BY <1>3, <1>4, PageGrows
  <2>4. Listed(p, page, got)
    <3>1. PagesOK(at, r, spage, got) /\ p.timedOut = r.timedOut
      BY <2>2 DEF at, SameEnd
    <3> QED
      BY <1>1, <1>3, <1>5, <1>8, <2>2, <3>1, ReturnListed DEF B
  <2> HIDE DEF page
  <2>5. GoesOn(next, p) /\ ~p.stopped
    <3>1. p.skipped + p.returned = Cardinality(Behind(next))
      BY <1>1, <1>5, <2>2
    <3>2. p.cur <= p.returned
      BY <1>4, <1>5, <2>2, RunIs DEF GoesOn, SameMatch
    <3> QED
      BY <1>2, <1>4, <1>5, <2>2, <3>1, <3>2 DEF GoesOn, SameEnd
  <2>6. PagesOK(next, p, page, got)
    BY <1>2, <1>4, <2>2, <2>3, <2>4, <2>5 DEF PagesOK, SearchTypeOK
  <2> QED
    BY <2>1, <2>6 DEF next
<1> QED
  BY <1>6, <1>7, <1>8

\* What the end of a file makes of the run, by mode.
LEMMA FileDoneIs ==
  ASSUME Searched, NEW r \in RunType
  PROVE  /\ sreq.mode = "content" => FileDone(r) = <<[r EXCEPT !.total = @ + r.count], spage>>
         /\ sreq.mode = "count" /\ r.count > 0 => FileDone(r) = AddFile(r, sat[1], r.count)
         /\ sreq.mode = "files" \/ (sreq.mode = "count" /\ r.count = 0) => FileDone(r) = <<r, spage>>
<1>1. "content" # "files" /\ "content" # "count" /\ "files" # "count" /\ ~(0 > 0)
  OBVIOUS
<1>2. ASSUME sreq.mode = "content" PROVE FileDone(r) = <<[r EXCEPT !.total = @ + r.count], spage>>
  BY <1>1, <1>2, Zenon DEF FileDone
<1>3. ASSUME sreq.mode = "count", r.count > 0 PROVE FileDone(r) = AddFile(r, sat[1], r.count)
  BY <1>1, <1>3, Zenon DEF FileDone
<1>4. ASSUME sreq.mode = "files" PROVE FileDone(r) = <<r, spage>>
  BY <1>1, <1>4, Zenon DEF FileDone
<1>5. ASSUME sreq.mode = "count", r.count = 0 PROVE FileDone(r) = <<r, spage>>
  <2>1. ~(r.count > 0)
    BY <1>5
  <2> QED
    BY <1>1, <1>5, <2>1, Zenon DEF FileDone
<1> QED
  BY <1>2, <1>3, <1>4, <1>5

\* Where the search is, and what it has.
LEMMA PlaceIs ==
  ASSUME Searched, NEW at, IsPlace(at)
  PROVE  /\ at = <<at[1], at[2]>> /\ at[1] \in Nat /\ at[2] \in Nat
         /\ at[1] <= Len(sreq.tree) =>
              /\ at[1] \in 1..Len(sreq.tree) /\ IsPlace(<<at[1] + 1, 0>>)
              /\ sreq.tree[at[1]].kind = "file" => IsPlace(<<at[1], 1>>)
              /\ at[2] > 0 /\ at[2] <= Len(FileLines(at[1])) => IsPlace(<<at[1], at[2] + 1>>)
BY SearchedIs DEF IsPlace

\* The walk at an entry.
LEMMA WalkListed ==
  ASSUME Searched, PagesOK(sat, srun, spage, sall), Walk
  PROVE  PagesOK(sat', srun', spage', sall')
<1> DEFINE e == sat[1]
           next == <<e + 1, 0>>
<1>1. ~srun.stopped /\ e <= Len(sreq.tree) /\ sat[2] = 0
  BY DEF Walk
<1>2. /\ srun \in RunType /\ Listed(srun, spage, sall) /\ GoesOn(sat, srun) /\ spage \in Seq(Hits)
      /\ sall \in Seq(Hits) /\ IsPlace(sat)
  BY <1>1 DEF PagesOK, SearchTypeOK
<1>3. /\ sat = <<e, 0>> /\ e \in Nat /\ e \in 1..Len(sreq.tree) /\ IsPlace(next)
      /\ sreq.tree[e].kind = "file" => IsPlace(<<e, 1>>)
  BY <1>1, <1>2, PlaceIs
<1>4. ~srun.ended
  BY <1>1, <1>2, SearchedIs, <1>3 DEF GoesOn
<1>5. sreq.mode = "content" => srun.total = srun.skipped + srun.returned
  BY <1>1, <1>2, RunIs DEF GoesOn
<1>6. /\ next[2] = 0 /\ next[1] = e + 1
  OBVIOUS
<1>7. ASSUME sreq.tree[e].kind # "file", NEW p \in RunType, SameResults(p, srun), SameCounts(p, srun), SameEnd(p, srun),
             p.cur = srun.cur
      PROVE  PagesOK(next, p, spage, sall)
  <2>1. \A l : <<e, l>> \notin Results
    BY <1>7, ResultsAre
  <2>2. Behind(next) = Behind(sat)
    BY <1>3, <2>1, PassEntry
  <2>3. p.total \in Nat
    BY RunIs
  <2>4. sreq.mode = "content" => p.total + (IF next[2] > 0 THEN p.count ELSE 0) = p.skipped + p.returned
    BY <1>5, <1>6, <1>7, <2>3 DEF SameResults, SameCounts
  <2>5. ~(next[2] > 0)
    BY <1>6
  <2>7. p.cur <= p.returned
    BY <1>2, <1>7 DEF GoesOn, SameResults
  <2> HIDE DEF next
  <2>6. /\ PagesOK(sat, srun, spage, sall) /\ ~srun.stopped /\ ~srun.ended /\ IsPlace(next) /\ p \in RunType
        /\ SameResults(p, srun) /\ SameEnd(p, srun) /\ spage \in Seq(Hits)
    BY <1>1, <1>2, <1>3, <1>4, <1>7
  <2> QED
    BY <2>2, <2>4, <2>5, <2>6, <2>7, OnListed
<1>8. sall' = sall
  BY DEF Walk, NextEntry
<1> HIDE DEF next
<1>9. CASE sreq.tree[e].kind = "ignored" /\ NextEntry(srun, spage)
  <2>1. SameResults(srun, srun) /\ SameCounts(srun, srun) /\ SameEnd(srun, srun)
    BY DEF SameResults, SameCounts, SameEnd
  <2>2. PagesOK(next, srun, spage, sall)
    BY <1>2, <1>7, <1>9, <2>1
  <2> QED
    BY <1>9, <2>2 DEF NextEntry, next
<1>10. CASE sreq.tree[e].kind \in SkipReasons /\ NextEntry([srun EXCEPT !.skippedFiles = @ + 1], spage)
  <2> DEFINE p == [srun EXCEPT !.skippedFiles = @ + 1]
  <2>1. p \in RunType /\ SameResults(p, srun) /\ SameCounts(p, srun) /\ SameEnd(p, srun) /\ p.cur = srun.cur
    BY <1>2, CountsSkip DEF SameMatch
  <2>2. sreq.tree[e].kind # "file"
    BY <1>10 DEF SkipReasons
  <2>3. srun' = p /\ spage' = spage /\ sat' = next
    BY <1>10 DEF NextEntry, next
  <2> HIDE DEF p
  <2>4. PagesOK(next, p, spage, sall)
    BY <1>7, <2>1, <2>2
  <2> QED
    BY <1>8, <2>3, <2>4
<1>11. CASE /\ sreq.tree[e].kind = "file"
            /\ srun' = [srun EXCEPT !.searched = @ + 1, !.cur = 0, !.afterLeft = 0, !.emitted = 0, !.count = 0]
            /\ sat' = <<e, 1>>
            /\ UNCHANGED <<sreq, spage, sall>>
  <2> DEFINE p == [srun EXCEPT !.searched = @ + 1, !.cur = 0, !.afterLeft = 0, !.emitted = 0, !.count = 0]
             first == <<e, 1>>
  <2>1. p \in RunType /\ SameResults(p, srun) /\ SameEnd(p, srun) /\ p.total = srun.total /\ p.count = 0
        /\ p.cur = 0
    BY <1>2, OpensFile
  <2>2. srun' = p /\ sat' = first
    BY <1>11
  <2>3. Behind(first) = Behind(sat)
    BY <1>3, PassOpening
  <2>4. Matching(e) \in SUBSET Nat /\ \A l \in Matching(e) : l >= 1
    BY <1>3, SearchedIs DEF Matching
  <2>5. p.count = Cardinality({l \in Matching(first[1]) : l < first[2]})
    <3>1. {l \in Matching(first[1]) : l < first[2]} = {}
      BY <2>4
    <3> HIDE DEF p
    <3> QED
      BY <2>1, <3>1, FS_EmptySet
  <2>6. \A l \in Matching(first[1]) : l >= first[2]
    BY <2>4
  <2>10. p.cur <= p.returned
    <3>1. srun.returned \in Nat
      BY <1>2, RunIs
    <3> HIDE DEF p
    <3> QED
      BY <2>1, <3>1 DEF SameResults
  <2>7. IsPlace(first)
    BY <1>3, <1>11
  <2> HIDE DEF p, first
  <2>8. sreq.mode = "content" => p.total + (IF first[2] > 0 THEN p.count ELSE 0) = p.skipped + p.returned
    BY <1>2, <1>5, <2>1, RunIs DEF SameResults
  <2>9. PagesOK(first, p, spage, sall)
    BY <1>1, <1>2, <1>4, <2>1, <2>3, <2>5, <2>6, <2>7, <2>8, <2>10, OnListed
  <2> QED
    BY <1>11, <2>2, <2>9
<1>12. CASE srun' = TimeOut(srun) /\ UNCHANGED <<sreq, sat, spage, sall>>
  <2> DEFINE p == TimeOut(srun)
  <2>1. p \in RunType /\ SameResults(p, srun) /\ SameCounts(p, srun) /\ p.stopped = TRUE /\ p.truncated = TRUE
        /\ p.timedOut = TRUE /\ p.ended = srun.ended
    BY <1>2, TimeOutIs
  <2> HIDE DEF p
  <2>2. PagesOK(sat, p, spage, sall)
    BY <1>1, <1>2, <1>4, <1>5, <2>1, TimeOutListed DEF SameResults, SameCounts
  <2> QED
    BY <1>12, <2>2 DEF p
<1> QED
  BY <1>9, <1>10, <1>11, <1>12 DEF Walk

\* The page with one more line of context.
Extended(page, k, n) == [page EXCEPT ![k].ctx = @ \cup {n}]

LEMMA ContextGrows ==
  ASSUME NEW page \in Seq(Hits), NEW k \in Nat, NEW n \in Nat
  PROVE  Extended(page, k, n) \in Seq(Hits) /\ Len(Extended(page, k, n)) = Len(page)
<1> DEFINE x == [page[k] EXCEPT !.ctx = @ \cup {n}]
           q == [page EXCEPT ![k] = x]
<1>1. q = Extended(page, k, n)
  BY DEF Extended
<1>2. ASSUME k \in 1..Len(page) PROVE x \in Hits
  <2>1. page[k] \in Hits
    BY <1>2, ElementOfSeq
  <2> QED
    BY <2>1 DEF Hits
<1> HIDE DEF x
<1>3. CASE k \in 1..Len(page)
  BY <1>1, <1>2, <1>3, ExceptSeq
<1>4. CASE k \notin 1..Len(page)
  <2>1. q = page
    BY <1>4, LenProperties
  <2> QED
    BY <1>1, <2>1
<1> QED
  BY <1>3, <1>4

LEMMA ContextAt ==
  ASSUME NEW page \in Seq(Hits), NEW k \in Nat, NEW n \in Nat, NEW i \in 1..Len(page)
  PROVE  LET q == Extended(page, k, n)[i]
         IN  /\ q.file = page[i].file /\ q.line = page[i].line
             /\ i = k => q.ctx = page[i].ctx \cup {n}
             /\ i # k => q = page[i]
<1>1. page[i] \in Hits /\ DOMAIN page = 1..Len(page)
  BY LenProperties, ElementOfSeq
<1> QED
  BY <1>1 DEF Extended, Hits

\* Where a search reads.
LEMMA ReadingIs ==
  ASSUME Searched, PagesOK(sat, srun, spage, sall), Reading
  PROVE  LET e == sat[1]
             n == sat[2]
         IN
         /\ sat = <<e, n>> /\ e \in 1..Len(sreq.tree) /\ e \in Nat /\ n \in Nat /\ n > 0
         /\ sreq.tree[e].kind = "file" /\ n <= Len(FileLines(e)) + 1 /\ Len(FileLines(e)) \in Nat
         /\ IsPlace(sat) /\ IsPlace(<<e + 1, 0>>)
         /\ n <= Len(FileLines(e)) => IsPlace(<<e, n + 1>>)
         /\ srun \in RunType /\ Listed(srun, spage, sall) /\ GoesOn(sat, srun) /\ ~srun.stopped /\ ~srun.ended
         /\ spage \in Seq(Hits) /\ sall \in Seq(Hits)
         /\ sreq.mode = "content" => srun.total + srun.count = srun.skipped + srun.returned
         /\ sreq.mode = "count" => srun.count = Cardinality({l \in Matching(e) : l < n})
         /\ sreq.mode = "files" => \A l \in Matching(e) : l >= n
<1> DEFINE e == sat[1]
           n == sat[2]
<1>1. ~srun.stopped /\ e <= Len(sreq.tree) /\ n > 0
  BY DEF Reading
<1>2. /\ srun \in RunType /\ Listed(srun, spage, sall) /\ GoesOn(sat, srun) /\ spage \in Seq(Hits)
      /\ sall \in Seq(Hits) /\ IsPlace(sat)
  BY <1>1 DEF PagesOK, SearchTypeOK
<1>3. /\ sat = <<e, n>> /\ e \in Nat /\ n \in Nat /\ e \in 1..Len(sreq.tree) /\ IsPlace(<<e + 1, 0>>)
      /\ n <= Len(FileLines(e)) => IsPlace(<<e, n + 1>>)
  BY <1>1, <1>2, PlaceIs
<1>4. sreq.tree[e].kind = "file" /\ n <= Len(FileLines(e)) + 1 /\ Len(FileLines(e)) \in Nat
  BY <1>1, <1>2, <1>3, SearchedIs DEF IsPlace
<1>5. ~srun.ended
  BY <1>1, <1>2, <1>3, SearchedIs DEF GoesOn
<1>6. /\ sreq.mode = "content" => srun.total + srun.count = srun.skipped + srun.returned
      /\ sreq.mode = "count" => srun.count = Cardinality({l \in Matching(e) : l < n})
      /\ sreq.mode = "files" => \A l \in Matching(e) : l >= n
  BY <1>1, <1>2 DEF GoesOn
<1> QED
  BY <1>1, <1>2, <1>3, <1>4, <1>5, <1>6

\* A count that the deadline cuts short.
LEMMA CutShort ==
  ASSUME Searched, PagesOK(sat, srun, spage, sall), Reading, sreq.mode = "count", srun.count > 0
  PROVE  PagesOK(sat, FileDone(TimeOut(srun))[1], FileDone(TimeOut(srun))[2], sall)
<1> DEFINE e == sat[1]
           n == sat[2]
           r == TimeOut(srun)
           c == Cardinality(Matching(e))
           B == Cardinality(Behind(sat))
           R == Cardinality(Results)
<1>1. /\ sat = <<e, n>> /\ e \in 1..Len(sreq.tree) /\ e \in Nat /\ n \in Nat /\ sreq.tree[e].kind = "file"
      /\ srun \in RunType /\ Listed(srun, spage, sall) /\ GoesOn(sat, srun) /\ ~srun.stopped /\ ~srun.ended
      /\ spage \in Seq(Hits) /\ sall \in Seq(Hits) /\ srun.count = Cardinality({l \in Matching(e) : l < n})
      /\ IsPlace(sat)
  BY ReadingIs
<1>2. /\ r \in RunType /\ SameResults(r, srun) /\ SameCounts(r, srun) /\ r.stopped = TRUE /\ r.truncated = TRUE
      /\ r.timedOut = TRUE /\ r.ended = srun.ended
  BY <1>1, TimeOutIs
<1>3. r.count = srun.count /\ r.count > 0 /\ r.count \in Nat
  BY <1>1, <1>2, RunIs DEF SameCounts
<1> HIDE DEF r
<1>4. FileDone(r) = AddFile(r, e, r.count)
  BY <1>2, <1>3, FileDoneIs
<1>5. B \in Nat /\ R \in Nat /\ B + 1 <= R
  <2>1. Matching(e) # {}
    <3> SUFFICES ASSUME Matching(e) = {} PROVE FALSE
      OBVIOUS
    <3>1. {l \in Matching(e) : l < n} = {}
      OBVIOUS
    <3> QED
      BY <1>1, <1>3, <3>1, FS_EmptySet
  <2>2. c \in Nat /\ <<e, c>> \in Results
    BY <1>1, <2>1, ResultsAre
  <2> DEFINE q == <<e, c>>
             next == <<e + 1, 0>>
             x == [file |-> e, line |-> c]
  <2>3. IsNext(sat, q, next)
    BY <1>1, <2>2, PassFile
  <2>4. x.file = q[1] /\ x.line = q[2]
    OBVIOUS
  <2> HIDE DEF x, q, next
  <2> QED
    BY <2>3, <2>4, NextCounted
<1>6. /\ srun.offset \in Nat /\ srun.skipped \in Nat /\ srun.returned \in Nat
      /\ srun.skipped + srun.returned = B /\ srun.offset <= R
  BY <1>1, RunIs DEF GoesOn, Listed
<1> HIDE DEF B, R, e, n
<1>7. CASE Full(r)
  <2> DEFINE p == Stop(r)
  <2>1. FileDone(r) = <<p, spage>>
    BY <1>4, <1>7 DEF AddFile
  <2>2. /\ p \in RunType /\ SameResults(p, r) /\ SameCounts(p, r) /\ p.stopped = TRUE /\ p.truncated = TRUE
        /\ p.timedOut = r.timedOut /\ p.ended = r.ended
    BY <1>2, StopIs
  <2> HIDE DEF p
  <2>3. PagesOK(sat, p, spage, sall)
    BY <1>1, <1>2, <2>2, TimeOutListed DEF SameResults
  <2> QED
    BY <2>1, <2>3 DEF r
<1>8. CASE ~Full(r) /\ r.skipped < r.offset
  <2> DEFINE p == [r EXCEPT !.skipped = @ + 1, !.total = @ + r.count]
  <2>1. FileDone(r) = <<p, spage>>
    BY <1>4, <1>8 DEF AddFile
  <2>2. /\ p \in RunType /\ SameEnd(p, r) /\ p.offset = r.offset /\ p.returned = r.returned /\ p.out = r.out
        /\ p.skipped = r.skipped + 1
    BY <1>2, <1>3, SkipsFile
  <2> HIDE DEF p
  <2>3. srun.returned = 0
    BY <1>1, <1>2, <1>6, <1>8 DEF Listed, SameResults
  <2>4. Listed(p, spage, sall)
    BY <1>1, <1>2, <1>6, <1>8, <2>2, <2>3 DEF Listed, SameEnd, SameResults
  <2>5. HasStopped(p) /\ p.stopped
    BY <1>1, <1>2, <1>5, <1>6, <2>2, <2>3 DEF HasStopped, SameEnd, SameResults, R
  <2>6. PagesOK(sat, p, spage, sall)
    BY <1>1, <2>2, <2>4, <2>5 DEF PagesOK, SearchTypeOK
  <2> QED
    BY <2>1, <2>6 DEF r
<1>9. CASE ~Full(r) /\ ~(r.skipped < r.offset)
  <2> DEFINE p == [r EXCEPT !.returned = @ + 1, !.out = @ + 1, !.total = @ + r.count]
             x == [file |-> e, line |-> r.count, ctx |-> {}]
             page == Append(spage, x)
  <2>1. FileDone(r) = <<p, page>>
    BY <1>4, <1>9 DEF AddFile
  <2>2. /\ p \in RunType /\ SameEnd(p, r) /\ p.offset = r.offset /\ p.skipped = r.skipped
        /\ p.returned = r.returned + 1
    BY <1>2, <1>3, ReturnsFile
  <2>3. x \in Hits
    BY <1>1, <1>3 DEF Hits
  <2> HIDE DEF p, x
  <2>4. /\ page \in Seq(Hits) /\ Len(spage) \in Nat /\ Len(page) = Len(spage) + 1
        /\ \A i \in 1..(Len(spage) + 1) : page[i] = IF i <= Len(spage) THEN spage[i] ELSE x
    BY <1>1, <2>3, PageGrows
  <2> HIDE DEF page
  <2>5. srun.skipped = srun.offset /\ srun.returned + 1 <= sreq.max
    BY <1>1, <1>2, <1>6, <1>9, SearchedIs DEF Listed, Full, SameResults
  <2>6. Listed(p, page, sall)
    <3>1. \A i \in 1..Len(page) : i < Len(page) => IsNth(Results, page[i], p.offset + i)
      <4> TAKE i \in 1..Len(page)
      <4> HAVE i < Len(page)
      <4>1. i \in 1..Len(spage) /\ page[i] = spage[i]
        BY <2>4
      <4>2. ~srun.timedOut
        BY <1>1 DEF GoesOn
      <4> QED
        BY <1>1, <1>2, <2>2, <4>1, <4>2 DEF Listed, SameResults
    <3> QED
      BY <1>1, <1>2, <1>6, <2>2, <2>4, <2>5, <3>1 DEF Listed, SameEnd, SameResults
  <2>7. HasStopped(p) /\ p.stopped
    BY <1>1, <1>2, <1>5, <1>6, <2>2, <2>5 DEF HasStopped, SameEnd, SameResults, R
  <2>8. PagesOK(sat, p, page, sall)
    BY <1>1, <2>2, <2>4, <2>6, <2>7 DEF PagesOK, SearchTypeOK
  <2> QED
    BY <2>1, <2>8 DEF r
<1> QED
  BY <1>7, <1>8, <1>9

\* A line that does not end the file's search: <<run, page>> is p.
LEMMA OnwardListed ==
  ASSUME NEW p, Onward(p), PagesOK(<<sat[1], sat[2] + 1>>, p[1], p[2], sall)
  PROVE  PagesOK(sat', srun', spage', sall')
BY DEF Onward

LEMMA BreaksListed ==
  ASSUME NEW p, Breaks(p), PagesOK(sat, p[1], p[2], sall)
  PROVE  PagesOK(sat', srun', spage', sall')
BY DEF Breaks

LEMMA EntryListed ==
  ASSUME NEW r, NEW page, NextEntry(r, page), PagesOK(<<sat[1] + 1, 0>>, r, page, sall)
  PROVE  PagesOK(sat', srun', spage', sall')
BY DEF NextEntry

\* The deadline passes while a file is read.
LEMMA LineTimesOut ==
  ASSUME Searched, PagesOK(sat, srun, spage, sall), Reading
  PROVE  PagesOK(sat, FileDone(TimeOut(srun))[1], FileDone(TimeOut(srun))[2], sall)
<1> DEFINE r == TimeOut(srun)
<1>1. /\ srun \in RunType /\ ~srun.stopped /\ ~srun.ended /\ IsPlace(sat)
      /\ sreq.mode = "content" => srun.total + srun.count = srun.skipped + srun.returned
  BY ReadingIs
<1>2. /\ r \in RunType /\ SameResults(r, srun) /\ SameCounts(r, srun) /\ r.stopped = TRUE /\ r.truncated = TRUE
      /\ r.timedOut = TRUE /\ r.ended = srun.ended
  BY <1>1, TimeOutIs
<1> HIDE DEF r
<1>3. CASE sreq.mode = "content"
  <2> DEFINE p == [r EXCEPT !.total = @ + r.count]
  <2>1. p \in RunType /\ SameResults(p, r) /\ SameEnd(p, r) /\ p.total = r.total + r.count
    BY <1>2, TotalsFile
  <2>2. FileDone(r) = <<p, spage>>
    BY <1>2, <1>3, FileDoneIs
  <2> HIDE DEF p
  <2>3. PagesOK(sat, p, spage, sall)
    <3>1. SameResults(p, srun) /\ p.stopped = TRUE /\ p.truncated = TRUE /\ p.timedOut = TRUE /\ ~p.ended
      BY <1>1, <1>2, <2>1 DEF SameResults, SameEnd
    <3>2. p.total = p.skipped + p.returned
      BY <1>1, <1>2, <1>3, <2>1 DEF SameResults, SameCounts
    <3> QED
      BY <1>1, <2>1, <3>1, <3>2, TimeOutListed
  <2> QED
    BY <2>2, <2>3 DEF r
<1>4. CASE sreq.mode = "count" /\ srun.count > 0
  BY <1>4, CutShort
<1>5. CASE sreq.mode = "files" \/ (sreq.mode = "count" /\ srun.count = 0)
  <2>1. FileDone(r) = <<r, spage>>
    BY <1>2, <1>5, FileDoneIs DEF SameCounts
  <2>2. PagesOK(sat, r, spage, sall)
    BY <1>1, <1>2, <1>5, TimeOutListed
  <2> QED
    BY <2>1, <2>2 DEF r
<1> QED
  BY <1>1, <1>3, <1>4, <1>5, SearchedIs, RunIs

\* One more line has been counted.
LEMMA CountGrows ==
  ASSUME Searched, NEW e \in 1..Len(sreq.tree), NEW n \in Nat
  PROVE  /\ n \in Matching(e) => Cardinality({l \in Matching(e) : l < n + 1}) = Cardinality({l \in Matching(e) : l < n}) + 1
         /\ n \notin Matching(e) => {l \in Matching(e) : l < n + 1} = {l \in Matching(e) : l < n}
<1> DEFINE S == {l \in Matching(e) : l < n}
<1>1. Matching(e) \in SUBSET Nat /\ IsFiniteSet(Matching(e))
  <2>1. Matching(e) \in SUBSET Nat
    BY SearchedIs DEF Matching
  <2> QED
    BY <2>1, ResultsAre
<1>2. IsFiniteSet(S) /\ n \notin S
  BY <1>1, FS_Subset
<1>3. n \in Matching(e) => {l \in Matching(e) : l < n + 1} = S \cup {n}
  BY <1>1
<1>4. n \notin Matching(e) => {l \in Matching(e) : l < n + 1} = S
  BY <1>1
<1> HIDE DEF S
<1>5. Cardinality(S \cup {n}) = Cardinality(S) + 1
  BY <1>2, FS_AddElement
<1> QED
  BY <1>3, <1>4, <1>5 DEF S

\* A line that matches, content mode, and the page is full.
LEMMA MatchStops ==
  ASSUME Searched, PagesOK(sat, srun, spage, sall), Reading, sat[2] \in Matching(sat[1]),
         sreq.mode = "content", Full(srun)
  PROVE  PagesOK(sat, FileDone(Stop(srun))[1], FileDone(Stop(srun))[2], sall)
<1> DEFINE r == Stop(srun)
           e == sat[1]
           n == sat[2]
<1>1. /\ srun \in RunType /\ ~srun.stopped /\ ~srun.ended /\ IsPlace(sat) /\ sat = <<e, n>> /\ e \in Nat /\ n \in Nat
      /\ e \in 1..Len(sreq.tree) /\ sreq.tree[e].kind = "file"
      /\ srun.total + srun.count = srun.skipped + srun.returned
  BY ReadingIs
<1>2. /\ r \in RunType /\ SameResults(r, srun) /\ SameCounts(r, srun) /\ r.stopped = TRUE /\ r.truncated = TRUE
      /\ r.timedOut = srun.timedOut /\ r.next = srun.offset + srun.returned
  BY <1>1, StopIs
<1>3. Cardinality(Behind(sat)) < Cardinality(Results)
  <2> DEFINE x == [file |-> e, line |-> n]
             next == <<e, n + 1>>
  <2>1. <<e, n>> \in Results
    BY <1>1, ResultsAre
  <2>2. IsNext(sat, <<e, n>>, next)
    BY <1>1, <2>1, PassMatch
  <2>3. x.file = <<e, n>>[1] /\ x.line = <<e, n>>[2]
    OBVIOUS
  <2> HIDE DEF x, next
  <2> QED
    BY <2>2, <2>3, NextCounted
<1> HIDE DEF r
<1> DEFINE p == [r EXCEPT !.total = @ + r.count]
<1>4. p \in RunType /\ SameResults(p, r) /\ SameEnd(p, r) /\ p.total = r.total + r.count
  BY <1>2, TotalsFile
<1>5. FileDone(r) = <<p, spage>>
  BY <1>2, FileDoneIs
<1> HIDE DEF p
<1>6. SameResults(p, srun) /\ p.stopped = TRUE /\ p.truncated = TRUE /\ p.timedOut = srun.timedOut
      /\ p.next = srun.offset + srun.returned
  BY <1>2, <1>4 DEF SameResults, SameEnd
<1>7. p.total = p.skipped + p.returned
  BY <1>1, <1>2, <1>4 DEF SameResults, SameCounts
<1>8. PagesOK(sat, p, spage, sall)
  BY <1>1, <1>3, <1>4, <1>6, <1>7, StopListed
<1> QED
  BY <1>5, <1>8 DEF r

\* A line that matches, content mode: skipped or returned.
LEMMA MatchListed ==
  ASSUME Searched, PagesOK(sat, srun, spage, sall), Reading, sat[2] \in Matching(sat[1]),
         sreq.mode = "content", ~Full(srun)
  PROVE  PagesOK(<<sat[1], sat[2] + 1>>, AddMatch(sat[2])[1], AddMatch(sat[2])[2], sall)
<1> DEFINE e == sat[1]
           n == sat[2]
           next == <<e, n + 1>>
           before == BeforeLines(n)
           x == [file |-> e, line |-> n, ctx |-> before]
           B == Cardinality(Behind(sat))
<1>1. /\ sat = <<e, n>> /\ e \in 1..Len(sreq.tree) /\ e \in Nat /\ n \in Nat /\ sreq.tree[e].kind = "file"
      /\ srun \in RunType /\ Listed(srun, spage, sall) /\ GoesOn(sat, srun) /\ ~srun.stopped /\ ~srun.ended
      /\ spage \in Seq(Hits) /\ sall \in Seq(Hits)
      /\ srun.total + srun.count = srun.skipped + srun.returned
      /\ n <= Len(FileLines(e)) => IsPlace(<<e, n + 1>>)
  BY ReadingIs
<1>2. IsPlace(next) /\ next[2] = n + 1 /\ n + 1 > 0
  BY <1>1 DEF Matching
<1>3. before \in SUBSET Nat /\ IsFiniteSet(before) /\ Cardinality(before) \in Nat
  <2>1. before \in SUBSET (1..(n - 1))
    BY DEF BeforeLines
  <2>2. IsFiniteSet(1..(n - 1))
    <3>1. n - 1 \in Int /\ 1 \in Int
      BY <1>1
    <3> QED
      BY <3>1, FS_Interval
  <2>3. IsFiniteSet(before)
    BY <2>1, <2>2, FS_Subset
  <2> HIDE DEF before
  <2> QED
    BY <1>1, <2>1, <2>3, FS_CardinalityType
<1> HIDE DEF before
<1>4. B \in Nat /\ Cardinality(Behind(next)) = B + 1 /\ IsNth(Results, x, B + 1)
  <2>1. <<e, n>> \in Results
    BY <1>1, ResultsAre
  <2>2. IsNext(sat, <<e, n>>, next)
    BY <1>1, <2>1, PassMatch
  <2>3. x.file = <<e, n>>[1] /\ x.line = <<e, n>>[2]
    OBVIOUS
  <2> HIDE DEF x, next
  <2> QED
    BY <2>2, <2>3, NextCounted
<1>5. x \in Hits
  BY <1>1, <1>3 DEF Hits
<1>6. /\ srun.offset \in Nat /\ srun.skipped \in Nat /\ srun.returned \in Nat /\ srun.total \in Nat /\ srun.count \in Nat
      /\ srun.skipped + srun.returned = B
  BY <1>1, RunIs DEF GoesOn
<1> HIDE DEF next, x, B
<1>9. /\ ~srun.stopped /\ ~srun.ended /\ srun.total + srun.count = srun.skipped + srun.returned
      /\ srun \in RunType /\ Listed(srun, spage, sall) /\ GoesOn(sat, srun) /\ n \in Nat
      /\ spage \in Seq(Hits) /\ sall \in Seq(Hits)
  BY <1>1
<1> HIDE DEF n, e
<1>10. ASSUME NEW p, p.total = srun.total, p.count = srun.count + 1,
              p.skipped + p.returned = srun.skipped + srun.returned + 1
       PROVE  p.skipped + p.returned = Cardinality(Behind(next)) /\ p.total + p.count = p.skipped + p.returned
  <2> DEFINE t == srun.total
             u == srun.count
             v == srun.skipped
             w == srun.returned
  <2>1. t \in Nat /\ u \in Nat /\ v \in Nat /\ w \in Nat /\ t + u = v + w /\ v + w = B
    BY <1>6, <1>9
  <2>2. p.total = t /\ p.count = u + 1 /\ p.skipped + p.returned = v + w + 1
    BY <1>10
  <2> HIDE DEF t, u, v, w
  <2>3. t + (u + 1) = v + w + 1
    BY <2>1
  <2> QED
    BY <1>4, <2>1, <2>2, <2>3
<1>7. CASE srun.skipped < srun.offset
  <2> DEFINE p == [srun EXCEPT !.skipped = @ + 1, !.afterLeft = 0, !.count = @ + 1]
  <2>1. AddMatch(n) = <<p, spage>>
    BY <1>7 DEF AddMatch
  <2>2. /\ p \in RunType /\ SameEnd(p, srun) /\ p.offset = srun.offset /\ p.returned = srun.returned
        /\ p.out = srun.out /\ p.skipped = srun.skipped + 1 /\ p.total = srun.total /\ p.count = srun.count + 1
        /\ p.cur = srun.cur
    BY <1>1, SkipsMatch
  <2> HIDE DEF p
  <2>3. Listed(p, spage, sall)
    BY <1>6, <1>7, <1>9, <2>2 DEF Listed, SameEnd
  <2>4. GoesOn(next, p) /\ ~p.stopped
    <3>1. p.skipped + p.returned = Cardinality(Behind(next)) /\ p.total + p.count = p.skipped + p.returned
      <4>1. p.skipped + p.returned = srun.skipped + srun.returned + 1
        BY <1>6, <2>2
      <4> QED
        BY <1>10, <2>2, <4>1
    <3> QED
      BY <1>1, <1>2, <2>2, <3>1 DEF GoesOn, SameEnd
  <2>5. PagesOK(next, p, spage, sall)
    BY <1>1, <1>2, <2>2, <2>3, <2>4 DEF PagesOK, SearchTypeOK
  <2> QED
    BY <2>1, <2>5 DEF next, e, n
<1>8. CASE ~(srun.skipped < srun.offset)
  <2> DEFINE c == Cardinality(before)
             k == Len(spage) + 1
             m == sreq.after
             p == Matched(srun, c, k, n, m)
             page == Append(spage, x)
  <2>1. AddMatch(n) = <<p, page>>
    BY <1>8 DEF AddMatch, before, x, e, Matched
  <2>2. c \in Nat /\ k \in Nat /\ m \in Nat
    BY <1>1, <1>3, SearchedIs, PageGrows, <1>5
  <2> HIDE DEF c, k, m
  <2>3. /\ p \in RunType /\ SameEnd(p, srun) /\ p.offset = srun.offset /\ p.skipped = srun.skipped
        /\ p.total = srun.total /\ p.count = srun.count + 1 /\ p.returned = srun.returned + 1
        /\ p.cur = k
    <3>2. srun \in RunType /\ n \in Nat /\ c \in Nat /\ k \in Nat /\ m \in Nat
      BY <1>9, <2>2
    <3> QED
      <4>1. p \in RunType /\ SameEnd(p, srun)
        BY <3>2, ReturnsMatch
      <4>2. p.offset = srun.offset
        BY <3>2, ReturnsMatch
      <4>3. p.skipped = srun.skipped
        BY <3>2, ReturnsMatch
      <4>4. p.total = srun.total
        BY <3>2, ReturnsMatch
      <4>5. p.count = srun.count + 1
        BY <3>2, ReturnsMatch
      <4>6. p.returned = srun.returned + 1
        BY <3>2, ReturnsMatch
      <4>7. p.cur = k
        BY <3>2, ReturnsMatch
      <4> QED
        BY <4>1, <4>2, <4>3, <4>4, <4>5, <4>6, <4>7
  <2> HIDE DEF p
  <2>4. page \in Seq(Hits)
    BY <1>1, <1>5, PageGrows
  <2>5. Listed(p, page, sall)
    <3>1. p.timedOut = srun.timedOut
      BY <2>3 DEF SameEnd
    <3> QED
      BY <1>1, <1>4, <1>5, <1>8, <2>3, <3>1, ReturnListed DEF B
  <2> HIDE DEF page
  <2>6. GoesOn(next, p) /\ ~p.stopped
    <3>1. p.skipped + p.returned = Cardinality(Behind(next)) /\ p.total + p.count = p.skipped + p.returned
      <4>1. p.skipped + p.returned = srun.skipped + srun.returned + 1
        BY <1>6, <2>3
      <4> QED
        BY <1>10, <2>3, <4>1
    <3>2. p.cur <= p.returned
      BY <1>1, <1>6, <2>3 DEF k, Listed
    <3> QED
      BY <1>1, <1>2, <2>3, <3>1, <3>2 DEF GoesOn, SameEnd
  <2>7. PagesOK(next, p, page, sall)
    BY <1>1, <1>2, <2>3, <2>4, <2>5, <2>6 DEF PagesOK, SearchTypeOK
  <2> QED
    BY <2>1, <2>7 DEF next, e, n
<1> QED
  BY <1>7, <1>8

\* A match that is counted.
LEMMA CountListed ==
  ASSUME Searched, PagesOK(sat, srun, spage, sall), Reading, sat[2] \in Matching(sat[1]), sreq.mode = "count"
  PROVE  PagesOK(<<sat[1], sat[2] + 1>>, [srun EXCEPT !.count = @ + 1], spage, sall)
<1> DEFINE e == sat[1]
           n == sat[2]
           next == <<e, n + 1>>
           p == [srun EXCEPT !.count = @ + 1]
<1>1. /\ sat = <<e, n>> /\ e \in 1..Len(sreq.tree) /\ e \in Nat /\ n \in Nat
      /\ srun \in RunType /\ ~srun.stopped /\ ~srun.ended /\ spage \in Seq(Hits) /\ GoesOn(sat, srun)
      /\ srun.count = Cardinality({l \in Matching(e) : l < n})
      /\ n <= Len(FileLines(e)) => IsPlace(<<e, n + 1>>)
  BY ReadingIs
<1>2. IsPlace(next)
  BY <1>1 DEF Matching
<1>3. p \in RunType /\ SameResults(p, srun) /\ SameEnd(p, srun) /\ p.count = srun.count + 1
      /\ p.cur <= p.returned
  <2>1. p \in RunType /\ SameResults(p, srun) /\ SameEnd(p, srun) /\ SameMatch(p, srun) /\ p.count = srun.count + 1
    BY <1>1, CountsMatch
  <2>2. srun.cur <= srun.returned
    BY <1>1 DEF GoesOn
  <2> HIDE DEF p
  <2> QED
    BY <2>1, <2>2 DEF SameResults, SameMatch
<1>4. p.count = Cardinality({l \in Matching(next[1]) : l < next[2]})
  <2>1. Cardinality({l \in Matching(e) : l < n + 1}) = Cardinality({l \in Matching(e) : l < n}) + 1
    BY <1>1, CountGrows
  <2> HIDE DEF p
  <2> QED
    BY <1>1, <1>3, <2>1
<1>5. Behind(next) = Behind(sat)
  BY <1>1, PassLine
<1> HIDE DEF next, p
<1>6. PagesOK(next, p, spage, sall)
  BY <1>1, <1>2, <1>3, <1>4, <1>5, OnListed
<1> QED
  BY <1>6 DEF next, p

\* A line that does not match.
LEMMA PlainListed ==
  ASSUME Searched, PagesOK(sat, srun, spage, sall), Reading, sat[2] <= Len(FileLines(sat[1])),
         sat[2] \notin Matching(sat[1]),
         NEW p \in RunType, srun.returned = 0 => p.out = 0, p.cur = srun.cur,
         p.offset = srun.offset, p.skipped = srun.skipped, p.returned = srun.returned,
         SameCounts(p, srun), SameEnd(p, srun),
         NEW grown \in Seq(Hits), Len(grown) = Len(spage),
         \A i \in 1..Len(spage) : grown[i].file = spage[i].file /\ grown[i].line = spage[i].line
  PROVE  PagesOK(<<sat[1], sat[2] + 1>>, p, grown, sall)
<1> DEFINE e == sat[1]
           n == sat[2]
           next == <<e, n + 1>>
<1>1. /\ sat = <<e, n>> /\ e \in 1..Len(sreq.tree) /\ e \in Nat /\ n \in Nat /\ sreq.tree[e].kind = "file"
      /\ srun \in RunType /\ ~srun.stopped /\ ~srun.ended /\ sall \in Seq(Hits)
      /\ Listed(srun, spage, sall) /\ GoesOn(sat, srun)
      /\ sreq.mode = "content" => srun.total + srun.count = srun.skipped + srun.returned
      /\ sreq.mode = "count" => srun.count = Cardinality({l \in Matching(e) : l < n})
      /\ sreq.mode = "files" => \A l \in Matching(e) : l >= n
      /\ n <= Len(FileLines(e)) => IsPlace(<<e, n + 1>>)
  BY ReadingIs
<1>2. IsPlace(next) /\ next[1] = e /\ next[2] = n + 1
  BY <1>1
<1>3. {l \in Matching(e) : l < n + 1} = {l \in Matching(e) : l < n}
  BY <1>1, CountGrows
<1>4. sreq.mode = "files" => \A l \in Matching(e) : l >= n + 1
  <2>1. Matching(e) \in SUBSET Nat
    BY <1>1, SearchedIs DEF Matching
  <2> QED
    BY <1>1, <2>1
<1>5. Behind(next) = Behind(sat)
  <2>1. sreq.mode = "content" => <<e, n>> \notin Results
    BY <1>1, ResultsAre
  <2> QED
    BY <1>1, <2>1, PassLine
<1>6. \A k : \A i \in 1..Len(spage) : IsNth(Results, spage[i], k) => IsNth(Results, grown[i], k)
  BY DEF IsNth
<1> HIDE DEF e, n, next
<1>7. Listed(p, grown, sall)
  BY <1>1, <1>6 DEF Listed, SameEnd
<1>8. n + 1 > 0
  BY <1>1
<1>9. GoesOn(next, p) /\ ~p.stopped
  <2>1. /\ ~p.truncated /\ ~p.timedOut /\ p.next = 0 /\ p.cur <= p.returned /\ ~p.ended /\ ~p.stopped
        /\ p.skipped + p.returned = Cardinality(Behind(next))
    BY <1>1, <1>5 DEF GoesOn, SameEnd
  <2>2. sreq.mode = "count" => p.count = Cardinality({l \in Matching(next[1]) : l < next[2]})
    BY <1>1, <1>2, <1>3 DEF SameCounts
  <2>3. sreq.mode = "files" => \A l \in Matching(next[1]) : l >= next[2]
    BY <1>2, <1>4
  <2>4. sreq.mode = "content" => p.total + p.count = p.skipped + p.returned
    BY <1>1 DEF SameCounts
  <2> QED
    BY <1>2, <1>8, <2>1, <2>2, <2>3, <2>4 DEF GoesOn
<1>10. PagesOK(next, p, grown, sall)
  BY <1>1, <1>2, <1>7, <1>9 DEF PagesOK, SearchTypeOK
<1> QED
  BY <1>10 DEF next, e, n

\* A line of a file.
LEMMA LineListed ==
  ASSUME Searched, PagesOK(sat, srun, spage, sall), SearchLine
  PROVE  PagesOK(sat', srun', spage', sall')
<1> DEFINE e == sat[1]
           n == sat[2]
<1>1. Reading /\ n <= Len(FileLines(e))
  BY DEF SearchLine
<1>2. /\ e \in 1..Len(sreq.tree) /\ n \in Nat /\ n > 0 /\ Len(FileLines(e)) \in Nat /\ sreq.tree[e].kind = "file"
      /\ srun \in RunType /\ spage \in Seq(Hits) /\ ~srun.stopped /\ ~srun.ended /\ sat = <<e, n>>
      /\ Listed(srun, spage, sall) /\ GoesOn(sat, srun)
      /\ srun.offset \in Nat /\ srun.returned \in Nat
  BY <1>1, ReadingIs, RunIs
<1>3. n \in Matching(e) <=> FileLines(e)[n]
  BY <1>1, <1>2 DEF Matching
<1> HIDE DEF e, n
<1>4. CASE Breaks(FileDone(TimeOut(srun)))
  BY <1>1, <1>4, LineTimesOut, BreaksListed
<1>5. CASE FileLines(e)[n] /\ sreq.mode = "content" /\ Full(srun) /\ Breaks(FileDone(Stop(srun)))
  <2>1. PagesOK(sat, FileDone(Stop(srun))[1], FileDone(Stop(srun))[2], sall)
    BY <1>1, <1>3, <1>5, MatchStops DEF e, n
  <2> QED
    BY <1>5, <2>1, BreaksListed
<1>6. CASE FileLines(e)[n] /\ sreq.mode = "content" /\ ~Full(srun) /\ Onward(AddMatch(n))
  <2>1. PagesOK(<<sat[1], sat[2] + 1>>, AddMatch(n)[1], AddMatch(n)[2], sall)
    BY <1>1, <1>3, <1>6, MatchListed DEF e, n
  <2> QED
    BY <1>6, <2>1, OnwardListed
<1>7. CASE FileLines(e)[n] /\ sreq.mode = "files" /\ NextEntry(AddFile(srun, e, 0)[1], AddFile(srun, e, 0)[2])
  <2>1. <<e, 0>> \in Results /\ sreq.mode # "content" /\ 0 \in Nat
    BY <1>2, <1>3, <1>7, ResultsAre
  <2>2. PagesOK(<<e, n>>, srun, spage, sall)
    BY <1>2
  <2>3. PagesOK(<<e + 1, 0>>, AddFile(srun, e, 0)[1], AddFile(srun, e, 0)[2], sall)
    BY <1>2, <2>1, <2>2, AddFileListed
  <2> QED
    BY <1>7, <2>3, EntryListed DEF e
<1>8. CASE FileLines(e)[n] /\ sreq.mode = "count" /\ Onward(<<[srun EXCEPT !.count = @ + 1], spage>>)
  <2>1. PagesOK(<<sat[1], sat[2] + 1>>, [srun EXCEPT !.count = @ + 1], spage, sall)
    BY <1>1, <1>3, <1>8, CountListed DEF e, n
  <2> QED
    BY <1>8, <2>1 DEF Onward
<1>9. CASE ~FileLines(e)[n] /\ Onward(<<srun, spage>>)
  <2>1. SameResults(srun, srun) /\ SameCounts(srun, srun) /\ SameEnd(srun, srun)
    BY DEF SameResults, SameCounts, SameEnd
  <2>4. srun.returned = 0 => srun.out = 0
    BY <1>2 DEF Listed
  <2>2. n \notin Matching(e)
    BY <1>3, <1>9
  <2>3. PagesOK(<<sat[1], sat[2] + 1>>, srun, spage, sall)
    BY <1>1, <1>2, <2>1, <2>2, <2>4, PlainListed DEF e, n
  <2> QED
    BY <1>9, <2>3 DEF Onward
<1>10. CASE ~FileLines(e)[n] /\ srun.afterLeft > 0 /\ srun.cur > 0 /\ Onward(AfterLine(n))
  <2> DEFINE p == [srun EXCEPT !.out = @ + 1, !.afterLeft = @ - 1, !.emitted = n]
             k == srun.cur
             page == Extended(spage, k, n)
  <2>1. AfterLine(n) = <<p, page>>
    BY DEF AfterLine, Extended
  <2>2. /\ p \in RunType /\ SameCounts(p, srun) /\ SameEnd(p, srun)
        /\ p.offset = srun.offset /\ p.skipped = srun.skipped /\ p.returned = srun.returned
    BY <1>2, <1>10, AddsContext
  <2>8. p.cur = srun.cur
    BY <1>2, <1>10, AddsContext
  <2>3. k \in Nat
    BY <1>2, RunIs
  <2> HIDE DEF p
  <2> HIDE DEF k
  <2>4. /\ page \in Seq(Hits) /\ Len(page) = Len(spage)
        /\ \A i \in 1..Len(spage) : page[i].file = spage[i].file /\ page[i].line = spage[i].line
    <3>1. spage \in Seq(Hits) /\ n \in Nat
      BY <1>2
    <3> QED
      <4>1. page \in Seq(Hits) /\ Len(page) = Len(spage)
        BY <2>3, <3>1, ContextGrows
      <4>2. ASSUME NEW i \in 1..Len(spage) PROVE page[i].file = spage[i].file
        BY <2>3, <3>1, ContextAt
      <4>3. ASSUME NEW i \in 1..Len(spage) PROVE page[i].line = spage[i].line
        BY <2>3, <3>1, ContextAt
      <4> QED
        BY <4>1, <4>2, <4>3
  <2> HIDE DEF page
  <2>5. n \notin Matching(e)
    BY <1>3, <1>10
  <2>7. srun.returned # 0
    BY <1>2, <1>10, <2>3 DEF GoesOn, k
  <2>6. PagesOK(<<sat[1], sat[2] + 1>>, p, page, sall)
    <3>1. sat[2] <= Len(FileLines(sat[1])) /\ sat[2] \notin Matching(sat[1])
      BY <1>1, <2>5 DEF e, n
    <3>2. srun.returned = 0 => p.out = 0
      BY <2>7
    <3> QED
      BY <1>1, <2>2, <2>4, <2>8, <3>1, <3>2, PlainListed
  <2> QED
    BY <1>10, <2>1, <2>6 DEF Onward
<1> QED
  BY <1>4, <1>5, <1>6, <1>7, <1>8, <1>9, <1>10 DEF SearchLine, MatchingLine, e, n

\* The end of a file.
LEMMA EndListed ==
  ASSUME Searched, PagesOK(sat, srun, spage, sall), EndFile
  PROVE  PagesOK(sat', srun', spage', sall')
<1> DEFINE e == sat[1]
           n == sat[2]
           next == <<e + 1, 0>>
<1>1. Reading /\ n > Len(FileLines(e)) /\ NextEntry(FileDone(srun)[1], FileDone(srun)[2])
  BY DEF EndFile
<1>2. /\ sat = <<e, n>> /\ e \in 1..Len(sreq.tree) /\ e \in Nat /\ n \in Nat /\ sreq.tree[e].kind = "file"
      /\ Len(FileLines(e)) \in Nat /\ IsPlace(next)
      /\ srun \in RunType /\ Listed(srun, spage, sall) /\ GoesOn(sat, srun) /\ ~srun.stopped /\ ~srun.ended
      /\ spage \in Seq(Hits)
      /\ sreq.mode = "content" => srun.total + srun.count = srun.skipped + srun.returned
      /\ sreq.mode = "count" => srun.count = Cardinality({l \in Matching(e) : l < n})
      /\ sreq.mode = "files" => \A l \in Matching(e) : l >= n
  BY <1>1, ReadingIs
<1>3. Matching(e) \in SUBSET Nat /\ \A l \in Matching(e) : l < n
  BY <1>1, <1>2, SearchedIs DEF Matching
<1>4. srun.count \in Nat /\ srun.total \in Nat /\ srun.returned \in Nat /\ srun.cur <= srun.returned
  BY <1>2, RunIs DEF GoesOn
<1>5. ASSUME \A l : <<e, l>> \in Results => sreq.mode = "content",
             NEW p \in RunType, SameResults(p, srun), SameEnd(p, srun), SameMatch(p, srun),
             sreq.mode = "content" => p.total = p.skipped + p.returned
      PROVE  PagesOK(next, p, spage, sall)
  <2>1. \A l : <<e, l>> \in Results => sreq.mode = "content" /\ l < n
    BY <1>2, <1>3, <1>5, ResultsAre
  <2>2. Behind(next) = Behind(sat)
    BY <1>2, <2>1, PassEntry
  <2>3. ~(next[2] > 0)
    OBVIOUS
  <2>4. p.total \in Nat /\ p.cur <= p.returned
    BY <1>4, <1>5, RunIs DEF SameMatch, SameResults
  <2> HIDE DEF next, e, n
  <2>5. sreq.mode = "content" => p.total + (IF next[2] > 0 THEN p.count ELSE 0) = p.skipped + p.returned
    BY <1>5, <2>3, <2>4
  <2> QED
    BY <1>2, <1>5, <2>2, <2>3, <2>4, <2>5, OnListed
<1>6. SameResults(srun, srun) /\ SameEnd(srun, srun) /\ SameMatch(srun, srun)
  BY DEF SameResults, SameEnd, SameMatch
<1>7. CASE sreq.mode = "content"
  <2> DEFINE p == [srun EXCEPT !.total = @ + srun.count]
  <2>1. FileDone(srun) = <<p, spage>>
    BY <1>2, <1>7, FileDoneIs
  <2>2. p \in RunType /\ SameResults(p, srun) /\ SameMatch(p, srun) /\ SameEnd(p, srun) /\ p.total = srun.total + srun.count
    BY <1>2, TotalsFile
  <2> HIDE DEF p
  <2>3. p.total = p.skipped + p.returned
    BY <1>2, <1>7, <2>2 DEF SameResults
  <2>4. PagesOK(next, p, spage, sall)
    BY <1>5, <1>7, <2>2, <2>3
  <2> QED
    BY <1>1, <2>1, <2>4, EntryListed
<1>8. CASE sreq.mode = "files" \/ (sreq.mode = "count" /\ srun.count = 0)
  <2>1. FileDone(srun) = <<srun, spage>>
    BY <1>2, <1>8, FileDoneIs
  <2>2. Matching(e) = {}
    <3>1. CASE sreq.mode = "files"
      <4>1. \A l \in Matching(e) : l \in Nat /\ l >= n /\ l < n
        BY <1>2, <1>3, <3>1
      <4> QED
        BY <1>2, <4>1
    <3>2. CASE sreq.mode = "count" /\ srun.count = 0
      <4>1. {l \in Matching(e) : l < n} = Matching(e)
        BY <1>3
      <4>2. Cardinality(Matching(e)) = 0 /\ IsFiniteSet(Matching(e))
        BY <1>2, <3>2, <4>1, ResultsAre
      <4> QED
        BY <4>2, FS_EmptySet
    <3> QED
      BY <1>8, <3>1, <3>2
  <2>3. \A l : <<e, l>> \notin Results
    BY <2>2, ResultsAre
  <2>4. PagesOK(next, srun, spage, sall)
    BY <1>2, <1>5, <1>6, <1>8, <2>3
  <2> QED
    BY <1>1, <2>1, <2>4, EntryListed
<1>9. CASE sreq.mode = "count" /\ srun.count > 0
  <2> DEFINE c == srun.count
  <2>1. FileDone(srun) = AddFile(srun, e, c)
    BY <1>2, <1>9, FileDoneIs
  <2>2. c = Cardinality(Matching(e)) /\ c > 0 /\ c \in Nat
    <3>1. {l \in Matching(e) : l < n} = Matching(e)
      BY <1>3
    <3> QED
      BY <1>2, <1>4, <1>9, <3>1
  <2>3. <<e, c>> \in Results
    <3>1. Matching(e) # {}
      <4> SUFFICES ASSUME Matching(e) = {} PROVE FALSE
        OBVIOUS
      <4>1. c = Cardinality({})
        BY <2>2
      <4> QED
        BY <2>2, <4>1, FS_EmptySet
    <3> QED
      BY <1>2, <1>9, <2>2, <3>1, ResultsAre
  <2> HIDE DEF c
  <2>4. PagesOK(<<e, n>>, srun, spage, sall) /\ sreq.mode # "content"
    BY <1>2, <1>9
  <2> HIDE DEF e, n
  <2>5. PagesOK(next, AddFile(srun, e, c)[1], AddFile(srun, e, c)[2], sall)
    BY <1>2, <2>2, <2>3, <2>4, AddFileListed
  <2> QED
    BY <1>1, <2>1, <2>5, EntryListed DEF e
<1> QED
  BY <1>4, <1>7, <1>8, <1>9, SearchedIs

\* The end of a search.
LEMMA FinishListed ==
  ASSUME Searched, PagesOK(sat, srun, spage, sall), Finish
  PROVE  PagesOK(sat', srun', spage', sall')
<1> DEFINE n == IF srun.timedOut THEN 0 ELSE srun.next
           p == [srun EXCEPT !.ended = TRUE, !.next = n]
<1>1. srun' = p /\ sat' = sat /\ spage' = spage /\ sall' = sall /\ (srun.stopped \/ sat[1] > Len(sreq.tree))
  BY DEF Finish
<1>2. srun \in RunType /\ Listed(srun, spage, sall) /\ spage \in Seq(Hits) /\ sall \in Seq(Hits) /\ IsPlace(sat)
  BY DEF PagesOK, SearchTypeOK
<1>3. n \in Nat
  BY <1>2, RunIs
<1> HIDE DEF n
<1>4. /\ p \in RunType /\ SameResults(p, srun) /\ SameCounts(p, srun) /\ SameMatch(p, srun)
      /\ p.stopped = srun.stopped /\ p.timedOut = srun.timedOut /\ p.truncated = srun.truncated
      /\ p.ended = TRUE /\ p.next = n
  BY <1>2, <1>3, Ends
<1> HIDE DEF p
<1>5. Listed(p, spage, sall)
  BY <1>2, <1>4 DEF Listed, SameResults
<1>6. CASE srun.stopped
  <2>1. HasStopped(srun)
    BY <1>6 DEF PagesOK
  <2>2. HasStopped(p)
    BY <1>4, <2>1 DEF HasStopped, SameResults, SameCounts, n
  <2> QED
    BY <1>1, <1>2, <1>4, <1>5, <1>6, <2>2 DEF PagesOK, SearchTypeOK
<1>7. CASE ~srun.stopped
  <2>1. GoesOn(sat, srun) /\ sat[1] > Len(sreq.tree)
    BY <1>1, <1>7 DEF PagesOK
  <2>2. n = 0
    BY <2>1 DEF GoesOn, n
  <2>3. GoesOn(sat, p)
    BY <1>4, <2>1, <2>2 DEF GoesOn, SameResults, SameCounts, SameMatch
  <2> QED
    BY <1>1, <1>2, <1>4, <1>5, <1>7, <2>3 DEF PagesOK, SearchTypeOK
<1> QED
  BY <1>6, <1>7

\* A search that begins.
LEMMA NewListed ==
  ASSUME Searched, NEW n \in Nat, NEW got \in Seq(Hits), Len(got) = n, n <= Cardinality(Results),
         \A i \in 1..Len(got) : IsNth(Results, got[i], i)
  PROVE  PagesOK(<<1, 0>>, NewRun(n), <<>>, got)
<1> DEFINE p == NewRun(n)
           at == <<1, 0>>
           page == <<>>
<1>1. /\ p \in RunType /\ p.offset = n /\ p.skipped = 0 /\ p.returned = 0 /\ p.out = 0
      /\ p.stopped = FALSE /\ p.timedOut = FALSE /\ p.truncated = FALSE /\ p.next = 0 /\ p.ended = FALSE
      /\ p.total = 0 /\ p.count = 0 /\ p.cur = 0
  BY NewRunIs
<1>2. IsPlace(at) /\ at[2] = 0 /\ ~(at[2] > 0)
  BY SearchedIs DEF IsPlace
<1>3. Cardinality(Behind(at)) = 0
  BY PassNone, FS_EmptySet
<1>4. page \in Seq(Hits) /\ Len(page) = 0
  BY EmptySeq
<1> HIDE DEF p, at, page
<1>5. Listed(p, page, got)
  <2>1. 0 <= sreq.max /\ 0 <= n /\ ~(0 > 0)
    BY SearchedIs
  <2>2. \A i \in 1..0 : FALSE
    OBVIOUS
  <2> QED
    BY <1>1, <1>4, <2>1, <2>2 DEF Listed
<1>6. GoesOn(at, p)
  BY <1>1, <1>2, <1>3 DEF GoesOn
<1>7. PagesOK(at, p, page, got)
  BY <1>1, <1>2, <1>4, <1>5, <1>6 DEF PagesOK, SearchTypeOK
<1> QED
  BY <1>7 DEF p, at, page

\* The next page.
LEMMA PageListed ==
  ASSUME Searched, PagesOK(sat, srun, spage, sall), NextPage
  PROVE  PagesOK(sat', srun', spage', sall')
<1> DEFINE got == sall \o spage
           n == srun.next
<1>1. /\ srun.ended /\ srun.truncated /\ n > 0
      /\ sall' = got /\ spage' = <<>> /\ srun' = NewRun(n) /\ sat' = <<1, 0>>
  BY DEF NextPage
<1>2. srun \in RunType /\ Listed(srun, spage, sall) /\ spage \in Seq(Hits) /\ sall \in Seq(Hits)
  BY DEF PagesOK, SearchTypeOK
<1>3. srun.stopped /\ HasStopped(srun)
  BY <1>1 DEF PagesOK, GoesOn
<1>4. ~srun.timedOut
  BY <1>1, <1>3 DEF HasStopped
<1>5. n \in Nat /\ srun.offset \in Nat /\ srun.returned \in Nat /\ Cardinality(Results) \in Nat
  BY <1>2, RunIs, ResultsCount
<1>6. n = srun.offset + srun.returned /\ n <= Cardinality(Results)
  BY <1>3, <1>4, <1>5 DEF HasStopped
<1>7. /\ got \in Seq(Hits) /\ Len(got) = Len(sall) + Len(spage) /\ Len(sall) \in Nat /\ Len(spage) \in Nat
      /\ \A i \in 1..(Len(sall) + Len(spage)) : got[i] = IF i <= Len(sall) THEN sall[i] ELSE spage[i - Len(sall)]
  BY <1>2, ConcatProperties, LenProperties
<1> HIDE DEF got, n
<1>8. Len(got) = n /\ Len(sall) = srun.offset
  BY <1>2, <1>6, <1>7 DEF Listed
<1>9. ASSUME NEW i \in 1..Len(got) PROVE IsNth(Results, got[i], i)
  <2>1. CASE i <= Len(sall)
    <3>1. i \in 1..Len(sall) /\ got[i] = sall[i]
      BY <1>7, <2>1
    <3> QED
      BY <1>2, <3>1 DEF Listed
  <2>2. CASE ~(i <= Len(sall))
    <3> DEFINE j == i - Len(sall)
    <3>1. j \in 1..Len(spage) /\ got[i] = spage[j] /\ srun.offset + j = i
      BY <1>7, <1>8, <2>2
    <3> HIDE DEF j
    <3>2. IsNth(Results, spage[j], srun.offset + j)
      BY <1>2, <1>4, <3>1 DEF Listed
    <3> QED
      BY <3>1, <3>2
  <2> QED
    BY <2>1, <2>2
<1> QED
  BY <1>1, <1>5, <1>6, <1>7, <1>8, <1>9, NewListed

\* The results are those of the request.
LEMMA SameRequest ==
  ASSUME sreq' = sreq
  PROVE  PagesOK(sat', srun', spage', sall') => PagesOK(sat, srun, spage, sall)'
<1>1. Results' = Results /\ \A e : Matching(e)' = Matching(e)
  <2>1. \A e : Matching(e)' = Matching(e)
    BY DEF Matching, FileLines
  <2>2. ASSUME NEW e PROVE ResultsOf(e)' = ResultsOf(e)
    <3>1. Matching(e)' = Matching(e)
      BY <2>1
    <3> QED
      BY <3>1 DEF ResultsOf
  <2> QED
    BY <2>1, <2>2 DEF Results
<1> QED
  BY <1>1 DEF PagesOK, SearchTypeOK, Listed, GoesOn, HasStopped, Behind, IsPlace, FileLines

SearchInv == Searched /\ PagesOK(sat, srun, spage, sall)

LEMMA SearchStep ==
  ASSUME SearchInv, SearchNext PROVE SearchInv'
<1>1. Searched /\ PagesOK(sat, srun, spage, sall)
  BY DEF SearchInv
<1>2. sreq' = sreq
  BY DEF SearchNext, Walk, SearchLine, MatchingLine, EndFile, Finish, NextPage, NextEntry, Onward, Breaks
<1>3. PagesOK(sat', srun', spage', sall')
  BY <1>1, WalkListed, LineListed, EndListed, FinishListed, PageListed DEF SearchNext
<1>4. Searched'
  BY <1>1, <1>2 DEF Searched
<1> QED
  BY <1>2, <1>3, <1>4, SameRequest DEF SearchInv

LEMMA SearchBegins ==
  ASSUME NEW requests \in SUBSET SearchRequests, SearchStarts(requests) PROVE SearchInv
<1>1. sreq \in SearchRequests
  BY Zenon DEF SearchStarts
<1>2. Searched
  BY <1>1 DEF Searched
<1>3. sat = <<1, 0>> /\ srun = NewRun(0) /\ spage = <<>> /\ sall = <<>>
  BY DEF SearchStarts
<1>4. Cardinality(Results) \in Nat
  BY <1>2, ResultsCount
<1>5. PagesOK(<<1, 0>>, NewRun(0), <<>>, <<>>)
  <2> DEFINE got == <<>>
  <2>1. got \in Seq(Hits) /\ Len(got) = 0
    BY EmptySeq
  <2>2. \A i \in 1..0 : FALSE
    OBVIOUS
  <2> HIDE DEF got
  <2>3. PagesOK(<<1, 0>>, NewRun(0), <<>>, got)
    <3>1. \A i \in 1..Len(got) : IsNth(Results, got[i], i)
      BY <2>1, <2>2
    <3>2. 0 \in Nat /\ 0 <= Cardinality(Results)
      BY <1>4
    <3> QED
      BY <1>2, <2>1, <3>1, <3>2, NewListed
  <2> QED
    BY <2>3 DEF got
<1> QED
  BY <1>2, <1>3, <1>5 DEF SearchInv

LEMMA PagesExact == SearchInv => SearchPagesExact
<1> SUFFICES ASSUME SearchInv, srun.ended PROVE SearchPagesExact
  BY DEF SearchPagesExact
<1> DEFINE got == sall \o spage
           exact == IF srun.timedOut /\ sreq.mode = "count" THEN Len(got) - 1 ELSE Len(got)
           R == Cardinality(Results)
<1>1. Searched /\ PagesOK(sat, srun, spage, sall)
  BY DEF SearchInv
<1>2. srun \in RunType /\ Listed(srun, spage, sall) /\ spage \in Seq(Hits) /\ sall \in Seq(Hits) /\ IsPlace(sat)
  BY <1>1 DEF PagesOK, SearchTypeOK
<1>3. srun.offset \in Nat /\ srun.skipped \in Nat /\ srun.returned \in Nat /\ srun.total \in Nat /\ R \in Nat
  BY <1>1, <1>2, RunIs, ResultsCount
<1>4. /\ got \in Seq(Hits) /\ Len(got) = Len(sall) + Len(spage) /\ Len(sall) \in Nat /\ Len(spage) \in Nat
      /\ \A i \in 1..(Len(sall) + Len(spage)) : got[i] = IF i <= Len(sall) THEN sall[i] ELSE spage[i - Len(sall)]
  BY <1>2, ConcatProperties, LenProperties
<1> HIDE DEF got
<1>5. Len(sall) = srun.offset /\ Len(spage) = srun.returned /\ Len(spage) <= sreq.max /\ Len(got) = srun.offset + srun.returned
  BY <1>2, <1>4 DEF Listed
<1>6. ASSUME NEW i \in 1..exact PROVE IsNth(Results, got[i], i)
  <2>1. i \in 1..Len(got)
    BY <1>4
  <2>2. CASE i <= Len(sall)
    <3>1. i \in 1..Len(sall) /\ got[i] = sall[i]
      BY <1>4, <2>1, <2>2
    <3> QED
      BY <1>2, <3>1 DEF Listed
  <2>3. CASE ~(i <= Len(sall))
    <3> DEFINE j == i - Len(sall)
    <3>1. /\ j \in 1..Len(spage) /\ got[i] = spage[j] /\ srun.offset + j = i
          /\ j < Len(spage) \/ ~(srun.timedOut /\ sreq.mode = "count")
      BY <1>4, <1>5, <2>1, <2>3
    <3> HIDE DEF j
    <3>2. IsNth(Results, spage[j], srun.offset + j)
      BY <1>2, <3>1 DEF Listed
    <3> QED
      BY <3>1, <3>2
  <2> QED
    BY <2>2, <2>3
<1> HIDE DEF exact
<1>7. CASE srun.stopped
  <2>1. HasStopped(srun)
    BY <1>1, <1>7 DEF PagesOK
  <2>2. Len(got) <= R /\ sreq.mode = "content" => srun.total = srun.skipped + srun.returned
    BY <1>5, <2>1 DEF HasStopped
  <2>3. ~srun.timedOut => srun.truncated = (Len(got) < R)
    BY <1>3, <1>5, <2>1 DEF HasStopped
  <2>4. srun.truncated /\ ~srun.timedOut => Len(spage) > 0 /\ srun.next = Len(got)
    BY <1>5, <2>1 DEF HasStopped
  <2>5. Len(got) <= R
    BY <1>5, <2>1 DEF HasStopped
  <2> QED
    BY <1>5, <1>6, <2>2, <2>3, <2>4, <2>5 DEF SearchPagesExact, exact, got, R
<1>8. CASE ~srun.stopped
  <2>1. GoesOn(sat, srun) /\ sat[1] > Len(sreq.tree) /\ sat[2] \in Nat /\ sat[1] \in Nat /\ sat = <<sat[1], sat[2]>>
    BY <1>1, <1>2, <1>8, PlaceIs DEF PagesOK, GoesOn
  <2>2. Behind(sat) = Results
    BY <1>1, <2>1, PassAll
  <2>3. srun.skipped + srun.returned = R
    BY <2>1, <2>2 DEF GoesOn
  <2>4. Len(got) = R
    <3>1. srun.skipped <= srun.offset /\ (srun.returned > 0 => srun.skipped = srun.offset) /\ srun.offset <= R
      BY <1>2 DEF Listed
    <3> QED
      BY <1>3, <1>5, <2>3, <3>1
  <2>5. ~(sat[2] > 0)
    BY <1>2, <2>1, SearchedIs, <1>1 DEF IsPlace
  <2>6. sreq.mode = "content" => srun.total = srun.skipped + srun.returned
    BY <1>3, <2>1, <2>5 DEF GoesOn
  <2>7. ~srun.truncated /\ ~(R < R) /\ R <= R
    BY <1>3, <2>1 DEF GoesOn
  <2> QED
    BY <1>5, <1>6, <2>4, <2>6, <2>7, <1>2, RunIs DEF SearchPagesExact, exact, got, R
<1> QED
  BY <1>7, <1>8

-----------------------------------------------------------------------------
(* Search: the context of a page.                                          *)

\* Where a match of the page lies, that it and its context are returned once,
\* and the context it has when the search is at `at`.
Placed(at, page, i) ==
  /\ page[i].file \in 1..Len(sreq.tree) /\ page[i].line \in Matching(page[i].file)
  /\ page[i].file < at[1] \/ (page[i].file = at[1] /\ \A l \in LinesAt(page, i) : l < at[2])
Apart(page, i) ==
  /\ page[i].line \notin page[i].ctx
  /\ \A j \in Emitted(page, page[i].file) \ {i} : LinesAt(page, i) \cap LinesAt(page, j) = {}
HasBefore(page, i) ==
  \A l \in 1..(page[i].line - 1) : l >= page[i].line - sreq.before => l \in LinesOf(page, page[i].file)
Follows(page, i, l) ==
  /\ l \in (page[i].line + 1)..Len(FileLines(page[i].file)) /\ l <= page[i].line + sreq.after
  /\ \A k \in (page[i].line + 1)..l : ~FileLines(page[i].file)[k]
HasAfter(at, page, i) ==
  \A l : Follows(page, i, l) /\ (page[i].file < at[1] \/ l < at[2]) => l \in LinesOf(page, page[i].file)

HitsOK(at, page) ==
  \A i \in 1..Len(page) : Placed(at, page, i) /\ Apart(page, i) /\ HasBefore(page, i) /\ HasAfter(at, page, i)

\* The match that collects the context behind it: what the lines up to `emitted`
\* are, and that a line it still waits for is the next one.
CollectsOK(at, r, page) ==
  /\ r.cur \in Emitted(page, at[1])
  /\ r.afterLeft <= sreq.after /\ r.emitted = page[r.cur].line + (sreq.after - r.afterLeft)
  /\ r.emitted < at[2] /\ (r.afterLeft > 0 => r.emitted = at[2] - 1)
  /\ (page[r.cur].line + 1)..r.emitted \subseteq LinesOf(page, at[1])
  /\ \A i \in Emitted(page, at[1]) : page[i].line <= page[r.cur].line /\ \A l \in LinesAt(page, i) : l <= r.emitted

CurrentOK(at, r, page) ==
  /\ r.cur = 0 => r.afterLeft = 0 /\ r.emitted = 0 /\ Emitted(page, at[1]) = {}
  /\ r.cur > 0 => CollectsOK(at, r, page)

ContextOK(at, r, page) ==
  /\ HitsOK(at, page)
  /\ ~r.stopped /\ at[2] > 0 => CurrentOK(at, r, page)
  /\ r.stopped /\ ~r.timedOut => at[1] <= Len(sreq.tree) /\ at[2] \in Matching(at[1])

LEMMA HitIs ==
  ASSUME NEW page \in Seq(Hits), NEW i \in 1..Len(page)
  PROVE  /\ page[i].file \in Nat /\ page[i].line \in Nat /\ page[i].ctx \in SUBSET Nat
         /\ i \in Emitted(page, page[i].file) /\ page[i].line \in LinesAt(page, i)
         /\ \A l \in LinesAt(page, i) : l \in Nat
<1>1. page[i] \in Hits
  BY ElementOfSeq
<1> QED
  BY <1>1 DEF Hits, Emitted, LinesAt

LEMMA LineOf ==
  ASSUME NEW page, NEW e, NEW l
  PROVE  l \in LinesOf(page, e) <=> \E i \in Emitted(page, e) : l \in LinesAt(page, i)
BY DEF LinesOf

LEMMA MatchIs ==
  ASSUME Searched, NEW e \in 1..Len(sreq.tree), NEW l
  PROVE  /\ l \in Matching(e) <=> l \in 1..Len(FileLines(e)) /\ FileLines(e)[l]
         /\ Len(FileLines(e)) \in Nat
BY SearchedIs DEF Matching

\* The search is behind every file of the page.
LEMMA AllBehind ==
  ASSUME Searched, NEW page \in Seq(Hits), NEW at \in Nat \X Nat, HitsOK(at, page),
         \A i \in 1..Len(page) : page[i].file < at[1] \/ \A l : Follows(page, i, l) => l < at[2],
         NEW next \in Nat \X Nat, next[1] >= at[1],
         next[1] > at[1] \/ \A i \in 1..Len(page) : page[i].file < at[1]
  PROVE  HitsOK(next, page)
<1> SUFFICES ASSUME NEW i \in 1..Len(page) PROVE Placed(next, page, i) /\ HasAfter(next, page, i)
  BY DEF HitsOK
<1>1. at[1] \in Nat /\ next[1] \in Nat /\ page[i].file \in Nat
  BY HitIs
<1>2. Placed(at, page, i) /\ HasAfter(at, page, i)
  BY DEF HitsOK
<1>3. page[i].file < next[1]
  BY <1>1, <1>2 DEF Placed
<1>4. Placed(next, page, i)
  BY <1>2, <1>3 DEF Placed
<1>5. HasAfter(next, page, i)
  BY <1>2 DEF HasAfter
<1> QED
  BY <1>4, <1>5

\* A place where no file is open is behind every match.
LEMMA NoneOpen ==
  ASSUME NEW page \in Seq(Hits), NEW at \in Nat \X Nat, HitsOK(at, page), at[2] = 0
  PROVE  (\A i \in 1..Len(page) : page[i].file < at[1]) /\ Emitted(page, at[1]) = {}
<1>1. ASSUME NEW i \in 1..Len(page) PROVE page[i].file < at[1] /\ page[i].file # at[1]
  <2>1. page[i].file < at[1] \/ \A l \in LinesAt(page, i) : l < at[2]
    BY DEF HitsOK, Placed
  <2>2. page[i].line \in LinesAt(page, i) /\ page[i].line \in Nat /\ page[i].file \in Nat
    BY HitIs
  <2>3. ~(page[i].line < at[2])
    BY <2>2
  <2> QED
    BY <2>1, <2>2, <2>3
<1> QED
  BY <1>1 DEF Emitted

LEMMA WalkContext ==
  ASSUME SearchInv, ContextOK(sat, srun, spage), Walk
  PROVE  ContextOK(sat', srun', spage')
<1>1. /\ sat \in Nat \X Nat /\ sat[2] = 0 /\ ~srun.stopped /\ srun \in RunType /\ spage \in Seq(Hits) /\ Searched
      /\ HitsOK(sat, spage)
  BY DEF SearchInv, PagesOK, SearchTypeOK, IsPlace, Walk, ContextOK
<1>2. (\A i \in 1..Len(spage) : spage[i].file < sat[1]) /\ Emitted(spage, sat[1]) = {}
  BY <1>1, NoneOpen
<1>3. ASSUME NEW p, NEW next, next = <<sat[1] + 1, 0>>, p.stopped = srun.stopped PROVE ContextOK(next, p, spage)
  <2>1. next \in Nat \X Nat /\ next[1] >= sat[1] /\ ~(next[2] > 0)
    BY <1>1, <1>3
  <2>2. HitsOK(next, spage)
    BY <1>1, <1>2, <2>1, AllBehind
  <2> QED
    BY <1>1, <1>3, <2>1, <2>2 DEF ContextOK
<1>4. CASE NextEntry(srun, spage)
  BY <1>3, <1>4 DEF NextEntry
<1>5. CASE NextEntry([srun EXCEPT !.skippedFiles = @ + 1], spage)
  <2> DEFINE p == [srun EXCEPT !.skippedFiles = @ + 1]
  <2>1. p.stopped = srun.stopped
    BY <1>1, CountsSkip DEF SameEnd
  <2> HIDE DEF p
  <2>2. srun' = p /\ spage' = spage /\ sat' = <<sat[1] + 1, 0>>
    BY <1>5 DEF NextEntry, p
  <2> QED
    BY <1>3, <2>1, <2>2
<1>6. CASE /\ srun' = [srun EXCEPT !.searched = @ + 1, !.cur = 0, !.afterLeft = 0, !.emitted = 0, !.count = 0]
           /\ sat' = <<sat[1], 1>>
           /\ UNCHANGED <<sreq, spage, sall>>
  <2> DEFINE p == [srun EXCEPT !.searched = @ + 1, !.cur = 0, !.afterLeft = 0, !.emitted = 0, !.count = 0]
             next == <<sat[1], 1>>
  <2>1. p.stopped = srun.stopped /\ p.cur = 0 /\ p.afterLeft = 0 /\ p.emitted = 0
    BY <1>1, OpensFile DEF SameEnd
  <2> HIDE DEF p
  <2>2. next \in Nat \X Nat /\ next[1] >= sat[1] /\ next[1] = sat[1]
    BY <1>1
  <2> HIDE DEF next
  <2>3. HitsOK(next, spage)
    BY <1>1, <1>2, <2>2, AllBehind
  <2>4. CurrentOK(next, p, spage)
    BY <1>2, <2>1, <2>2 DEF CurrentOK
  <2>5. ContextOK(next, p, spage)
    BY <1>1, <2>1, <2>3, <2>4 DEF ContextOK
  <2> QED
    BY <1>6, <2>5 DEF p, next
<1>7. CASE srun' = TimeOut(srun) /\ UNCHANGED <<sreq, sat, spage, sall>>
  <2> DEFINE p == TimeOut(srun)
  <2>1. p.stopped = TRUE /\ p.timedOut = TRUE
    BY <1>1, TimeOutIs
  <2> HIDE DEF p
  <2>2. ContextOK(sat, p, spage)
    BY <1>1, <2>1 DEF ContextOK
  <2> QED
    BY <1>7, <2>2 DEF p
<1> QED
  BY <1>4, <1>5, <1>6, <1>7 DEF Walk

\* What a line needs of the state.
LEMMA AtLine ==
  ASSUME SearchInv, ContextOK(sat, srun, spage), Reading, NEW e, NEW n, e = sat[1], n = sat[2]
  PROVE  /\ Searched /\ sat \in Nat \X Nat /\ sat = <<e, n>> /\ e \in Nat /\ n \in Nat /\ n > 0
         /\ e \in 1..Len(sreq.tree) /\ sreq.tree[e].kind = "file"
         /\ srun \in RunType /\ spage \in Seq(Hits) /\ Len(spage) \in Nat
         /\ HitsOK(sat, spage) /\ CurrentOK(sat, srun, spage) /\ ~srun.stopped
         /\ srun.cur \in Nat /\ srun.afterLeft \in Nat /\ srun.emitted \in Nat
         /\ sreq.before \in Nat /\ sreq.after \in Nat /\ Len(FileLines(e)) \in Nat
         /\ Listed(srun, spage, sall) /\ GoesOn(sat, srun)
<1>1. Searched /\ PagesOK(sat, srun, spage, sall)
  BY DEF SearchInv
<1>2. Reading => ~srun.stopped /\ sat[2] > 0
  BY DEF Reading
<1> QED
  BY <1>1, <1>2, ReadingIs, RunIs, SearchedIs, LenProperties DEF ContextOK, IsPlace

\* The lines behind the matches of a page, when the search passes line n: only
\* the match that collects context may lack line n.
LEMMA PassesLine ==
  ASSUME SearchInv, ContextOK(sat, srun, spage), Reading, sat[2] <= Len(FileLines(sat[1])),
         NEW i \in 1..Len(spage), Follows(spage, i, sat[2]), spage[i].file = sat[1]
  PROVE  i = srun.cur /\ srun.afterLeft > 0 /\ srun.emitted = sat[2] - 1
<1> DEFINE e == sat[1]
           n == sat[2]
           m == spage[srun.cur].line
<1>1. /\ Searched /\ sat = <<e, n>> /\ e \in Nat /\ n \in Nat /\ n > 0 /\ e \in 1..Len(sreq.tree)
      /\ spage \in Seq(Hits) /\ Len(spage) \in Nat /\ HitsOK(sat, spage) /\ CurrentOK(sat, srun, spage)
      /\ srun.cur \in Nat /\ srun.afterLeft \in Nat /\ srun.emitted \in Nat /\ sreq.after \in Nat
  BY AtLine
<1>2. i \in Emitted(spage, e)
  BY DEF Emitted
<1>3. srun.cur > 0 /\ CollectsOK(sat, srun, spage)
  BY <1>1, <1>2 DEF CurrentOK
<1>4. srun.cur \in 1..Len(spage) /\ spage[srun.cur].file = e
  BY <1>3 DEF CollectsOK, Emitted
<1>5. m \in Nat /\ spage[i].line \in Nat /\ spage[i].line <= m /\ m < n
  BY <1>1, <1>2, <1>3, <1>4, HitIs DEF CollectsOK
<1>6. m \in Matching(e)
  BY <1>1, <1>4 DEF HitsOK, Placed
<1>7. FileLines(e)[m]
  BY <1>1, <1>6, MatchIs
<1>8. \A k \in (spage[i].line + 1)..n : ~FileLines(e)[k]
  BY DEF Follows
<1>9. spage[i].line = m
  <2> SUFFICES ASSUME spage[i].line # m PROVE FALSE
    OBVIOUS
  <2>1. m \in (spage[i].line + 1)..n
    BY <1>1, <1>5
  <2> QED
    BY <1>7, <1>8, <2>1
<1>10. i = srun.cur
  <2> SUFFICES ASSUME i # srun.cur PROVE FALSE
    OBVIOUS
  <2>1. LinesAt(spage, srun.cur) \cap LinesAt(spage, i) = {}
    BY <1>1, <1>2, <1>4 DEF HitsOK, Apart
  <2>2. m \in LinesAt(spage, srun.cur) /\ m \in LinesAt(spage, i)
    BY <1>1, <1>4, <1>9, HitIs
  <2> QED
    BY <2>1, <2>2
<1>11. n <= m + sreq.after
  BY <1>9 DEF Follows
<1>12. srun.afterLeft > 0
  BY <1>1, <1>3, <1>5, <1>11 DEF CollectsOK
<1> QED
  BY <1>3, <1>10, <1>12 DEF CollectsOK

\* A line that is not returned and does not match.
LEMMA PlainContext ==
  ASSUME SearchInv, ContextOK(sat, srun, spage), Reading, sat[2] <= Len(FileLines(sat[1])),
         ~(srun.afterLeft > 0 /\ srun.cur > 0)
  PROVE  ContextOK(<<sat[1], sat[2] + 1>>, srun, spage)
<1> DEFINE e == sat[1]
           n == sat[2]
           next == <<e, n + 1>>
<1>1. /\ Searched /\ sat = <<e, n>> /\ e \in Nat /\ n \in Nat /\ e \in 1..Len(sreq.tree)
      /\ spage \in Seq(Hits) /\ HitsOK(sat, spage) /\ CurrentOK(sat, srun, spage) /\ ~srun.stopped
      /\ srun.cur \in Nat /\ srun.afterLeft \in Nat /\ srun.emitted \in Nat /\ sreq.after \in Nat
  BY AtLine
<1>2. next[1] = e /\ next[2] = n + 1
  OBVIOUS
<1> HIDE DEF next
<1>3. ASSUME NEW i \in 1..Len(spage) PROVE Placed(next, spage, i) /\ HasAfter(next, spage, i)
  <2>1. Placed(sat, spage, i) /\ HasAfter(sat, spage, i)
    BY <1>1 DEF HitsOK
  <2>2. spage[i].file \in Nat /\ \A l \in LinesAt(spage, i) : l \in Nat
    BY <1>1, HitIs
  <2>3. Placed(next, spage, i)
    BY <1>1, <1>2, <2>1, <2>2 DEF Placed
  <2>4. ASSUME NEW l, Follows(spage, i, l), spage[i].file < e \/ l < n + 1 PROVE l \in LinesOf(spage, spage[i].file)
    <3>1. l \in Int
      BY <2>4 DEF Follows
    <3>2. CASE spage[i].file < e \/ l < n
      BY <2>1, <2>4, <3>2 DEF HasAfter
    <3>3. CASE ~(spage[i].file < e) /\ l = n
      <4>1. spage[i].file = e
        BY <2>1, <3>3 DEF Placed
      <4>2. i = srun.cur /\ srun.afterLeft > 0
        BY <2>4, <3>3, <4>1, PassesLine
      <4> QED
        BY <1>1, <4>2
    <3> QED
      BY <1>1, <2>4, <3>1, <3>2, <3>3
  <2> QED
    BY <1>2, <2>3, <2>4 DEF HasAfter
<1>4. HitsOK(next, spage)
  BY <1>1, <1>3 DEF HitsOK
<1>5. CurrentOK(next, srun, spage)
  <2>1. CASE srun.cur = 0
    BY <1>1, <1>2, <2>1 DEF CurrentOK
  <2>2. CASE srun.cur > 0
    <3>1. CollectsOK(sat, srun, spage) /\ ~(srun.afterLeft > 0)
      BY <1>1, <2>2 DEF CurrentOK
    <3>2. CollectsOK(next, srun, spage)
      BY <1>1, <1>2, <3>1 DEF CollectsOK
    <3> QED
      BY <2>2, <3>2 DEF CurrentOK
  <2> QED
    BY <1>1, <2>1, <2>2
<1>6. ContextOK(next, srun, spage)
  BY <1>1, <1>4, <1>5 DEF ContextOK
<1> QED
  BY <1>6 DEF next

\* A page that grew returns what it did.
Grew(page, grown) ==
  /\ Len(page) \in Nat /\ Len(grown) \in Nat /\ Len(page) <= Len(grown)
  /\ \A i \in 1..Len(page) :
       grown[i].file = page[i].file /\ grown[i].line = page[i].line /\ page[i].ctx \subseteq grown[i].ctx

LEMMA GrewIs ==
  ASSUME NEW page, NEW grown, Grew(page, grown)
  PROVE  /\ \A e : Emitted(page, e) \subseteq Emitted(grown, e) /\ LinesOf(page, e) \subseteq LinesOf(grown, e)
         /\ \A i \in 1..Len(page) : /\ i \in 1..Len(grown)
                                    /\ HasBefore(page, i) => HasBefore(grown, i)
                                    /\ \A l : Follows(grown, i, l) => Follows(page, i, l)
<1>1. \A i \in 1..Len(page) : /\ i \in 1..Len(grown) /\ LinesAt(page, i) \subseteq LinesAt(grown, i)
                              /\ grown[i].file = page[i].file /\ grown[i].line = page[i].line
  BY DEF Grew, LinesAt
<1>2. \A e : Emitted(page, e) \subseteq Emitted(grown, e)
  BY <1>1 DEF Emitted
<1>3. \A e : Emitted(page, e) \subseteq 1..Len(page)
  BY DEF Emitted
<1>4. ASSUME NEW e, NEW l \in LinesOf(page, e) PROVE l \in LinesOf(grown, e)
  <2>1. PICK i \in Emitted(page, e) : l \in LinesAt(page, i)
    BY LineOf
  <2>2. i \in Emitted(grown, e) /\ l \in LinesAt(grown, i)
    BY <1>1, <1>2, <1>3, <2>1
  <2> QED
    BY <2>2, LineOf
<1>5. ASSUME NEW i \in 1..Len(page), HasBefore(page, i) PROVE HasBefore(grown, i)
  <2>1. \A l \in LinesOf(page, page[i].file) : l \in LinesOf(grown, page[i].file)
    BY <1>4
  <2> QED
    BY <1>1, <1>5, <2>1 DEF HasBefore
<1>6. ASSUME NEW i \in 1..Len(page), NEW l, Follows(grown, i, l) PROVE Follows(page, i, l)
  BY <1>1, <1>6 DEF Follows
<1> QED
  BY <1>1, <1>2, <1>4, <1>5, <1>6

\* A line that is returned as the context behind a match.
LEMMA AfterContext ==
  ASSUME SearchInv, ContextOK(sat, srun, spage), Reading, sat[2] <= Len(FileLines(sat[1])),
         srun.afterLeft > 0, srun.cur > 0,
         NEW p, p.stopped = srun.stopped, p.cur = srun.cur, p.afterLeft = srun.afterLeft - 1, p.emitted = sat[2]
  PROVE  ContextOK(<<sat[1], sat[2] + 1>>, p, Extended(spage, srun.cur, sat[2]))
<1> DEFINE e == sat[1]
           n == sat[2]
           c == srun.cur
           m == spage[c].line
           next == <<e, n + 1>>
           grown == Extended(spage, c, n)
<1>1. /\ Searched /\ sat = <<e, n>> /\ e \in Nat /\ n \in Nat /\ e \in 1..Len(sreq.tree)
      /\ spage \in Seq(Hits) /\ Len(spage) \in Nat /\ HitsOK(sat, spage) /\ CurrentOK(sat, srun, spage) /\ ~srun.stopped
      /\ c \in Nat /\ srun.afterLeft \in Nat /\ srun.emitted \in Nat /\ sreq.after \in Nat
  BY AtLine
<1>2. next[1] = e /\ next[2] = n + 1
  OBVIOUS
<1> HIDE DEF next
<1>3. CollectsOK(sat, srun, spage) /\ srun.emitted = n - 1
  BY <1>1 DEF CurrentOK, CollectsOK
<1>4. c \in 1..Len(spage) /\ c \in Emitted(spage, e) /\ spage[c].file = e
  BY <1>3 DEF CollectsOK, Emitted
<1>5. m \in Nat /\ m < n
  BY <1>1, <1>3, <1>4, HitIs DEF CollectsOK
<1>6. Len(grown) = Len(spage)
  BY <1>1, ContextGrows
<1>7. ASSUME NEW i \in 1..Len(spage)
      PROVE  /\ grown[i].file = spage[i].file /\ grown[i].line = spage[i].line
             /\ i = c => grown[i].ctx = spage[i].ctx \cup {n} /\ LinesAt(grown, i) = LinesAt(spage, i) \cup {n}
             /\ i # c => grown[i].ctx = spage[i].ctx /\ LinesAt(grown, i) = LinesAt(spage, i)
  <2>1. /\ grown[i].file = spage[i].file /\ grown[i].line = spage[i].line
        /\ i = c => grown[i].ctx = spage[i].ctx \cup {n}
        /\ i # c => grown[i] = spage[i]
    BY <1>1, ContextAt
  <2> HIDE DEF grown
  <2> QED
    BY <2>1 DEF LinesAt
<1> HIDE DEF grown
<1>8. Grew(spage, grown)
  BY <1>1, <1>6, <1>7 DEF Grew
<1>9. \A f : Emitted(grown, f) = Emitted(spage, f)
  BY <1>6, <1>7 DEF Emitted
<1>10. n \in LinesOf(grown, e)
  BY <1>4, <1>7, <1>9, LineOf
<1>11. \A i \in Emitted(spage, e) : n \notin LinesAt(spage, i) /\ \A l \in LinesAt(spage, i) : l <= n - 1
  <2>1. \A i \in Emitted(spage, e) : \A l \in LinesAt(spage, i) : l <= n - 1
    BY <1>3 DEF CollectsOK
  <2>2. ~(n <= n - 1)
    BY <1>1
  <2> QED
    BY <2>1, <2>2
<1>12. ASSUME NEW i \in 1..Len(spage) PROVE Placed(next, grown, i) /\ Apart(grown, i) /\ HasBefore(grown, i) /\ HasAfter(next, grown, i)
  <2>1. Placed(sat, spage, i) /\ Apart(spage, i) /\ HasBefore(spage, i) /\ HasAfter(sat, spage, i)
    BY <1>1 DEF HitsOK
  <2>2. spage[i].file \in Nat /\ i \in Emitted(spage, spage[i].file) /\ \A l \in LinesAt(spage, i) : l \in Nat
    BY <1>1, HitIs
  <2>3. Placed(next, grown, i)
    <3>1. CASE spage[i].file < e
      BY <1>2, <1>7, <2>1, <3>1 DEF Placed
    <3>2. CASE spage[i].file = e
      <4>1. \A l \in LinesAt(grown, i) : l < n + 1
        BY <1>1, <1>7, <1>11, <2>2, <3>2
      <4> QED
        BY <1>2, <1>7, <2>1, <3>2, <4>1 DEF Placed
    <3> QED
      BY <2>1, <3>1, <3>2 DEF Placed
  <2>4. Apart(grown, i)
    <3>1. grown[i].line \notin grown[i].ctx
      BY <1>5, <1>7, <2>1 DEF Apart
    <3>2. ASSUME NEW j \in Emitted(grown, grown[i].file) \ {i} PROVE LinesAt(grown, i) \cap LinesAt(grown, j) = {}
      <4>1. j \in Emitted(spage, spage[i].file) /\ j \in 1..Len(spage) /\ i # j
        BY <1>7, <1>9 DEF Emitted
      <4>2. LinesAt(spage, i) \cap LinesAt(spage, j) = {}
        BY <2>1, <4>1 DEF Apart
      <4>3. CASE i = c
        <5>1. n \notin LinesAt(spage, j)
          BY <1>4, <1>11, <4>1, <4>3
        <5> QED
          BY <1>7, <4>1, <4>2, <4>3, <5>1
      <4>4. CASE j = c
        <5>1. spage[i].file = e
          BY <1>4, <4>1, <4>4 DEF Emitted
        <5>2. n \notin LinesAt(spage, i)
          BY <1>11, <2>2, <5>1
        <5> QED
          BY <1>7, <4>1, <4>2, <4>4, <5>2
      <4>5. CASE i # c /\ j # c
        BY <1>7, <4>1, <4>2, <4>5
      <4> QED
        BY <4>3, <4>4, <4>5
    <3> QED
      BY <3>1, <3>2 DEF Apart
  <2>5. HasBefore(grown, i)
    BY <1>8, <2>1, GrewIs
  <2>6. ASSUME NEW l, Follows(grown, i, l), spage[i].file < e \/ l < n + 1 PROVE l \in LinesOf(grown, spage[i].file)
    <3>1. Follows(spage, i, l) /\ l \in Int
      BY <1>8, <2>6, GrewIs DEF Follows
    <3>2. CASE spage[i].file < e \/ l < n
      <4>1. l \in LinesOf(spage, spage[i].file)
        BY <2>1, <3>1, <3>2 DEF HasAfter
      <4> QED
        BY <1>8, <4>1, GrewIs
    <3>3. CASE ~(spage[i].file < e) /\ l = n
      <4>1. spage[i].file = e
        BY <2>1, <3>3 DEF Placed
      <4> QED
        BY <1>10, <3>3, <4>1
    <3> QED
      BY <1>1, <2>6, <3>1, <3>2, <3>3
  <2> QED
    BY <1>2, <1>7, <2>3, <2>4, <2>5, <2>6 DEF HasAfter
<1>13. HitsOK(next, grown)
  BY <1>6, <1>12 DEF HitsOK
<1>14. CollectsOK(next, p, grown)
  <2>1. c \in Emitted(grown, e) /\ grown[c].line = m
    BY <1>4, <1>7, <1>9
  <2>2. p.afterLeft <= sreq.after /\ n = m + (sreq.after - p.afterLeft)
    <3> DEFINE a == srun.afterLeft
               b == sreq.after
    <3>1. a <= b /\ n - 1 = m + (b - a)
      BY <1>3 DEF CollectsOK
    <3>2. a \in Nat /\ b \in Nat /\ p.afterLeft = a - 1
      BY <1>1
    <3>3. m \in Nat /\ n \in Nat
      BY <1>1, <1>5
    <3> HIDE DEF a, b, m, n
    <3>4. a - 1 <= b /\ n = m + (b - (a - 1))
      BY <3>1, <3>2, <3>3
    <3> QED
      BY <3>2, <3>4 DEF b
  <2>3. ASSUME NEW l \in (m + 1)..n PROVE l \in LinesOf(grown, e)
    <3>1. CASE l = n
      BY <1>10, <3>1
    <3>2. CASE l # n
      <4>1. l \in (m + 1)..(n - 1)
        BY <1>1, <1>5, <3>2
      <4>2. l \in LinesOf(spage, e)
        BY <1>3, <4>1 DEF CollectsOK
      <4> QED
        BY <1>8, <4>2, GrewIs
    <3> QED
      BY <3>1, <3>2
  <2>4. ASSUME NEW i \in Emitted(grown, e) PROVE grown[i].line <= m /\ \A l \in LinesAt(grown, i) : l <= n
    <3>1. i \in Emitted(spage, e) /\ i \in 1..Len(spage)
      BY <1>9 DEF Emitted
    <3>2. spage[i].line <= m
      BY <1>3, <3>1 DEF CollectsOK
    <3>3. \A l \in LinesAt(spage, i) : l \in Nat /\ l <= n - 1
      BY <1>1, <1>11, <3>1, HitIs
    <3>4. \A l \in LinesAt(spage, i) : l <= n
      BY <1>1, <3>3
    <3> QED
      BY <1>1, <1>7, <3>1, <3>2, <3>4
  <2>5. n < n + 1 /\ n = (n + 1) - 1
    BY <1>1
  <2> QED
    BY <1>2, <2>1, <2>2, <2>3, <2>4, <2>5 DEF CollectsOK
<1>15. CurrentOK(next, p, grown)
  BY <1>1, <1>14 DEF CurrentOK
<1>16. ContextOK(next, p, grown)
  BY <1>1, <1>13, <1>15 DEF ContextOK
<1> QED
  BY <1>16 DEF next, grown

\* A match that is returned.
LEMMA MatchContext ==
  ASSUME SearchInv, ContextOK(sat, srun, spage), Reading, sat[2] \in Matching(sat[1]),
         NEW x \in Hits, x.file = sat[1], x.line = sat[2], x.ctx = BeforeLines(sat[2]),
         NEW p, p.stopped = srun.stopped, p.cur = Len(spage) + 1, p.afterLeft = sreq.after, p.emitted = sat[2]
  PROVE  ContextOK(<<sat[1], sat[2] + 1>>, p, Append(spage, x))
<1> DEFINE e == sat[1]
           n == sat[2]
           c == Len(spage) + 1
           next == <<e, n + 1>>
           grown == Append(spage, x)
           before == BeforeLines(n)
<1>1. /\ Searched /\ sat = <<e, n>> /\ e \in Nat /\ n \in Nat /\ n > 0 /\ e \in 1..Len(sreq.tree)
      /\ spage \in Seq(Hits) /\ Len(spage) \in Nat /\ HitsOK(sat, spage) /\ CurrentOK(sat, srun, spage) /\ ~srun.stopped
      /\ srun.cur \in Nat /\ srun.afterLeft \in Nat /\ srun.emitted \in Nat /\ sreq.after \in Nat /\ sreq.before \in Nat
  BY AtLine
<1>2. next[1] = e /\ next[2] = n + 1
  OBVIOUS
<1> HIDE DEF next
<1>3. /\ Len(grown) = c /\ grown[c] = x /\ \A i \in 1..Len(spage) : grown[i] = spage[i]
      /\ c \in Nat /\ c > 0 /\ 1..c = 1..Len(spage) \cup {c} /\ c \notin 1..Len(spage)
  BY <1>1, PageGrows
<1> HIDE DEF grown
<1>4. Grew(spage, grown)
  BY <1>1, <1>3 DEF Grew
<1>5. /\ \A i \in 1..Len(spage) : LinesAt(grown, i) = LinesAt(spage, i)
      /\ LinesAt(grown, c) = before \cup {n}
  BY <1>3 DEF LinesAt
<1>6. /\ Emitted(grown, e) = Emitted(spage, e) \cup {c}
      /\ \A f : f # e => Emitted(grown, f) = Emitted(spage, f)
  BY <1>3 DEF Emitted
<1>7. \A l : l \in before <=> l \in 1..(n - 1) /\ l >= n - sreq.before /\ l > srun.emitted
  BY DEF BeforeLines
<1> HIDE DEF before
<1>8. srun.emitted < n /\ \A i \in Emitted(spage, e) : \A l \in LinesAt(spage, i) : l <= srun.emitted
  BY <1>1 DEF CurrentOK, CollectsOK
<1>9. \A l \in before \cup {n} : l \in Nat /\ l > srun.emitted /\ l <= n
  BY <1>1, <1>7, <1>8
<1>10. ASSUME NEW i \in Emitted(spage, e) PROVE LinesAt(spage, i) \cap LinesAt(grown, c) = {}
  <2>1. \A l \in LinesAt(spage, i) : l \in Nat /\ l <= srun.emitted
    <3>1. i \in 1..Len(spage)
      BY DEF Emitted
    <3> QED
      BY <1>1, <1>8, <3>1, HitIs
  <2> QED
    BY <1>1, <1>5, <1>9, <2>1
<1>11. ASSUME NEW i \in 1..Len(spage) PROVE Placed(next, grown, i) /\ Apart(grown, i) /\ HasBefore(grown, i) /\ HasAfter(next, grown, i)
  <2>1. Placed(sat, spage, i) /\ Apart(spage, i) /\ HasBefore(spage, i) /\ HasAfter(sat, spage, i) /\ grown[i] = spage[i]
    BY <1>1, <1>3 DEF HitsOK
  <2>2. spage[i].file \in Nat /\ i \in Emitted(spage, spage[i].file) /\ \A l \in LinesAt(spage, i) : l \in Nat
    BY <1>1, HitIs
  <2>3. Placed(next, grown, i)
    <3>1. \A l \in LinesAt(spage, i) : l < n => l < n + 1
      BY <1>1, <2>2
    <3> QED
      BY <1>1, <1>2, <1>5, <2>1, <3>1 DEF Placed
  <2>4. Apart(grown, i)
    <3>1. ASSUME NEW j \in Emitted(grown, spage[i].file) \ {i} PROVE LinesAt(spage, i) \cap LinesAt(grown, j) = {}
      <4>1. CASE j \in Emitted(spage, spage[i].file)
        <5>1. j \in 1..Len(spage) /\ LinesAt(spage, i) \cap LinesAt(spage, j) = {}
          BY <2>1, <4>1 DEF Apart, Emitted
        <5> QED
          BY <1>5, <5>1
      <4>2. CASE j \notin Emitted(spage, spage[i].file)
        <5>1. j = c /\ spage[i].file = e
          BY <1>6, <4>2
        <5> QED
          BY <1>10, <2>2, <5>1
      <4> QED
        BY <4>1, <4>2
    <3> QED
      BY <1>5, <2>1, <3>1 DEF Apart
  <2>5. HasBefore(grown, i)
    BY <1>4, <2>1, GrewIs
  <2>6. ASSUME NEW l, Follows(grown, i, l), spage[i].file < e \/ l < n + 1 PROVE l \in LinesOf(grown, spage[i].file)
    <3>1. Follows(spage, i, l) /\ l \in Int
      BY <1>4, <2>6, GrewIs DEF Follows
    <3>2. CASE spage[i].file < e \/ l < n
      <4>1. l \in LinesOf(spage, spage[i].file)
        BY <2>1, <3>1, <3>2 DEF HasAfter
      <4> QED
        BY <1>4, <4>1, GrewIs
    <3>3. CASE ~(spage[i].file < e) /\ l = n
      <4>1. spage[i].file = e
        BY <2>1, <3>3 DEF Placed
      <4>2. ~FileLines(e)[n] /\ FileLines(e)[n]
        <5>1. spage[i].line \in Nat /\ n \in (spage[i].line + 1)..n
          BY <1>1, <3>1, <3>3, HitIs DEF Follows
        <5> QED
          BY <1>1, <3>1, <3>3, <4>1, <5>1, MatchIs DEF Follows
      <4> QED
        BY <4>2
    <3> QED
      BY <1>1, <2>6, <3>1, <3>2, <3>3
  <2> QED
    BY <1>2, <2>1, <2>3, <2>4, <2>5, <2>6 DEF HasAfter
<1>12. Placed(next, grown, c) /\ Apart(grown, c) /\ HasBefore(grown, c) /\ HasAfter(next, grown, c)
  <2>1. Placed(next, grown, c)
    <3>1. \A l \in before \cup {n} : l < n + 1
      BY <1>1, <1>9
    <3> QED
      BY <1>1, <1>2, <1>3, <1>5, <3>1 DEF Placed
  <2>2. Apart(grown, c)
    <3>1. n \notin x.ctx
      BY <1>1, <1>7 DEF before
    <3>2. ASSUME NEW j \in Emitted(grown, e) \ {c} PROVE LinesAt(grown, c) \cap LinesAt(grown, j) = {}
      <4>1. j \in Emitted(spage, e) /\ j \in 1..Len(spage)
        BY <1>6 DEF Emitted
      <4> QED
        BY <1>5, <1>10, <4>1
    <3> QED
      BY <1>3, <3>1, <3>2 DEF Apart
  <2>3. HasBefore(grown, c)
    <3>1. ASSUME NEW l \in 1..(n - 1), l >= n - sreq.before PROVE l \in LinesOf(grown, e)
      <4>1. CASE l > srun.emitted
        <5>1. l \in LinesAt(grown, c) /\ c \in Emitted(grown, e)
          BY <1>5, <1>6, <1>7, <3>1, <4>1
        <5> QED
          BY <5>1, LineOf
      <4>2. CASE ~(l > srun.emitted)
        <5> DEFINE m == spage[srun.cur].line
        <5>1. srun.cur > 0 /\ CollectsOK(sat, srun, spage)
          BY <1>1, <4>2 DEF CurrentOK
        <5>2. srun.cur \in 1..Len(spage) /\ srun.cur \in Emitted(spage, e) /\ spage[srun.cur].file = e
          BY <5>1 DEF CollectsOK, Emitted
        <5>3. m \in Nat /\ m \in LinesAt(spage, srun.cur)
          BY <1>1, <5>2, HitIs
        <5>4. m < n /\ (m + 1)..srun.emitted \subseteq LinesOf(spage, e)
          <6>1. m <= srun.emitted /\ (m + 1)..srun.emitted \subseteq LinesOf(spage, e)
            BY <5>1, <5>2, <5>3 DEF CollectsOK
          <6>2. m \in Nat /\ srun.emitted \in Nat /\ n \in Nat /\ srun.emitted < n
            BY <1>1, <1>8, <5>3
          <6> HIDE DEF m, n
          <6>3. m < n
            BY <6>1, <6>2
          <6> QED
            BY <6>1, <6>3
        <5> HIDE DEF m
        <5>5. l \in LinesOf(spage, e)
          <6>1. CASE l < m
            <7>1. HasBefore(spage, srun.cur)
              BY <1>1, <5>2 DEF HitsOK
            <7>2. l \in 1..(m - 1) /\ l >= m - sreq.before
              BY <1>1, <3>1, <5>3, <5>4, <6>1
            <7> QED
              BY <5>2, <7>1, <7>2 DEF HasBefore, m
          <6>2. CASE l = m
            BY <5>2, <5>3, <6>2, LineOf
          <6>3. CASE l > m
            <7>1. l \in (m + 1)..srun.emitted
              BY <1>1, <4>2, <5>3, <6>3
            <7> QED
              BY <5>4, <7>1
          <6> QED
            BY <5>3, <6>1, <6>2, <6>3
        <5> QED
          BY <1>4, <5>5, GrewIs
      <4> QED
        BY <4>1, <4>2
    <3> QED
      BY <1>3, <3>1 DEF HasBefore
  <2>4. HasAfter(next, grown, c)
    <3>1. ASSUME NEW l, Follows(grown, c, l), l < n + 1 \/ e < e PROVE FALSE
      <4>1. l \in (n + 1)..Len(FileLines(e))
        BY <1>3, <3>1 DEF Follows
      <4> QED
        BY <1>1, <3>1, <4>1
    <3> QED
      BY <1>2, <1>3, <3>1 DEF HasAfter
  <2> QED
    BY <2>1, <2>2, <2>3, <2>4
<1>13. HitsOK(next, grown)
  BY <1>3, <1>11, <1>12 DEF HitsOK
<1>14. CollectsOK(next, p, grown)
  <2>1. c \in Emitted(grown, e) /\ grown[c].line = n
    BY <1>3, <1>6
  <2>2. sreq.after <= sreq.after /\ n = n + (sreq.after - sreq.after) /\ n < n + 1 /\ n = (n + 1) - 1
    BY <1>1
  <2>3. (n + 1)..n \subseteq LinesOf(grown, e)
    BY <1>1
  <2>4. ASSUME NEW i \in Emitted(grown, e) PROVE grown[i].line <= n /\ \A l \in LinesAt(grown, i) : l <= n
    <3>1. CASE i = c
      BY <1>1, <1>5, <1>9, <2>1, <3>1
    <3>2. CASE i # c
      <4>1. i \in Emitted(spage, e) /\ i \in 1..Len(spage) /\ grown[i] = spage[i]
        BY <1>3, <1>6, <3>2 DEF Emitted
      <4>2. \A l \in LinesAt(spage, i) : l \in Nat /\ l <= srun.emitted
        BY <1>1, <1>8, <4>1, HitIs
      <4>3. \A l \in LinesAt(spage, i) : l <= n
        BY <1>1, <1>8, <4>2
      <4>4. spage[i].line \in LinesAt(spage, i)
        BY <1>1, <4>1, HitIs
      <4> QED
        BY <1>5, <4>1, <4>3, <4>4
    <3> QED
      BY <3>1, <3>2
  <2> QED
    BY <1>2, <2>1, <2>2, <2>3, <2>4 DEF CollectsOK
<1>15. CurrentOK(next, p, grown)
  BY <1>3, <1>14 DEF CurrentOK
<1>16. ContextOK(next, p, grown)
  BY <1>1, <1>13, <1>15 DEF ContextOK
<1> QED
  BY <1>16 DEF next, grown

\* A match that earlier pages hold: this page is still empty.
LEMMA SkippedContext ==
  ASSUME SearchInv, ContextOK(sat, srun, spage), Reading, srun.skipped < srun.offset,
         NEW p, p.stopped = srun.stopped, p.cur = srun.cur, p.afterLeft = 0, p.emitted = srun.emitted
  PROVE  ContextOK(<<sat[1], sat[2] + 1>>, p, spage)
<1> DEFINE next == <<sat[1], sat[2] + 1>>
<1>1. /\ Listed(srun, spage, sall) /\ GoesOn(sat, srun) /\ CurrentOK(sat, srun, spage) /\ srun \in RunType
      /\ ~srun.stopped /\ srun.cur \in Nat
  BY AtLine
<1>2. srun.returned = 0 /\ Len(spage) = 0
  <2>1. srun.returned \in Nat /\ srun.offset \in Nat /\ srun.skipped \in Nat
    BY <1>1, RunIs
  <2> QED
    BY <1>1, <2>1 DEF Listed
<1>3. srun.cur = 0
  BY <1>1, <1>2 DEF GoesOn
<1> HIDE DEF next
<1>4. HitsOK(next, spage) /\ Emitted(spage, next[1]) = {}
  BY <1>2 DEF HitsOK, Emitted
<1>5. CurrentOK(next, p, spage)
  BY <1>1, <1>3, <1>4 DEF CurrentOK
<1>6. ContextOK(next, p, spage)
  BY <1>1, <1>4, <1>5 DEF ContextOK
<1> QED
  BY <1>6 DEF next

\* A line of a file.
LEMMA LineContext ==
  ASSUME SearchInv, ContextOK(sat, srun, spage), SearchLine, sreq.mode = "content"
  PROVE  ContextOK(sat', srun', spage')
<1> DEFINE e == sat[1]
           n == sat[2]
           next == <<sat[1], sat[2] + 1>>
<1>1. Reading /\ n <= Len(FileLines(e))
  BY DEF SearchLine
<1>2. /\ Searched /\ e \in 1..Len(sreq.tree) /\ n \in Nat /\ n > 0 /\ Len(FileLines(e)) \in Nat
      /\ srun \in RunType /\ spage \in Seq(Hits) /\ ~srun.stopped /\ HitsOK(sat, spage)
      /\ srun.afterLeft \in Nat /\ srun.cur \in Nat /\ sreq.after \in Nat
  BY <1>1, AtLine
<1>3. n \in Matching(e) <=> FileLines(e)[n]
  BY <1>1, <1>2 DEF Matching
<1>4. ASSUME NEW r \in RunType, r.stopped = TRUE, r.timedOut \/ n \in Matching(e), Breaks(FileDone(r))
      PROVE  ContextOK(sat', srun', spage')
  <2> DEFINE p == [r EXCEPT !.total = @ + r.count]
  <2>1. FileDone(r) = <<p, spage>>
    BY <1>2, FileDoneIs
  <2>2. p.stopped = TRUE /\ p.timedOut = r.timedOut
    BY TotalsFile, <1>4 DEF SameEnd
  <2> HIDE DEF p
  <2>3. e <= Len(sreq.tree)
    BY <1>2
  <2>4. ContextOK(sat, p, spage)
    BY <1>2, <1>4, <2>2, <2>3 DEF ContextOK
  <2> QED
    BY <1>4, <2>1, <2>4 DEF Breaks
<1> HIDE DEF e, n
<1>5. CASE Breaks(FileDone(TimeOut(srun)))
  <2>1. TimeOut(srun) \in RunType /\ TimeOut(srun).stopped = TRUE /\ TimeOut(srun).timedOut = TRUE
    BY <1>2, TimeOutIs
  <2> QED
    BY <1>4, <1>5, <2>1
<1>6. CASE FileLines(e)[n] /\ Breaks(FileDone(Stop(srun)))
  <2>1. Stop(srun) \in RunType /\ Stop(srun).stopped = TRUE
    BY <1>2, StopIs
  <2> QED
    BY <1>3, <1>4, <1>6, <2>1
<1>7. CASE FileLines(e)[n] /\ Onward(AddMatch(n)) /\ srun.skipped < srun.offset
  <2> DEFINE p == [srun EXCEPT !.skipped = @ + 1, !.afterLeft = 0, !.count = @ + 1]
  <2>1. AddMatch(n) = <<p, spage>>
    BY <1>7 DEF AddMatch
  <2>2. p.cur = srun.cur /\ p.afterLeft = 0 /\ p.emitted = srun.emitted
    BY <1>2, SkipsMatch
  <2>3. p.stopped = srun.stopped
    BY <1>2, SkipsMatch DEF SameEnd
  <2> HIDE DEF p
  <2>4. ContextOK(next, p, spage)
    BY <1>1, <1>7, <2>2, <2>3, SkippedContext
  <2> QED
    BY <1>7, <2>1, <2>4 DEF Onward
<1>8. CASE FileLines(e)[n] /\ Onward(AddMatch(n)) /\ ~(srun.skipped < srun.offset)
  <2> DEFINE before == BeforeLines(n)
             c == Cardinality(before)
             k == Len(spage) + 1
             m == sreq.after
             p == Matched(srun, c, k, n, m)
             x == [file |-> e, line |-> n, ctx |-> before]
             page == Append(spage, x)
  <2>1. AddMatch(n) = <<p, page>>
    BY <1>8 DEF AddMatch, Matched, e
  <2>2. before \in SUBSET Nat /\ c \in Nat
    <3>1. before \in SUBSET (1..(n - 1))
      BY DEF BeforeLines
    <3>2. IsFiniteSet(1..(n - 1))
      <4>1. n - 1 \in Int /\ 1 \in Int
        BY <1>2
      <4> QED
        BY <4>1, FS_Interval
    <3> HIDE DEF before
    <3>3. IsFiniteSet(before)
      BY <3>1, <3>2, FS_Subset
    <3>4. before \in SUBSET Nat
      BY <1>2, <3>1
    <3> QED
      BY <3>3, <3>4, FS_CardinalityType
  <2>3. x \in Hits
    BY <1>2, <2>2 DEF Hits
  <2>4. x.file = sat[1] /\ x.line = sat[2] /\ x.ctx = BeforeLines(sat[2])
    BY DEF e, n
  <2>5. k \in Nat /\ m \in Nat
    BY <1>2, <2>3, PageGrows
  <2> HIDE DEF before, c, k, m, x
  <2>6. srun \in RunType /\ n \in Nat /\ c \in Nat /\ k \in Nat /\ m \in Nat
    BY <1>2, <2>2, <2>5
  <2>7. SameEnd(p, srun)
    BY <2>6, ReturnsMatch
  <2>8. p.cur = k
    BY <2>6, ReturnsMatch
  <2>9. p.afterLeft = m
    BY <2>6, ReturnsMatch
  <2>10. p.emitted = n
    BY <2>6, ReturnsMatch
  <2> HIDE DEF p
  <2>11. /\ p.stopped = srun.stopped /\ p.cur = Len(spage) + 1 /\ p.afterLeft = sreq.after /\ p.emitted = sat[2]
         /\ sat[2] \in Matching(sat[1])
    BY <1>3, <1>8, <2>7, <2>8, <2>9, <2>10 DEF SameEnd, k, m, n, e
  <2>12. ContextOK(next, p, page)
    BY <1>1, <2>3, <2>4, <2>11, MatchContext
  <2> QED
    BY <1>8, <2>1, <2>12 DEF Onward
<1>9. CASE ~FileLines(e)[n] /\ ~(srun.afterLeft > 0 /\ srun.cur > 0) /\ Onward(<<srun, spage>>)
  <2>1. ContextOK(next, srun, spage)
    BY <1>1, <1>9, PlainContext DEF e, n
  <2> QED
    BY <1>9, <2>1 DEF Onward
<1>10. CASE ~FileLines(e)[n] /\ srun.afterLeft > 0 /\ srun.cur > 0 /\ Onward(AfterLine(n))
  <2> DEFINE p == [srun EXCEPT !.out = @ + 1, !.afterLeft = @ - 1, !.emitted = n]
             page == Extended(spage, srun.cur, n)
  <2>1. AfterLine(n) = <<p, page>>
    BY DEF AfterLine, Extended
  <2>2. p.cur = srun.cur /\ p.emitted = n
    BY <1>2, <1>10, AddsContext
  <2>3. p.afterLeft = srun.afterLeft - 1
    BY <1>2, <1>10, AddsContext
  <2>4. p.stopped = srun.stopped
    BY <1>2, <1>10, AddsContext DEF SameEnd
  <2> HIDE DEF p
  <2>5. ContextOK(next, p, page)
    BY <1>1, <1>10, <2>2, <2>3, <2>4, AfterContext DEF e, n
  <2> QED
    BY <1>10, <2>1, <2>5 DEF Onward
<1> QED
  BY <1>5, <1>6, <1>7, <1>8, <1>9, <1>10 DEF SearchLine, MatchingLine, e, n

\* The end of a file.
LEMMA EndContext ==
  ASSUME SearchInv, ContextOK(sat, srun, spage), EndFile, sreq.mode = "content"
  PROVE  ContextOK(sat', srun', spage')
<1> DEFINE e == sat[1]
           n == sat[2]
           next == <<e + 1, 0>>
           p == [srun EXCEPT !.total = @ + srun.count]
<1>1. Reading /\ n > Len(FileLines(e)) /\ NextEntry(FileDone(srun)[1], FileDone(srun)[2])
  BY DEF EndFile
<1>2. /\ Searched /\ sat \in Nat \X Nat /\ e \in Nat /\ n \in Nat /\ Len(FileLines(e)) \in Nat
      /\ srun \in RunType /\ spage \in Seq(Hits) /\ ~srun.stopped /\ HitsOK(sat, spage)
  BY <1>1, AtLine
<1>3. FileDone(srun) = <<p, spage>>
  BY <1>2, FileDoneIs
<1>4. p.stopped = srun.stopped
  BY <1>2, TotalsFile DEF SameEnd
<1> HIDE DEF p
<1>5. next \in Nat \X Nat /\ next[1] >= e /\ next[1] > e /\ ~(next[2] > 0)
  BY <1>2
<1>6. ASSUME NEW i \in 1..Len(spage) PROVE spage[i].file < sat[1] \/ \A l : Follows(spage, i, l) => l < sat[2]
  <2>1. spage[i].file < e \/ spage[i].file = e
    BY <1>2 DEF HitsOK, Placed
  <2>2. CASE spage[i].file = e
    <3>1. ASSUME NEW l, Follows(spage, i, l) PROVE l < n
      <4>1. spage[i].line \in Nat
        BY <1>2, HitIs
      <4>2. l \in (spage[i].line + 1)..Len(FileLines(e))
        BY <2>2, <3>1 DEF Follows
      <4> QED
        BY <1>1, <1>2, <4>1, <4>2
    <3> QED
      BY <3>1
  <2> QED
    BY <2>1, <2>2
<1> HIDE DEF next
<1>7. HitsOK(next, spage)
  BY <1>2, <1>5, <1>6, AllBehind
<1>8. ContextOK(next, p, spage)
  BY <1>2, <1>4, <1>5, <1>7 DEF ContextOK
<1> QED
  BY <1>1, <1>3, <1>8 DEF NextEntry, next

LEMMA FinishContext ==
  ASSUME SearchInv, ContextOK(sat, srun, spage), Finish
  PROVE  ContextOK(sat', srun', spage')
<1> DEFINE n == IF srun.timedOut THEN 0 ELSE srun.next
           p == [srun EXCEPT !.ended = TRUE, !.next = n]
<1>1. srun' = p /\ sat' = sat /\ spage' = spage
  BY DEF Finish
<1>2. srun \in RunType
  BY DEF SearchInv, PagesOK, SearchTypeOK
<1>3. n \in Nat
  BY <1>2, RunIs
<1> HIDE DEF n
<1>4. SameMatch(p, srun) /\ p.stopped = srun.stopped /\ p.timedOut = srun.timedOut
  BY <1>2, <1>3, Ends
<1> HIDE DEF p
<1>5. CurrentOK(sat, srun, spage) => CurrentOK(sat, p, spage)
  BY <1>4 DEF CurrentOK, CollectsOK, SameMatch
<1>6. ContextOK(sat, p, spage)
  BY <1>4, <1>5 DEF ContextOK
<1> QED
  BY <1>1, <1>6

LEMMA NewContext ==
  ASSUME NEW n \in Nat PROVE ContextOK(<<1, 0>>, NewRun(n), <<>>)
<1>1. NewRun(n).stopped = FALSE
  BY NewRunIs
<1> DEFINE p == NewRun(n)
           at == <<1, 0>>
           page == <<>>
<1>2. ~(at[2] > 0) /\ \A i \in 1..Len(page) : FALSE
  OBVIOUS
<1> HIDE DEF p, at, page
<1>3. HitsOK(at, page)
  BY <1>2 DEF HitsOK
<1>4. ContextOK(at, p, page)
  BY <1>1, <1>2, <1>3 DEF ContextOK, p
<1> QED
  BY <1>4 DEF p, at, page

ContextInv == sreq.mode = "content" => ContextOK(sat, srun, spage)

LEMMA ContextStep ==
  ASSUME SearchInv, ContextInv, SearchNext PROVE ContextInv'
<1>1. sreq' = sreq
  BY DEF SearchNext, Walk, SearchLine, MatchingLine, EndFile, Finish, NextPage, NextEntry, Onward, Breaks
<1> SUFFICES ASSUME sreq.mode = "content" PROVE ContextOK(sat, srun, spage)'
  BY <1>1 DEF ContextInv
<1>2. ContextOK(sat, srun, spage)
  BY DEF ContextInv
<1>3. ContextOK(sat', srun', spage')
  <2>1. CASE NextPage
    <3>1. sat' = <<1, 0>> /\ srun' = NewRun(srun.next) /\ spage' = <<>> /\ srun \in RunType
      BY <2>1 DEF NextPage, SearchInv, PagesOK, SearchTypeOK
    <3>2. srun.next \in Nat
      BY <3>1, RunIs
    <3>3. ContextOK(<<1, 0>>, NewRun(srun.next), <<>>)
      BY <3>2, NewContext
    <3> QED
      BY <3>1, <3>3
  <2> QED
    BY <1>2, <2>1, WalkContext, LineContext, EndContext, FinishContext DEF SearchNext
<1>4. \A e : Matching(e)' = Matching(e) /\ FileLines(e)' = FileLines(e)
  BY <1>1 DEF Matching, FileLines
<1> QED
  BY <1>1, <1>3, <1>4 DEF ContextOK, HitsOK, Placed, Apart, HasBefore, HasAfter, Follows, CurrentOK, CollectsOK, LinesOf, Emitted, LinesAt

LEMMA ContextWhole == SearchInv /\ ContextInv => ContextOnceAndWhole
<1> SUFFICES ASSUME SearchInv, ContextOK(sat, srun, spage), srun.ended, sreq.mode = "content",
                    NEW e \in 1..Len(sreq.tree), NEW i \in Emitted(spage, e)
             PROVE  LET n == spage[i].line
                    IN  /\ n \notin spage[i].ctx
                        /\ \A j \in Emitted(spage, e) \ {i} : LinesAt(spage, i) \cap LinesAt(spage, j) = {}
                        /\ \A l \in 1..(n - 1) : l >= n - sreq.before => l \in LinesOf(spage, e)
                        /\ ~srun.timedOut =>
                             \A l \in (n + 1)..Len(FileLines(e)) :
                               l <= n + sreq.after /\ (\A k \in (n + 1)..l : ~FileLines(e)[k]) => l \in LinesOf(spage, e)
  BY DEF ContextInv, ContextOnceAndWhole
<1> DEFINE n == spage[i].line
<1>1. /\ Searched /\ sat \in Nat \X Nat /\ sat[1] \in Nat /\ sat[2] \in Nat /\ spage \in Seq(Hits) /\ HitsOK(sat, spage)
      /\ PagesOK(sat, srun, spage, sall)
  BY DEF SearchInv, PagesOK, SearchTypeOK, IsPlace, ContextOK
<1>2. i \in 1..Len(spage) /\ spage[i].file = e
  BY DEF Emitted
<1>3. Placed(sat, spage, i) /\ Apart(spage, i) /\ HasBefore(spage, i) /\ HasAfter(sat, spage, i)
  BY <1>1, <1>2 DEF HitsOK
<1>4. n \notin spage[i].ctx /\ \A j \in Emitted(spage, e) \ {i} : LinesAt(spage, i) \cap LinesAt(spage, j) = {}
  BY <1>2, <1>3 DEF Apart
<1>5. \A l \in 1..(n - 1) : l >= n - sreq.before => l \in LinesOf(spage, e)
  BY <1>2, <1>3 DEF HasBefore
<1>6. ASSUME ~srun.timedOut, NEW l \in (n + 1)..Len(FileLines(e)), l <= n + sreq.after,
             \A k \in (n + 1)..l : ~FileLines(e)[k]
      PROVE  l \in LinesOf(spage, e)
  <2>1. Follows(spage, i, l)
    BY <1>2, <1>6 DEF Follows
  <2>2. e < sat[1] \/ l < sat[2]
    <3>1. CASE ~srun.stopped
      <4>1. sat[1] > Len(sreq.tree)
        BY <1>1, <3>1 DEF PagesOK, GoesOn
      <4> QED
        BY <1>1, <4>1, SearchedIs
    <3>2. CASE srun.stopped
      <4>1. sat[2] \in Matching(sat[1])
        BY <1>6, <3>2 DEF ContextOK
      <4>2. CASE e = sat[1]
        <5>1. FileLines(e)[sat[2]]
          BY <1>1, <4>1, <4>2, MatchIs
        <5>2. n \in LinesAt(spage, i) /\ n \in Nat
          BY <1>1, <1>2, HitIs
        <5>3. n < sat[2]
          BY <1>2, <1>3, <4>2, <5>2 DEF Placed
        <5>4. l < sat[2]
          <6> SUFFICES ASSUME ~(l < sat[2]) PROVE FALSE
            OBVIOUS
          <6>1. sat[2] \in (n + 1)..l
            BY <1>1, <5>2, <5>3
          <6> QED
            BY <1>6, <5>1, <6>1
        <5> QED
          BY <5>4
      <4> QED
        BY <1>2, <1>3, <4>2 DEF Placed
    <3> QED
      BY <3>1, <3>2
  <2> QED
    BY <1>2, <1>3, <2>1, <2>2 DEF HasAfter
<1> QED
  BY <1>4, <1>5, <1>6

-----------------------------------------------------------------------------
(* Find.                                                                   *)

FoundType == [entries : Seq(Nat), truncated : BOOLEAN, dirsSkipped : Nat, ended : BOOLEAN]

LEMMA FindRequestIs ==
  ASSUME nreq \in FindRequests
  PROVE  /\ Len(nreq.tree) \in Nat /\ nreq.depth \in Nat /\ nreq.sort \in BOOLEAN /\ nreq.max \in Nat /\ nreq.max > 0
         /\ \A i \in 1..Len(nreq.tree) :
              /\ nreq.tree[i].depth \in Nat /\ nreq.tree[i].depth > 0 /\ nreq.tree[i].dir \in BOOLEAN
              /\ nreq.tree[i].readable \in BOOLEAN /\ nreq.tree[i].hidden \in BOOLEAN
              /\ nreq.tree[i].wanted \in BOOLEAN /\ Key(i) \in Int
         /\ \A i \in 1..(Len(nreq.tree) - 1) : nreq.tree[i + 1].depth > nreq.tree[i].depth => nreq.tree[i].dir
<1> DEFINE E == [depth : Nat \ {0}, dir : BOOLEAN, readable : BOOLEAN, hidden : BOOLEAN, wanted : BOOLEAN, key : Int]
<1>1. /\ nreq.tree \in Seq(E) /\ nreq.depth \in Nat /\ nreq.sort \in BOOLEAN /\ nreq.max \in Nat /\ nreq.max > 0
      /\ \A i \in 1..(Len(nreq.tree) - 1) : nreq.tree[i + 1].depth > nreq.tree[i].depth => nreq.tree[i].dir
  BY DEF FindRequests
<1> HIDE DEF E
<1>2. Len(nreq.tree) \in Nat /\ \A i \in 1..Len(nreq.tree) : nreq.tree[i] \in E
  BY <1>1, LenProperties, ElementOfSeq
<1>3. \A x \in E : /\ x.depth \in Nat /\ x.depth > 0 /\ x.dir \in BOOLEAN /\ x.readable \in BOOLEAN
                   /\ x.hidden \in BOOLEAN /\ x.wanted \in BOOLEAN /\ x.key \in Int
  BY DEF E
<1> QED
  BY <1>1, <1>2, <1>3 DEF Key

\* The walk does not go below j.
Closed(j) == nreq.tree[j].hidden \/ TooDeep(nreq.tree[j]) \/ ~nreq.tree[j].readable

\* Everything from behind j to before i lies below j.
Inside(j, i) == \A k \in (j + 1)..(i - 1) : nreq.tree[k].depth > nreq.tree[j].depth

\* The walk skips what lies below one closed directory; and the outermost that
\* is hidden or cannot be read, if it is in one.
SkipsOK(at, skip) ==
  /\ skip \in Nat
  /\ skip > 0 => \E j \in 1..(at - 1) : nreq.tree[j].depth = skip /\ Closed(j) /\ Inside(j, at)
  /\ \A j \in 1..(at - 1) :
       nreq.tree[j].dir /\ (nreq.tree[j].hidden \/ ~nreq.tree[j].readable) /\ Inside(j, at) =>
         skip > 0 /\ skip <= nreq.tree[j].depth

\* The walk is at an entry that it skips, or that it does not.
LEMMA SkipsRight ==
  ASSUME nreq \in FindRequests, NEW at \in 1..Len(nreq.tree), NEW skip \in Nat, SkipsOK(at, skip)
  PROVE  Reachable(at) <=> /\ skip = 0 \/ nreq.tree[at].depth <= skip
                           /\ ~nreq.tree[at].hidden /\ ~TooDeep(nreq.tree[at])
<1>1. Len(nreq.tree) \in Nat /\ at \in Nat /\ nreq.depth \in Nat /\ \A i \in 1..Len(nreq.tree) : nreq.tree[i].depth \in Nat
  BY FindRequestIs
<1>2. ASSUME skip > 0, nreq.tree[at].depth > skip PROVE ~Reachable(at)
  <2>1. PICK j \in 1..(at - 1) : nreq.tree[j].depth = skip /\ Closed(j) /\ Inside(j, at)
    BY <1>2 DEF SkipsOK
  <2>2. Above(j, at) /\ j \in 1..at
    BY <1>1, <1>2, <2>1 DEF Inside, Above
  <2>3. CASE nreq.tree[j].hidden \/ ~nreq.tree[j].readable
    BY <2>2, <2>3 DEF Reachable
  <2>4. CASE TooDeep(nreq.tree[j])
    <3>1. TooDeep(nreq.tree[at])
      BY <1>1, <1>2, <2>1, <2>4 DEF TooDeep
    <3> QED
      BY <3>1 DEF Reachable
  <2> QED
    BY <2>1, <2>3, <2>4 DEF Closed
<1>3. ASSUME skip = 0 \/ nreq.tree[at].depth <= skip, ~nreq.tree[at].hidden, ~TooDeep(nreq.tree[at]) PROVE Reachable(at)
  <2> SUFFICES ASSUME NEW j \in 1..at, Above(j, at), nreq.tree[j].hidden \/ ~nreq.tree[j].readable PROVE FALSE
    BY <1>3 DEF Reachable
  <2>1. j \in 1..(at - 1) /\ Inside(j, at) /\ nreq.tree[j].depth < nreq.tree[at].depth
    BY <1>1 DEF Above, Inside
  <2>2. nreq.tree[j].dir
    <3>1. j \in 1..(Len(nreq.tree) - 1) /\ j + 1 \in (j + 1)..at
      BY <1>1, <2>1
    <3>2. nreq.tree[j + 1].depth > nreq.tree[j].depth
      BY <3>1 DEF Above
    <3> QED
      BY <3>1, <3>2, FindRequestIs
  <2>3. skip > 0 /\ skip <= nreq.tree[j].depth
    BY <2>1, <2>2 DEF SkipsOK
  <2>4. nreq.tree[j].depth \in Nat /\ nreq.tree[at].depth \in Nat
    BY <1>1, <2>1
  <2> QED
    BY <1>3, <2>1, <2>3, <2>4
<1>4. nreq.tree[at].depth \in Nat
  BY <1>1
<1> QED
  BY <1>2, <1>3, <1>4 DEF Reachable

\* The walk is past an entry.
LEMMA SkipsOn ==
  ASSUME nreq \in FindRequests, NEW at \in 1..Len(nreq.tree), NEW skip \in Nat, SkipsOK(at, skip), NEW next,
         \/ skip > 0 /\ nreq.tree[at].depth > skip /\ next = skip
         \/ /\ skip = 0 \/ nreq.tree[at].depth <= skip
            /\ IF nreq.tree[at].hidden \/ TooDeep(nreq.tree[at])
               THEN next = IF nreq.tree[at].dir THEN nreq.tree[at].depth ELSE 0
               ELSE next = IF nreq.tree[at].readable THEN 0 ELSE nreq.tree[at].depth
  PROVE  SkipsOK(at + 1, next)
<1> DEFINE e == nreq.tree[at]
<1>1. /\ Len(nreq.tree) \in Nat /\ at \in Nat /\ \A i \in 1..Len(nreq.tree) : nreq.tree[i].depth \in Nat
      /\ e.depth \in Nat /\ e.depth > 0
  BY FindRequestIs
<1>2. 1..((at + 1) - 1) = 1..(at - 1) \cup {at} /\ Inside(at, at + 1)
  BY <1>1 DEF Inside
<1>3. ASSUME NEW j \in 1..(at - 1) PROVE Inside(j, at + 1) <=> Inside(j, at) /\ e.depth > nreq.tree[j].depth
  <2>1. (j + 1)..((at + 1) - 1) = (j + 1)..(at - 1) \cup {at}
    BY <1>1
  <2> QED
    BY <2>1 DEF Inside
<1>4. CASE skip > 0 /\ e.depth > skip /\ next = skip
  <2>1. PICK j \in 1..(at - 1) : nreq.tree[j].depth = skip /\ Closed(j) /\ Inside(j, at)
    BY <1>4 DEF SkipsOK
  <2>2. j \in 1..((at + 1) - 1) /\ Inside(j, at + 1)
    BY <1>2, <1>3, <1>4, <2>1
  <2>3. ASSUME NEW i \in 1..((at + 1) - 1), nreq.tree[i].dir, nreq.tree[i].hidden \/ ~nreq.tree[i].readable, Inside(i, at + 1)
        PROVE  skip > 0 /\ skip <= nreq.tree[i].depth
    <3>1. CASE i = at
      BY <1>1, <1>4, <3>1
    <3>2. CASE i # at
      <4>1. i \in 1..(at - 1) /\ Inside(i, at)
        BY <1>2, <1>3, <2>3, <3>2
      <4> QED
        BY <2>3, <4>1 DEF SkipsOK
    <3> QED
      BY <3>1, <3>2
  <2> QED
    BY <1>4, <2>1, <2>2, <2>3 DEF SkipsOK
<1>5. CASE skip = 0 \/ e.depth <= skip
  <2>1. ASSUME NEW i \in 1..(at - 1), nreq.tree[i].dir, nreq.tree[i].hidden \/ ~nreq.tree[i].readable
        PROVE  ~Inside(i, at + 1)
    <3> SUFFICES ASSUME Inside(i, at + 1) PROVE FALSE
      OBVIOUS
    <3>1. Inside(i, at) /\ e.depth > nreq.tree[i].depth
      BY <1>3
    <3>2. skip > 0 /\ skip <= nreq.tree[i].depth
      BY <2>1, <3>1 DEF SkipsOK
    <3>3. nreq.tree[i].depth \in Nat
      BY <1>1
    <3> QED
      BY <1>1, <1>5, <3>1, <3>2, <3>3
  <2>3. next \in Nat /\ (next > 0 => next = e.depth /\ Closed(at))
    BY <1>1, <1>5 DEF Closed
  <2>4. e.dir /\ (e.hidden \/ ~e.readable) => next = e.depth
    BY <1>1, <1>5
  <2>5. at \in 1..((at + 1) - 1)
    BY <1>2
  <2>6. ASSUME NEW i \in 1..((at + 1) - 1), nreq.tree[i].dir, nreq.tree[i].hidden \/ ~nreq.tree[i].readable, Inside(i, at + 1)
        PROVE  next > 0 /\ next <= nreq.tree[i].depth
    <3>1. i = at
      BY <1>2, <2>1, <2>6
    <3> QED
      BY <1>1, <2>4, <2>6, <3>1
  <2> QED
    BY <1>2, <2>3, <2>5, <2>6 DEF SkipsOK
<1> QED
  BY <1>1, <1>4, <1>5

\* The entries that match among the first n, in walk order.
Collected(s, n) ==
  /\ s \in Seq(Nat)
  /\ \A k, l \in 1..Len(s) : k < l => s[k] < s[l]
  /\ \A k \in 1..Len(s) : s[k] \in Wanted /\ s[k] <= n
  /\ \A i \in Wanted : i <= n => \E k \in 1..Len(s) : s[k] = i

FoundBy(s) == {s[k] : k \in 1..Len(s)}

LEMMA WantedIs ==
  ASSUME nreq \in FindRequests
  PROVE  /\ Wanted \in SUBSET (1..Len(nreq.tree)) /\ Wanted \in SUBSET Nat /\ IsFiniteSet(Wanted)
         /\ Cardinality(Wanted) \in Nat
<1>1. Wanted \in SUBSET (1..Len(nreq.tree)) /\ Len(nreq.tree) \in Nat
  BY FindRequestIs DEF Wanted
<1>2. IsFiniteSet(1..Len(nreq.tree))
  BY <1>1, FS_Interval
<1>3. IsFiniteSet(Wanted)
  BY <1>1, <1>2, FS_Subset
<1> QED
  BY <1>1, <1>3, FS_CardinalityType

LEMMA CollectedNext ==
  ASSUME nreq \in FindRequests, NEW n \in 1..Len(nreq.tree), NEW s, Collected(s, n - 1)
  PROVE  /\ n \in Wanted => Collected(Append(s, n), n) /\ Len(Append(s, n)) = Len(s) + 1
         /\ n \notin Wanted => Collected(s, n)
         /\ Len(s) \in Nat
<1>1. n \in Nat /\ s \in Seq(Nat) /\ Len(s) \in Nat /\ \A i \in Wanted : i \in Nat
  BY FindRequestIs, WantedIs, LenProperties DEF Collected
<1>2. \A k \in 1..Len(s) : s[k] \in Wanted /\ s[k] <= n - 1 /\ s[k] \in Nat
  BY <1>1 DEF Collected
<1>3. ASSUME n \in Wanted PROVE Collected(Append(s, n), n) /\ Len(Append(s, n)) = Len(s) + 1
  <2> DEFINE t == Append(s, n)
  <2>1. /\ t \in Seq(Nat) /\ Len(t) = Len(s) + 1
        /\ \A i \in 1..(Len(s) + 1) : t[i] = IF i <= Len(s) THEN s[i] ELSE n
    BY <1>1, AppendProperties
  <2> HIDE DEF t
  <2>2. \A k \in 1..Len(s) : k \in 1..Len(t) /\ t[k] = s[k]
    BY <1>1, <2>1
  <2>3. t[Len(s) + 1] = n /\ Len(s) + 1 \in 1..Len(t)
    BY <1>1, <2>1
  <2>4. \A k \in 1..Len(t) : k \in 1..Len(s) \/ k = Len(s) + 1
    BY <1>1, <2>1
  <2>5. ASSUME NEW k \in 1..Len(t), NEW l \in 1..Len(t), k < l PROVE t[k] < t[l]
    <3>1. k \in 1..Len(s)
      BY <1>1, <2>1, <2>4, <2>5
    <3>2. CASE l \in 1..Len(s)
      BY <2>2, <2>5, <3>1, <3>2 DEF Collected
    <3>3. CASE l = Len(s) + 1
      <4>1. t[k] = s[k] /\ t[l] = n /\ s[k] <= n - 1 /\ s[k] \in Nat
        BY <1>2, <2>2, <2>3, <3>1, <3>3
      <4> QED
        BY <1>1, <4>1
    <3> QED
      BY <2>4, <3>2, <3>3
  <2>6. ASSUME NEW k \in 1..Len(t) PROVE t[k] \in Wanted /\ t[k] <= n
    <3>1. CASE k \in 1..Len(s)
      <4>1. t[k] = s[k] /\ s[k] \in Wanted /\ s[k] <= n - 1 /\ s[k] \in Nat
        BY <1>2, <2>2, <3>1
      <4> QED
        BY <1>1, <4>1
    <3>2. CASE k = Len(s) + 1
      BY <1>1, <1>3, <2>3, <3>2
    <3> QED
      BY <2>4, <3>1, <3>2
  <2>7. ASSUME NEW i \in Wanted, i <= n PROVE \E k \in 1..Len(t) : t[k] = i
    <3>1. CASE i = n
      BY <2>3, <3>1
    <3>2. CASE i # n
      <4>1. i <= n - 1
        BY <1>1, <2>7, <3>2
      <4>2. PICK k \in 1..Len(s) : s[k] = i
        BY <4>1 DEF Collected
      <4> QED
        BY <2>2, <4>2
    <3> QED
      BY <3>1, <3>2
  <2>8. Collected(t, n)
    BY <2>1, <2>5, <2>6, <2>7 DEF Collected
  <2> QED
    BY <2>1, <2>8 DEF t
<1>4. ASSUME n \notin Wanted PROVE Collected(s, n)
  <2>1. \A k \in 1..Len(s) : s[k] <= n
    BY <1>1, <1>2
  <2>2. \A i \in Wanted : i <= n => i <= n - 1
    BY <1>1, <1>4
  <2> QED
    BY <2>1, <2>2 DEF Collected
<1> QED
  BY <1>1, <1>3, <1>4

LEMMA SameFound ==
  ASSUME NEW s, NEW t, Len(t) = Len(s), \A i \in 1..Len(s) : \E k \in 1..Len(s) : t[k] = s[i],
         \A k \in 1..Len(s) : \E i \in 1..Len(s) : s[i] = t[k]
  PROVE  FoundBy(t) = FoundBy(s)
<1>1. \A x : x \in FoundBy(s) <=> x \in FoundBy(t)
  BY DEF FoundBy
<1> QED
  BY <1>1

\* As many entries as the list is long.
LEMMA ListedOnce ==
  ASSUME NEW s \in Seq(Nat), \A k, l \in 1..Len(s) : k < l => s[k] # s[l]
  PROVE  IsFiniteSet(FoundBy(s)) /\ Cardinality(FoundBy(s)) = Len(s) /\ Len(s) \in Nat
<1> DEFINE n == Len(s)
           f == [k \in 1..n |-> s[k]]
<1>1. n \in Nat
  BY LenProperties
<1>2. \A k, l \in 1..n : s[k] = s[l] => k = l
  BY <1>1
<1>3. f \in [1..n -> FoundBy(s)] /\ (\A k \in 1..n : f[k] = s[k]) /\ \A x \in FoundBy(s) : \E k \in 1..n : f[k] = x
  BY DEF FoundBy
<1> HIDE DEF f, n
<1>4. f \in Injection(1..n, FoundBy(s)) /\ f \in Surjection(1..n, FoundBy(s))
  BY <1>2, <1>3 DEF Injection, Surjection, IsInjective
<1>5. ExistsBijection(1..n, FoundBy(s))
  BY <1>4 DEF ExistsBijection, Bijection
<1>6. IsFiniteSet(1..n) /\ Cardinality(FoundBy(s)) = n
  BY <1>1, <1>5, FS_Interval, FS_CountingElements
<1>7. IsFiniteSet(FoundBy(s))
  BY <1>4, <1>6, FS_Surjection
<1> QED
  BY <1>1, <1>6, <1>7 DEF n

\* Sorting: what stands before what.
Earlier(s, i, j) == Key(s[i]) > Key(s[j]) \/ (Key(s[i]) = Key(s[j]) /\ i < j)

LEMMA RanksIncrease ==
  ASSUME nreq \in FindRequests, NEW s \in Seq(1..Len(nreq.tree))
  PROVE  /\ \A i \in 1..Len(s) : Rank(s, i) \in 1..Len(s)
         /\ \A i, j \in 1..Len(s) : Earlier(s, i, j) => Rank(s, i) < Rank(s, j)
         /\ \A i, j \in 1..Len(s) : i # j => Earlier(s, i, j) \/ Earlier(s, j, i)
<1> DEFINE n == Len(s)
           NotBehind(i) == {j \in 1..n : Key(s[j]) > Key(s[i]) \/ (Key(s[j]) = Key(s[i]) /\ j <= i)}
<1>1. n \in Nat /\ \A i \in 1..n : Key(s[i]) \in Int
  <2>1. n \in Nat /\ \A i \in 1..n : s[i] \in 1..Len(nreq.tree)
    BY LenProperties, ElementOfSeq
  <2> QED
    BY <2>1, FindRequestIs
<1>2. IsFiniteSet(1..n) /\ Cardinality(1..n) = n
  <2>1. n \in Int /\ 1 \in Int
    BY <1>1
  <2>2. IsFiniteSet(1..n) /\ Cardinality(1..n) = IF 1 > n THEN 0 ELSE n - 1 + 1
    BY <2>1, FS_Interval
  <2> QED
    BY <1>1, <2>2
<1>3. \A i : NotBehind(i) \in SUBSET (1..n)
  OBVIOUS
<1>4. \A i : Rank(s, i) = Cardinality(NotBehind(i))
  BY DEF Rank
<1>5. ASSUME NEW i \in 1..n PROVE i \in NotBehind(i)
  BY <1>1
<1>6. ASSUME NEW i \in 1..n, NEW j \in 1..n, Earlier(s, i, j) PROVE NotBehind(i) \in SUBSET NotBehind(j) /\ j \notin NotBehind(i) /\ j \in NotBehind(j)
  <2>1. j \notin NotBehind(i)
    BY <1>1, <1>6 DEF Earlier
  <2>2. ASSUME NEW k \in NotBehind(i) PROVE k \in NotBehind(j)
    BY <1>1, <1>6 DEF Earlier
  <2> QED
    BY <1>5, <2>1, <2>2
<1>7. \A i, j \in 1..n : i # j => Earlier(s, i, j) \/ Earlier(s, j, i)
  BY <1>1 DEF Earlier
<1> HIDE DEF NotBehind
<1>8. ASSUME NEW i \in 1..n PROVE IsFiniteSet(NotBehind(i)) /\ Cardinality(NotBehind(i)) \in Nat /\ Cardinality(NotBehind(i)) <= n
  BY <1>2, <1>3, FS_Subset, FS_CardinalityType
<1>9. ASSUME NEW i \in 1..n PROVE Cardinality(NotBehind(i)) # 0
  BY <1>5, <1>8, FS_EmptySet
<1>10. ASSUME NEW i \in 1..n, NEW j \in 1..n, Earlier(s, i, j) PROVE Cardinality(NotBehind(i)) < Cardinality(NotBehind(j))
  <2>1. NotBehind(i) \in SUBSET NotBehind(j) /\ NotBehind(i) # NotBehind(j)
    BY <1>6, <1>10
  <2>2. Cardinality(NotBehind(i)) <= Cardinality(NotBehind(j)) /\ Cardinality(NotBehind(i)) # Cardinality(NotBehind(j))
    BY <1>8, <2>1, FS_Subset
  <2> QED
    BY <1>8, <2>2
<1>11. \A i \in 1..n : Rank(s, i) \in 1..n
  BY <1>1, <1>4, <1>8, <1>9
<1> QED
  BY <1>4, <1>7, <1>10, <1>11

\* Sorting loses nothing, adds nothing, and puts each before what it is ahead of.
LEMMA SortedIs ==
  ASSUME nreq \in FindRequests, nreq.sort, NEW s \in Seq(1..Len(nreq.tree)),
         \A k, l \in 1..Len(s) : k < l => s[k] < s[l]
  PROVE  /\ Sorted(s) \in Seq(Nat) /\ Len(Sorted(s)) = Len(s) /\ FoundBy(Sorted(s)) = FoundBy(s)
         /\ \A k, l \in 1..Len(s) : k < l => Ahead(Sorted(s)[k], Sorted(s)[l])
<1> DEFINE n == Len(s)
           at(k) == CHOOSE i \in 1..n : Rank(s, i) = k
           rank == [i \in 1..n |-> Rank(s, i)]
<1>1. n \in Nat /\ \A i \in 1..n : s[i] \in 1..Len(nreq.tree) /\ s[i] \in Nat
  <2>1. n \in Nat /\ \A i \in 1..n : s[i] \in 1..Len(nreq.tree)
    BY LenProperties, ElementOfSeq
  <2> QED
    BY <2>1, FindRequestIs
<1>2. /\ \A i \in 1..n : Rank(s, i) \in 1..n
      /\ \A i, j \in 1..n : Earlier(s, i, j) => Rank(s, i) < Rank(s, j)
      /\ \A i, j \in 1..n : i # j => Earlier(s, i, j) \/ Earlier(s, j, i)
  BY RanksIncrease
<1>3. \A i, j \in 1..n : Rank(s, i) = Rank(s, j) => i = j
  <2> SUFFICES ASSUME NEW i \in 1..n, NEW j \in 1..n, Rank(s, i) = Rank(s, j), i # j PROVE FALSE
    OBVIOUS
  <2>1. Rank(s, i) < Rank(s, j) \/ Rank(s, j) < Rank(s, i)
    BY <1>2
  <2>2. Rank(s, i) \in Int
    BY <1>2
  <2> QED
    BY <2>1, <2>2
<1>4. rank \in [1..n -> 1..n] /\ \A i \in 1..n : rank[i] = Rank(s, i)
  BY <1>2
<1>5. \A k \in 1..n : \E i \in 1..n : Rank(s, i) = k
  <2> HIDE DEF rank, n
  <2>1. IsFiniteSet(1..n)
    BY <1>1, FS_Interval
  <2>2. rank \in Injection(1..n, 1..n)
    BY <1>3, <1>4 DEF Injection, IsInjective
  <2>3. rank \in Surjection(1..n, 1..n)
    BY <2>1, <2>2, FS_Injection
  <2> QED
    BY <1>4, <2>3 DEF Surjection
<1>6. ASSUME NEW k \in 1..n PROVE at(k) \in 1..n /\ Rank(s, at(k)) = k
  BY <1>5
<1>7. Sorted(s) = [k \in 1..n |-> s[at(k)]]
  BY DEF Sorted
<1> HIDE DEF at
<1>8. Sorted(s) \in [1..n -> Nat] /\ \A k \in 1..n : Sorted(s)[k] = s[at(k)]
  BY <1>1, <1>6, <1>7
<1>9. Sorted(s) \in Seq(Nat) /\ Len(Sorted(s)) = n
  BY <1>1, <1>8, LenProperties, SeqDef
<1>10. FoundBy(Sorted(s)) = FoundBy(s)
  <2>1. ASSUME NEW i \in 1..n PROVE \E k \in 1..n : Sorted(s)[k] = s[i]
    <3>1. Rank(s, i) \in 1..n /\ at(Rank(s, i)) = i
      BY <1>2, <1>3, <1>6
    <3> QED
      BY <1>8, <3>1
  <2>2. ASSUME NEW k \in 1..n PROVE \E i \in 1..n : s[i] = Sorted(s)[k]
    BY <1>6, <1>8
  <2>3. Len(Sorted(s)) = Len(s)
    BY <1>9
  <2> QED
    BY <2>1, <2>2, <2>3, SameFound
<1>11. ASSUME NEW k \in 1..n, NEW l \in 1..n, k < l PROVE Ahead(Sorted(s)[k], Sorted(s)[l])
  <2> DEFINE p == at(k)
             q == at(l)
  <2>1. p \in 1..n /\ q \in 1..n /\ Rank(s, p) = k /\ Rank(s, q) = l
    BY <1>6
  <2> HIDE DEF p, q
  <2>2. p # q /\ ~Earlier(s, q, p)
    <3>1. k \in Int /\ l \in Int /\ ~(l < k)
      BY <1>1, <1>11
    <3>2. Earlier(s, q, p) => l < k
      BY <1>2, <2>1
    <3> QED
      BY <1>11, <2>1, <3>1, <3>2
  <2>3. Earlier(s, p, q)
    BY <1>2, <2>1, <2>2
  <2>4. p < q => s[p] < s[q]
    BY <2>1
  <2> QED
    BY <1>8, <2>3, <2>4 DEF Earlier, Ahead, p, q
<1> QED
  BY <1>9, <1>10, <1>11

\* The walk has collected the first entries that match, and has ended when one
\* more did.
Walked(at, skip, r) ==
  /\ at \in 1..(Len(nreq.tree) + 1) /\ Len(r.entries) <= CollectCap
  /\ ~r.ended => SkipsOK(at, skip) /\ Collected(r.entries, at - 1) /\ ~r.truncated
  /\ r.ended => /\ at > 1 /\ at - 1 \in Wanted /\ Collected(r.entries, at - 2)
                /\ Len(r.entries) = CollectCap /\ r.truncated

\* The answer is what FindIsTop says.
Topmost(r) ==
  LET got == FoundBy(r.entries)
  IN  /\ got \subseteq Seen /\ Cardinality(got) = Len(r.entries)
      /\ Len(r.entries) = (IF Cardinality(Seen) < nreq.max THEN Cardinality(Seen) ELSE nreq.max)
      /\ \A k, l \in 1..Len(r.entries) : k < l => Ahead(r.entries[k], r.entries[l])
      /\ \A i \in got, j \in Seen \ got : Ahead(i, j)
      /\ r.truncated = (Cardinality(Wanted) > Len(r.entries))

FindInv ==
  /\ nreq \in FindRequests /\ nres \in FoundType /\ fskip \in Nat
  /\ Walked(fat, fskip, nres) \/ (fat = Len(nreq.tree) + 2 /\ Topmost(nres))

LEMMA CapIs ==
  ASSUME nreq \in FindRequests
  PROVE  CollectCap \in Nat /\ CollectCap > 0 /\ (~nreq.sort => CollectCap = nreq.max) /\ (nreq.sort => CollectCap = MaxFindScan)
<1>1. nreq.max \in Nat /\ nreq.max > 0 /\ nreq.sort \in BOOLEAN
  BY FindRequestIs
<1>2. MaxFindScan \in Nat /\ MaxFindScan > 0
  BY FindAssumption
<1> QED
  BY <1>1, <1>2 DEF CollectCap

LEMMA CollectedIs ==
  ASSUME nreq \in FindRequests, NEW s, NEW n \in 0..Len(nreq.tree), Collected(s, n)
  PROVE  /\ s \in Seq(1..Len(nreq.tree)) /\ s \in Seq(Nat) /\ Len(s) \in Nat
         /\ \A i : i \in FoundBy(s) <=> i \in Wanted /\ i <= n
         /\ IsFiniteSet(FoundBy(s)) /\ Cardinality(FoundBy(s)) = Len(s)
         /\ \A k \in 1..Len(s) : s[k] \in Nat
<1>1. s \in Seq(Nat) /\ Len(s) \in Nat /\ n \in Nat /\ Wanted \in SUBSET (1..Len(nreq.tree))
  BY FindRequestIs, WantedIs, LenProperties DEF Collected
<1>2. \A k \in 1..Len(s) : s[k] \in 1..Len(nreq.tree) /\ s[k] \in Nat
  BY <1>1, ElementOfSeq DEF Collected
<1>3. s \in Seq(1..Len(nreq.tree))
  <2>1. s \in [1..Len(s) -> Nat]
    BY <1>1, LenProperties
  <2>2. s \in [1..Len(s) -> 1..Len(nreq.tree)]
    BY <1>2, <2>1
  <2> QED
    BY <1>1, <2>2, SeqDef
<1>4. \A k, l \in 1..Len(s) : k < l => s[k] # s[l]
  BY <1>2 DEF Collected
<1>5. \A i : i \in FoundBy(s) <=> i \in Wanted /\ i <= n
  BY DEF FoundBy, Collected
<1> QED
  BY <1>1, <1>2, <1>3, <1>4, <1>5, ListedOnce

\* One step of the walk.
LEMMA EntryWalks ==
  ASSUME FindInv, FindEntry
  PROVE  nres' \in FoundType /\ fskip' \in Nat /\ Walked(fat', fskip', nres')
<1> DEFINE e == nreq.tree[fat]
           s == nres.entries
<1>1. nreq \in FindRequests /\ nres \in FoundType /\ fskip \in Nat /\ ~nres.ended /\ fat <= Len(nreq.tree)
  BY DEF FindInv, FindEntry
<1>2. Walked(fat, fskip, nres) /\ fat \in 1..Len(nreq.tree)
  <2>1. Len(nreq.tree) \in Nat
    BY <1>1, FindRequestIs
  <2> QED
    BY <1>1, <2>1 DEF FindInv, Walked
<1>3. SkipsOK(fat, fskip) /\ Collected(s, fat - 1) /\ ~nres.truncated /\ Len(s) <= CollectCap
  BY <1>1, <1>2 DEF Walked
<1>4. /\ Len(nreq.tree) \in Nat /\ fat \in Nat /\ e.depth \in Nat /\ e.depth > 0 /\ fat + 1 \in 1..(Len(nreq.tree) + 1)
      /\ (fat + 1) - 1 = fat /\ (fat + 1) - 2 = fat - 1 /\ fat + 1 > 1
  BY <1>1, <1>2, FindRequestIs
<1>5. s \in Seq(Nat) /\ nres.truncated \in BOOLEAN /\ nres.dirsSkipped \in Nat /\ nres.ended \in BOOLEAN
  BY <1>1 DEF FoundType
<1>6. Reachable(fat) <=> (fskip = 0 \/ e.depth <= fskip) /\ ~e.hidden /\ ~TooDeep(e)
  BY <1>1, <1>2, <1>3, SkipsRight
<1>7. fat \in Wanted <=> Reachable(fat) /\ e.wanted
  BY <1>2 DEF Wanted
<1>8. /\ fat \in Wanted => Collected(Append(s, fat), fat) /\ Len(Append(s, fat)) = Len(s) + 1
      /\ fat \notin Wanted => Collected(s, fat)
      /\ Len(s) \in Nat
  BY <1>1, <1>2, <1>3, CollectedNext
<1>9. CollectCap \in Nat
  BY <1>1, CapIs
<1>10. ASSUME nres' = nres, fat' = fat + 1, fat \notin Wanted, SkipsOK(fat + 1, fskip')
       PROVE  nres' \in FoundType /\ fskip' \in Nat /\ Walked(fat', fskip', nres')
  BY <1>1, <1>3, <1>4, <1>8, <1>10 DEF Walked, SkipsOK
<1>11. CASE fskip > 0 /\ e.depth > fskip /\ fat' = fat + 1 /\ UNCHANGED <<fskip, nres>>
  <2>1. SkipsOK(fat + 1, fskip')
    BY <1>1, <1>2, <1>3, <1>11, SkipsOn
  <2>2. fat \notin Wanted
    BY <1>1, <1>4, <1>6, <1>7, <1>11
  <2> QED
    BY <1>10, <1>11, <2>1, <2>2
<1>12. CASE (fskip = 0 \/ e.depth <= fskip) /\ (e.hidden \/ TooDeep(e)) /\ Pass(e) /\ UNCHANGED nres
  <2>1. fskip' = (IF e.dir THEN e.depth ELSE 0) /\ fat' = fat + 1
    BY <1>12 DEF Pass
  <2>2. SkipsOK(fat + 1, fskip')
    BY <1>1, <1>2, <1>3, <1>12, <2>1, SkipsOn
  <2>3. fat \notin Wanted
    BY <1>6, <1>7, <1>12
  <2> QED
    BY <1>10, <1>12, <2>1, <2>2, <2>3
<1>13. CASE /\ fskip = 0 \/ e.depth <= fskip
            /\ ~e.hidden /\ ~TooDeep(e)
            /\ fat' = fat + 1
            /\ fskip' = IF e.readable THEN 0 ELSE e.depth
            /\ nres' = IF e.wanted /\ Len(s) >= CollectCap
                       THEN [nres EXCEPT !.truncated = TRUE, !.ended = TRUE]
                       ELSE [nres EXCEPT !.entries = IF e.wanted THEN Append(@, fat) ELSE @,
                                         !.dirsSkipped = IF e.readable THEN @ ELSE @ + 1]
  <2>1. SkipsOK(fat + 1, fskip')
    BY <1>1, <1>2, <1>3, <1>13, SkipsOn
  <2>2. fskip' \in Nat /\ (fat \in Wanted <=> e.wanted)
    BY <1>4, <1>6, <1>7, <1>13
  <2>3. CASE e.wanted /\ Len(s) >= CollectCap
    <3>1. nres' = [nres EXCEPT !.truncated = TRUE, !.ended = TRUE]
      BY <1>13, <2>3
    <3>2. nres' \in FoundType /\ nres'.entries = s /\ nres'.truncated /\ nres'.ended
      BY <1>1, <1>5, <3>1 DEF FoundType
    <3>3. Len(s) = CollectCap
      BY <1>3, <1>8, <1>9, <2>3
    <3> QED
      BY <1>3, <1>4, <1>13, <2>2, <2>3, <3>2, <3>3 DEF Walked
  <2>4. CASE ~(e.wanted /\ Len(s) >= CollectCap)
    <3> DEFINE t == IF e.wanted THEN Append(s, fat) ELSE s
               d == IF e.readable THEN nres.dirsSkipped ELSE nres.dirsSkipped + 1
    <3>1. nres' = [nres EXCEPT !.entries = t, !.dirsSkipped = d]
      BY <1>13, <2>4
    <3>2. t \in Seq(Nat) /\ d \in Nat
      BY <1>4, <1>5, AppendProperties
    <3>3. Collected(t, fat) /\ Len(t) <= CollectCap
      BY <1>3, <1>8, <1>9, <2>2, <2>4
    <3> HIDE DEF t, d
    <3>4. nres' \in FoundType /\ nres'.entries = t /\ ~nres'.truncated /\ ~nres'.ended
      BY <1>1, <1>3, <1>5, <3>1, <3>2 DEF FoundType
    <3> QED
      BY <1>4, <1>13, <2>1, <2>2, <3>3, <3>4 DEF Walked
  <2> QED
    BY <2>3, <2>4
<1> QED
  BY <1>11, <1>12, <1>13 DEF FindEntry

\* What the scan limit lets it collect is what it has collected.
LEMMA CountsUp ==
  ASSUME nreq \in FindRequests, NEW s, NEW a \in Wanted, Collected(s, a - 1), a - 1 \in 0..Len(nreq.tree)
  PROVE  /\ Cardinality(Wanted) >= Len(s) + 1
         /\ \A i \in Wanted : i >= a => Cardinality({j \in Wanted : j <= i}) >= Len(s) + 1
<1>1. IsFiniteSet(FoundBy(s)) /\ Cardinality(FoundBy(s)) = Len(s) /\ Len(s) \in Nat /\ \A i : i \in FoundBy(s) <=> i \in Wanted /\ i <= a - 1
  BY CollectedIs
<1>2. Wanted \in SUBSET Nat /\ IsFiniteSet(Wanted) /\ Cardinality(Wanted) \in Nat /\ a \in Nat
  BY WantedIs
<1>3. a \notin FoundBy(s)
  BY <1>1, <1>2
<1>4. IsFiniteSet(FoundBy(s) \cup {a}) /\ Cardinality(FoundBy(s) \cup {a}) = Len(s) + 1
  <2> DEFINE X == FoundBy(s)
  <2>1. IsFiniteSet(X) /\ Cardinality(X) = Len(s) /\ a \notin X
    BY <1>1, <1>3
  <2> HIDE DEF X
  <2>2. IsFiniteSet(X \cup {a}) /\ Cardinality(X \cup {a}) = IF a \in X THEN Cardinality(X) ELSE Cardinality(X) + 1
    BY <2>1, FS_AddElement
  <2>3. IsFiniteSet(X \cup {a}) /\ Cardinality(X \cup {a}) = Len(s) + 1
    BY <2>1, <2>2
  <2> QED
    BY <2>3 DEF X
<1>5. ASSUME NEW T \in SUBSET Wanted, FoundBy(s) \cup {a} \in SUBSET T PROVE Cardinality(T) >= Len(s) + 1
  <2>1. IsFiniteSet(T) /\ Cardinality(T) \in Nat
    BY <1>2, FS_Subset, FS_CardinalityType
  <2>2. Cardinality(FoundBy(s) \cup {a}) <= Cardinality(T)
    BY <1>5, <2>1, FS_Subset
  <2> QED
    BY <1>1, <1>4, <2>1, <2>2
<1>6. Cardinality(Wanted) >= Len(s) + 1
  BY <1>1, <1>5
<1>7. ASSUME NEW i \in Wanted, i >= a PROVE Cardinality({j \in Wanted : j <= i}) >= Len(s) + 1
  <2>1. ASSUME NEW x \in FoundBy(s) \cup {a} PROVE x \in Wanted /\ x <= i
    <3>1. i \in Nat /\ a \in Nat
      BY <1>2
    <3>2. CASE x = a
      BY <1>7, <3>2
    <3>3. CASE x \in FoundBy(s)
      <4>1. x \in Wanted /\ x <= a - 1 /\ x \in Nat
        BY <1>1, <1>2, <3>3
      <4> QED
        BY <1>7, <3>1, <4>1
    <3> QED
      BY <3>2, <3>3
  <2> QED
    BY <1>5, <2>1
<1> QED
  BY <1>6, <1>7

LEMMA SeenIs ==
  ASSUME nreq \in FindRequests, NEW at, NEW skip, NEW r \in FoundType, Walked(at, skip, r), at = Len(nreq.tree) + 1 \/ r.ended
  PROVE  /\ ~r.ended \/ nreq.sort => Seen = FoundBy(r.entries)
         /\ ~r.ended => Wanted = FoundBy(r.entries) /\ ~r.truncated
         /\ r.ended => Cardinality(Wanted) > Len(r.entries) /\ r.truncated
<1> DEFINE s == r.entries
<1>1. Len(nreq.tree) \in Nat /\ at \in Nat /\ at \in 1..(Len(nreq.tree) + 1) /\ r.ended \in BOOLEAN /\ nreq.sort \in BOOLEAN
  <2>1. r.ended \in BOOLEAN
    BY DEF FoundType
  <2> QED
    BY <2>1, FindRequestIs DEF Walked
<1>2. /\ Wanted \in SUBSET (1..Len(nreq.tree)) /\ Wanted \in SUBSET Nat /\ IsFiniteSet(Wanted) /\ Cardinality(Wanted) \in Nat
  BY WantedIs
<1>3. CollectCap \in Nat /\ (nreq.sort => CollectCap = MaxFindScan)
  BY CapIs
<1>4. CASE ~r.ended
  <2>1. Collected(s, Len(nreq.tree)) /\ Len(s) <= CollectCap /\ ~r.truncated
    BY <1>1, <1>4 DEF Walked
  <2>2. Cardinality(FoundBy(s)) = Len(s) /\ Len(s) \in Nat /\ \A i : i \in FoundBy(s) <=> i \in Wanted /\ i <= Len(nreq.tree)
    BY <1>1, <2>1, CollectedIs
  <2>3. Wanted = FoundBy(s) /\ Cardinality(Wanted) = Len(s)
    <3>1. \A i : i \in FoundBy(s) <=> i \in Wanted
      <4>1. \A i \in Wanted : i <= Len(nreq.tree)
        BY <1>1, <1>2
      <4> QED
        BY <2>2, <4>1
    <3>2. Wanted = FoundBy(s)
      BY <3>1
    <3> QED
      BY <2>2, <3>2
  <2>4. Seen = Wanted
    <3>1. CASE nreq.sort
      <4>1. ASSUME NEW i \in Wanted PROVE Cardinality({j \in Wanted : j <= i}) <= MaxFindScan
        <5> DEFINE T == {j \in Wanted : j <= i}
        <5>1. T \in SUBSET Wanted
          OBVIOUS
        <5> HIDE DEF T
        <5>2. Cardinality(T) <= Cardinality(Wanted) /\ Cardinality(T) \in Nat
          BY <1>2, <5>1, FS_Subset, FS_CardinalityType
        <5>3. Cardinality(T) <= MaxFindScan
          <6>1. CollectCap = MaxFindScan /\ CollectCap \in Nat /\ Len(s) <= CollectCap /\ Len(s) \in Nat
            BY <1>3, <2>1, <2>2, <3>1
          <6> QED
            BY <2>3, <5>2, <6>1
        <5> QED
          BY <5>3 DEF T
      <4> QED
        BY <3>1, <4>1 DEF Seen
    <3>2. CASE ~nreq.sort
      BY <3>2 DEF Seen
    <3> QED
      BY <3>1, <3>2
  <2> QED
    BY <1>4, <2>1, <2>3, <2>4
<1>5. CASE r.ended
  <2> DEFINE a == at - 1
  <2>1. a \in Wanted /\ Collected(s, a - 1) /\ Len(s) = CollectCap /\ r.truncated /\ a - 1 \in 0..Len(nreq.tree) /\ a \in Nat
    <3>1. at > 1 /\ a \in Wanted /\ Collected(s, at - 2) /\ Len(s) = CollectCap /\ r.truncated
      BY <1>5 DEF Walked
    <3>2. at - 2 = a - 1 /\ a - 1 \in 0..Len(nreq.tree) /\ a \in Nat
      BY <1>1, <3>1
    <3> QED
      BY <3>1, <3>2
  <2> HIDE DEF a
  <2>2. /\ Cardinality(FoundBy(s)) = Len(s) /\ Len(s) \in Nat /\ IsFiniteSet(FoundBy(s))
        /\ \A i : i \in FoundBy(s) <=> i \in Wanted /\ i <= a - 1
    BY <2>1, CollectedIs
  <2>3. /\ Cardinality(Wanted) >= Len(s) + 1
        /\ \A i \in Wanted : i >= a => Cardinality({j \in Wanted : j <= i}) >= Len(s) + 1
    BY <2>1, CountsUp
  <2>4. Cardinality(Wanted) > Len(s)
    BY <1>2, <2>2, <2>3
  <2>5. ASSUME nreq.sort PROVE Seen = FoundBy(s)
    <3>1. ASSUME NEW i \in FoundBy(s) PROVE i \in Seen
      <4> DEFINE T == {j \in Wanted : j <= i}
      <4>1. i \in Wanted /\ i <= a - 1 /\ i \in Nat
        BY <1>2, <2>2
      <4>2. T \in SUBSET FoundBy(s)
        <5>1. ASSUME NEW j \in T PROVE j \in FoundBy(s)
          <6>1. j \in Wanted /\ j <= i /\ j \in Nat
            BY <1>2
          <6>2. j <= a - 1
            BY <2>1, <4>1, <6>1
          <6> QED
            BY <2>2, <6>1, <6>2
        <5> QED
          BY <5>1
      <4> HIDE DEF T
      <4>3. Cardinality(T) <= Len(s) /\ Cardinality(T) \in Nat
        BY <2>2, <4>2, FS_Subset, FS_CardinalityType
      <4>4. Cardinality(T) <= MaxFindScan
        BY <1>3, <2>1, <2>5, <4>3
      <4> QED
        BY <2>5, <4>1, <4>4 DEF Seen, T
    <3>2. ASSUME NEW i \in Seen PROVE i \in FoundBy(s)
      <4>1. i \in Wanted /\ Cardinality({j \in Wanted : j <= i}) <= MaxFindScan
        BY <2>5, <3>2 DEF Seen
      <4> DEFINE c == Cardinality({j \in Wanted : j <= i})
      <4>2. c \in Nat
        <5>1. {j \in Wanted : j <= i} \in SUBSET Wanted
          OBVIOUS
        <5> QED
          BY <1>2, <5>1, FS_Subset, FS_CardinalityType
      <4>3. i >= a => c >= Len(s) + 1
        BY <2>3, <4>1
      <4> HIDE DEF c
      <4>4. ~(i >= a)
        BY <1>3, <2>1, <2>2, <2>5, <4>1, <4>2, <4>3 DEF c
      <4>5. i <= a - 1
        BY <1>2, <2>1, <4>1, <4>4
      <4> QED
        BY <2>2, <4>1, <4>5
    <3> QED
      BY <3>1, <3>2
  <2> QED
    BY <1>5, <2>1, <2>4, <2>5
<1> QED
  BY <1>1, <1>4, <1>5

InOrder(s) == \A k, l \in 1..Len(s) : k < l => Ahead(s[k], s[l])

\* t lists, in order, as many of S as the answer may, and the foremost.
Foremost(t, S) ==
  /\ FoundBy(t) \subseteq S /\ Cardinality(FoundBy(t)) = Len(t)
  /\ Len(t) = (IF Cardinality(S) < nreq.max THEN Cardinality(S) ELSE nreq.max)
  /\ InOrder(t)
  /\ \A i \in FoundBy(t), j \in S \ FoundBy(t) : Ahead(i, j)

\* The first of what is found, up to the limit, when it is in order.
LEMMA FirstOf ==
  ASSUME nreq \in FindRequests, NEW all \in Seq(Nat), NEW t, NEW S \in SUBSET (1..Len(nreq.tree)),
         t = IF Len(all) > nreq.max THEN SubSeq(all, 1, nreq.max) ELSE all,
         FoundBy(all) = S, InOrder(all)
  PROVE  t \in Seq(Nat) /\ Cardinality(S) = Len(all) /\ Len(all) \in Nat /\ Foremost(t, S)
<1> DEFINE n == Len(all)
           m == nreq.max
<1>1. n \in Nat /\ m \in Nat /\ m > 0 /\ \A k \in 1..n : all[k] \in Nat
  BY FindRequestIs, LenProperties, ElementOfSeq
<1>2. t \in Seq(Nat) /\ Len(t) = (IF n > m THEN m ELSE n) /\ \A k \in 1..Len(t) : t[k] = all[k]
  <2>1. CASE n > m
    <3>1. 1 \in 1..(n + 1) /\ m \in 0..n
      BY <1>1, <2>1
    <3>2. t = SubSeq(all, 1, m)
      BY <2>1
    <3>3. SubSeq(all, 1, m) \in Seq(Nat) /\ Len(SubSeq(all, 1, m)) = m /\ \A k \in 1..m : SubSeq(all, 1, m)[k] = all[k]
      BY <1>1, <3>1, SubSeqProperties
    <3> QED
      BY <2>1, <3>2, <3>3
  <2>2. CASE ~(n > m)
    BY <2>2
  <2> QED
    BY <2>1, <2>2
<1>3. Len(t) \in Nat /\ Len(t) <= n /\ \A k \in 1..Len(t) : k \in 1..n
  BY <1>1, <1>2
<1>4. \A i, j \in 1..Len(nreq.tree) : Ahead(i, j) => i # j
  <2> SUFFICES ASSUME NEW i \in 1..Len(nreq.tree), Ahead(i, i) PROVE FALSE
    OBVIOUS
  <2>0. Key(i) \in Int /\ i \in Int
    BY FindRequestIs
  <2>1. CASE nreq.sort
    BY <2>0, <2>1 DEF Ahead
  <2>2. CASE ~nreq.sort
    BY <2>0, <2>2 DEF Ahead
  <2> QED
    BY <2>1, <2>2
<1>12. \A k, l \in 1..n : k < l => Ahead(all[k], all[l])
  BY DEF InOrder
<1>5. \A k, l \in 1..n : k < l => all[k] # all[l]
  <2>1. \A k \in 1..n : all[k] \in 1..Len(nreq.tree)
    BY DEF FoundBy
  <2> QED
    BY <1>4, <1>12, <2>1
<1>6. Cardinality(S) = n
  BY <1>5, ListedOnce
<1>7. \A k, l \in 1..Len(t) : k < l => Ahead(t[k], t[l]) /\ t[k] # t[l]
  BY <1>2, <1>3, <1>5, <1>12
<1>8. Cardinality(FoundBy(t)) = Len(t)
  <2>1. t \in Seq(Nat) /\ \A k, l \in 1..Len(t) : k < l => t[k] # t[l]
    BY <1>2, <1>7
  <2> QED
    BY <2>1, ListedOnce
<1>9. FoundBy(t) \subseteq S
  BY <1>2, <1>3 DEF FoundBy
<1>10. ASSUME NEW i \in FoundBy(t), NEW j \in S \ FoundBy(t) PROVE Ahead(i, j)
  <2>1. PICK k \in 1..Len(t) : t[k] = i
    BY DEF FoundBy
  <2>2. PICK l \in 1..n : all[l] = j
    BY DEF FoundBy
  <2>3. l \notin 1..Len(t)
    <3> SUFFICES ASSUME l \in 1..Len(t) PROVE FALSE
      OBVIOUS
    <3>1. t[l] = j
      BY <1>2, <2>2
    <3> QED
      BY <3>1 DEF FoundBy
  <2>4. k < l /\ k \in 1..n /\ all[k] = i
    BY <1>1, <1>2, <1>3, <2>1, <2>3
  <2> QED
    BY <1>12, <2>2, <2>4
<1>11. Len(t) = (IF Cardinality(S) < m THEN Cardinality(S) ELSE m)
  BY <1>1, <1>2, <1>6
<1> QED
  BY <1>1, <1>2, <1>6, <1>7, <1>8, <1>9, <1>10, <1>11 DEF Foremost, InOrder

\* The walk ends, and answers with the first of what it has collected.
LEMMA EndIsTop ==
  ASSUME FindInv, FindEnd
  PROVE  nres' \in FoundType /\ Topmost(nres')
<1> DEFINE s == nres.entries
           all == IF nreq.sort THEN Sorted(s) ELSE s
           t == IF Len(all) > nreq.max THEN SubSeq(all, 1, nreq.max) ELSE all
           cut == Len(all) > nreq.max
<1>1. nreq \in FindRequests /\ nres \in FoundType /\ fskip \in Nat /\ (fat <= Len(nreq.tree) => nres.ended) /\ fat <= Len(nreq.tree) + 1
  BY DEF FindInv, FindEnd
<1>2. nres' = IF cut THEN [nres EXCEPT !.entries = SubSeq(all, 1, nreq.max), !.truncated = TRUE, !.ended = TRUE]
              ELSE [nres EXCEPT !.entries = all, !.ended = TRUE]
  BY DEF FindEnd
<1>3. Len(nreq.tree) \in Nat /\ nreq.max \in Nat /\ nreq.max > 0 /\ nreq.sort \in BOOLEAN
  BY <1>1, FindRequestIs
<1>4. Walked(fat, fskip, nres) /\ fat \in 1..(Len(nreq.tree) + 1)
  BY <1>1, <1>3 DEF FindInv, Walked
<1>5. fat = Len(nreq.tree) + 1 \/ nres.ended
  BY <1>1, <1>3, <1>4
<1>6. /\ ~nres.ended \/ nreq.sort => Seen = FoundBy(s)
      /\ ~nres.ended => Wanted = FoundBy(s) /\ ~nres.truncated
      /\ nres.ended => Cardinality(Wanted) > Len(s) /\ nres.truncated
  BY <1>1, <1>4, <1>5, SeenIs
<1>7. \E n \in 0..Len(nreq.tree) : Collected(s, n) /\ (nres.ended => n = fat - 2 /\ fat - 1 \in Wanted /\ Len(s) = CollectCap)
  <2>1. CASE ~nres.ended
    <3>1. Collected(s, fat - 1) /\ fat - 1 \in 0..Len(nreq.tree)
      BY <1>3, <1>4, <2>1 DEF Walked
    <3> QED
      BY <2>1, <3>1
  <2>2. CASE nres.ended
    <3>1. fat > 1 /\ fat - 1 \in Wanted /\ Collected(s, fat - 2) /\ Len(s) = CollectCap /\ fat - 2 \in 0..Len(nreq.tree)
      BY <1>3, <1>4, <2>2 DEF Walked
    <3> QED
      BY <3>1
  <2> QED
    BY <2>1, <2>2
<1>8. PICK n \in 0..Len(nreq.tree) : Collected(s, n) /\ (nres.ended => n = fat - 2 /\ fat - 1 \in Wanted /\ Len(s) = CollectCap)
  BY <1>7
<1>9. /\ s \in Seq(1..Len(nreq.tree)) /\ s \in Seq(Nat) /\ Len(s) \in Nat
      /\ \A i : i \in FoundBy(s) <=> i \in Wanted /\ i <= n
      /\ \A k \in 1..Len(s) : s[k] \in Nat
  BY <1>1, <1>8, CollectedIs
<1>10. \A k, l \in 1..Len(s) : k < l => s[k] < s[l]
  BY <1>8 DEF Collected
<1>11. /\ all \in Seq(Nat) /\ Len(all) = Len(s) /\ FoundBy(all) = FoundBy(s)
       /\ \A k, l \in 1..Len(all) : k < l => Ahead(all[k], all[l])
  <2>1. CASE nreq.sort
    <3>1. /\ Sorted(s) \in Seq(Nat) /\ Len(Sorted(s)) = Len(s) /\ FoundBy(Sorted(s)) = FoundBy(s)
          /\ \A k, l \in 1..Len(s) : k < l => Ahead(Sorted(s)[k], Sorted(s)[l])
      BY <1>1, <1>9, <1>10, <2>1, SortedIs
    <3>2. all = Sorted(s)
      BY <2>1
    <3> HIDE DEF all
    <3> QED
      BY <3>1, <3>2
  <2>2. CASE ~nreq.sort
    <3>1. all = s
      BY <2>2
    <3>2. \A k, l \in 1..Len(s) : k < l => Ahead(s[k], s[l])
      BY <1>10, <2>2 DEF Ahead
    <3> QED
      BY <1>9, <3>1, <3>2
  <2> QED
    BY <1>3, <2>1, <2>2
<1> HIDE DEF all
<1>12. FoundBy(s) \in SUBSET (1..Len(nreq.tree))
  BY <1>1, <1>9, WantedIs
<1>13. t \in Seq(Nat) /\ Cardinality(FoundBy(s)) = Len(all) /\ Len(all) \in Nat /\ Foremost(t, FoundBy(s))
  <2> DEFINE S == FoundBy(s)
  <2>1. t = IF Len(all) > nreq.max THEN SubSeq(all, 1, nreq.max) ELSE all
    OBVIOUS
  <2>2. S \in SUBSET (1..Len(nreq.tree)) /\ FoundBy(all) = S /\ all \in Seq(Nat) /\ nreq \in FindRequests /\ InOrder(all)
    BY <1>1, <1>11, <1>12 DEF InOrder
  <2> HIDE DEF t, S
  <2>3. t \in Seq(Nat) /\ Cardinality(S) = Len(all) /\ Len(all) \in Nat /\ Foremost(t, S)
    BY <2>1, <2>2, FirstOf
  <2> QED
    BY <2>3 DEF S
<1>14. nres' \in FoundType /\ nres'.entries = t /\ nres'.truncated = (cut \/ nres.truncated)
  <2>1. nres.truncated \in BOOLEAN
    BY <1>1 DEF FoundType
  <2>2. CASE cut
    <3>1. nres' = [nres EXCEPT !.entries = t, !.truncated = TRUE, !.ended = TRUE]
      BY <1>2, <2>2
    <3> HIDE DEF t, cut
    <3> QED
      BY <1>1, <1>13, <2>2, <3>1 DEF FoundType
  <2>3. CASE ~cut
    <3>1. nres' = [nres EXCEPT !.entries = t, !.ended = TRUE]
      BY <1>2, <2>3
    <3> HIDE DEF t, cut
    <3> QED
      BY <1>1, <1>13, <2>1, <2>3, <3>1 DEF FoundType
  <2> QED
    BY <2>2, <2>3
<1> HIDE DEF t
<1>15. Cardinality(Wanted) \in Nat /\ Len(t) \in Nat /\ Len(t) <= Len(s) /\ Wanted \in SUBSET Nat /\ nres.ended \in BOOLEAN
  <2>1. Cardinality(Wanted) \in Nat /\ Wanted \in SUBSET Nat /\ nres.ended \in BOOLEAN
    BY <1>1, WantedIs DEF FoundType
  <2> QED
    BY <1>3, <1>9, <1>11, <1>13, <2>1 DEF Foremost
<1>16. nres'.truncated = (Cardinality(Wanted) > Len(t))
  <2>1. CASE nres.ended
    BY <1>6, <1>9, <1>14, <1>15, <2>1
  <2>2. CASE ~nres.ended
    <3>1. Cardinality(Wanted) = Len(all) /\ ~nres.truncated
      BY <1>6, <1>13, <2>2
    <3>2. cut <=> Cardinality(Wanted) > Len(t)
      BY <1>3, <1>6, <1>13, <2>2, <3>1 DEF Foremost
    <3> QED
      BY <1>14, <3>1, <3>2
  <2> QED
    BY <2>1, <2>2
<1>17. CASE ~nres.ended \/ nreq.sort
  <2>1. Seen = FoundBy(s)
    BY <1>6, <1>17
  <2> QED
    BY <1>13, <1>14, <1>16, <2>1 DEF Topmost, Foremost, InOrder
<1>18. CASE nres.ended /\ ~nreq.sort
  <2> DEFINE a == fat - 1
  <2>1. Seen = Wanted /\ Len(s) = nreq.max /\ a \in Wanted /\ n = a - 1 /\ a \in Nat
    <3>1. fat - 2 = a - 1 /\ fat \in Nat
      BY <1>3, <1>4
    <3> HIDE DEF a
    <3> QED
      BY <1>1, <1>8, <1>15, <1>18, <3>1, CapIs DEF Seen, a
  <2>2. Len(t) = nreq.max /\ Len(all) = Len(s) /\ ~cut /\ t = s
    BY <1>3, <1>9, <1>11, <1>13, <1>18, <2>1 DEF t, all, Foremost
  <2>3. Cardinality(Wanted) > nreq.max
    BY <1>6, <1>18, <2>1
  <2>4. ASSUME NEW i \in FoundBy(t), NEW j \in Wanted \ FoundBy(t) PROVE Ahead(i, j)
    <3>1. i \in Nat /\ j \in Nat /\ i <= n /\ ~(j <= n) /\ n \in Nat
      <4>1. FoundBy(t) = FoundBy(s)
        BY <2>2
      <4>2. i \in Wanted /\ i <= n /\ j \in Wanted /\ ~(j <= n)
        BY <1>9, <4>1
      <4> QED
        BY <1>3, <1>15, <4>2
    <3>2. i < j
      BY <3>1
    <3> QED
      BY <1>18, <3>2 DEF Ahead
  <2>5. FoundBy(t) \subseteq Wanted
    BY <1>9, <2>2
  <2>6. Len(t) = (IF Cardinality(Wanted) < nreq.max THEN Cardinality(Wanted) ELSE nreq.max)
    BY <1>3, <1>15, <2>2, <2>3
  <2> QED
    BY <1>13, <1>14, <1>16, <2>1, <2>4, <2>5, <2>6 DEF Topmost, Foremost, InOrder
<1> QED
  BY <1>17, <1>18

\* The step of a find.
LEMMA FindBegins ==
  ASSUME NEW requests \in SUBSET FindRequests, FindStarts(requests)
  PROVE  FindInv
<1>1. nreq \in FindRequests /\ fat = 1 /\ fskip = 0 /\ nres = NoResults
  BY DEF FindStarts
<1>2. Len(nreq.tree) \in Nat
  BY <1>1, FindRequestIs
<1>3. /\ NoResults \in FoundType /\ NoResults.entries = <<>> /\ ~NoResults.ended /\ ~NoResults.truncated
      /\ Len(<<>>) = 0
  BY DEF NoResults, FoundType
<1>4. CollectCap \in Nat /\ \A i \in Wanted : i \in Nat /\ i > 0
  <2>1. \A i \in 1..Len(nreq.tree) : i \in Nat /\ i > 0
    BY <1>2
  <2> QED
    BY <1>1, <2>1, CapIs, WantedIs
<1>5. SkipsOK(1, 0)
  BY DEF SkipsOK
<1>6. Collected(<<>>, 0)
  <2>1. 1..Len(<<>>) = {}
    BY <1>3
  <2>2. \A i \in Wanted : ~(i <= 0)
    BY <1>4
  <2>3. <<>> \in Seq(Nat)
    OBVIOUS
  <2> QED
    BY <2>1, <2>2, <2>3 DEF Collected
<1>7. Walked(1, 0, NoResults)
  BY <1>2, <1>3, <1>4, <1>5, <1>6 DEF Walked
<1> QED
  BY <1>1, <1>3, <1>7 DEF FindInv

LEMMA SameFind ==
  ASSUME nreq' = nreq, nreq \in FindRequests
  PROVE  /\ Wanted' = Wanted /\ Seen' = Seen /\ CollectCap' = CollectCap
         /\ \A at, skip : SkipsOK(at, skip) => SkipsOK(at, skip)'
         /\ \A s, n : Collected(s, n) => Collected(s, n)'
         /\ \A i, j : Ahead(i, j) => Ahead(i, j)'
<1>1. \A i : Key(i)' = Key(i) /\ (Closed(i)' <=> Closed(i)) /\ (Reachable(i)' <=> Reachable(i))
  BY DEF Key, Closed, Reachable, Above, TooDeep
<1>2. Wanted' = Wanted
  BY <1>1 DEF Wanted
<1>3. Seen' = Seen
  BY <1>2 DEF Seen
<1>4. CollectCap' = CollectCap
  BY DEF CollectCap
<1>5. \A at, skip : SkipsOK(at, skip) => SkipsOK(at, skip)'
  BY <1>1 DEF SkipsOK, Inside
<1>6. \A s, n : Collected(s, n) => Collected(s, n)'
  BY <1>2 DEF Collected
<1>7. \A i, j : Ahead(i, j) => Ahead(i, j)'
  BY <1>1 DEF Ahead
<1> QED
  BY <1>2, <1>3, <1>4, <1>5, <1>6, <1>7

LEMMA FindStep ==
  ASSUME FindInv, FindNext
  PROVE  FindInv'
<1>1. nreq' = nreq /\ nreq \in FindRequests
  BY DEF FindNext, FindEntry, FindEnd, FindInv
<1>2. /\ Wanted' = Wanted /\ Seen' = Seen /\ CollectCap' = CollectCap
      /\ \A at, skip : SkipsOK(at, skip) => SkipsOK(at, skip)'
      /\ \A s, n : Collected(s, n) => Collected(s, n)'
      /\ \A i, j : Ahead(i, j) => Ahead(i, j)'
  BY <1>1, SameFind
<1>3. CASE FindEntry
  <2>1. nres' \in FoundType /\ fskip' \in Nat /\ Walked(fat', fskip', nres')
    BY <1>3, EntryWalks
  <2>2. \A at, skip, r : Walked(at, skip, r) => Walked(at, skip, r)'
    BY <1>1, <1>2 DEF Walked
  <2>3. Walked(fat, fskip, nres)'
    BY <2>1, <2>2
  <2> QED
    BY <1>1, <2>1, <2>3 DEF FindInv, FoundType
<1>4. CASE FindEnd
  <2>1. nres' \in FoundType /\ Topmost(nres')
    BY <1>4, EndIsTop
  <2>2. \A r : Topmost(r) => Topmost(r)'
    BY <1>1, <1>2 DEF Topmost, FoundBy
  <2>3. Topmost(nres)'
    BY <2>1, <2>2
  <2>4. fat' = Len(nreq'.tree) + 2 /\ fskip' \in Nat
    BY <1>1, <1>4 DEF FindEnd, FindInv
  <2> QED
    BY <1>1, <2>1, <2>3, <2>4 DEF FindInv, FoundType
<1> QED
  BY <1>3, <1>4 DEF FindNext

LEMMA FoundTop ==
  ASSUME FindInv
  PROVE  FindIsTop
<1> SUFFICES ASSUME Found PROVE Topmost(nres)
  BY DEF FindIsTop, Topmost, FoundBy
<1>1. fat = Len(nreq.tree) + 2 /\ Len(nreq.tree) \in Nat
  BY FindRequestIs DEF Found, FindInv
<1>2. ~Walked(fat, fskip, nres)
  BY <1>1 DEF Walked
<1> QED
  BY <1>2 DEF FindInv

LEMMA FindKept ==
  ASSUME FindInv, UNCHANGED findVars
  PROVE  FindInv'
<1>1. nreq' = nreq /\ fat' = fat /\ fskip' = fskip /\ nres' = nres /\ nreq \in FindRequests
  BY DEF findVars, FindInv
<1>2. /\ Wanted' = Wanted /\ Seen' = Seen /\ CollectCap' = CollectCap
      /\ \A at, skip : SkipsOK(at, skip) => SkipsOK(at, skip)'
      /\ \A s, n : Collected(s, n) => Collected(s, n)'
      /\ \A i, j : Ahead(i, j) => Ahead(i, j)'
  BY <1>1, SameFind
<1>3. \A at, skip, r : Walked(at, skip, r) => Walked(at, skip, r)'
  BY <1>1, <1>2 DEF Walked
<1>4. \A r : Topmost(r) => Topmost(r)'
  BY <1>1, <1>2 DEF Topmost, FoundBy
<1> QED
  BY <1>1, <1>3, <1>4 DEF FindInv, FoundType

-----------------------------------------------------------------------------
(* Search and find.                                                        *)

LEMMA SearchKept ==
  ASSUME SearchInv, ContextInv, UNCHANGED searchVars
  PROVE  SearchInv' /\ ContextInv'
<1>1. sreq' = sreq /\ sat' = sat /\ srun' = srun /\ spage' = spage /\ sall' = sall
  BY DEF searchVars
<1>2. SearchInv'
  <2>1. Searched' /\ PagesOK(sat', srun', spage', sall')
    BY <1>1 DEF SearchInv, Searched
  <2> QED
    BY <1>1, <2>1, SameRequest DEF SearchInv
<1>3. ContextInv'
  <2> SUFFICES ASSUME sreq.mode = "content" PROVE ContextOK(sat, srun, spage)'
    BY <1>1 DEF ContextInv
  <2>1. ContextOK(sat', srun', spage')
    BY <1>1 DEF ContextInv
  <2>2. \A e : Matching(e)' = Matching(e) /\ FileLines(e)' = FileLines(e)
    BY <1>1 DEF Matching, FileLines
  <2> QED
    BY <1>1, <2>1, <2>2
       DEF ContextOK, HitsOK, Placed, Apart, HasBefore, HasAfter, Follows, CurrentOK, CollectsOK, LinesOf, Emitted, LinesAt
<1> QED
  BY <1>2, <1>3

\* The inductive invariant of remote_search_content and remote_find_files, for
\* every tree, every request and every number of pages, whenever the deadline
\* passes (SearchContent, FindFiles).
THEOREM SearchesInductive ==
  ASSUME NEW searches \in SUBSET SearchRequests, NEW finds \in SUBSET FindRequests
  PROVE  SearchesSpec(searches, finds) => [](SearchInv /\ ContextInv /\ FindInv)
<1>1. SearchStarts(searches) /\ FindStarts(finds) => SearchInv /\ ContextInv /\ FindInv
  <2> SUFFICES ASSUME SearchStarts(searches), FindStarts(finds) PROVE SearchInv /\ ContextInv /\ FindInv
    OBVIOUS
  <2>1. SearchInv /\ FindInv
    BY SearchBegins, FindBegins
  <2>2. sat = <<1, 0>> /\ srun = NewRun(0) /\ spage = <<>>
    BY DEF SearchStarts
  <2>3. ContextOK(<<1, 0>>, NewRun(0), <<>>)
    BY NewContext
  <2> QED
    BY <2>1, <2>2, <2>3 DEF ContextInv
<1>2. SearchInv /\ ContextInv /\ FindInv /\ [SearchesNext]_<<searchVars, findVars>> => (SearchInv /\ ContextInv /\ FindInv)'
  <2> SUFFICES ASSUME SearchInv, ContextInv, FindInv, [SearchesNext]_<<searchVars, findVars>>
               PROVE  SearchInv' /\ ContextInv' /\ FindInv'
    OBVIOUS
  <2>1. CASE SearchNext /\ UNCHANGED findVars
    BY <2>1, SearchStep, ContextStep, FindKept
  <2>2. CASE FindNext /\ UNCHANGED searchVars
    BY <2>2, SearchKept, FindStep
  <2>3. CASE UNCHANGED <<searchVars, findVars>>
    <3>1. UNCHANGED searchVars /\ UNCHANGED findVars
      BY <2>3
    <3> QED
      BY <3>1, SearchKept, FindKept
  <2> QED
    BY <2>1, <2>2, <2>3 DEF SearchesNext
<1> QED
  BY <1>1, <1>2, PTL DEF SearchesSpec

\* Over any tree and any number of pages a search returns every result once and
\* in order, each match with its context whole and no line twice in a page, and
\* tells the last page from the others; a find returns the first, or the largest
\* of what the scan limit lets it collect, and says when it left something out
\* (SearchContent, searchFile, FindFiles).
THEOREM SearchesExact ==
  ASSUME NEW searches \in SUBSET SearchRequests, NEW finds \in SUBSET FindRequests
  PROVE  SearchesSpec(searches, finds) => []SearchesAreExact
<1>1. SearchInv /\ ContextInv /\ FindInv => SearchesAreExact
  BY PagesExact, ContextWhole, FoundTop DEF SearchesAreExact
<1> QED
  BY <1>1, SearchesInductive, PTL

=============================================================================
