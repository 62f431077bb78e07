---------------------------- MODULE FilesProofs ----------------------------
(***************************************************************************)
(* The calls on one file for every number of calls, every file and every   *)
(* list of edits (FileEdit), the reads of several files for every budget,  *)
(* every list of paths and every file they name (ReadFiles), and the calls *)
(* that manage files for every number of calls, every name and depth of    *)
(* the tree, and every layout of its links (FileTree).                     *)
(***************************************************************************)
EXTENDS FileTree, FileEdit, ReadFiles, Counting, SequenceTheorems

-----------------------------------------------------------------------------
(* Sequences.                                                              *)

\* A sequence begins another when it is no longer and agrees place by place.
LEMMA PrefixIs ==
  ASSUME NEW S, NEW s \in Seq(S), NEW t \in Seq(S)
  PROVE  IsPrefix(s, t) <=> Len(s) <= Len(t) /\ \A i \in 1..Len(s) : s[i] = t[i]
<1>1. Len(s) \in Nat /\ Len(t) \in Nat
  BY LenProperties
<1>2. SubSeq(s, 1, Len(s)) = s
  BY SubSeqFull
<1>3. ASSUME Len(s) <= Len(t)
      PROVE  /\ SubSeq(t, 1, Len(s)) \in Seq(S)
             /\ Len(SubSeq(t, 1, Len(s))) = Len(s)
             /\ \A i \in 1..Len(s) : SubSeq(t, 1, Len(s))[i] = t[i]
  <2> DEFINE n == Len(s)
  <2>1. \A i \in 1..n : t[i] \in S
    BY <1>1, <1>3, ElementOfSeq
  <2>2. n \in Int /\ 1 \in Int /\ n \in Nat
    BY <1>1
  <2> HIDE DEF n
  <2>3. /\ SubSeq(t, 1, n) \in Seq(S)
        /\ Len(SubSeq(t, 1, n)) = IF 1 <= n THEN n - 1 + 1 ELSE 0
        /\ \A i \in 1..(n - 1 + 1) : SubSeq(t, 1, n)[i] = t[1 + i - 1]
    BY <2>1, <2>2, SubSeqProperties
  <2>4. Len(SubSeq(t, 1, n)) = n
    BY <2>2, <2>3
  <2>5. \A i \in 1..n : SubSeq(t, 1, n)[i] = t[i]
    <3> TAKE i \in 1..n
    <3>1. i \in 1..(n - 1 + 1) /\ 1 + i - 1 = i
      BY <2>2
    <3> QED
      BY <3>1, <2>3
  <2> QED
    BY <2>3, <2>4, <2>5 DEF n
<1>4. ASSUME IsPrefix(s, t) PROVE Len(s) <= Len(t) /\ \A i \in 1..Len(s) : s[i] = t[i]
  BY <1>2, <1>3, <1>4 DEF IsPrefix
<1>5. ASSUME Len(s) <= Len(t), \A i \in 1..Len(s) : s[i] = t[i] PROVE IsPrefix(s, t)
  <2> DEFINE u == SubSeq(t, 1, Len(s))
  <2>1. u \in Seq(S) /\ Len(s) = Len(u) /\ \A i \in 1..Len(s) : s[i] = u[i]
    BY <1>3, <1>5
  <2> HIDE DEF u
  <2>2. s = u
    BY <2>1, SeqEqual
  <2> QED
    BY <2>2, <1>2, <1>5 DEF u, IsPrefix
<1> QED
  BY <1>4, <1>5

\* A sequence is the beginning of what is appended to it.
LEMMA PrefixOfConcat ==
  ASSUME NEW S, NEW s \in Seq(S), NEW t \in Seq(S), NEW u \in Seq(S), IsPrefix(s, t)
  PROVE  IsPrefix(s, t \o u)
<1>1. t \o u \in Seq(S) /\ Len(t \o u) = Len(t) + Len(u)
      /\ \A i \in 1..(Len(t) + Len(u)) : (t \o u)[i] = IF i <= Len(t) THEN t[i] ELSE u[i - Len(t)]
  BY ConcatProperties
<1>2. Len(s) \in Nat /\ Len(t) \in Nat /\ Len(u) \in Nat
  BY LenProperties
<1>3. Len(s) <= Len(t) /\ \A i \in 1..Len(s) : s[i] = t[i]
  BY PrefixIs
<1>4. Len(s) <= Len(t \o u) /\ \A i \in 1..Len(s) : s[i] = (t \o u)[i]
  BY <1>1, <1>2, <1>3
<1> HIDE DEF IsPrefix
<1> DEFINE v == t \o u
<1>5. v \in Seq(S) /\ Len(s) <= Len(v) /\ \A i \in 1..Len(s) : s[i] = v[i]
  BY <1>1, <1>4
<1> HIDE DEF v
<1>6. IsPrefix(s, v)
  BY <1>5, PrefixIs
<1> QED
  BY <1>6 DEF v

\* Of two beginnings of one sequence the shorter begins the longer.
LEMMA PrefixesNest ==
  ASSUME NEW S, NEW s \in Seq(S), NEW t \in Seq(S), NEW u \in Seq(S),
         IsPrefix(s, u), IsPrefix(t, u), Len(s) <= Len(t)
  PROVE  IsPrefix(s, t)
<1>1. Len(s) \in Nat /\ Len(t) \in Nat /\ Len(u) \in Nat
  BY LenProperties
<1>2. (\A i \in 1..Len(s) : s[i] = u[i]) /\ \A i \in 1..Len(t) : t[i] = u[i]
  BY PrefixIs
<1>3. \A i \in 1..Len(s) : s[i] = t[i]
  BY <1>1, <1>2
<1> QED
  BY <1>3, PrefixIs

-----------------------------------------------------------------------------
(* What an edit computes in memory.                                        *)

Replacement == [n : Nat, s : Text, end : Nat]

\* One place of a text more keeps a replacement one.
LEMMA ReplaceStepType ==
  ASSUME NEW s \in Text, NEW old \in Text, NEW new \in Text, NEW r \in Replacement, NEW i \in 1..Len(s)
  PROVE  ReplaceStep(s, old, new, r, i) \in Replacement
<1>1. s[i] \in Chars \cup {Unencodable} /\ Len(old) \in Nat /\ i \in Nat /\ i >= 1
  BY ElementOfSeq, LenProperties DEF Text
<1>2. r.s \o new \in Text /\ Append(r.s, s[i]) \in Text
  BY <1>1, ConcatProperties, AppendProperties DEF Text, Replacement
<1>3. r.n + 1 \in Nat /\ i + Len(old) - 1 \in Nat
  BY <1>1 DEF Replacement
<1>4. [n |-> r.n + 1, s |-> r.s \o new, end |-> i + Len(old) - 1] \in Replacement
  BY <1>2, <1>3 DEF Replacement
<1>5. [r EXCEPT !.s = Append(@, s[i])] \in Replacement
  BY <1>2 DEF Replacement
<1> QED
  BY <1>4, <1>5 DEF ReplaceStep

\* Replacing makes a text and counts what it replaced.
LEMMA ReplacedType ==
  ASSUME NEW s \in Text, NEW old \in Text, NEW new \in Text
  PROVE  Replaced(s, old, new) \in Replacement
<1> DEFINE n == Len(s)
           none == [n |-> 0, s |-> <<>>, end |-> 0]
           step == [p \in Replacement \X (1..n) |-> ReplaceStep(s, old, new, p[1], p[2])]
           Is(g) == g = [i \in 0..n |-> IF i = 0 THEN none ELSE ReplaceStep(s, old, new, g[i - 1], i)]
           upTo == CHOOSE g : Is(g)
<1>1. n \in Nat /\ none \in Replacement
  BY LenProperties, EmptySeq DEF Text, Replacement
<1>2. step \in [Replacement \X (1..n) -> Replacement]
  BY ReplaceStepType
<1>3. PICK f \in [0..n -> Replacement] : f[0] = none /\ \A i \in 1..n : f[i] = step[<<f[i - 1], i>>]
  <2> HIDE DEF n, none, step
  <2>1. Iterations(n, Replacement, none, step) # {}
    BY <1>1, <1>2, Iterates
  <2> QED
    BY <2>1 DEF Iterations
<1>4. \A i \in 1..n : f[i] = ReplaceStep(s, old, new, f[i - 1], i)
  <2> TAKE i \in 1..n
  <2>1. i - 1 \in 0..n
    BY <1>1
  <2>2. <<f[i - 1], i>> \in Replacement \X (1..n)
    BY <2>1
  <2> HIDE DEF n
  <2> QED
    BY <2>2, <1>3
<1>5. Is(f)
  <2>1. f = [i \in 0..n |-> f[i]]
    BY <1>3
  <2>2. \A i \in 0..n : f[i] = IF i = 0 THEN none ELSE ReplaceStep(s, old, new, f[i - 1], i)
    <3> TAKE i \in 0..n
    <3>1. CASE i = 0
      BY <3>1, <1>3
    <3>2. CASE i # 0
      <4>1. i \in 1..n
        BY <3>2, <1>1
      <4> QED
        BY <4>1, <3>2, <1>4
    <3> QED
      BY <3>1, <3>2
  <2> HIDE DEF n, none
  <2> QED
    BY <2>1, <2>2
<1>6. Is(upTo)
  <2> HIDE DEF Is
  <2> QED
    BY <1>5
<1> HIDE DEF upTo
<1>7. upTo[0] = none /\ \A i \in 1..n : upTo[i] = ReplaceStep(s, old, new, upTo[i - 1], i)
  <2> DEFINE X(i) == IF i = 0 THEN none ELSE ReplaceStep(s, old, new, upTo[i - 1], i)
  <2>1. \A i \in 0..n : upTo[i] = X(i)
    <3>1. upTo = [i \in 0..n |-> X(i)]
      BY <1>6
    <3> HIDE DEF X
    <3> QED
      BY <3>1
  <2>2. 0 \in 0..n /\ X(0) = none
    BY <1>1
  <2>3. ASSUME NEW i \in 1..n PROVE X(i) = ReplaceStep(s, old, new, upTo[i - 1], i) /\ i \in 0..n
    <3>1. i # 0 /\ i \in 0..n
      BY <1>1
    <3> QED
      BY <3>1
  <2> HIDE DEF X, none
  <2> QED
    BY <2>1, <2>2, <2>3
<1> DEFINE P == {i \in 0..n : upTo[i] \in Replacement}
<1>8. P = 0..n
  <2>1. P \in SUBSET (0..n) /\ 0 \in P
    BY <1>1, <1>7
  <2>2. ASSUME NEW i \in 1..n, i - 1 \in P PROVE i \in P
    <3>1. upTo[i - 1] \in Replacement /\ i \in 0..n /\ i \in 1..Len(s)
      BY <2>2, <1>1
    <3>2. upTo[i] = ReplaceStep(s, old, new, upTo[i - 1], i)
      BY <1>7
    <3>3. ReplaceStep(s, old, new, upTo[i - 1], i) \in Replacement
      BY <3>1, ReplaceStepType
    <3> QED
      BY <3>1, <3>2, <3>3
  <2> HIDE DEF P, n
  <2> QED
    BY <2>1, <2>2, <1>1, UpTo
<1>9. upTo[n] \in Replacement
  BY <1>8, <1>1
<1>10. Replaced(s, old, new) = upTo[n]
  BY DEF Replaced, upTo
<1> QED
  BY <1>9, <1>10

EditedText == [ok : BOOLEAN, s : Text, n : Nat]
Edit == [old : Text, new : Text, all : BOOLEAN]

\* A pair makes a text of a text.
LEMMA EditPairType ==
  ASSUME NEW r \in EditedText, NEW e \in Edit
  PROVE  EditPair(r, e) \in EditedText
<1> DEFINE x == Replaced(r.s, e.old, e.new)
<1>1. x \in Replacement
  BY ReplacedType DEF EditedText, Edit
<1>2. EditPair(r, e) = IF ~r.ok \/ e.old = <<>> \/ x.n = 0 \/ (~e.all /\ x.n > 1) THEN [r EXCEPT !.ok = FALSE]
                       ELSE [ok |-> TRUE, s |-> x.s, n |-> r.n + x.n]
  BY DEF EditPair
<1> HIDE DEF x
<1>3. [r EXCEPT !.ok = FALSE] \in EditedText
  BY DEF EditedText
<1>4. [ok |-> TRUE, s |-> x.s, n |-> r.n + x.n] \in EditedText
  <2>1. x.s \in Text /\ r.n + x.n \in Nat
    BY <1>1 DEF EditedText, Replacement
  <2> QED
    BY <2>1 DEF EditedText
<1> QED
  BY <1>2, <1>3, <1>4

\* The pairs of an edit make a text, and count their replacements.
LEMMA ApplyEditsType ==
  ASSUME NEW s \in Text, NEW pairs \in Seq(Edit)
  PROVE  ApplyEdits(s, pairs) \in EditedText
<1> DEFINE n == Len(pairs)
           none == [ok |-> TRUE, s |-> s, n |-> 0]
           step == [p \in EditedText \X (1..n) |-> EditPair(p[1], pairs[p[2]])]
           Is(g) == g = [i \in 0..n |-> IF i = 0 THEN none ELSE EditPair(g[i - 1], pairs[i])]
           r == CHOOSE g : Is(g)
<1>1. n \in Nat /\ none \in EditedText
  BY LenProperties DEF EditedText
<1>2. step \in [EditedText \X (1..n) -> EditedText]
  BY EditPairType, ElementOfSeq
<1>3. PICK f \in [0..n -> EditedText] : f[0] = none /\ \A i \in 1..n : f[i] = step[<<f[i - 1], i>>]
  <2> HIDE DEF n, none, step
  <2>1. Iterations(n, EditedText, none, step) # {}
    BY <1>1, <1>2, Iterates
  <2> QED
    BY <2>1 DEF Iterations
<1>4. \A i \in 1..n : f[i] = EditPair(f[i - 1], pairs[i])
  <2> TAKE i \in 1..n
  <2>1. i - 1 \in 0..n
    BY <1>1
  <2>2. <<f[i - 1], i>> \in EditedText \X (1..n)
    BY <2>1
  <2> HIDE DEF n
  <2> QED
    BY <2>2, <1>3
<1>5. Is(f)
  <2>1. f = [i \in 0..n |-> f[i]]
    BY <1>3
  <2>2. \A i \in 0..n : f[i] = IF i = 0 THEN none ELSE EditPair(f[i - 1], pairs[i])
    <3> TAKE i \in 0..n
    <3>1. CASE i = 0
      BY <3>1, <1>3
    <3>2. CASE i # 0
      <4>1. i \in 1..n
        BY <3>2, <1>1
      <4> QED
        BY <4>1, <3>2, <1>4
    <3> QED
      BY <3>1, <3>2
  <2> HIDE DEF n, none
  <2> QED
    BY <2>1, <2>2
<1>6. Is(r)
  <2> HIDE DEF Is
  <2> QED
    BY <1>5
<1> HIDE DEF r
<1>7. r[0] = none /\ \A i \in 1..n : r[i] = EditPair(r[i - 1], pairs[i])
  <2> DEFINE X(i) == IF i = 0 THEN none ELSE EditPair(r[i - 1], pairs[i])
  <2>1. \A i \in 0..n : r[i] = X(i)
    <3>1. r = [i \in 0..n |-> X(i)]
      BY <1>6
    <3> HIDE DEF X
    <3> QED
      BY <3>1
  <2>2. 0 \in 0..n /\ X(0) = none
    BY <1>1
  <2>3. ASSUME NEW i \in 1..n PROVE X(i) = EditPair(r[i - 1], pairs[i]) /\ i \in 0..n
    <3>1. i # 0 /\ i \in 0..n
      BY <1>1
    <3> QED
      BY <3>1
  <2> HIDE DEF X, none
  <2> QED
    BY <2>1, <2>2, <2>3
<1> DEFINE P == {i \in 0..n : r[i] \in EditedText}
<1>8. P = 0..n
  <2>1. P \in SUBSET (0..n) /\ 0 \in P
    BY <1>1, <1>7
  <2>2. ASSUME NEW i \in 1..n, i - 1 \in P PROVE i \in P
    <3>1. r[i - 1] \in EditedText /\ i \in 0..n /\ pairs[i] \in Edit
      BY <2>2, <1>1, ElementOfSeq
    <3>2. r[i] = EditPair(r[i - 1], pairs[i])
      BY <1>7
    <3>3. EditPair(r[i - 1], pairs[i]) \in EditedText
      BY <3>1, EditPairType
    <3> QED
      BY <3>1, <3>2, <3>3
  <2> HIDE DEF P, n
  <2> QED
    BY <2>1, <2>2, <1>1, UpTo
<1>9. r[n] \in EditedText
  BY <1>8, <1>1
<1>10. ApplyEdits(s, pairs) = r[n]
  BY DEF ApplyEdits, r
<1> QED
  BY <1>9, <1>10

-----------------------------------------------------------------------------
(* The file.                                                               *)

\* What can be encoded is made of characters of the encoding.
LEMMA EncodableText ==
  ASSUME NEW s \in Text, CanEncode(s)
  PROVE  s \in Seq(Chars)
<1>1. Len(s) \in Nat /\ DOMAIN s = 1..Len(s) /\ s \in [1..Len(s) -> Chars \cup {Unencodable}]
  BY LenProperties DEF Text
<1>2. \A i \in 1..Len(s) : s[i] \in Chars
  BY <1>1 DEF CanEncode
<1>3. s \in [1..Len(s) -> Chars]
  BY <1>1, <1>2
<1> QED
  BY <1>1, <1>3, SeqDef

\* ... and has a place in it.
LEMMA CharsEncode ==
  ASSUME NEW s \in Seq(Chars)
  PROVE  s \in Text /\ CanEncode(s)
<1>1. DOMAIN s = 1..Len(s) /\ \A i \in 1..Len(s) : s[i] \in Chars
  BY LenProperties, ElementOfSeq
<1>2. Unencodable \notin Chars
  BY FileEditAssumption
<1>3. s \in Text
  BY SeqMonotonic DEF Text
<1> QED
  BY <1>1, <1>2, <1>3 DEF CanEncode

\* A file is its bytes, unless it is no file.
LEMMA TextIs ==
  ASSUME NEW s \in Contents
  PROVE  IsText(s) <=> s \in Seq(Chars)
<1>1. ASSUME NEW x \in {-1, -2}, <<x>> \in Seq(Chars) PROVE FALSE
  <2>1. <<x>>[1] \in Chars
    BY <1>1, ElementOfSeq, LenProperties
  <2>2. x \in Chars
    BY <2>1
  <2> QED
    BY <2>2, FileEditAssumption
<1>2. NoFile \notin Seq(Chars) /\ IsDirectory \notin Seq(Chars)
  BY <1>1 DEF NoFile, IsDirectory
<1> QED
  BY <1>2 DEF IsText, Contents

\* Bytes put at the end of the file are appended, and a put into an empty file is all of it.
LEMMA PutAtEnd ==
  ASSUME file \in Seq(Chars), NEW s \in Seq(Chars)
  PROVE  /\ Put(s, Len(file)) = file \o s
         /\ file = <<>> => Put(s, 0) = s /\ s = file \o s
<1>1. Len(file) \in Nat /\ Len(s) \in Nat /\ file \o s \in Seq(Chars)
  BY LenProperties, ConcatProperties
<1>2. SubSeq(file, 1, Len(file)) = file
  BY SubSeqFull
<1>3. SubSeq(file, Len(file) + Len(s) + 1, Len(file)) = <<>>
  <2> DEFINE m == Len(file) + Len(s) + 1
             n == Len(file)
  <2>1. m \in Int /\ n \in Int /\ n < m
    BY <1>1
  <2> HIDE DEF m, n
  <2>2. SubSeq(file, m, n) = <<>>
    BY <2>1, SubSeqEmpty
  <2> QED
    BY <2>2 DEF m, n
<1>4. Put(s, Len(file)) = file \o s
  BY <1>1, <1>2, <1>3, ConcatEmptySeq DEF Put
<1>5. ASSUME file = <<>> PROVE Put(s, 0) = s /\ s = file \o s
  <2>1. Len(file) = 0
    BY <1>5, EmptySeq
  <2> QED
    BY <2>1, <1>4, <1>5, ConcatEmptySeq
<1> QED
  BY <1>4, <1>5

\* A put leaves a file.
LEMMA PutType ==
  ASSUME file \in Seq(Chars), NEW s \in Seq(Chars), NEW p \in 0..Len(file)
  PROVE  Put(s, p) \in Seq(Chars)
<1>1. Len(file) \in Nat /\ Len(s) \in Nat /\ \A i \in 1..Len(file) : file[i] \in Chars
  BY LenProperties, ElementOfSeq
<1>2. SubSeq(file, 1, p) \in Seq(Chars)
  <2>1. p \in Int /\ 1 \in Int /\ \A i \in 1..p : file[i] \in Chars
    BY <1>1
  <2> QED
    BY <2>1, SubSeqProperties
<1>3. SubSeq(file, p + Len(s) + 1, Len(file)) \in Seq(Chars)
  <2> DEFINE m == p + Len(s) + 1
             n == Len(file)
  <2>1. m \in Int /\ n \in Int /\ \A i \in m..n : file[i] \in Chars
    BY <1>1
  <2> HIDE DEF m, n
  <2>2. SubSeq(file, m, n) \in Seq(Chars)
    BY <2>1, SubSeqProperties
  <2> QED
    BY <2>2 DEF m, n
<1> QED
  BY <1>2, <1>3, ConcatProperties DEF Put


-----------------------------------------------------------------------------
(* A step is one call's: what it leaves of the others, in time and in file. *)

\* A step of call c.
Advances(c) ==
  /\ ~Done(c) /\ call' \in [EditCalls -> EditCall]
  /\ \A d \in EditCalls \ {c} : call'[d] = call[d]
  /\ call'[c].pc # "idle"
  /\ Started(c) => /\ call'[c].req = call[c].req /\ call'[c].began = call[c].began
                   /\ call'[c].snap = call[c].snap /\ call'[c].snapParent = call[c].snapParent
  /\ ~Started(c) => call'[c].began = Moment
  /\ call'[c].pc = "done" => /\ call'[c].ended >= Moment
                             /\ call'[c].ended <= IF Started(c) THEN Moment ELSE Moment + 1

\* The file is as it was, made empty where none was, or has grown at its end.
FileGrows ==
  \/ file' = file
  \/ file = NoFile /\ file' = <<>>
  \/ file \in Seq(Chars) /\ \E s \in Seq(Chars) : file' = file \o s

\* What a step of call c does to the file.
FileSteps(c) ==
  /\ file' \in Contents /\ parent' \in BOOLEAN /\ (file' = NoFile \/ parent')
  /\ ~Changes(c)' => file' = file /\ parent' = parent
  /\ IsText(file) => IsText(file')
  /\ Changes(c)' /\ Appends(c)' => FileGrows

\* The clock is a number.
LEMMA MomentIsNat == Moment \in Nat
<1> DEFINE A == {d \in EditCalls : call[d].pc # "idle"}
           D == {d \in EditCalls : call[d].pc = "done"}
<1>1. A \subseteq EditCalls /\ D \subseteq EditCalls /\ IsFiniteSet(EditCalls)
  BY FileEditAssumption
<1>2. Moment = Cardinality(A) + Cardinality(D)
  BY DEF Moment
<1> HIDE DEF A, D
<1>3. Cardinality(A) \in Nat /\ Cardinality(D) \in Nat
  BY <1>1, FS_Subset, FS_CardinalityType
<1> QED
  BY <1>2, <1>3

\* The clock counts the calls that have begun and those that have ended.
LEMMA MomentMoves ==
  ASSUME NEW c \in EditCalls, EditTypeOK, Advances(c)
  PROVE  Moment \in Nat /\ Moment' = Moment + (IF Started(c) THEN 0 ELSE 1) + (IF Done(c)' THEN 1 ELSE 0)
<1> DEFINE A == {d \in EditCalls : call[d].pc # "idle"}
           D == {d \in EditCalls : call[d].pc = "done"}
           B == {d \in EditCalls : call'[d].pc # "idle"}
           E == {d \in EditCalls : call'[d].pc = "done"}
<1>1. IsFiniteSet(EditCalls)
  BY FileEditAssumption
<1>2. IsFiniteSet(A) /\ IsFiniteSet(D) /\ Cardinality(A) \in Nat /\ Cardinality(D) \in Nat
  <2>1. A \subseteq EditCalls /\ D \subseteq EditCalls
    OBVIOUS
  <2> HIDE DEF A, D
  <2> QED
    BY <2>1, <1>1, FS_Subset, FS_CardinalityType
<1>3. B = A \cup {c} /\ (c \in A <=> Started(c))
  <2>1. \A d \in EditCalls : d \in B <=> d \in A \/ d = c
    BY DEF Advances
  <2>2. c \in A <=> Started(c)
    BY DEF Started
  <2> QED
    BY <2>1, <2>2
<1>4. E = (IF Done(c)' THEN D \cup {c} ELSE D) /\ c \notin D
  <2>1. \A d \in EditCalls : d # c => (d \in E <=> d \in D)
    BY DEF Advances
  <2>2. c \notin D /\ (c \in E <=> Done(c)')
    BY DEF Advances, Done
  <2>3. E \subseteq EditCalls /\ D \subseteq EditCalls
    OBVIOUS
  <2> HIDE DEF E, D
  <2> QED
    BY <2>1, <2>2, <2>3
<1>5. Moment = Cardinality(A) + Cardinality(D) /\ Moment' = Cardinality(B) + Cardinality(E)
  BY DEF Moment
<1> HIDE DEF A, B, D, E
<1>6. Cardinality(B) = Cardinality(A) + (IF Started(c) THEN 0 ELSE 1)
  <2>1. Cardinality(A \cup {c}) = IF c \in A THEN Cardinality(A) ELSE Cardinality(A) + 1
    BY <1>2, FS_AddElement
  <2> QED
    BY <1>2, <1>3, <2>1
<1>7. Cardinality(E) = Cardinality(D) + (IF Done(c)' THEN 1 ELSE 0)
  <2>1. Cardinality(D \cup {c}) = IF c \in D THEN Cardinality(D) ELSE Cardinality(D) + 1
    BY <1>2, FS_AddElement
  <2> QED
    BY <1>2, <1>4, <2>1
<1> QED
  BY <1>2, <1>5, <1>6, <1>7

\* Calls began and ended in the past.
LEMMA TimesPass ==
  ASSUME NEW c \in EditCalls, EditTypeOK, Advances(c),
         \A d \in EditCalls : (Started(d) => call[d].began < Moment) /\ (Done(d) => call[d].ended < Moment)
  PROVE  \A d \in EditCalls : (Started(d)' => call'[d].began < Moment') /\ (Done(d)' => call'[d].ended < Moment')
<1>1. Moment \in Nat /\ Moment' = Moment + (IF Started(c) THEN 0 ELSE 1) + (IF Done(c)' THEN 1 ELSE 0)
  BY MomentMoves
<1> DEFINE m == Moment
           n == Moment'
<1>2. m \in Nat /\ n = m + (IF Started(c) THEN 0 ELSE 1) + (IF Done(c)' THEN 1 ELSE 0)
  BY <1>1
<1>3. \A d \in EditCalls : (Started(d) => call[d].began < m) /\ (Done(d) => call[d].ended < m)
  OBVIOUS
<1>4. \A d \in EditCalls : call[d].began \in Nat /\ call[d].ended \in Nat /\ call'[d].began \in Nat /\ call'[d].ended \in Nat
  BY DEF EditTypeOK, EditCall, Advances
<1>5. /\ Started(c) => call'[c].began = call[c].began
      /\ ~Started(c) => call'[c].began = m
      /\ Done(c)' => call'[c].ended <= IF Started(c) THEN m ELSE m + 1
      /\ \A d \in EditCalls \ {c} : call'[d] = call[d]
  BY DEF Advances, Done
<1> HIDE DEF m, n
<1>6. (Started(c)' => call'[c].began < n) /\ (Done(c)' => call'[c].ended < n)
  BY <1>2, <1>3, <1>4, <1>5
<1>7. ASSUME NEW d \in EditCalls, d # c PROVE (Started(d)' => call'[d].began < n) /\ (Done(d)' => call'[d].ended < n)
  <2>1. call'[d] = call[d] /\ (Started(d)' <=> Started(d)) /\ (Done(d)' <=> Done(d))
    BY <1>5, <1>7 DEF Started, Done
  <2> QED
    BY <2>1, <1>2, <1>3, <1>4
<1> QED
  BY <1>6, <1>7 DEF n

\* A call that is now before a started one was so before the step.
LEMMA BeforeStays ==
  ASSUME NEW c \in EditCalls, EditTypeOK, Advances(c), NEW d \in EditCalls, NEW e \in EditCalls,
         Started(e), call[e].began < Moment, Before(d, e)'
  PROVE  Before(d, e) /\ d # c
<1>1. call'[e].began = call[e].began
  BY DEF Advances
<1>2. Moment \in Nat /\ call[e].began \in Nat /\ call'[d].ended \in Nat
  BY MomentMoves DEF EditTypeOK, EditCall, Advances
<1>3. call'[d].pc = "done" /\ call'[d].ended < call[e].began
  BY <1>1 DEF Before, Done
<1>4. d # c
  <2>1. ASSUME d = c PROVE FALSE
    <3>1. call'[d].ended >= Moment
      BY <1>3, <2>1 DEF Advances
    <3> QED
      BY <3>1, <1>2, <1>3
  <2> QED
    BY <2>1
<1>5. call'[d] = call[d]
  BY <1>4 DEF Advances
<1> QED
  BY <1>3, <1>4, <1>5 DEF Before, Done

\* A call keeps its request.
LEMMA ChangesStay ==
  ASSUME NEW c \in EditCalls, Advances(c), NEW d \in EditCalls, Started(d)
  PROVE  Started(d)' /\ (Changes(d)' <=> Changes(d)) /\ (Appends(d)' <=> Appends(d))
<1>1. CASE d = c
  BY <1>1 DEF Advances, Started, Changes, Appends
<1>2. CASE d # c
  BY <1>2 DEF Advances, Started, Changes, Appends
<1> QED
  BY <1>1, <1>2

\* A call that is alone after the step was alone before it ...
LEMMA AloneBefore ==
  ASSUME NEW c \in EditCalls, EditTypeOK, Advances(c), NEW d \in EditCalls, Started(d),
         \A e \in EditCalls : Started(e) => call[e].began < Moment,
         Alone(d)'
  PROVE  Alone(d)
<1> SUFFICES ASSUME NEW e \in EditCalls \ {d}, Changes(e) PROVE Before(e, d) \/ Before(d, e)
  BY DEF Alone
<1>1. Started(e)
  BY DEF Changes
<1>2. Changes(e)'
  BY <1>1, ChangesStay
<1>3. Before(e, d)' \/ Before(d, e)'
  BY <1>2 DEF Alone
<1> QED
  BY <1>1, <1>3, BeforeStays

\* ... and while it is not over, no step of another call changes the file.
LEMMA AloneUndisturbed ==
  ASSUME NEW c \in EditCalls, EditTypeOK, Advances(c), NEW d \in EditCalls, Started(d), d # c, ~Done(d),
         call[d].began < Moment, Alone(d)'
  PROVE  ~Changes(c)'
<1> SUFFICES ASSUME Changes(c)' PROVE FALSE
  OBVIOUS
<1>1. Before(c, d)' \/ Before(d, c)'
  BY DEF Alone
<1>2. ~Before(d, c)'
  BY DEF Before, Done, Advances
<1> QED
  BY <1>1, <1>2, BeforeStays

\* While only appends run, the step is an append or leaves the file alone.
LEMMA OnlyAppendsBefore ==
  ASSUME NEW c \in EditCalls, EditTypeOK, Advances(c), NEW d \in EditCalls, Started(d),
         call[d].began < Moment, OnlyAppends(d)'
  PROVE  OnlyAppends(d) /\ (Changes(c)' => Appends(c)')
<1>1. ASSUME NEW e \in EditCalls, Changes(e), ~Appends(e) PROVE Before(e, d)
  <2>1. Started(e)
    BY <1>1 DEF Changes
  <2>2. Changes(e)' /\ ~Appends(e)'
    BY <1>1, <2>1, ChangesStay
  <2>3. Before(e, d)'
    BY <2>2 DEF OnlyAppends
  <2> QED
    BY <2>3, BeforeStays
<1>2. ASSUME Changes(c)', ~Appends(c)' PROVE FALSE
  <2>1. Before(c, d)'
    BY <1>2 DEF OnlyAppends
  <2> QED
    BY <2>1, BeforeStays
<1> QED
  BY <1>1, <1>2 DEF OnlyAppends


-----------------------------------------------------------------------------
(* What the other calls keep when call c takes a step.                     *)

\* What a call knows of itself.
LEMMA OthersKeepOwn ==
  ASSUME NEW c \in EditCalls, Advances(c), NEW d \in EditCalls, d # c, OwnFacts(d)
  PROVE  OwnFacts(d)'
<1>1. call'[d] = call[d]
  BY DEF Advances
<1> QED
  BY <1>1 DEF OwnFacts, Started, Changes, Done, Underway, Edited

\* What a call that is alone found and answers.
LEMMA OthersKeepAlone ==
  ASSUME NEW c \in EditCalls, EditInv, Advances(c), FileSteps(c), NEW d \in EditCalls, d # c
  PROVE  (Undisturbed(d) /\ AnswerFacts(d) /\ ExactAlone(d))'
<1>1. call'[d] = call[d] /\ EditTypeOK /\ CallInv(d)
  BY DEF Advances, EditInv
<1>2. \A e \in EditCalls : Started(e) => call[e].began < Moment
  BY DEF EditInv, CallInv
<1>3. (Started(d)' <=> Started(d)) /\ (Done(d)' <=> Done(d)) /\ (Changes(d)' <=> Changes(d))
      /\ (Underway(d)' <=> Underway(d)) /\ (Appends(d)' <=> Appends(d))
  BY <1>1 DEF Started, Done, Changes, Underway, Appends
<1>4. ASSUME Started(d), Alone(d)' PROVE Alone(d)
  BY <1>1, <1>2, <1>4, AloneBefore
<1>5. Undisturbed(d)'
  <2> SUFFICES ASSUME Underway(d)', Alone(d)'
               PROVE  (/\ parent = (call[d].snapParent \/ (call[d].req.op # "edit" /\ call[d].req.dirs))
                       /\ call[d].pc = "prepared" => file = call[d].snap
                       /\ call[d].pc = "opened" =>
                            /\ parent /\ call[d].snap # IsDirectory
                            /\ file = IF call[d].snap = NoFile \/ ~Appends(d) THEN <<>> ELSE call[d].snap)'
    BY DEF Undisturbed
  <2>1. Underway(d) /\ Started(d) /\ ~Done(d)
    BY <1>3 DEF Underway, Started, Done
  <2>2. Alone(d)
    BY <2>1, <1>4
  <2>3. ~Changes(c)'
    BY <1>1, <1>2, <2>1, AloneUndisturbed
  <2>4. file' = file /\ parent' = parent
    BY <2>3 DEF FileSteps
  <2>5. Undisturbed(d)
    BY <1>1 DEF CallInv
  <2> QED
    BY <2>1, <2>2, <2>4, <2>5, <1>1, <1>3 DEF Undisturbed
<1>6. AnswerFacts(d)'
  <2> SUFFICES ASSUME Done(d)', Alone(d)' PROVE AnswerFacts(d)'
    BY DEF AnswerFacts
  <2>1. Started(d) /\ Alone(d)
    BY <1>3, <1>4 DEF Done, Started
  <2>2. AnswerFacts(d)
    BY <1>1 DEF CallInv
  <2> QED
    BY <2>1, <2>2, <1>1, <1>3 DEF AnswerFacts, Edited
<1>7. ExactAlone(d)'
  <2> SUFFICES ASSUME Done(d)', Alone(d)' PROVE ExactAlone(d)'
    BY DEF ExactAlone
  <2>1. Started(d) /\ Alone(d)
    BY <1>3, <1>4 DEF Done, Started
  <2>2. ExactAlone(d)
    BY <1>1 DEF CallInv
  <2> QED
    BY <2>1, <2>2, <1>1, <1>3 DEF ExactAlone
<1> QED
  BY <1>5, <1>6, <1>7

\* A grown file is no shorter, and begins with what it held.
LEMMA GrownFile ==
  ASSUME EditTypeOK, file \in Seq(Chars), FileGrows
  PROVE  /\ file' \in Seq(Chars)
         /\ Len(file) \in Nat /\ Len(file') \in Nat /\ Len(file) <= Len(file')
         /\ IsPrefix(file, file')
<1>1. NoFile \notin Seq(Chars)
  BY TextIs DEF IsText, Contents
<1>2. PICK s \in Seq(Chars) : file' = file \o s
  <2>1. <<>> \in Seq(Chars) /\ file \o <<>> = file
    BY EmptySeq, ConcatEmptySeq
  <2>2. file' = file \/ \E s \in Seq(Chars) : file' = file \o s
    BY <1>1 DEF FileGrows
  <2>3. CASE file' = file
    <3>1. file' = file \o <<>>
      BY <2>1, <2>3
    <3> QED
      BY <2>1, <3>1
  <2> QED
    BY <2>2, <2>3
<1>3. file \o s \in Seq(Chars) /\ Len(file \o s) = Len(file) + Len(s) /\ Len(file) \in Nat /\ Len(s) \in Nat
  BY ConcatProperties, LenProperties
<1>4. IsPrefix(file, file)
  BY PrefixIs, <1>3
<1>5. IsPrefix(file, file \o s)
  BY <1>4, PrefixOfConcat
<1> QED
  BY <1>2, <1>3, <1>5

\* What begins a sequence begins what that one begins.
LEMMA PrefixChain ==
  ASSUME NEW S, NEW s \in Seq(S), NEW t \in Seq(S), NEW u \in Seq(S), IsPrefix(s, t), IsPrefix(t, u)
  PROVE  IsPrefix(s, u)
<1>1. Len(s) \in Nat /\ Len(t) \in Nat /\ Len(u) \in Nat
  BY LenProperties
<1>2. /\ Len(s) <= Len(t) /\ \A i \in 1..Len(s) : s[i] = t[i]
      /\ Len(t) <= Len(u) /\ \A i \in 1..Len(t) : t[i] = u[i]
  BY PrefixIs
<1>3. Len(s) <= Len(u) /\ \A i \in 1..Len(s) : s[i] = u[i]
  BY <1>1, <1>2
<1> QED
  BY <1>3, PrefixIs

\* A piece of a file is there after the file has grown.
LEMMA PieceStays ==
  ASSUME NEW s \in Seq(Chars), NEW t \in Seq(Chars), IsPrefix(s, t), NEW m \in Nat, NEW p \in 0..(Len(s) - m)
  PROVE  p \in 0..(Len(t) - m) /\ SubSeq(t, p + 1, p + m) = SubSeq(s, p + 1, p + m)
<1>1. Len(s) \in Nat /\ Len(t) \in Nat /\ Len(s) <= Len(t)
  BY PrefixIs, LenProperties
<1>2. \A i \in 1..Len(s) : s[i] = t[i] /\ s[i] \in Chars
  BY PrefixIs, ElementOfSeq
<1> DEFINE a == p + 1
           b == p + m
<1>3. a \in Int /\ b \in Int /\ b - a + 1 = m /\ a >= 1 /\ b <= Len(s)
  BY <1>1
<1>4. \A i \in a..b : s[i] \in Chars /\ t[i] \in Chars /\ s[i] = t[i]
  BY <1>1, <1>2, <1>3
<1>5. \A i \in 1..m : a + i - 1 \in a..b
  BY <1>3
<1>6. p \in 0..(Len(t) - m)
  BY <1>1
<1> HIDE DEF a, b
<1> DEFINE u == SubSeq(s, a, b)
           v == SubSeq(t, a, b)
<1>7. u \in Seq(Chars) /\ Len(u) = (IF a <= b THEN b - a + 1 ELSE 0) /\ \A i \in 1..(b - a + 1) : u[i] = s[a + i - 1]
  BY <1>3, <1>4, SubSeqProperties
<1>8. v \in Seq(Chars) /\ Len(v) = (IF a <= b THEN b - a + 1 ELSE 0) /\ \A i \in 1..(b - a + 1) : v[i] = t[a + i - 1]
  BY <1>3, <1>4, SubSeqProperties
<1>9. Len(u) = m /\ Len(v) = m
  BY <1>3, <1>7, <1>8
<1>10. \A i \in 1..Len(u) : u[i] = v[i]
  BY <1>3, <1>4, <1>5, <1>7, <1>8, <1>9
<1> HIDE DEF u, v
<1>11. u = v
  BY <1>7, <1>8, <1>9, <1>10, SeqEqual
<1> QED
  BY <1>6, <1>11 DEF u, v, a, b


\* What a call needs of a file that only grows.
LEMMA OthersKeepFile ==
  ASSUME NEW c \in EditCalls, EditInv, Advances(c), FileSteps(c), NEW d \in EditCalls, d # c
  PROVE  (Grows(d) /\ AppendKept(d) /\ DownloadJoins(d))'
<1>1. call'[d] = call[d] /\ EditTypeOK /\ OwnFacts(d) /\ Grows(d) /\ AppendKept(d) /\ DownloadJoins(d)
      /\ (Started(d) => call[d].began < Moment)
  BY DEF Advances, EditInv, CallInv
<1>2. (Started(d)' <=> Started(d)) /\ (Done(d)' <=> Done(d)) /\ (Changes(d)' <=> Changes(d))
      /\ (Underway(d)' <=> Underway(d)) /\ (Appends(d)' <=> Appends(d))
  BY <1>1 DEF Started, Done, Changes, Underway, Appends
<1>3. file \in Contents /\ file' \in Contents /\ (IsText(file) => IsText(file') /\ file \in Seq(Chars))
      /\ call[d].snap \in Contents /\ call[d].got \in Seq(Chars) /\ call[d].at \in Nat
      /\ (IsText(call[d].snap) => call[d].snap \in Seq(Chars))
  BY <1>1, TextIs DEF EditTypeOK, EditCall, FileSteps
<1>4. ASSUME Started(d), OnlyAppends(d)', IsText(file)
      PROVE  /\ OnlyAppends(d) /\ file' \in Seq(Chars) /\ IsPrefix(file, file')
             /\ Len(file) \in Nat /\ Len(file') \in Nat /\ Len(file) <= Len(file')
  <2>1. OnlyAppends(d) /\ (Changes(c)' => Appends(c)')
    BY <1>1, <1>4, OnlyAppendsBefore
  <2>2. FileGrows
    BY <2>1 DEF FileSteps, FileGrows
  <2> QED
    BY <1>1, <1>3, <1>4, <2>1, <2>2, GrownFile
<1>5. (Started(d) /\ IsText(call[d].snap) => IsText(file))
      /\ (call[d].pc = "opened" \/ (Done(d) /\ Changes(d) /\ call[d].res.ok) => IsText(file))
  BY <1>1 DEF Grows
<1>6. Grows(d)'
  <2>1. (Underway(d) => Started(d))
    BY DEF Underway, Started
  <2>2. ASSUME Underway(d), Appends(d), OnlyAppends(d)', IsText(call[d].snap)
        PROVE  Len(call[d].snap) <= Len(file')
    <3>1. Started(d) /\ IsText(file)
      BY <2>1, <2>2, <1>5
    <3>2. OnlyAppends(d) /\ Len(file) \in Nat /\ Len(file') \in Nat /\ Len(file) <= Len(file')
      BY <1>4, <2>2, <3>1
    <3>3. Len(call[d].snap) <= Len(file) /\ Len(call[d].snap) \in Nat
      BY <1>1, <1>3, <2>2, <3>2, LenProperties DEF Grows
    <3> QED
      BY <3>2, <3>3
  <2>3. ASSUME Started(d), call[d].req.op = "download", OnlyAppends(d)', IsText(call[d].snap)
        PROVE  /\ IsPrefix(call[d].snap, file')
               /\ call[d].pc = "read" => Len(call[d].snap) <= call[d].at /\ call[d].at <= Len(file')
    <3>1. IsText(file)
      BY <2>3, <1>5
    <3>2. OnlyAppends(d) /\ Len(file) \in Nat /\ Len(file') \in Nat /\ Len(file) <= Len(file')
          /\ file \in Seq(Chars) /\ file' \in Seq(Chars) /\ IsPrefix(file, file') /\ call[d].snap \in Seq(Chars)
      BY <1>3, <1>4, <2>3, <3>1
    <3>3. IsPrefix(call[d].snap, file)
          /\ (call[d].pc = "read" => Len(call[d].snap) <= call[d].at /\ call[d].at <= Len(file))
      BY <1>1, <2>3, <3>2 DEF Grows
    <3>4. IsPrefix(call[d].snap, file')
      BY <3>2, <3>3, PrefixChain
    <3> QED
      BY <3>2, <3>3, <3>4, <1>3
  <2> QED
    BY <1>1, <1>2, <1>3, <1>5, <2>2, <2>3 DEF Grows
<1>7. AppendKept(d)'
  <2> SUFFICES ASSUME Done(d)', Changes(d)', call'[d].res.ok, Appends(d)', OnlyAppends(d)'
               PROVE  \E p \in 0..(Len(file') - Len(call'[d].out)) :
                        /\ SubSeq(file', p + 1, p + Len(call'[d].out)) = call'[d].out
                        /\ IsText(call'[d].snap) => p >= Len(call'[d].snap)
    BY DEF AppendKept
  <2>1. Done(d) /\ Started(d) /\ Changes(d) /\ call[d].res.ok /\ Appends(d) /\ IsText(file)
    BY <1>1, <1>2, <1>5 DEF Done, Started
  <2>2. OnlyAppends(d) /\ file' \in Seq(Chars) /\ file \in Seq(Chars) /\ IsPrefix(file, file')
    BY <1>3, <1>4, <2>1
  <2> DEFINE m == Len(call[d].out)
  <2>3. m \in Nat
    <3>1. call[d].out \in Text
      BY <1>1 DEF EditTypeOK, EditCall
    <3> QED
      BY <3>1, LenProperties DEF Text
  <2>4. PICK p \in 0..(Len(file) - m) :
          /\ SubSeq(file, p + 1, p + m) = call[d].out
          /\ IsText(call[d].snap) => p >= Len(call[d].snap)
    BY <1>1, <2>1, <2>2 DEF AppendKept
  <2> HIDE DEF m
  <2>5. p \in 0..(Len(file') - m) /\ SubSeq(file', p + 1, p + m) = SubSeq(file, p + 1, p + m)
    BY <2>2, <2>3, PieceStays
  <2>6. p \in 0..(Len(file') - m) /\ SubSeq(file', p + 1, p + m) = call[d].out
        /\ (IsText(call[d].snap) => p >= Len(call[d].snap))
    BY <2>4, <2>5
  <2> QED
    BY <2>6, <1>1 DEF m
<1>8. DownloadJoins(d)'
  <2> SUFFICES ASSUME Started(d)', call'[d].req.op = "download", IsText(call'[d].snap), OnlyAppends(d)'
               PROVE  IsPrefix(call'[d].got, file') /\ (Done(d)' => IsPrefix(call'[d].snap, call'[d].got))
    BY DEF DownloadJoins
  <2>1. Started(d) /\ call[d].req.op = "download" /\ IsText(call[d].snap) /\ IsText(file)
    BY <1>1, <1>2, <1>5
  <2>2. OnlyAppends(d) /\ file' \in Seq(Chars) /\ file \in Seq(Chars) /\ IsPrefix(file, file')
    BY <1>3, <1>4, <2>1
  <2>3. IsPrefix(call[d].got, file) /\ (Done(d) => IsPrefix(call[d].snap, call[d].got))
    BY <1>1, <2>1, <2>2 DEF DownloadJoins
  <2>4. IsPrefix(call[d].got, file')
    BY <1>3, <2>2, <2>3, PrefixChain
  <2> QED
    BY <1>1, <1>2, <2>3, <2>4
<1> QED
  BY <1>6, <1>7, <1>8


-----------------------------------------------------------------------------
(* A call begins.                                                          *)

Answers == [ok : BOOLEAN, created : BOOLEAN, unchanged : BOOLEAN, n : Nat]

\* The record of a call that begins.
BeginsWith(c, req, pc, result, out) ==
  /\ call'[c].pc = pc /\ call'[c].req = req /\ call'[c].res = result /\ call'[c].out = out
  /\ call'[c].at = 0 /\ call'[c].got = <<>> /\ call'[c].fault = FALSE
  /\ call'[c].snap = file /\ call'[c].snapParent = parent /\ call'[c].left = file

\* Beginning is a step of the call; the file stays and its directory may be made.
LEMMA BeginsStep ==
  ASSUME EditInv, NEW c \in EditCalls, ~Started(c), NEW req \in Requests, NEW pc \in {"prepared", "stat", "done"},
         NEW result \in Answers, NEW out \in Text, NEW newParent \in BOOLEAN,
         Begins(c, req, pc, result, out, newParent),
         parent => newParent,
         newParent # parent => req.op \in {"write", "upload"} /\ (req.op = "write" => ~req.dry)
  PROVE  Advances(c) /\ FileSteps(c) /\ BeginsWith(c, req, pc, result, out)
<1> DEFINE r == [pc |-> pc, req |-> req, res |-> result, out |-> out, at |-> 0, got |-> <<>>, fault |-> FALSE,
                 began |-> Moment, ended |-> Moment + 1, snap |-> file, snapParent |-> parent, left |-> file]
<1>1. EditTypeOK /\ (file = NoFile \/ parent)
  BY DEF EditInv
<1>2. Moment \in Nat
  BY MomentIsNat
<1> DEFINE m == Moment
<1>3. r \in EditCall
  <2>1. <<>> \in Seq(Chars) /\ m \in Nat /\ m + 1 \in Nat /\ file \in Contents /\ parent \in BOOLEAN
    BY <1>1, <1>2, EmptySeq DEF EditTypeOK
  <2> HIDE DEF m
  <2>2. [pc |-> pc, req |-> req, res |-> result, out |-> out, at |-> 0, got |-> <<>>, fault |-> FALSE,
         began |-> m, ended |-> m + 1, snap |-> file, snapParent |-> parent, left |-> file] \in EditCall
    BY <2>1 DEF EditCall, Answers
  <2> QED
    BY <2>2 DEF m
<1>4. file' = file /\ parent' = newParent /\ call' = [call EXCEPT ![c] = r]
  BY DEF Begins
<1>5. r.pc = pc /\ r.req = req /\ r.res = result /\ r.out = out /\ r.at = 0 /\ r.got = <<>> /\ r.fault = FALSE
      /\ r.began = m /\ r.ended = m + 1 /\ r.snap = file /\ r.snapParent = parent /\ r.left = file
  OBVIOUS
<1> HIDE DEF r
<1>6. call'[c] = r /\ call' \in [EditCalls -> EditCall] /\ \A d \in EditCalls \ {c} : call'[d] = call[d]
  BY <1>1, <1>3, <1>4 DEF EditTypeOK
<1>7. ~Done(c) /\ pc # "idle"
  BY DEF Started, Done
<1>8. Advances(c)
  BY <1>2, <1>5, <1>6, <1>7 DEF Advances
<1>9. BeginsWith(c, req, pc, result, out)
  BY <1>5, <1>6 DEF BeginsWith
<1>10. FileSteps(c)
  <2>1. ~Changes(c)' => parent' = parent
    <3>1. newParent # parent => Changes(c)'
      BY <1>5, <1>6, <1>7 DEF Changes, Started
    <3> QED
      BY <3>1, <1>4
  <2>2. file' \in Contents /\ parent' \in BOOLEAN /\ (file' = NoFile \/ parent')
    BY <1>1, <1>4 DEF EditTypeOK
  <2> QED
    BY <1>4, <2>1, <2>2 DEF FileSteps, FileGrows
<1> QED
  BY <1>8, <1>9, <1>10

\* A call that begins has done nothing to the file yet, and has read nothing of it.
LEMMA BeginsRest ==
  ASSUME EditInv, NEW c \in EditCalls, NEW req \in Requests, NEW pc \in {"prepared", "stat", "done"},
         NEW result \in Answers, NEW out \in Text, BeginsWith(c, req, pc, result, out), file' = file,
         pc = "done" /\ Changes(c)' => ~result.ok,
         pc = "done" /\ req.op = "download" => ~IsText(file)
  PROVE  (ExactAlone(c) /\ Grows(c) /\ AppendKept(c) /\ DownloadJoins(c))'
<1>1. call'[c].pc = pc /\ call'[c].req = req /\ call'[c].res = result /\ call'[c].got = <<>> /\ call'[c].fault = FALSE
      /\ call'[c].snap = file /\ call'[c].left = file
  BY DEF BeginsWith
<1>2. Done(c)' <=> pc = "done"
  BY <1>1 DEF Done
<1>3. ExactAlone(c)'
  <2> SUFFICES ASSUME Done(c)', Changes(c)'
               PROVE  (LET want == Expected(call[c].req, call[c].snap)
                       IN  CASE call[c].res.ok -> call[c].left = want
                             [] call[c].fault -> IsPrefix(call[c].left, want)
                             [] OTHER -> call[c].left = call[c].snap)'
    BY DEF ExactAlone
  <2>1. ~call'[c].res.ok /\ ~call'[c].fault /\ call'[c].left = call'[c].snap
    BY <1>1, <1>2
  <2> QED
    BY <2>1
<1>4. AppendKept(c)'
  BY <1>1, <1>2 DEF AppendKept
<1>5. file \in Contents /\ (IsText(file) => file \in Seq(Chars) /\ Len(file) \in Nat)
  BY TextIs, LenProperties DEF EditInv, EditTypeOK
<1>6. IsText(file) => IsPrefix(file, file) /\ IsPrefix(<<>>, file)
  <2>1. <<>> \in Seq(Chars) /\ Len(<<>>) = 0
    BY EmptySeq
  <2>2. ASSUME IsText(file) PROVE IsPrefix(file, file)
    BY <1>5, <2>2, PrefixIs
  <2>3. ASSUME IsText(file) PROVE IsPrefix(<<>>, file)
    <3> DEFINE e == <<>>
    <3>1. e \in Seq(Chars) /\ file \in Seq(Chars) /\ Len(e) <= Len(file) /\ \A i \in 1..Len(e) : e[i] = file[i]
      BY <1>5, <2>1, <2>3
    <3> HIDE DEF e
    <3>2. IsPrefix(e, file)
      BY <3>1, PrefixIs
    <3> QED
      BY <3>2 DEF e
  <2> QED
    BY <2>2, <2>3
<1>7. Grows(c)'
  <2>1. ~(call'[c].pc = "opened") /\ ~(call'[c].pc = "read") /\ ~(Done(c)' /\ Changes(c)' /\ call'[c].res.ok)
    BY <1>1, <1>2
  <2> QED
    BY <1>1, <1>5, <1>6, <2>1 DEF Grows
<1>8. DownloadJoins(c)'
  BY <1>1, <1>2, <1>6 DEF DownloadJoins
<1> QED
  BY <1>3, <1>4, <1>7, <1>8


\* What call c must show of its own step.
CallFacts(c) ==
  OwnFacts(c) /\ Undisturbed(c) /\ AnswerFacts(c) /\ ExactAlone(c) /\ Grows(c) /\ AppendKept(c) /\ DownloadJoins(c)
StepHolds(c) == Advances(c) /\ FileSteps(c) /\ CallFacts(c)'

\* Answers have their type.
LEMMA AnswersType ==
  /\ NoResult \in Answers /\ NoResult.ok = FALSE /\ NoResult.n = 0
  /\ \A ok, created, unchanged \in BOOLEAN, n \in Nat :
       Result(ok, created, unchanged, n) \in Answers
BY DEF NoResult, Result, Answers

\* The text of a request is a text.
LEMMA RequestTexts ==
  ASSUME NEW req \in Requests
  PROVE  /\ req.op \in {"write", "upload", "edit", "download"}
         /\ req.op \in {"write", "upload"} => req.data \in Text /\ Len(req.data) \in Nat /\ req.app \in BOOLEAN /\ req.dirs \in BOOLEAN
         /\ req.op = "write" => req.dry \in BOOLEAN
         /\ req.op = "upload" => req.valid \in BOOLEAN
         /\ req.op = "edit" => req.pairs \in Seq(Edit) /\ req.dry \in BOOLEAN
         /\ req.op = "download" => req.max \in Nat
<1>1. Texts \subseteq Text /\ PairLists \subseteq Seq(Edit) /\ ChunkSizes \subseteq Nat
  BY FileEditAssumption DEF Edit
<1>2. \A t \in Text : Len(t) \in Nat
  BY LenProperties DEF Text
<1>3. CASE req \in [op : {"write"}, data : Texts, app : BOOLEAN, dirs : BOOLEAN, dry : BOOLEAN]
  BY <1>1, <1>2, <1>3
<1>4. CASE req \in [op : {"upload"}, data : Texts, app : BOOLEAN, dirs : BOOLEAN, valid : BOOLEAN]
  BY <1>1, <1>2, <1>4
<1>5. CASE req \in [op : {"edit"}, pairs : PairLists, dry : BOOLEAN]
  BY <1>1, <1>5
<1>6. CASE req \in [op : {"download"}, max : ChunkSizes]
  BY <1>1, <1>6
<1> QED
  BY <1>3, <1>4, <1>5, <1>6 DEF Requests

\* A preview only answers.
LEMMA PreviewWriteHolds ==
  ASSUME EditInv, NEW c \in EditCalls, ~Started(c), NEW req \in Requests, PreviewWrite(c, req)
  PROVE  StepHolds(c)
<1> DEFINE result == Preview(req, file, parent)
<1>1. req.op = "write" /\ req.dry /\ Begins(c, req, "done", result, <<>>, parent) /\ parent \in BOOLEAN /\ <<>> \in Text
  BY EmptySeq DEF PreviewWrite, EditInv, EditTypeOK, Text
<1>2. result \in Answers
  <2>1. Len(req.data) \in Nat
    BY <1>1, RequestTexts
  <2> QED
    BY <2>1, AnswersType DEF Preview
<1>3. result = Preview(req, file, parent)
  OBVIOUS
<1> HIDE DEF result
<1>4. Advances(c) /\ FileSteps(c) /\ BeginsWith(c, req, "done", result, <<>>)
  BY <1>1, <1>2, BeginsStep
<1>5. call'[c].pc = "done" /\ call'[c].req = req /\ call'[c].res = result /\ call'[c].fault = FALSE
      /\ call'[c].snap = file /\ call'[c].snapParent = parent
  BY <1>4 DEF BeginsWith
<1>6. ~Changes(c)' /\ Started(c)' /\ Done(c)' /\ ~Underway(c)'
  BY <1>1, <1>5 DEF Changes, Started, Done, Underway
<1>7. (ExactAlone(c) /\ Grows(c) /\ AppendKept(c) /\ DownloadJoins(c))'
  <2>1. file' = file
    BY <1>1 DEF Begins
  <2> QED
    BY <1>1, <1>2, <1>4, <1>6, <2>1, BeginsRest
<1>8. OwnFacts(c)'
  <2>1. ~parent => file = NoFile
    BY DEF EditInv
  <2> QED
    BY <1>1, <1>3, <1>5, <1>6, <2>1 DEF OwnFacts
<1>9. Undisturbed(c)' /\ AnswerFacts(c)'
  BY <1>6 DEF Undisturbed, AnswerFacts
<1> QED
  BY <1>4, <1>7, <1>8, <1>9 DEF StepHolds, CallFacts

\* A write is ready to open the file, or is refused for its text.
LEMMA StartWriteHolds ==
  ASSUME EditInv, NEW c \in EditCalls, ~Started(c), NEW req \in Requests, StartWrite(c, req)
  PROVE  StepHolds(c)
<1> DEFINE result == [NoResult EXCEPT !.created = file = NoFile]
           pc == IF CanEncode(req.data) THEN "prepared" ELSE "done"
           dirs == parent \/ req.dirs
<1>1. req.op = "write" /\ ~req.dry /\ Begins(c, req, pc, result, req.data, dirs) /\ pc \in {"prepared", "stat", "done"}
  BY DEF StartWrite
<1>2. req.data \in Text /\ req.dirs \in BOOLEAN /\ parent \in BOOLEAN /\ dirs \in BOOLEAN
  BY <1>1, RequestTexts DEF EditInv, EditTypeOK
<1>3. result \in Answers /\ result.ok = FALSE /\ result.n = 0 /\ result.created = (file = NoFile)
  BY DEF NoResult, Result, Answers
<1>4. (parent => dirs) /\ dirs = (parent \/ req.dirs) /\ (pc = "prepared" <=> CanEncode(req.data))
  BY <1>2
<1> HIDE DEF result, dirs, pc
<1>5. Advances(c) /\ FileSteps(c) /\ BeginsWith(c, req, pc, result, req.data)
  BY <1>1, <1>2, <1>3, <1>4, BeginsStep
<1>6. call'[c].pc = pc /\ call'[c].req = req /\ call'[c].res = result /\ call'[c].fault = FALSE
      /\ call'[c].snap = file /\ call'[c].snapParent = parent /\ call'[c].out = req.data
  BY <1>5 DEF BeginsWith
<1>7. Changes(c)' /\ Started(c)' /\ (Done(c)' <=> pc = "done") /\ (Underway(c)' <=> pc = "prepared") /\ pc \in {"prepared", "done"}
  BY <1>1, <1>6 DEF Changes, Started, Done, Underway, pc
<1>8. file' = file /\ parent' = dirs
  BY <1>1 DEF Begins
<1>9. (ExactAlone(c) /\ Grows(c) /\ AppendKept(c) /\ DownloadJoins(c))'
  BY <1>1, <1>2, <1>3, <1>5, <1>8, BeginsRest
<1>10. OwnFacts(c)'
  <2>1. ~parent => file = NoFile
    BY DEF EditInv
  <2>2. pc = "prepared" => req.data \in Seq(Chars)
    BY <1>2, <1>4, EncodableText
  <2> QED
    BY <1>1, <1>3, <1>6, <1>7, <2>1, <2>2 DEF OwnFacts
<1>11. Undisturbed(c)'
  BY <1>1, <1>2, <1>4, <1>6, <1>7, <1>8 DEF Undisturbed
<1>12. AnswerFacts(c)'
  <2>1. pc = "done" => PreviewRefused(req, file, parent)
    BY <1>4 DEF PreviewRefused
  <2> QED
    BY <1>1, <1>3, <1>6, <1>7, <2>1 DEF AnswerFacts
<1> QED
  BY <1>5, <1>9, <1>10, <1>11, <1>12 DEF StepHolds, CallFacts

\* An upload is ready to open the file, or is refused for its encoding.
LEMMA StartUploadHolds ==
  ASSUME EditInv, NEW c \in EditCalls, ~Started(c), NEW req \in Requests, StartUpload(c, req)
  PROVE  StepHolds(c)
<1> DEFINE result == [NoResult EXCEPT !.created = req.valid /\ file = NoFile]
           pc == IF req.valid THEN "prepared" ELSE "done"
           dirs == parent \/ (req.valid /\ req.dirs)
<1>1. req.op = "upload" /\ CanEncode(req.data) /\ Begins(c, req, pc, result, req.data, dirs) /\ pc \in {"prepared", "stat", "done"}
  BY DEF StartUpload
<1>2. req.data \in Text /\ req.dirs \in BOOLEAN /\ parent \in BOOLEAN /\ dirs \in BOOLEAN /\ req.valid \in BOOLEAN
  BY <1>1, RequestTexts DEF EditInv, EditTypeOK
<1>3. result \in Answers /\ result.ok = FALSE /\ (req.valid => result.created = (file = NoFile))
  BY <1>2 DEF NoResult, Result, Answers
<1>4. (parent => dirs) /\ dirs = (parent \/ (req.valid /\ req.dirs)) /\ (pc = "prepared" <=> req.valid)
  BY <1>2
<1> HIDE DEF result, dirs, pc
<1>5. Advances(c) /\ FileSteps(c) /\ BeginsWith(c, req, pc, result, req.data)
  BY <1>1, <1>2, <1>3, <1>4, BeginsStep
<1>6. call'[c].pc = pc /\ call'[c].req = req /\ call'[c].res = result /\ call'[c].fault = FALSE
      /\ call'[c].snap = file /\ call'[c].snapParent = parent /\ call'[c].out = req.data
  BY <1>5 DEF BeginsWith
<1>7. Changes(c)' /\ Started(c)' /\ (Done(c)' <=> pc = "done") /\ (Underway(c)' <=> pc = "prepared") /\ pc \in {"prepared", "done"}
  BY <1>1, <1>6 DEF Changes, Started, Done, Underway, pc
<1>8. file' = file /\ parent' = dirs
  BY <1>1 DEF Begins
<1>9. (ExactAlone(c) /\ Grows(c) /\ AppendKept(c) /\ DownloadJoins(c))'
  BY <1>1, <1>2, <1>3, <1>5, <1>8, BeginsRest
<1>10. OwnFacts(c)'
  <2>1. ~parent => file = NoFile
    BY DEF EditInv
  <2>2. req.data \in Seq(Chars)
    BY <1>1, <1>2, EncodableText
  <2> QED
    BY <1>1, <1>3, <1>4, <1>6, <1>7, <2>1, <2>2 DEF OwnFacts
<1>11. Undisturbed(c)'
  BY <1>1, <1>2, <1>4, <1>6, <1>7, <1>8 DEF Undisturbed
<1>12. AnswerFacts(c)'
  BY <1>1, <1>6 DEF AnswerFacts
<1> QED
  BY <1>5, <1>9, <1>10, <1>11, <1>12 DEF StepHolds, CallFacts


\* An edit has computed all of its pairs, or has failed, or was a dry run.
LEMMA StartEditHolds ==
  ASSUME EditInv, NEW c \in EditCalls, ~Started(c), NEW req \in Requests, StartEdit(c, req)
  PROVE  StepHolds(c)
<1> DEFINE r == ApplyEdits(file, req.pairs)
           works == IsText(file) /\ r.ok
           puts == works /\ ~req.dry /\ CanEncode(r.s)
           pc == IF puts THEN "prepared" ELSE "done"
           result == IF works THEN Result(req.dry, FALSE, FALSE, r.n) ELSE NoResult
           out == IF puts THEN r.s ELSE <<>>
<1>1. req.op = "edit" /\ req.dry \in BOOLEAN /\ req.pairs \in Seq(Edit) /\ parent \in BOOLEAN /\ <<>> \in Text
  BY RequestTexts, EmptySeq DEF StartEdit, EditInv, EditTypeOK, Text
<1>2. IsText(file) => r \in EditedText
  <2>1. ASSUME IsText(file) PROVE r \in EditedText
    <3>1. file \in Seq(Chars)
      BY <2>1, TextIs DEF EditInv, EditTypeOK
    <3>2. file \in Text
      BY <3>1, CharsEncode
    <3> QED
      BY <3>2, <1>1, ApplyEditsType
  <2> QED
    BY <2>1
<1>3. Begins(c, req, pc, result, out, parent)
  <2>1. IF ~IsText(file) \/ ~r.ok THEN Begins(c, req, "done", NoResult, <<>>, parent)
        ELSE IF req.dry \/ ~CanEncode(r.s)
        THEN Begins(c, req, "done", Result(req.dry, FALSE, FALSE, r.n), <<>>, parent)
        ELSE Begins(c, req, "prepared", Result(FALSE, FALSE, FALSE, r.n), r.s, parent)
    BY DEF StartEdit
  <2> HIDE DEF r
  <2>2. CASE ~works
    BY <2>1, <2>2
  <2>3. CASE works /\ ~puts
    BY <2>1, <2>3
  <2>4. CASE puts
    <3>1. req.dry = FALSE
      BY <1>1, <2>4
    <3> QED
      BY <2>1, <2>4, <3>1
  <2> QED
    BY <2>2, <2>3, <2>4
<1>4. works => r.s \in Text /\ r.n \in Nat
  BY <1>2 DEF EditedText
<1>5. result \in Answers /\ (works => result = Result(req.dry, FALSE, FALSE, r.n) /\ result.ok = req.dry /\ result.n = r.n)
      /\ (~works => result = NoResult /\ result.ok = FALSE)
  <2> HIDE DEF r
  <2>1. CASE works
    <3>1. result = Result(req.dry, FALSE, FALSE, r.n)
      BY <2>1
    <3> HIDE DEF result
    <3>2. result \in Answers /\ result.ok = req.dry /\ result.n = r.n
      BY <1>1, <1>4, <2>1, <3>1 DEF Result, Answers
    <3> QED
      BY <2>1, <3>1, <3>2
  <2>2. CASE ~works
    BY <2>2, AnswersType
  <2> QED
    BY <2>1, <2>2
<1>6. out \in Text /\ pc \in {"prepared", "stat", "done"} /\ (pc = "prepared" <=> puts) /\ (puts => out = r.s)
      /\ pc \in {"prepared", "done"}
  <2> HIDE DEF r
  <2> QED
    BY <1>1, <1>4
<1>7. puts => works /\ ~req.dry /\ CanEncode(r.s) /\ r.s \in Seq(Chars)
  <2> HIDE DEF r
  <2> QED
    BY <1>4, EncodableText
<1> HIDE DEF result, out, pc
<1>8. Advances(c) /\ FileSteps(c) /\ BeginsWith(c, req, pc, result, out)
  BY <1>1, <1>3, <1>5, <1>6, BeginsStep
<1>9. call'[c].pc = pc /\ call'[c].req = req /\ call'[c].res = result /\ call'[c].fault = FALSE
      /\ call'[c].snap = file /\ call'[c].snapParent = parent /\ call'[c].out = out
  BY <1>8 DEF BeginsWith
<1>10. (Changes(c)' <=> ~req.dry) /\ Started(c)' /\ (Done(c)' <=> pc = "done") /\ (Underway(c)' <=> pc = "prepared")
  BY <1>1, <1>6, <1>9 DEF Changes, Started, Done, Underway
<1>11. file' = file /\ parent' = parent
  BY <1>3 DEF Begins
<1>12. (ExactAlone(c) /\ Grows(c) /\ AppendKept(c) /\ DownloadJoins(c))'
  <2>1. Changes(c)' => ~result.ok
    BY <1>5, <1>10
  <2> HIDE DEF puts, works
  <2> QED
    BY <1>1, <1>5, <1>6, <1>8, <1>11, <2>1, BeginsRest
<1>13. Edited(c)' = r
  BY <1>9 DEF Edited
<1> HIDE DEF r
<1>14. OwnFacts(c)'
  <2>1. ~parent => file = NoFile
    BY DEF EditInv
  <2>2. ASSUME ~Changes(c)' PROVE Done(c)' /\ call'[c].res = IF IsText(file) /\ r.ok THEN Result(TRUE, FALSE, FALSE, r.n) ELSE NoResult
    <3>1. req.dry = TRUE /\ pc = "done"
      BY <2>2, <1>1, <1>6, <1>7, <1>10
    <3> QED
      BY <3>1, <1>5, <1>9, <1>10
  <2>3. ASSUME Underway(c)' \/ (Done(c)' /\ Changes(c)' /\ call'[c].res.ok)
        PROVE  Changes(c)' /\ out \in Seq(Chars) /\ IsText(file) /\ r.ok /\ out = r.s /\ result.n = r.n
    <3>1. puts
      BY <2>3, <1>5, <1>6, <1>9, <1>10
    <3> QED
      BY <3>1, <1>5, <1>6, <1>7, <1>10
  <2>4. /\ Started(c)' <=> call'[c].req.op # "none"
        /\ ~(call'[c].pc \in {"stat", "read"})
        /\ ~call'[c].snapParent => call'[c].snap = NoFile
        /\ ~call'[c].fault
    BY <1>1, <1>6, <1>9, <1>10, <2>1
  <2> QED
    BY <1>1, <1>9, <1>13, <2>2, <2>3, <2>4 DEF OwnFacts
<1>15. Undisturbed(c)'
  BY <1>1, <1>6, <1>9, <1>10, <1>11 DEF Undisturbed
<1>16. AnswerFacts(c)'
  <2>1. ASSUME Done(c)', Changes(c)' PROVE ~IsText(file) \/ ~r.ok \/ ~CanEncode(r.s)
    BY <2>1, <1>6, <1>10
  <2> QED
    BY <2>1, <1>1, <1>9, <1>13 DEF AnswerFacts
<1> QED
  BY <1>8, <1>12, <1>14, <1>15, <1>16 DEF StepHolds, CallFacts

\* A download has found a file, or none.
LEMMA StartDownloadHolds ==
  ASSUME EditInv, NEW c \in EditCalls, ~Started(c), NEW req \in Requests, StartDownload(c, req)
  PROVE  StepHolds(c)
<1> DEFINE pc == IF IsText(file) THEN "stat" ELSE "done"
<1>1. req.op = "download" /\ Begins(c, req, pc, NoResult, <<>>, parent) /\ pc \in {"prepared", "stat", "done"}
      /\ parent \in BOOLEAN /\ <<>> \in Text /\ NoResult \in Answers /\ NoResult.ok = FALSE
  BY AnswersType, EmptySeq DEF StartDownload, EditInv, EditTypeOK, Text
<1>2. pc = "done" <=> ~IsText(file)
  OBVIOUS
<1>3. pc # "prepared"
  OBVIOUS
<1> HIDE DEF pc
<1>4. Advances(c) /\ FileSteps(c) /\ BeginsWith(c, req, pc, NoResult, <<>>)
  BY <1>1, BeginsStep
<1>5. call'[c].pc = pc /\ call'[c].req = req /\ call'[c].res = NoResult /\ call'[c].fault = FALSE
      /\ call'[c].snap = file /\ call'[c].snapParent = parent
  BY <1>4 DEF BeginsWith
<1>6. ~Changes(c)' /\ Started(c)' /\ ~Underway(c)'
  BY <1>1, <1>3, <1>5 DEF Changes, Started, Underway
<1>7. (ExactAlone(c) /\ Grows(c) /\ AppendKept(c) /\ DownloadJoins(c))'
  <2>1. file' = file
    BY <1>1 DEF Begins
  <2> QED
    BY <1>1, <1>2, <1>4, <1>6, <2>1, BeginsRest
<1>8. OwnFacts(c)'
  <2>1. ~parent => file = NoFile
    BY DEF EditInv
  <2> QED
    BY <1>1, <1>2, <1>5, <1>6, <2>1 DEF OwnFacts
<1>9. Undisturbed(c)' /\ AnswerFacts(c)'
  BY <1>6 DEF Undisturbed, AnswerFacts
<1> QED
  BY <1>4, <1>7, <1>8, <1>9 DEF StepHolds, CallFacts


-----------------------------------------------------------------------------
(* A call opens the file and puts its bytes.                               *)

\* What is appended is at the end, and a part of it appended begins the whole.
LEMMA AppendedPiece ==
  ASSUME NEW t \in Seq(Chars), NEW s \in Seq(Chars), NEW k \in 0..Len(s)
  PROVE  /\ SubSeq(t \o s, Len(t) + 1, Len(t) + Len(s)) = s
         /\ SubSeq(s, 1, k) \in Seq(Chars)
         /\ IsPrefix(t \o SubSeq(s, 1, k), t \o s)
<1> DEFINE a == Len(t) + 1
           b == Len(t) + Len(s)
           w == t \o s
           u == SubSeq(s, 1, k)
           v == t \o u
<1>1. Len(t) \in Nat /\ Len(s) \in Nat /\ k \in Int /\ 1 \in Int
  BY LenProperties
<1>2. w \in Seq(Chars) /\ Len(w) = Len(t) + Len(s)
      /\ \A i \in 1..(Len(t) + Len(s)) : w[i] = IF i <= Len(t) THEN t[i] ELSE s[i - Len(t)]
  BY ConcatProperties
<1>3. SubSeq(w, a, b) = s
  <2>1. a \in Int /\ b \in Int /\ b - a + 1 = Len(s)
    BY <1>1
  <2>2. \A i \in a..b : i \in 1..Len(w)
    BY <1>1, <1>2
  <2>3. \A i \in a..b : w[i] \in Chars
    BY <1>2, <2>2, ElementOfSeq
  <2>4. \A i \in 1..Len(s) : w[a + i - 1] = s[i]
    <3> TAKE i \in 1..Len(s)
    <3> DEFINE j == a + i - 1
    <3>1. j \in 1..(Len(t) + Len(s)) /\ ~(j <= Len(t)) /\ j - Len(t) = i
      BY <1>1
    <3> HIDE DEF j, w
    <3>2. w[j] = s[j - Len(t)]
      BY <3>1, <1>2
    <3> QED
      BY <3>1, <3>2 DEF j
  <2> HIDE DEF a, b, w
  <2> DEFINE x == SubSeq(w, a, b)
  <2>5. x \in Seq(Chars) /\ Len(x) = (IF a <= b THEN b - a + 1 ELSE 0) /\ \A i \in 1..(b - a + 1) : x[i] = w[a + i - 1]
    BY <2>1, <2>3, SubSeqProperties
  <2>6. Len(x) = Len(s)
    BY <1>1, <2>1, <2>5
  <2>7. \A i \in 1..Len(x) : x[i] = s[i]
    BY <2>1, <2>4, <2>5, <2>6
  <2> HIDE DEF x
  <2>8. x = s
    BY <2>5, <2>6, <2>7, SeqEqual
  <2> QED
    BY <2>8 DEF x
<1>4. u \in Seq(Chars) /\ Len(u) = k /\ \A i \in 1..k : u[i] = s[i]
  <2>1. \A i \in 1..k : s[i] \in Chars
    BY <1>1, ElementOfSeq
  <2>2. /\ SubSeq(s, 1, k) \in Seq(Chars)
        /\ Len(SubSeq(s, 1, k)) = IF 1 <= k THEN k - 1 + 1 ELSE 0
        /\ \A i \in 1..(k - 1 + 1) : SubSeq(s, 1, k)[i] = s[1 + i - 1]
    BY <1>1, <2>1, SubSeqProperties
  <2>3. \A i \in 1..k : i \in 1..(k - 1 + 1) /\ 1 + i - 1 = i
    BY <1>1
  <2> QED
    BY <1>1, <2>2, <2>3
<1> HIDE DEF u
<1>5. v \in Seq(Chars) /\ Len(v) = Len(t) + Len(u)
      /\ \A i \in 1..(Len(t) + Len(u)) : v[i] = IF i <= Len(t) THEN t[i] ELSE u[i - Len(t)]
  BY <1>4, ConcatProperties
<1> HIDE DEF v, w
<1>6. Len(v) <= Len(w) /\ \A i \in 1..Len(v) : v[i] = w[i]
  <2>1. Len(v) = Len(t) + k /\ Len(v) <= Len(w)
    BY <1>1, <1>2, <1>4, <1>5
  <2>2. ASSUME NEW i \in 1..Len(v) PROVE v[i] = w[i]
    <3>1. i \in 1..(Len(t) + Len(u)) /\ i \in 1..(Len(t) + Len(s))
      BY <1>1, <1>4, <2>1
    <3>2. CASE i <= Len(t)
      BY <3>1, <3>2, <1>2, <1>5
    <3>3. CASE ~(i <= Len(t))
      <4>1. i - Len(t) \in 1..k
        BY <1>1, <2>1, <3>3
      <4> QED
        BY <4>1, <3>1, <3>3, <1>2, <1>4, <1>5
    <3> QED
      BY <3>2, <3>3
  <2> QED
    BY <2>1, <2>2
<1>7. IsPrefix(v, w)
  BY <1>2, <1>5, <1>6, PrefixIs
<1> QED
  BY <1>3, <1>4, <1>7 DEF a, b, u, v, w

\* The record of a call that ends.
EndsWith(c, result, newFile, fault) ==
  /\ call'[c].pc = "done" /\ call'[c].res = result /\ call'[c].left = newFile /\ call'[c].fault = fault
  /\ call'[c].req = call[c].req /\ call'[c].out = call[c].out
  /\ call'[c].snap = call[c].snap /\ call'[c].snapParent = call[c].snapParent

\* Ending is a step of the call.
LEMMA EndsStep ==
  ASSUME EditInv, NEW c \in EditCalls, Underway(c), NEW result \in Answers, NEW newFile \in Contents,
         NEW fault \in BOOLEAN, Ends(c, result, newFile, fault)
  PROVE  Advances(c) /\ EndsWith(c, result, newFile, fault) /\ file' = newFile /\ parent' = parent
<1> DEFINE m == Moment
           r == [call[c] EXCEPT !.pc = "done", !.res = result, !.left = newFile, !.fault = fault, !.ended = m]
<1>1. m \in Nat /\ call[c] \in EditCall /\ call \in [EditCalls -> EditCall]
  BY MomentIsNat DEF EditInv, EditTypeOK
<1>2. call' = [call EXCEPT ![c] = r] /\ file' = newFile /\ parent' = parent
  BY <1>1 DEF Ends
<1> HIDE DEF m
<1>3. r \in EditCall
  BY <1>1 DEF EditCall, Answers
<1>4. r.pc = "done" /\ r.res = result /\ r.left = newFile /\ r.fault = fault /\ r.ended = m
      /\ r.req = call[c].req /\ r.out = call[c].out /\ r.snap = call[c].snap /\ r.snapParent = call[c].snapParent
      /\ r.began = call[c].began
  BY <1>1 DEF EditCall
<1> HIDE DEF r
<1>5. call'[c] = r /\ call' \in [EditCalls -> EditCall] /\ \A d \in EditCalls \ {c} : call'[d] = call[d]
  BY <1>1, <1>2, <1>3
<1>6. ~Done(c) /\ Started(c)
  BY DEF Underway, Started, Done
<1>7. Advances(c)
  BY <1>1, <1>4, <1>5, <1>6 DEF Advances, m
<1> QED
  BY <1>2, <1>4, <1>5, <1>7 DEF EndsWith

\* A call that is alone at the end of its step was so before.
LEMMA AloneUnderway ==
  ASSUME EditInv, NEW c \in EditCalls, Underway(c), Advances(c)
  PROVE  (Alone(c)' => Alone(c)) /\ (OnlyAppends(c)' => OnlyAppends(c))
<1>1. EditTypeOK /\ \A e \in EditCalls : Started(e) => call[e].began < Moment
  BY DEF EditInv, CallInv
<1>2. Started(c)
  BY DEF Underway, Started
<1> QED
  BY <1>1, <1>2, AloneBefore, OnlyAppendsBefore


\* What is known of a call underway.
LEMMA UnderwayFacts ==
  ASSUME EditInv, NEW c \in EditCalls, Underway(c)
  PROVE  /\ EditTypeOK /\ OwnFacts(c) /\ Undisturbed(c) /\ Grows(c) /\ (file = NoFile \/ parent)
         /\ Changes(c) /\ Started(c) /\ call[c].req \in Requests /\ call[c].req.op \in {"write", "upload", "edit"}
         /\ call[c].out \in Seq(Chars) /\ call[c].snap \in Contents /\ call[c].snapParent \in BOOLEAN
         /\ parent \in BOOLEAN /\ file \in Contents
<1>1. EditTypeOK /\ OwnFacts(c) /\ Undisturbed(c) /\ Grows(c) /\ (file = NoFile \/ parent)
  BY DEF EditInv, CallInv
<1>2. Changes(c) /\ Started(c) /\ call[c].out \in Seq(Chars)
  BY <1>1 DEF OwnFacts, Changes
<1>3. call[c].req \in Requests
  <2>1. call[c].req \in Requests \cup {Idle.req} /\ call[c].req.op # "none"
    BY <1>1, <1>2 DEF EditTypeOK, EditCall, OwnFacts
  <2>2. Idle.req.op = "none"
    BY DEF Idle
  <2> QED
    BY <2>1, <2>2
<1>4. call[c].req.op \in {"write", "upload", "edit"}
  BY <1>2, <1>3, RequestTexts DEF Changes
<1> QED
  BY <1>1, <1>2, <1>3, <1>4 DEF EditTypeOK, EditCall

\* An open that fails leaves the file and says so.
LEMMA OpenFails ==
  ASSUME EditInv, NEW c \in EditCalls, call[c].pc = "prepared", file = IsDirectory \/ ~parent,
         Ends(c, NoResult, file, FALSE)
  PROVE  StepHolds(c)
<1>1. Underway(c)
  BY DEF Underway
<1>2. /\ EditTypeOK /\ OwnFacts(c) /\ Undisturbed(c) /\ Grows(c) /\ (file = NoFile \/ parent)
      /\ Changes(c) /\ Started(c) /\ call[c].req \in Requests /\ call[c].req.op \in {"write", "upload", "edit"}
      /\ call[c].snap \in Contents /\ call[c].snapParent \in BOOLEAN /\ parent \in BOOLEAN /\ file \in Contents
  BY <1>1, UnderwayFacts
<1>3. Advances(c) /\ EndsWith(c, NoResult, file, FALSE) /\ file' = file /\ parent' = parent
  BY <1>1, <1>2, AnswersType, EndsStep
<1>4. /\ call'[c].pc = "done" /\ call'[c].res = NoResult /\ call'[c].left = file /\ call'[c].fault = FALSE
      /\ call'[c].req = call[c].req /\ call'[c].snap = call[c].snap /\ call'[c].snapParent = call[c].snapParent
  BY <1>3 DEF EndsWith
<1>5. Done(c)' /\ Started(c)' /\ Changes(c)' /\ ~Underway(c)' /\ (Appends(c)' <=> Appends(c)) /\ ~NoResult.ok /\ NoResult.n = 0
  BY <1>2, <1>3, <1>4, ChangesStay, AnswersType DEF Done, Underway
<1>6. FileSteps(c)
  BY <1>2, <1>3, <1>5 DEF FileSteps, FileGrows
<1>7. OwnFacts(c)'
  BY <1>2, <1>4, <1>5 DEF OwnFacts
<1>8. Undisturbed(c)'
  BY <1>5 DEF Undisturbed
<1>9. ASSUME Alone(c)'
      PROVE  file = call[c].snap /\ parent = (call[c].snapParent \/ (call[c].req.op # "edit" /\ call[c].req.dirs))
  BY <1>1, <1>2, <1>3, <1>9, AloneUnderway DEF Undisturbed
<1>10. AnswerFacts(c)'
  <2> SUFFICES ASSUME Alone(c)' PROVE AnswerFacts(c)'
    BY DEF AnswerFacts
  <2>1. file = call[c].snap /\ parent = (call[c].snapParent \/ (call[c].req.op # "edit" /\ call[c].req.dirs))
    BY <1>9
  <2>2. call[c].req.op = "write" => call[c].req.dirs \in BOOLEAN
    BY <1>2, RequestTexts
  <2>3. ASSUME call[c].req.op = "write" PROVE PreviewRefused(call[c].req, call[c].snap, call[c].snapParent)
    BY <1>2, <2>1, <2>2, <2>3 DEF PreviewRefused
  <2>4. ASSUME call[c].req.op = "edit", IsText(call[c].snap) PROVE FALSE
    <3>1. IsText(call[c].snap) /\ parent = call[c].snapParent
      BY <2>1, <2>4, <1>2
    <3> QED
      BY <3>1, <1>2, <2>1 DEF IsText
  <2>5. call'[c].res.ok = FALSE /\ call'[c].res.n = 0
    BY <1>4, AnswersType
  <2>6. call'[c].req.op = "write" => PreviewRefused(call'[c].req, call'[c].snap, call'[c].snapParent)
    BY <1>4, <2>3
  <2>7. call'[c].req.op = "edit" => ~IsText(call'[c].snap)
    BY <1>4, <2>4
  <2> HIDE DEF PreviewRefused
  <2> QED
    BY <2>5, <2>6, <2>7 DEF AnswerFacts
<1>11. ExactAlone(c)'
  <2>1. ~call'[c].res.ok /\ ~call'[c].fault
    BY <1>4, <1>5
  <2>2. Alone(c)' => call'[c].left = call'[c].snap
    BY <1>4, <1>9
  <2> QED
    BY <2>1, <2>2 DEF ExactAlone
<1>12. Grows(c)'
  <2>1. Started(c) /\ IsText(call[c].snap) => IsText(file)
    BY <1>2 DEF Grows
  <2> QED
    BY <1>2, <1>3, <1>4, <1>5, <2>1 DEF Grows
<1>13. AppendKept(c)' /\ DownloadJoins(c)'
  BY <1>2, <1>4, <1>5 DEF AppendKept, DownloadJoins
<1> QED
  BY <1>3, <1>6, <1>7, <1>8, <1>10, <1>11, <1>12, <1>13 DEF StepHolds, CallFacts

\* An open makes the file empty, unless it appends to one that is there.
LEMMA OpenWorks ==
  ASSUME EditInv, NEW c \in EditCalls, call[c].pc = "prepared", file # IsDirectory, parent, file' = Opened(c),
         call' = [call EXCEPT ![c].pc = "opened", ![c].at = Len(file')], parent' = parent
  PROVE  StepHolds(c)
<1>1. Underway(c)
  BY DEF Underway
<1>2. /\ EditTypeOK /\ OwnFacts(c) /\ Undisturbed(c) /\ Grows(c) /\ (file = NoFile \/ parent)
      /\ Changes(c) /\ Started(c) /\ call[c].req \in Requests /\ call[c].req.op \in {"write", "upload", "edit"}
      /\ call[c].snap \in Contents /\ call[c].snapParent \in BOOLEAN /\ parent \in BOOLEAN /\ file \in Contents
  BY <1>1, UnderwayFacts
<1>3. <<>> \in Seq(Chars) /\ <<>> \in Contents /\ IsText(<<>>)
  BY EmptySeq, TextIs DEF Contents
<1>4. file' \in Contents /\ IsText(file') /\ file' = IF file = NoFile \/ ~Appends(c) THEN <<>> ELSE file
  BY <1>2, <1>3 DEF Opened, IsText
<1>5. Len(file') \in Nat
  BY <1>4, TextIs, LenProperties
<1> DEFINE n == Len(file')
           r == [call[c] EXCEPT !.pc = "opened", !.at = n]
<1>6. call' = [call EXCEPT ![c] = r] /\ call[c] \in EditCall /\ call \in [EditCalls -> EditCall] /\ n \in Nat
  BY <1>2, <1>5 DEF EditTypeOK
<1> HIDE DEF n
<1>7. r \in EditCall /\ r.pc = "opened" /\ r.res = call[c].res /\ r.fault = call[c].fault /\ r.req = call[c].req
      /\ r.out = call[c].out /\ r.snap = call[c].snap /\ r.snapParent = call[c].snapParent /\ r.began = call[c].began
  BY <1>6 DEF EditCall
<1> HIDE DEF r
<1>8. call'[c] = r /\ call' \in [EditCalls -> EditCall] /\ \A d \in EditCalls \ {c} : call'[d] = call[d]
  BY <1>6, <1>7
<1>9. ~Done(c)
  BY DEF Done
<1>10. Advances(c)
  BY <1>2, <1>7, <1>8, <1>9 DEF Advances
<1>11. Started(c)' /\ Changes(c)' /\ (Appends(c)' <=> Appends(c)) /\ Underway(c)' /\ ~Done(c)'
  BY <1>2, <1>7, <1>8, <1>10, ChangesStay DEF Underway, Done
<1>12. FileSteps(c)
  BY <1>2, <1>4, <1>11 DEF FileSteps, FileGrows
<1>13. OwnFacts(c)'
  <2>1. Edited(c)' = Edited(c)
    BY <1>7, <1>8 DEF Edited
  <2>2. ~call[c].fault
    BY <1>2, <1>9 DEF OwnFacts
  <2> QED
    BY <1>1, <1>2, <1>7, <1>8, <1>11, <2>1, <2>2 DEF OwnFacts
<1>14. Undisturbed(c)'
  <2> SUFFICES ASSUME Alone(c)'
               PROVE  /\ parent = (call[c].snapParent \/ (call[c].req.op # "edit" /\ call[c].req.dirs))
                      /\ call[c].snap # IsDirectory
                      /\ file' = IF call[c].snap = NoFile \/ ~Appends(c) THEN <<>> ELSE call[c].snap
    BY <1>7, <1>8, <1>11 DEF Undisturbed
  <2>1. file = call[c].snap /\ parent = (call[c].snapParent \/ (call[c].req.op # "edit" /\ call[c].req.dirs))
    BY <1>1, <1>2, <1>10, AloneUnderway DEF Undisturbed
  <2> QED
    BY <2>1, <1>4
<1>15. AnswerFacts(c)' /\ ExactAlone(c)' /\ AppendKept(c)'
  BY <1>11 DEF AnswerFacts, ExactAlone, AppendKept
<1>16. Grows(c)'
  <2>1. ASSUME Appends(c), OnlyAppends(c)', IsText(call[c].snap) PROVE Len(call[c].snap) <= Len(file')
    <3>1. OnlyAppends(c)
      BY <1>1, <1>10, <2>1, AloneUnderway
    <3>2. IsText(file) /\ Len(call[c].snap) <= Len(file)
      BY <1>1, <1>2, <2>1, <3>1 DEF Grows
    <3>3. file' = file
      BY <1>4, <2>1, <3>2 DEF IsText
    <3> QED
      BY <3>2, <3>3
  <2> QED
    BY <1>2, <1>4, <1>7, <1>8, <1>11, <2>1 DEF Grows
<1>17. DownloadJoins(c)'
  BY <1>2, <1>7, <1>8 DEF DownloadJoins
<1> QED
  BY <1>10, <1>12, <1>13, <1>14, <1>15, <1>16, <1>17 DEF StepHolds, CallFacts

\* An open fails or works.
LEMMA OpenHolds ==
  ASSUME EditInv, NEW c \in EditCalls, Open(c)
  PROVE  StepHolds(c)
<1>1. parent \in BOOLEAN
  BY DEF EditInv, EditTypeOK
<1>2. CASE file = IsDirectory \/ ~parent
  BY <1>2, OpenFails DEF Open
<1>3. CASE ~(file = IsDirectory \/ ~parent)
  BY <1>3, OpenWorks DEF Open
<1> QED
  BY <1>2, <1>3


\* What a put leaves: a file that has grown when it appends and, for a call that
\* is alone, the bytes it put after what it appends to.
LEMMA PutLeaves ==
  ASSUME EditInv, NEW c \in EditCalls, call[c].pc = "opened", NEW s \in Seq(Chars)
  PROVE  /\ file \in Seq(Chars) /\ Put(s, PutAt(c)) \in Seq(Chars)
         /\ Appends(c) => Put(s, PutAt(c)) = file \o s
         /\ Alone(c) => Put(s, PutAt(c)) = file \o s
<1>1. Underway(c)
  BY DEF Underway
<1>2. EditTypeOK /\ Undisturbed(c) /\ Grows(c)
  BY <1>1, UnderwayFacts
<1>3. file \in Seq(Chars) /\ Len(file) \in Nat
  BY <1>2, TextIs, LenProperties DEF Grows, EditTypeOK
<1>4. PutAt(c) \in 0..Len(file) /\ (Appends(c) => PutAt(c) = Len(file)) /\ (~Appends(c) => PutAt(c) = 0)
  BY <1>3 DEF PutAt
<1>5. Put(s, PutAt(c)) \in Seq(Chars)
  BY <1>3, <1>4, PutType
<1>6. Appends(c) => Put(s, PutAt(c)) = file \o s
  BY <1>3, <1>4, PutAtEnd
<1>7. Alone(c) /\ ~Appends(c) => Put(s, PutAt(c)) = file \o s
  <2>1. Alone(c) /\ ~Appends(c) => file = <<>>
    BY <1>1, <1>2 DEF Undisturbed
  <2> QED
    BY <1>3, <1>4, <2>1, PutAtEnd
<1> QED
  BY <1>3, <1>5, <1>6, <1>7

\* For a call that is alone the file it opened and its bytes are what it is to leave.
LEMMA WantedIs ==
  ASSUME EditInv, NEW c \in EditCalls, call[c].pc = "opened", Alone(c)
  PROVE  Expected(call[c].req, call[c].snap) = file \o call[c].out
<1>1. Underway(c)
  BY DEF Underway
<1>2. /\ OwnFacts(c) /\ Undisturbed(c) /\ call[c].req \in Requests /\ call[c].req.op \in {"write", "upload", "edit"}
      /\ call[c].out \in Seq(Chars) /\ call[c].snap \in Contents
  BY <1>1, UnderwayFacts
<1>3. call[c].snap # IsDirectory /\ file = IF call[c].snap = NoFile \/ ~Appends(c) THEN <<>> ELSE call[c].snap
  BY <1>1, <1>2 DEF Undisturbed
<1>4. <<>> \o call[c].out = call[c].out
  BY <1>2, ConcatEmptySeq
<1>5. CASE call[c].req.op = "edit"
  <2>1. call[c].out = ApplyEdits(call[c].snap, call[c].req.pairs).s /\ ~Appends(c)
    BY <1>1, <1>2, <1>5 DEF OwnFacts, Edited, Appends
  <2> QED
    BY <1>3, <1>4, <1>5, <2>1 DEF Expected
<1>6. CASE call[c].req.op # "edit"
  <2>1. call[c].out = call[c].req.data /\ (Appends(c) <=> call[c].req.app)
    BY <1>1, <1>2, <1>6 DEF OwnFacts, Appends
  <2>2. Expected(call[c].req, call[c].snap)
          = IF call[c].req.app /\ IsText(call[c].snap) THEN call[c].snap \o call[c].out ELSE call[c].out
    BY <1>6, <2>1 DEF Expected, EncodedResult
  <2>3. CASE Appends(c) /\ call[c].snap # NoFile
    <3>1. IsText(call[c].snap) /\ file = call[c].snap
      BY <1>3, <2>3 DEF IsText
    <3> QED
      BY <2>1, <2>2, <2>3, <3>1
  <2>4. CASE ~(Appends(c) /\ call[c].snap # NoFile)
    <3>1. file = <<>> /\ ~(call[c].req.app /\ IsText(call[c].snap))
      BY <1>3, <2>1, <2>4 DEF IsText
    <3> QED
      BY <2>2, <3>1, <1>4
  <2> QED
    BY <2>3, <2>4
<1> QED
  BY <1>5, <1>6

\* A put is a step on the file, whole or in part.
LEMMA PutSteps ==
  ASSUME EditInv, NEW c \in EditCalls, call[c].pc = "opened", NEW s \in Seq(Chars), NEW result \in Answers,
         NEW fault \in BOOLEAN, Ends(c, result, Put(s, PutAt(c)), fault)
  PROVE  /\ Advances(c) /\ EndsWith(c, result, Put(s, PutAt(c)), fault) /\ FileSteps(c)
         /\ file' = Put(s, PutAt(c)) /\ IsText(file')
         /\ Done(c)' /\ Started(c)' /\ Changes(c)' /\ ~Underway(c)' /\ (Appends(c)' <=> Appends(c))
<1>1. Underway(c)
  BY DEF Underway
<1>2. /\ EditTypeOK /\ Changes(c) /\ Started(c) /\ (file = NoFile \/ parent) /\ parent \in BOOLEAN /\ file \in Contents
  BY <1>1, UnderwayFacts
<1> DEFINE new == Put(s, PutAt(c))
<1>3. file \in Seq(Chars) /\ new \in Seq(Chars) /\ (Appends(c) => new = file \o s)
  BY PutLeaves
<1>4. new \in Contents /\ IsText(new) /\ IsText(file)
  <2> HIDE DEF new
  <2>1. new \in Contents
    BY <1>3 DEF Contents
  <2> QED
    BY <1>2, <1>3, <2>1, TextIs
<1>5. Ends(c, result, new, fault)
  OBVIOUS
<1> HIDE DEF new
<1>6. Advances(c) /\ EndsWith(c, result, new, fault) /\ file' = new /\ parent' = parent
  BY <1>1, <1>4, <1>5, EndsStep
<1>7. Done(c)' /\ ~Underway(c)'
  BY <1>6 DEF EndsWith, Done, Underway
<1>8. Started(c)' /\ Changes(c)' /\ (Appends(c)' <=> Appends(c))
  BY <1>2, <1>6, ChangesStay
<1>9. FileSteps(c)
  <2>1. parent
    BY <1>2, <1>4 DEF IsText
  <2> QED
    BY <1>2, <1>3, <1>4, <1>6, <1>8, <2>1 DEF FileSteps, FileGrows
<1> QED
  BY <1>4, <1>6, <1>7, <1>8, <1>9 DEF new


\* A put that works leaves what the call is to leave.
LEMMA WriteWorks ==
  ASSUME EditInv, NEW c \in EditCalls, call[c].pc = "opened", NEW unchanged \in BOOLEAN,
         Ends(c, Result(TRUE, call[c].res.created, unchanged,
                        IF call[c].req.op = "edit" THEN call[c].res.n ELSE Len(call[c].out)),
              Put(call[c].out, PutAt(c)), FALSE)
  PROVE  StepHolds(c)
<1> DEFINE out == call[c].out
           n == IF call[c].req.op = "edit" THEN call[c].res.n ELSE Len(call[c].out)
           result == Result(TRUE, call[c].res.created, unchanged, n)
           new == Put(out, PutAt(c))
<1>1. Underway(c)
  BY DEF Underway
<1>2. /\ EditTypeOK /\ OwnFacts(c) /\ Undisturbed(c) /\ Grows(c) /\ Changes(c) /\ Started(c)
      /\ call[c].req \in Requests /\ call[c].req.op \in {"write", "upload", "edit"}
      /\ out \in Seq(Chars) /\ call[c].snap \in Contents /\ call[c].snapParent \in BOOLEAN
  BY <1>1, UnderwayFacts
<1>3. n \in Nat /\ call[c].res.created \in BOOLEAN
  BY <1>2, LenProperties DEF EditTypeOK, EditCall
<1>4. Ends(c, result, new, FALSE) /\ result = Result(TRUE, call[c].res.created, unchanged, n)
  OBVIOUS
<1>5. /\ call[c].req.op = "edit" => n = call[c].res.n
      /\ call[c].req.op # "edit" => n = Len(out)
  OBVIOUS
<1> HIDE DEF n
<1>6. result \in Answers /\ result.ok = TRUE /\ result.created = call[c].res.created /\ result.n = n
  BY <1>3 DEF Result, Answers
<1> HIDE DEF result, out
<1>7. /\ Advances(c) /\ EndsWith(c, result, new, FALSE) /\ FileSteps(c)
      /\ file' = new /\ IsText(file')
      /\ Done(c)' /\ Started(c)' /\ Changes(c)' /\ ~Underway(c)' /\ (Appends(c)' <=> Appends(c))
  BY <1>2, <1>4, <1>6, PutSteps
<1>8. /\ call'[c].pc = "done" /\ call'[c].res = result /\ call'[c].left = new /\ call'[c].fault = FALSE
      /\ call'[c].req = call[c].req /\ call'[c].snap = call[c].snap /\ call'[c].snapParent = call[c].snapParent
      /\ call'[c].out = out
  BY <1>7 DEF EndsWith, out
<1>9. file \in Seq(Chars) /\ new \in Seq(Chars) /\ (Appends(c) => new = file \o out) /\ (Alone(c) => new = file \o out)
  BY <1>2, PutLeaves
<1> HIDE DEF new
<1>10. (Alone(c)' => Alone(c)) /\ (OnlyAppends(c)' => OnlyAppends(c))
  BY <1>1, <1>7, AloneUnderway
<1>11. OwnFacts(c)'
  <2>1. Edited(c)' = Edited(c)
    BY <1>8 DEF Edited
  <2>2. /\ call[c].req.op = "edit" => IsText(call[c].snap) /\ Edited(c).ok /\ out = Edited(c).s /\ result.n = Edited(c).n
        /\ call[c].req.op # "edit" => out = call[c].req.data /\ result.created = (call[c].snap = NoFile)
    BY <1>1, <1>2, <1>5, <1>6 DEF OwnFacts, out
  <2>3. call[c].req.op # "none" /\ (~call[c].snapParent => call[c].snap = NoFile)
    BY <1>2 DEF OwnFacts
  <2> QED
    BY <1>2, <1>7, <1>8, <2>1, <2>2, <2>3 DEF OwnFacts
<1>12. Undisturbed(c)'
  BY <1>7 DEF Undisturbed
<1>13. AnswerFacts(c)'
  <2> SUFFICES ASSUME Alone(c)', call[c].req.op = "write"
               PROVE  ~PreviewRefused(call[c].req, call[c].snap, call[c].snapParent) /\ n = Len(call[c].req.data)
    <3>1. call'[c].res.ok = TRUE /\ call'[c].res.n = n
      BY <1>6, <1>8
    <3> HIDE DEF PreviewRefused
    <3> QED
      BY <1>8, <3>1 DEF AnswerFacts
  <2>1. Alone(c) /\ out = call[c].req.data /\ n = Len(out)
    BY <1>1, <1>2, <1>5, <1>10 DEF OwnFacts, out
  <2>2. CanEncode(call[c].req.data)
    BY <1>2, <2>1, CharsEncode
  <2>3. parent /\ parent = (call[c].snapParent \/ (call[c].req.op # "edit" /\ call[c].req.dirs)) /\ call[c].snap # IsDirectory
    BY <1>1, <1>2, <2>1 DEF Undisturbed
  <2> QED
    BY <2>1, <2>2, <2>3 DEF PreviewRefused
<1>14. ExactAlone(c)'
  <2> SUFFICES ASSUME Alone(c)' PROVE call'[c].left = Expected(call'[c].req, call'[c].snap)
    BY <1>6, <1>8 DEF ExactAlone
  <2>1. Expected(call[c].req, call[c].snap) = file \o out
    BY <1>10, WantedIs DEF out
  <2> QED
    BY <2>1, <1>8, <1>9, <1>10
<1>15. Grows(c)'
  BY <1>2, <1>7, <1>8 DEF Grows
<1>16. AppendKept(c)'
  <2> SUFFICES ASSUME Appends(c)', OnlyAppends(c)'
               PROVE  \E p \in 0..(Len(file') - Len(out)) :
                        /\ SubSeq(file', p + 1, p + Len(out)) = out
                        /\ IsText(call[c].snap) => p >= Len(call[c].snap)
    BY <1>8 DEF AppendKept
  <2>1. Appends(c) /\ OnlyAppends(c) /\ file' = file \o out
    BY <1>7, <1>9, <1>10
  <2> DEFINE p == Len(file)
  <2>2. p \in Nat /\ Len(out) \in Nat /\ Len(file') = p + Len(out)
    BY <1>2, <1>9, <2>1, LenProperties, ConcatProperties
  <2>3. SubSeq(file', p + 1, p + Len(out)) = out
    <3>1. 0 \in 0..Len(out)
      BY <2>2
    <3>2. SubSeq(file \o out, Len(file) + 1, Len(file) + Len(out)) = out
      BY <1>2, <1>9, <3>1, AppendedPiece
    <3> QED
      BY <3>2, <2>1
  <2>4. IsText(call[c].snap) => p >= Len(call[c].snap)
    <3>1. ASSUME IsText(call[c].snap) PROVE Len(call[c].snap) <= p /\ Len(call[c].snap) \in Nat
      BY <1>1, <1>2, <2>1, <3>1, TextIs, LenProperties DEF Grows
    <3> QED
      BY <3>1, <2>2
  <2>5. p \in 0..(Len(file') - Len(out))
    BY <2>2
  <2> HIDE DEF p
  <2> QED
    BY <2>3, <2>4, <2>5
<1>17. DownloadJoins(c)'
  BY <1>2, <1>8 DEF DownloadJoins
<1> QED
  BY <1>7, <1>11, <1>12, <1>13, <1>14, <1>15, <1>16, <1>17 DEF StepHolds, CallFacts

\* A put that fails leaves a part, and the call says that it failed.
LEMMA WriteFails ==
  ASSUME EditInv, NEW c \in EditCalls, call[c].pc = "opened", NEW k \in 0..(Len(call[c].out) - 1),
         Ends(c, NoResult, Put(SubSeq(call[c].out, 1, k), PutAt(c)), TRUE)
  PROVE  StepHolds(c)
<1> DEFINE out == call[c].out
           some == SubSeq(out, 1, k)
           new == Put(some, PutAt(c))
<1>1. Underway(c)
  BY DEF Underway
<1>2. /\ EditTypeOK /\ OwnFacts(c) /\ Grows(c) /\ Changes(c) /\ Started(c)
      /\ call[c].req \in Requests /\ call[c].req.op \in {"write", "upload", "edit"} /\ out \in Seq(Chars)
  BY <1>1, UnderwayFacts
<1>3. k \in 0..Len(out)
  BY <1>2, LenProperties
<1>4. file \in Seq(Chars)
  BY <1>2, PutLeaves
<1>5. some \in Seq(Chars) /\ IsPrefix(file \o some, file \o out)
  BY <1>2, <1>3, <1>4, AppendedPiece
<1>6. Ends(c, NoResult, new, TRUE) /\ NoResult \in Answers /\ NoResult.ok = FALSE
  BY AnswersType
<1> HIDE DEF some, out
<1>7. /\ Advances(c) /\ EndsWith(c, NoResult, new, TRUE) /\ FileSteps(c)
      /\ file' = new /\ IsText(file')
      /\ Done(c)' /\ Started(c)' /\ Changes(c)' /\ ~Underway(c)' /\ (Appends(c)' <=> Appends(c))
  BY <1>5, <1>6, PutSteps
<1>8. /\ call'[c].pc = "done" /\ call'[c].res = NoResult /\ call'[c].left = new /\ call'[c].fault = TRUE
      /\ call'[c].req = call[c].req /\ call'[c].snap = call[c].snap /\ call'[c].snapParent = call[c].snapParent
  BY <1>7 DEF EndsWith
<1>9. Alone(c) => new = file \o some
  BY <1>5, PutLeaves
<1> HIDE DEF new
<1>10. OwnFacts(c)'
  <2>1. call[c].req.op # "none" /\ (~call[c].snapParent => call[c].snap = NoFile)
    BY <1>2 DEF OwnFacts
  <2> QED
    BY <1>6, <1>7, <1>8, <2>1 DEF OwnFacts
<1>11. Undisturbed(c)' /\ AnswerFacts(c)' /\ AppendKept(c)'
  BY <1>6, <1>7, <1>8 DEF Undisturbed, AnswerFacts, AppendKept
<1>12. ExactAlone(c)'
  <2> SUFFICES ASSUME Alone(c)' PROVE IsPrefix(call'[c].left, Expected(call'[c].req, call'[c].snap))
    BY <1>6, <1>8 DEF ExactAlone
  <2>1. Alone(c)
    BY <1>1, <1>7, AloneUnderway
  <2>2. Expected(call[c].req, call[c].snap) = file \o out
    BY <2>1, WantedIs DEF out
  <2> QED
    BY <1>5, <1>8, <1>9, <2>1, <2>2
<1>13. Grows(c)'
  BY <1>2, <1>7, <1>8 DEF Grows
<1>14. DownloadJoins(c)'
  BY <1>2, <1>8 DEF DownloadJoins
<1> QED
  BY <1>7, <1>10, <1>11, <1>12, <1>13, <1>14 DEF StepHolds, CallFacts

\* A put works or fails.
LEMMA WriteHolds ==
  ASSUME EditInv, NEW c \in EditCalls, Write(c)
  PROVE  StepHolds(c)
<1> DEFINE unchanged == Put(call[c].out, PutAt(c)) = call[c].snap
           n == IF call[c].req.op = "edit" THEN call[c].res.n ELSE Len(call[c].out)
<1>1. call[c].pc = "opened"
  BY DEF Write
<1>2. \/ Ends(c, Result(TRUE, call[c].res.created, unchanged, n), Put(call[c].out, PutAt(c)), FALSE)
      \/ \E k \in 0..(Len(call[c].out) - 1) : Ends(c, NoResult, Put(SubSeq(call[c].out, 1, k), PutAt(c)), TRUE)
  BY DEF Write
<1>3. unchanged \in BOOLEAN
  OBVIOUS
<1>4. CASE Ends(c, Result(TRUE, call[c].res.created, unchanged, n), Put(call[c].out, PutAt(c)), FALSE)
  <2> HIDE DEF unchanged
  <2> QED
    BY <1>1, <1>3, <1>4, WriteWorks
<1>5. CASE \E k \in 0..(Len(call[c].out) - 1) : Ends(c, NoResult, Put(SubSeq(call[c].out, 1, k), PutAt(c)), TRUE)
  BY <1>1, <1>5, WriteFails
<1> QED
  BY <1>2, <1>4, <1>5


-----------------------------------------------------------------------------
(* A download reads the file chunk after chunk.                            *)

\* What is known of a download that is not over.
LEMMA DownloadFacts ==
  ASSUME EditInv, NEW c \in EditCalls, call[c].pc \in {"stat", "read"}
  PROVE  /\ EditTypeOK /\ OwnFacts(c) /\ Grows(c) /\ DownloadJoins(c) /\ (file = NoFile \/ parent) /\ parent \in BOOLEAN
         /\ Started(c) /\ ~Done(c) /\ ~Changes(c) /\ call[c].req.op = "download" /\ call[c].req.max \in Nat
         /\ file \in Seq(Chars) /\ Len(file) \in Nat /\ IsText(file) /\ file \in Contents
         /\ call[c].snap \in Seq(Chars) /\ Len(call[c].snap) \in Nat /\ IsText(call[c].snap)
         /\ call[c] \in EditCall /\ call \in [EditCalls -> EditCall] /\ call[c].began < Moment
<1>1. /\ EditTypeOK /\ OwnFacts(c) /\ Grows(c) /\ DownloadJoins(c) /\ (file = NoFile \/ parent)
      /\ (Started(c) => call[c].began < Moment)
  BY DEF EditInv, CallInv
<1>2. call[c] \in EditCall /\ call \in [EditCalls -> EditCall] /\ file \in Contents /\ parent \in BOOLEAN
  BY <1>1 DEF EditTypeOK
<1>3. Started(c) /\ ~Done(c) /\ call[c].req.op = "download" /\ IsText(call[c].snap)
  BY <1>1 DEF Started, Done, OwnFacts
<1>4. ~Changes(c) /\ IsText(file)
  BY <1>1, <1>3 DEF Changes, Grows
<1>5. call[c].req \in Requests
  <2>1. call[c].req \in Requests \cup {Idle.req}
    BY <1>2 DEF EditCall
  <2>2. Idle.req.op = "none"
    BY DEF Idle
  <2> QED
    BY <2>1, <2>2, <1>3
<1>6. call[c].req.max \in Nat
  BY <1>3, <1>5, RequestTexts
<1>7. file \in Seq(Chars) /\ call[c].snap \in Seq(Chars)
  BY <1>2, <1>3, <1>4, TextIs DEF EditCall
<1>8. Len(file) \in Nat /\ Len(call[c].snap) \in Nat
  BY <1>7, LenProperties
<1> QED
  BY <1>1, <1>2, <1>3, <1>4, <1>6, <1>7, <1>8

\* The size is read before the bytes.
LEMMA StatChunkHolds ==
  ASSUME EditInv, NEW c \in EditCalls, StatChunk(c)
  PROVE  StepHolds(c)
<1>1. call[c].pc = "stat" /\ file' = file /\ parent' = parent /\ call' = [call EXCEPT ![c].pc = "read", ![c].at = Len(file)]
  BY DEF StatChunk
<1>2. /\ EditTypeOK /\ OwnFacts(c) /\ Grows(c) /\ DownloadJoins(c) /\ (file = NoFile \/ parent) /\ parent \in BOOLEAN
      /\ Started(c) /\ ~Done(c) /\ ~Changes(c) /\ call[c].req.op = "download" /\ file \in Contents
      /\ file \in Seq(Chars) /\ Len(file) \in Nat /\ IsText(file)
      /\ call[c].snap \in Seq(Chars) /\ Len(call[c].snap) \in Nat /\ IsText(call[c].snap)
      /\ call[c] \in EditCall /\ call \in [EditCalls -> EditCall] /\ call[c].began < Moment
  BY <1>1, DownloadFacts
<1> DEFINE n == Len(file)
           r == [call[c] EXCEPT !.pc = "read", !.at = n]
<1>3. call' = [call EXCEPT ![c] = r] /\ n \in Nat
  BY <1>1, <1>2
<1>4. n = Len(file)
  OBVIOUS
<1> HIDE DEF n
<1>5. r \in EditCall /\ r.pc = "read" /\ r.at = n /\ r.got = call[c].got /\ r.fault = call[c].fault /\ r.req = call[c].req
      /\ r.snap = call[c].snap /\ r.snapParent = call[c].snapParent /\ r.began = call[c].began
  BY <1>2, <1>3 DEF EditCall
<1> HIDE DEF r
<1>6. call'[c] = r /\ call' \in [EditCalls -> EditCall] /\ \A d \in EditCalls \ {c} : call'[d] = call[d]
  BY <1>2, <1>3, <1>5
<1>7. Advances(c)
  BY <1>2, <1>5, <1>6 DEF Advances
<1>8. ~Changes(c)' /\ Started(c)' /\ ~Done(c)' /\ ~Underway(c)'
  BY <1>2, <1>5, <1>6, <1>7, ChangesStay DEF Done, Underway
<1>9. FileSteps(c)
  BY <1>1, <1>2, <1>8 DEF FileSteps
<1>10. OwnFacts(c)'
  BY <1>2, <1>5, <1>6, <1>8 DEF OwnFacts
<1>11. Undisturbed(c)' /\ AnswerFacts(c)' /\ ExactAlone(c)' /\ AppendKept(c)'
  BY <1>8 DEF Undisturbed, AnswerFacts, ExactAlone, AppendKept
<1>12. OnlyAppends(c)' => OnlyAppends(c)
  BY <1>2, <1>7, OnlyAppendsBefore
<1>13. Grows(c)'
  <2>1. ASSUME OnlyAppends(c)' PROVE IsPrefix(call[c].snap, file) /\ Len(call[c].snap) <= n /\ n <= Len(file)
    <3>1. IsPrefix(call[c].snap, file)
      BY <1>2, <1>12, <2>1 DEF Grows
    <3>2. Len(call[c].snap) <= Len(file)
      BY <1>2, <3>1, PrefixIs
    <3> QED
      BY <1>2, <1>4, <3>1, <3>2
  <2> QED
    BY <1>1, <1>2, <1>5, <1>6, <1>8, <2>1 DEF Grows
<1>14. DownloadJoins(c)'
  BY <1>1, <1>2, <1>5, <1>6, <1>8, <1>12 DEF DownloadJoins
<1> QED
  BY <1>7, <1>9, <1>10, <1>11, <1>13, <1>14 DEF StepHolds, CallFacts

\* The chunk after a beginning of a file makes a longer beginning.
LEMMA NextChunk ==
  ASSUME NEW t \in Seq(Chars), NEW g \in Seq(Chars), NEW e \in 0..Len(t)
  PROVE  /\ SubSeq(t, Len(g) + 1, e) \in Seq(Chars)
         /\ IsPrefix(g, t) => IsPrefix(g \o SubSeq(t, Len(g) + 1, e), t)
<1> DEFINE a == Len(g) + 1
           u == SubSeq(t, a, e)
           v == g \o u
<1>1. Len(t) \in Nat /\ Len(g) \in Nat /\ a \in Int /\ e \in Int
  BY LenProperties
<1>2. \A i \in a..e : t[i] \in Chars
  <2>1. \A i \in a..e : i \in 1..Len(t)
    BY <1>1
  <2> QED
    BY <2>1, ElementOfSeq
<1>3. a - 1 = Len(g)
  BY <1>1
<1> HIDE DEF a
<1>4. u \in Seq(Chars) /\ Len(u) = (IF a <= e THEN e - a + 1 ELSE 0) /\ \A i \in 1..(e - a + 1) : u[i] = t[a + i - 1]
  BY <1>1, <1>2, SubSeqProperties
<1> HIDE DEF u
<1>5. v \in Seq(Chars) /\ Len(v) = Len(g) + Len(u)
      /\ \A i \in 1..(Len(g) + Len(u)) : v[i] = IF i <= Len(g) THEN g[i] ELSE u[i - Len(g)]
  BY <1>4, ConcatProperties
<1> HIDE DEF v
<1>6. ASSUME IsPrefix(g, t) PROVE IsPrefix(v, t)
  <2>1. Len(g) <= Len(t) /\ \A i \in 1..Len(g) : g[i] = t[i]
    BY <1>6, PrefixIs
  <2>2. Len(v) <= Len(t) /\ Len(u) \in Nat
    BY <1>1, <1>3, <1>4, <1>5, <2>1
  <2>3. ASSUME NEW i \in 1..Len(v) PROVE v[i] = t[i]
    <3>1. i \in 1..(Len(g) + Len(u))
      BY <1>5
    <3>2. CASE i <= Len(g)
      BY <1>1, <1>5, <2>1, <3>1, <3>2
    <3>3. CASE ~(i <= Len(g))
      <4> DEFINE j == i - Len(g)
      <4>1. j \in 1..(e - a + 1) /\ a + j - 1 = i
        BY <1>1, <1>3, <1>4, <2>2, <3>1, <3>3
      <4>2. v[i] = u[j]
        BY <1>5, <3>1, <3>3
      <4> HIDE DEF j
      <4>3. u[j] = t[a + j - 1]
        BY <1>4, <4>1
      <4> QED
        BY <4>1, <4>2, <4>3
    <3> QED
      BY <3>2, <3>3
  <2> QED
    BY <1>5, <2>2, <2>3, PrefixIs
<1> QED
  BY <1>4, <1>6 DEF a, u, v

\* A chunk starts where the one before ended.
LEMMA ReadChunkHolds ==
  ASSUME EditInv, NEW c \in EditCalls, ReadChunk(c)
  PROVE  StepHolds(c)
<1> DEFINE off == Len(call[c].got)
           end == IF off + call[c].req.max < Len(file) THEN off + call[c].req.max ELSE Len(file)
           chunk == SubSeq(file, off + 1, end)
           got == call[c].got \o chunk
           eof == off + Len(chunk) >= call[c].at
           m == Moment
           r == [call[c] EXCEPT !.got = got, !.left = file, !.pc = IF eof THEN "done" ELSE "stat", !.ended = m,
                                !.res = [call[c].res EXCEPT !.ok = eof]]
<1>1. call[c].pc = "read" /\ file' = file /\ parent' = parent
  BY DEF ReadChunk
<1>2. /\ EditTypeOK /\ OwnFacts(c) /\ Grows(c) /\ DownloadJoins(c) /\ (file = NoFile \/ parent) /\ parent \in BOOLEAN
      /\ Started(c) /\ ~Done(c) /\ ~Changes(c) /\ call[c].req.op = "download" /\ call[c].req.max \in Nat
      /\ file \in Seq(Chars) /\ Len(file) \in Nat /\ IsText(file) /\ file \in Contents
      /\ call[c].snap \in Seq(Chars) /\ Len(call[c].snap) \in Nat /\ IsText(call[c].snap)
      /\ call[c] \in EditCall /\ call \in [EditCalls -> EditCall] /\ call[c].began < Moment
  BY <1>1, DownloadFacts
<1>3. call[c].got \in Seq(Chars) /\ off \in Nat /\ m \in Nat /\ call[c].at \in Nat /\ call[c].res \in Answers
  BY <1>2, LenProperties, MomentIsNat DEF EditCall, Answers
<1>4. end \in 0..Len(file)
  BY <1>2, <1>3
<1>5. chunk \in Seq(Chars) /\ (IsPrefix(call[c].got, file) => IsPrefix(got, file))
  <2> HIDE DEF end
  <2> QED
    BY <1>2, <1>3, <1>4, NextChunk
<1>6. call' = [call EXCEPT ![c] = r]
  BY <1>2 DEF ReadChunk, AtEof, EditCall
<1> HIDE DEF chunk
<1>7. got \in Seq(Chars) /\ Len(got) = off + Len(chunk) /\ eof \in BOOLEAN /\ Len(chunk) \in Nat
  BY <1>3, <1>5, ConcatProperties, LenProperties
<1>8. eof => Len(got) >= call[c].at
  BY <1>7
<1> HIDE DEF got, eof, m
<1> DEFINE res == [call[c].res EXCEPT !.ok = eof]
<1>9. res \in Answers
  BY <1>3, <1>7 DEF Answers
<1>10. r = [call[c] EXCEPT !.got = got, !.left = file, !.pc = IF eof THEN "done" ELSE "stat", !.ended = m, !.res = res]
  OBVIOUS
<1> HIDE DEF res
<1>11. r \in EditCall /\ r.pc = (IF eof THEN "done" ELSE "stat") /\ r.got = got /\ r.fault = call[c].fault
       /\ r.req = call[c].req /\ r.snap = call[c].snap /\ r.snapParent = call[c].snapParent /\ r.began = call[c].began
       /\ r.ended = m
  <2> HIDE DEF r
  <2> QED
    BY <1>2, <1>3, <1>7, <1>9, <1>10 DEF EditCall, Answers
<1> HIDE DEF r
<1>12. call'[c] = r /\ call' \in [EditCalls -> EditCall] /\ \A d \in EditCalls \ {c} : call'[d] = call[d]
  BY <1>2, <1>6, <1>11
<1>13. Advances(c)
  BY <1>2, <1>3, <1>11, <1>12 DEF Advances, m
<1>14. ~Changes(c)' /\ Started(c)' /\ (Done(c)' <=> eof) /\ ~Underway(c)'
  BY <1>2, <1>11, <1>12, <1>13, ChangesStay DEF Done, Underway
<1>15. FileSteps(c)
  BY <1>1, <1>2, <1>14 DEF FileSteps
<1>16. OwnFacts(c)'
  <2>1. ~call'[c].fault
    BY <1>2, <1>11, <1>12 DEF OwnFacts
  <2> QED
    BY <1>2, <1>11, <1>12, <1>14, <2>1 DEF OwnFacts
<1>17. Undisturbed(c)' /\ AnswerFacts(c)' /\ ExactAlone(c)' /\ AppendKept(c)'
  BY <1>14 DEF Undisturbed, AnswerFacts, ExactAlone, AppendKept
<1>18. OnlyAppends(c)' => OnlyAppends(c)
  BY <1>2, <1>13, OnlyAppendsBefore
<1>19. Grows(c)'
  BY <1>1, <1>2, <1>11, <1>12, <1>14, <1>18 DEF Grows
<1>20. DownloadJoins(c)'
  <2> SUFFICES ASSUME OnlyAppends(c)'
               PROVE  IsPrefix(got, file) /\ (eof => IsPrefix(call[c].snap, got))
    BY <1>1, <1>11, <1>12, <1>14 DEF DownloadJoins
  <2>1. IsPrefix(call[c].got, file) /\ IsPrefix(call[c].snap, file) /\ Len(call[c].snap) <= call[c].at
    BY <1>1, <1>2, <1>18 DEF DownloadJoins, Grows
  <2>2. IsPrefix(got, file)
    BY <1>5, <2>1
  <2>3. ASSUME eof PROVE IsPrefix(call[c].snap, got)
    <3>1. Len(call[c].snap) <= Len(got)
      BY <1>2, <1>3, <1>7, <1>8, <2>1, <2>3, LenProperties
    <3> QED
      BY <1>2, <1>7, <2>1, <2>2, <3>1, PrefixesNest
  <2> QED
    BY <2>2, <2>3
<1> QED
  BY <1>13, <1>15, <1>16, <1>17, <1>19, <1>20 DEF StepHolds, CallFacts


-----------------------------------------------------------------------------
(* The theorem.                                                            *)

\* A step that holds for its own call holds for all.
LEMMA StepPreserves ==
  ASSUME EditInv, NEW c \in EditCalls, StepHolds(c)
  PROVE  EditInv'
<1>1. Advances(c) /\ FileSteps(c) /\ CallFacts(c)' /\ EditTypeOK
  BY DEF StepHolds, EditInv
<1>2. \A d \in EditCalls : (Started(d)' => call'[d].began < Moment') /\ (Done(d)' => call'[d].ended < Moment')
  BY <1>1, TimesPass DEF EditInv, CallInv
<1>3. ASSUME NEW d \in EditCalls PROVE CallFacts(d)'
  <2>1. CASE d = c
    BY <2>1, <1>1
  <2>2. CASE d # c
    <3>1. OwnFacts(d)'
      BY <1>1, <2>2, OthersKeepOwn DEF EditInv, CallInv
    <3>2. (Undisturbed(d) /\ AnswerFacts(d) /\ ExactAlone(d))' /\ (Grows(d) /\ AppendKept(d) /\ DownloadJoins(d))'
      BY <1>1, <2>2, OthersKeepAlone, OthersKeepFile
    <3> QED
      BY <3>1, <3>2 DEF CallFacts
  <2> QED
    BY <2>1, <2>2
<1>4. \A d \in EditCalls : CallInv(d)'
  BY <1>2, <1>3 DEF CallInv, CallFacts
<1>5. EditTypeOK' /\ (file' = NoFile \/ parent')
  BY <1>1 DEF EditTypeOK, Advances, FileSteps
<1> QED
  BY <1>4, <1>5 DEF EditInv

\* Every step holds for the call that takes it.
LEMMA EditNextPreserves ==
  ASSUME EditInv, EditNext
  PROVE  EditInv'
<1>1. PICK c \in EditCalls :
        \/ call[c].pc = "idle" /\ \E req \in Requests :
             \/ PreviewWrite(c, req) \/ StartWrite(c, req) \/ StartUpload(c, req)
             \/ StartEdit(c, req) \/ StartDownload(c, req)
        \/ Open(c) \/ Write(c) \/ StatChunk(c) \/ ReadChunk(c)
  BY DEF EditNext
<1>2. CASE call[c].pc = "idle" /\ \E req \in Requests :
             \/ PreviewWrite(c, req) \/ StartWrite(c, req) \/ StartUpload(c, req)
             \/ StartEdit(c, req) \/ StartDownload(c, req)
  <2>1. ~Started(c)
    BY <1>2 DEF Started
  <2>2. StepHolds(c)
    BY <1>2, <2>1, PreviewWriteHolds, StartWriteHolds, StartUploadHolds, StartEditHolds, StartDownloadHolds
  <2> QED
    BY <2>2, StepPreserves
<1>3. CASE Open(c)
  BY <1>3, OpenHolds, StepPreserves
<1>4. CASE Write(c)
  BY <1>4, WriteHolds, StepPreserves
<1>5. CASE StatChunk(c)
  BY <1>5, StatChunkHolds, StepPreserves
<1>6. CASE ReadChunk(c)
  BY <1>6, ReadChunkHolds, StepPreserves
<1> QED
  BY <1>1, <1>2, <1>3, <1>4, <1>5, <1>6

\* Before any call has begun there is nothing to show but types.
LEMMA EditStartsHold ==
  ASSUME NEW texts \in SUBSET Seq(Chars), EditStarts(texts)
  PROVE  EditInv
<1>1. file \in Contents /\ parent \in BOOLEAN /\ (file = NoFile \/ parent)
  BY DEF EditStarts, Contents
<1>2. Idle \in EditCall
  <2>1. <<>> \in Text /\ <<>> \in Seq(Chars) /\ NoResult \in Answers /\ NoFile \in Contents
    BY EmptySeq, AnswersType DEF Text, Contents
  <2>2. Idle.req \in Requests \cup {Idle.req}
    OBVIOUS
  <2>3. Idle.req = [op |-> "none"]
    BY DEF Idle
  <2> QED
    BY <2>1, <2>2, <2>3 DEF Idle, EditCall, Answers
<1>3. EditTypeOK
  BY <1>1, <1>2 DEF EditStarts, EditTypeOK
<1>4. ASSUME NEW c \in EditCalls PROVE CallInv(c)
  <2>1. call[c].pc = "idle" /\ call[c].req.op = "none" /\ call[c].fault = FALSE
    BY DEF EditStarts, Idle
  <2>2. ~Started(c) /\ ~Done(c) /\ ~Changes(c) /\ ~Underway(c)
    BY <2>1 DEF Started, Done, Changes, Underway
  <2> QED
    BY <2>1, <2>2 DEF CallInv, OwnFacts, Undisturbed, AnswerFacts, ExactAlone, Grows, AppendKept, DownloadJoins
<1> QED
  BY <1>1, <1>3, <1>4 DEF EditInv

\* The invariant behind CallsAreExact: what each call of fileops.go knows of
\* itself, of the file while no other call disturbs it, and of a file that only
\* grows.
THEOREM EditInductive ==
  ASSUME NEW texts \in SUBSET Seq(Chars)
  PROVE  EditSpec(texts) => []EditInv
<1>1. EditStarts(texts) => EditInv
  BY EditStartsHold
<1>2. ASSUME EditInv, [EditNext]_editVars PROVE EditInv'
  <2>1. CASE EditNext
    BY <1>2, <2>1, EditNextPreserves
  <2>2. CASE UNCHANGED editVars
    <3>1. file' = file /\ parent' = parent /\ call' = call
      BY <2>2 DEF editVars
    <3>2. ASSUME NEW c \in EditCalls
          PROVE  /\ Started(c)' = Started(c) /\ Done(c)' = Done(c) /\ Changes(c)' = Changes(c) /\ Appends(c)' = Appends(c)
                 /\ Underway(c)' = Underway(c) /\ Alone(c)' = Alone(c) /\ OnlyAppends(c)' = OnlyAppends(c)
                 /\ Edited(c)' = Edited(c)
      BY <3>1 DEF Started, Done, Changes, Appends, Underway, Alone, OnlyAppends, Before, Edited
    <3>3. Moment' = Moment
      BY <3>1 DEF Moment
    <3>4. ASSUME NEW c \in EditCalls, CallInv(c) PROVE CallInv(c)'
      <4>1. OwnFacts(c)' /\ Undisturbed(c)' /\ AnswerFacts(c)'
        BY <3>1, <3>2, <3>4 DEF CallInv, OwnFacts, Undisturbed, AnswerFacts
      <4>2. ExactAlone(c)' /\ Grows(c)' /\ AppendKept(c)' /\ DownloadJoins(c)'
        BY <3>1, <3>2, <3>4 DEF CallInv, ExactAlone, Grows, AppendKept, DownloadJoins
      <4> QED
        BY <3>1, <3>2, <3>3, <3>4, <4>1, <4>2 DEF CallInv
    <3> QED
      BY <1>2, <3>1, <3>4 DEF EditInv, EditTypeOK
  <2> QED
    BY <1>2, <2>1, <2>2
<1> QED
  BY <1>1, <1>2, PTL DEF EditSpec

\* A dry run answers as the call would.
LEMMA PreviewsPredict ==
  ASSUME EditInv
  PROVE  DryRunPredicts
<1> SUFFICES ASSUME NEW c \in EditCalls, NEW d \in EditCalls,
                    Done(c), Done(d), ~Changes(c), Changes(d), Alone(d), ~call[d].fault,
                    call[c].req.op \in {"write", "edit"}, call[d].req.op = call[c].req.op,
                    call[c].req = [call[d].req EXCEPT !.dry = TRUE],
                    call[c].snap = call[d].snap, call[c].snapParent = call[d].snapParent
             PROVE  IF call[d].res.ok \/ call[d].req.op = "write"
                    THEN /\ call[c].res.ok = call[d].res.ok
                         /\ call[c].res.n = call[d].res.n
                         /\ call[d].req.op = "write" /\ call[d].res.ok =>
                              call[c].res.created = call[d].res.created /\ call[c].res.unchanged = (call[d].left = call[d].snap)
                    ELSE call[c].res.ok => ~CanEncode(Expected(call[d].req, call[d].snap))
  BY DEF DryRunPredicts
<1>1. OwnFacts(c) /\ OwnFacts(d) /\ AnswerFacts(d) /\ ExactAlone(d) /\ call[d] \in EditCall /\ call[c] \in EditCall
  BY DEF EditInv, CallInv, EditTypeOK
<1>2. Started(c) /\ Started(d)
  BY DEF Done, Started
<1>3. call[d].req \in Requests
  <2>1. call[d].req \in Requests \cup {Idle.req}
    BY <1>1 DEF EditCall
  <2>2. Idle.req.op = "none"
    BY DEF Idle
  <2> QED
    BY <2>1, <2>2
<1>4. CASE call[d].req.op = "write"
  <2> DEFINE q == call[d].req
             old == call[d].snap
             dir == call[d].snapParent
  <2>1. call[c].req.data = q.data /\ call[c].req.app = q.app /\ call[c].req.dirs = q.dirs
    <3>1. q \in [op : {"write"}, data : Texts, app : BOOLEAN, dirs : BOOLEAN, dry : BOOLEAN]
      BY <1>3, <1>4 DEF Requests
    <3> HIDE DEF q
    <3>2. call[c].req = [q EXCEPT !.dry = TRUE]
      BY DEF q
    <3> QED
      BY <3>1, <3>2
  <2>2. call[c].res = Preview(call[c].req, old, dir)
    BY <1>1, <1>2, <1>4 DEF OwnFacts
  <2>3. Preview(call[c].req, old, dir) = Preview(q, old, dir)
    BY <2>1 DEF Preview, PreviewRefused
  <2>4. call[d].res.ok = ~PreviewRefused(q, old, dir) /\ call[d].res.n = IF call[d].res.ok THEN Len(q.data) ELSE 0
    BY <1>1, <1>4 DEF AnswerFacts
  <2>5. CASE PreviewRefused(q, old, dir)
    <3>1. call[c].res = NoResult /\ call[d].res.ok = FALSE /\ call[d].res.n = 0
      BY <2>2, <2>3, <2>4, <2>5 DEF Preview
    <3> QED
      BY <3>1, <1>4, AnswersType
  <2>6. CASE ~PreviewRefused(q, old, dir)
    <3>1. call[d].res.ok = TRUE /\ call[d].res.n = Len(q.data)
      BY <2>4, <2>6
    <3>2. call[c].res = Result(TRUE, old = NoFile, old # NoFile /\ EncodedResult(old, q.data, q.app) = old, Len(q.data))
      BY <2>2, <2>3, <2>6 DEF Preview
    <3>3. call[c].res.ok = TRUE /\ call[c].res.n = Len(q.data) /\ call[c].res.created = (old = NoFile)
          /\ call[c].res.unchanged = (old # NoFile /\ EncodedResult(old, q.data, q.app) = old)
      BY <3>2 DEF Result
    <3>4. call[d].res.created = (old = NoFile) /\ call[d].out = q.data /\ call[d].out \in Seq(Chars)
      BY <1>1, <1>4, <3>1 DEF OwnFacts
    <3>5. call[d].left = EncodedResult(old, q.data, q.app)
      BY <1>1, <1>4, <3>1 DEF ExactAlone, Expected
    <3>6. old = NoFile => EncodedResult(old, q.data, q.app) # NoFile
      <4>1. old = NoFile => EncodedResult(old, q.data, q.app) \in Seq(Chars)
        BY <3>4 DEF EncodedResult, IsText
      <4>2. NoFile \notin Seq(Chars)
        BY TextIs DEF IsText, Contents
      <4> QED
        BY <4>1, <4>2
    <3> QED
      BY <1>4, <3>1, <3>3, <3>4, <3>5, <3>6
  <2> QED
    BY <2>5, <2>6
<1>5. CASE call[d].req.op = "edit"
  <2>1. call[c].req.pairs = call[d].req.pairs
    <3> DEFINE q == call[d].req
    <3>1. q \in [op : {"edit"}, pairs : PairLists, dry : BOOLEAN]
      BY <1>3, <1>5 DEF Requests
    <3> HIDE DEF q
    <3>2. call[c].req = [q EXCEPT !.dry = TRUE]
      BY DEF q
    <3>3. call[c].req.pairs = q.pairs
      BY <3>1, <3>2
    <3> QED
      BY <3>3 DEF q
  <2>2. Edited(c) = Edited(d)
    BY <2>1 DEF Edited
  <2>3. call[c].res = IF IsText(call[d].snap) /\ Edited(d).ok THEN Result(TRUE, FALSE, FALSE, Edited(d).n) ELSE NoResult
    BY <1>1, <1>2, <1>5, <2>2 DEF OwnFacts
  <2>4. CASE call[d].res.ok
    <3>1. IsText(call[d].snap) /\ Edited(d).ok /\ call[d].res.n = Edited(d).n
      BY <1>1, <1>5, <2>4 DEF OwnFacts
    <3>2. call[c].res.ok = TRUE /\ call[c].res.n = Edited(d).n
      BY <2>3, <3>1 DEF Result
    <3>3. call[d].res.ok = TRUE
      BY <1>1, <2>4 DEF EditCall
    <3> QED
      BY <1>5, <2>4, <3>1, <3>2, <3>3
  <2>5. CASE ~call[d].res.ok
    <3>1. ~IsText(call[d].snap) \/ ~Edited(d).ok \/ ~CanEncode(Edited(d).s)
      BY <1>1, <1>5, <2>5 DEF AnswerFacts
    <3>2. call[c].res.ok => IsText(call[d].snap) /\ Edited(d).ok
      BY <2>3, AnswersType
    <3>3. Expected(call[d].req, call[d].snap) = Edited(d).s
      BY <1>5 DEF Expected, Edited
    <3> QED
      BY <1>5, <2>5, <3>1, <3>2, <3>3
  <2> QED
    BY <2>4, <2>5
<1> QED
  BY <1>4, <1>5

\* For every number of calls on a file, every text and every list of edits: a
\* call that no other overlaps leaves exactly what it says, a dry run answers as
\* the call would, appends are never overwritten by appends, and the chunks of a
\* download join (WriteFileContent, previewWrite, EditFileContent, UploadBase64,
\* DownloadBase64).
THEOREM CallsExact ==
  ASSUME NEW texts \in SUBSET Seq(Chars)
  PROVE  EditSpec(texts) => []CallsAreExact
<1>1. EditInv => CallsAreExact
  BY PreviewsPredict DEF EditInv, CallInv, CallsAreExact
<1>2. EditSpec(texts) => []EditInv
  BY EditInductive
<1> QED
  BY <1>1, <1>2, PTL

-----------------------------------------------------------------------------
(* Sums.                                                                   *)

\* The sums of the beginnings of s.
Sums(s) ==
  {f \in [0..Len(s) -> Int] :
     f[0] = 0 /\ (\A i \in 1..Len(s) : f[i] = f[i - 1] + s[i]) /\ Total(s) = f[Len(s)]}

\* The sums of the beginnings exist, and the last of them is the total.
LEMMA SumsExist ==
  ASSUME NEW s \in Seq(Int)
  PROVE  Sums(s) # {}
<1> DEFINE n == Len(s)
           step == [p \in Int \X (1..n) |-> p[1] + s[p[2]]]
           Is(g) == g = [i \in 0..n |-> IF i = 0 THEN 0 ELSE g[i - 1] + s[i]]
           r == CHOOSE g : Is(g)
<1>1. n \in Nat /\ \A i \in 1..n : s[i] \in Int
  BY LenProperties, ElementOfSeq
<1>2. step \in [Int \X (1..n) -> Int]
  BY <1>1
<1>a. 0 \in Int
  OBVIOUS
<1>3. PICK f \in [0..n -> Int] : f[0] = 0 /\ \A i \in 1..n : f[i] = step[<<f[i - 1], i>>]
  <2> HIDE DEF n, step
  <2>1. Iterations(n, Int, 0, step) # {}
    BY <1>1, <1>2, <1>a, Iterates
  <2> QED
    BY <2>1 DEF Iterations
<1>4. \A i \in 1..n : f[i] = f[i - 1] + s[i]
  <2> TAKE i \in 1..n
  <2>1. <<f[i - 1], i>> \in Int \X (1..n)
    <3>1. i - 1 \in 0..n
      BY <1>1
    <3> QED
      BY <3>1, <1>3
  <2> HIDE DEF n
  <2> QED
    BY <2>1, <1>3
<1>5. Is(f)
  <2>1. \A i \in 0..n : f[i] = IF i = 0 THEN 0 ELSE f[i - 1] + s[i]
    BY <1>1, <1>3, <1>4
  <2> HIDE DEF n
  <2> QED
    BY <2>1, <1>3
<1>6. Is(r)
  <2> HIDE DEF Is
  <2> QED
    BY <1>5
<1>7. r[0] = 0 /\ \A i \in 1..n : r[i] = r[i - 1] + s[i]
  <2>1. \A i \in 0..n : r[i] = IF i = 0 THEN 0 ELSE r[i - 1] + s[i]
    <3> HIDE DEF r, n
    <3> QED
      BY <1>6
  <2> HIDE DEF r, n
  <2> QED
    BY <2>1, <1>1
<1>8. Total(s) = r[n]
  BY DEF Total
<1>9. r \in [0..n -> Int]
  <2> DEFINE P == {i \in 0..n : r[i] \in Int}
  <2>1. 0 \in P
    BY <1>1, <1>7
  <2>2. ASSUME NEW i \in 1..n, i - 1 \in P PROVE i \in P
    <3> HIDE DEF r, n
    <3>1. r[i - 1] \in Int /\ i \in 0..n /\ s[i] \in Int
      BY <1>1, <2>2
    <3>2. r[i] = r[i - 1] + s[i]
      BY <1>7
    <3> QED
      BY <3>1, <3>2
  <2>3. P = 0..n
    <3>1. P \in SUBSET (0..n)
      OBVIOUS
    <3> HIDE DEF P, n
    <3> QED
      BY <1>1, <2>1, <2>2, <3>1, UpTo
  <2>4. \A i \in 0..n : r[i] \in Int
    <3> HIDE DEF r, n
    <3> QED
      BY <2>3
  <2> HIDE DEF r, n
  <2>5. r = [i \in 0..n |-> r[i]]
    BY <1>6
  <2> QED
    BY <2>4, <2>5
<1> HIDE DEF r
<1> QED
  BY <1>7, <1>8, <1>9 DEF Sums

\* A sum changes with one of its terms.
LEMMA TotalChanges ==
  ASSUME NEW s \in Seq(Int), NEW t \in Seq(Int), Len(t) = Len(s), NEW k \in 1..Len(s),
         \A i \in 1..Len(s) : i # k => t[i] = s[i]
  PROVE  Total(s) \in Int /\ Total(t) = Total(s) + t[k] - s[k]
<1> DEFINE n == Len(s)
<1>1. n \in Nat /\ Len(t) = n /\ k \in 1..n /\ \A i \in 1..n : s[i] \in Int /\ t[i] \in Int
  BY LenProperties, ElementOfSeq
<1>2. PICK f \in [0..n -> Int] : f[0] = 0 /\ (\A i \in 1..n : f[i] = f[i - 1] + s[i]) /\ Total(s) = f[n]
  BY SumsExist DEF Sums
<1>3. PICK g \in [0..n -> Int] : g[0] = 0 /\ (\A i \in 1..n : g[i] = g[i - 1] + t[i]) /\ Total(t) = g[n]
  BY <1>1, SumsExist DEF Sums
<1> HIDE DEF n
<1> DEFINE P == {i \in 0..n : g[i] = f[i] + IF i < k THEN 0 ELSE t[k] - s[k]}
<1>4. 0 \in P
  BY <1>1, <1>2, <1>3
<1>5. ASSUME NEW i \in 1..n, i - 1 \in P PROVE i \in P
  <2>1. g[i - 1] = f[i - 1] + IF i - 1 < k THEN 0 ELSE t[k] - s[k]
    BY <1>5
  <2>2. g[i] = g[i - 1] + t[i] /\ f[i] = f[i - 1] + s[i] /\ f[i - 1] \in Int /\ i \in 0..n /\ f[i] \in Int
    BY <1>1, <1>2, <1>3
  <2>3. i # k => t[i] = s[i]
    BY DEF n
  <2>4. s[i] \in Int /\ t[i] \in Int /\ s[k] \in Int /\ t[k] \in Int /\ k \in Int
    BY <1>1
  <2>5. g[i] = f[i] + IF i < k THEN 0 ELSE t[k] - s[k]
    <3>1. CASE i < k
      BY <3>1, <2>1, <2>2, <2>3, <2>4
    <3>2. CASE i = k
      BY <3>2, <2>1, <2>2, <2>3, <2>4
    <3>3. CASE i > k
      <4>1. t[i] = s[i] /\ ~(i - 1 < k) /\ ~(i < k)
        BY <3>3, <2>3, <2>4
      <4>2. g[i - 1] = f[i - 1] + (t[k] - s[k])
        BY <4>1, <2>1
      <4>3. g[i] = f[i] + (t[k] - s[k])
        <5> DEFINE d == t[k] - s[k]
        <5>1. d \in Int /\ g[i - 1] = f[i - 1] + d
          BY <2>4, <4>2
        <5>2. g[i] = (f[i - 1] + d) + s[i] /\ f[i] = f[i - 1] + s[i] /\ f[i - 1] \in Int /\ s[i] \in Int
          BY <2>2, <2>4, <4>1, <5>1
        <5> HIDE DEF d
        <5>3. g[i] = f[i] + d
          BY <5>1, <5>2
        <5> QED
          BY <5>3 DEF d
      <4> QED
        BY <4>1, <4>3
    <3> QED
      BY <3>1, <3>2, <3>3, <2>4
  <2> QED
    BY <2>2, <2>5
<1>6. P = 0..n
  <2>1. P \in SUBSET (0..n)
    OBVIOUS
  <2> HIDE DEF P
  <2> QED
    BY <1>1, <1>4, <1>5, <2>1, UpTo
<1>7. g[n] = f[n] + IF n < k THEN 0 ELSE t[k] - s[k]
  <2>1. n \in P
    <3> HIDE DEF P
    <3> QED
      BY <1>1, <1>6
  <2> QED
    BY <2>1
<1>8. n >= k /\ f[n] \in Int /\ s[k] \in Int /\ t[k] \in Int
  BY <1>1, <1>2
<1>9. g[n] = f[n] + (t[k] - s[k])
  BY <1>1, <1>7, <1>8
<1> QED
  BY <1>2, <1>3, <1>8, <1>9

\* Nothing adds up to nothing.
LEMMA TotalZero ==
  ASSUME NEW s \in Seq(Int), \A i \in 1..Len(s) : s[i] = 0
  PROVE  Total(s) = 0
<1> DEFINE n == Len(s)
<1>1. n \in Nat
  BY LenProperties
<1>2. PICK f \in [0..n -> Int] : f[0] = 0 /\ (\A i \in 1..n : f[i] = f[i - 1] + s[i]) /\ Total(s) = f[n]
  BY SumsExist DEF Sums
<1>3. \A i \in 1..n : s[i] = 0
  OBVIOUS
<1> HIDE DEF n
<1> DEFINE P == {i \in 0..n : f[i] = 0}
<1>4. P = 0..n
  <2>1. 0 \in P
    BY <1>1, <1>2
  <2>2. ASSUME NEW i \in 1..n, i - 1 \in P PROVE i \in P
    BY <1>2, <1>3, <2>2
  <2>3. P \in SUBSET (0..n)
    OBVIOUS
  <2> HIDE DEF P
  <2> QED
    BY <1>1, <2>1, <2>2, <2>3, UpTo
<1>5. n \in P
  <2> HIDE DEF P
  <2> QED
    BY <1>1, <1>4
<1> QED
  BY <1>2, <1>5

\* Once more.
LEMMA OnceMore ==
  ASSUME NEW m \in Int, NEW k \in Int
  PROVE  m * k \in Int /\ m * (k + 1) = m * k + m
  OBVIOUS

\* One more term of a sum, which counts or not.
LEMMA OneMoreTerm ==
  ASSUME NEW m \in Nat, NEW a \in Nat, NEW b, NEW u \in Int, NEW v \in Nat, NEW counts \in BOOLEAN,
         m * a <= u, b = a + (IF counts THEN 1 ELSE 0), counts => v >= m
  PROVE  b \in Nat /\ m * b <= u + v
<1>1. m * a \in Int /\ m * (a + 1) = m * a + m
  BY OnceMore
<1> DEFINE x == m * a
<1>2. x \in Int /\ x <= u
  BY <1>1
<1>3. CASE counts
  <2>1. b = a + 1 /\ b \in Nat /\ v >= m
    BY <1>3
  <2>2. m * b = x + m
    BY <1>1, <2>1
  <2> HIDE DEF x
  <2>3. x + m <= u + v
    BY <1>2, <2>1
  <2> QED
    BY <2>1, <2>2, <2>3
<1>4. CASE ~ counts
  <2>1. b = a
    BY <1>4
  <2>2. m * b = x
    BY <2>1
  <2> HIDE DEF x
  <2>3. x <= u + v
    BY <1>2
  <2> QED
    BY <2>1, <2>2, <2>3
<1> QED
  BY <1>3, <1>4

\* A sum is at least the least of some terms, as often as there are such.
LEMMA TotalAtLeast ==
  ASSUME NEW s \in Seq(Nat), NEW T \in SUBSET (1..Len(s)), NEW m \in Nat, \A i \in T : s[i] >= m
  PROVE  Cardinality(T) \in Nat /\ Total(s) \in Int /\ m * Cardinality(T) <= Total(s)
<1> DEFINE n == Len(s)
           c(i) == Cardinality(T \cap (1..i))
<1>1. n \in Nat /\ (\A i \in 1..n : s[i] \in Nat) /\ s \in Seq(Int)
  BY LenProperties, ElementOfSeq, SeqMonotonic
<1>2. PICK f \in [0..n -> Int] : f[0] = 0 /\ (\A i \in 1..n : f[i] = f[i - 1] + s[i]) /\ Total(s) = f[n]
  BY <1>1, SumsExist DEF Sums
<1>3. \A i \in T : s[i] >= m
  OBVIOUS
<1>4. T \subseteq 1..n
  OBVIOUS
<1> HIDE DEF n
<1>5. c(0) = 0
  <2>1. T \cap (1..0) = {}
    OBVIOUS
  <2> QED
    BY <2>1, FS_EmptySet
<1>6. ASSUME NEW i \in 1..n PROVE c(i - 1) \in Nat /\ c(i) = c(i - 1) + IF i \in T THEN 1 ELSE 0
  <2>1. IsFiniteSet(T \cap (1..(i - 1)))
    <3>1. IsFiniteSet(1..(i - 1))
      BY FS_Interval
    <3> QED
      BY <3>1, FS_Subset
  <2>4. c(i - 1) \in Nat
    BY <2>1, FS_CardinalityType
  <2>2. CASE i \in T
    <3>1. T \cap (1..i) = (T \cap (1..(i - 1))) \cup {i} /\ i \notin T \cap (1..(i - 1))
      BY <2>2
    <3> QED
      BY <2>1, <2>2, <2>4, <3>1, FS_AddElement
  <2>3. CASE i \notin T
    <3>1. T \cap (1..i) = T \cap (1..(i - 1))
      BY <2>3
    <3> QED
      <4>1. c(i) = c(i - 1)
        BY <3>1
      <4> HIDE DEF c
      <4> QED
        BY <2>3, <2>4, <4>1
  <2> QED
    BY <2>2, <2>3
<1> DEFINE P == {i \in 0..n : c(i) \in Nat /\ m * c(i) <= f[i]}
<1>7. P = 0..n
  <2>1. 0 \in P
    BY <1>1, <1>2, <1>5
  <2>2. ASSUME NEW i \in 1..n, i - 1 \in P PROVE i \in P
    <3> HIDE DEF c
    <3>1. c(i - 1) \in Nat /\ m * c(i - 1) <= f[i - 1] /\ c(i) = c(i - 1) + IF i \in T THEN 1 ELSE 0
      BY <2>2, <1>6
    <3>2. f[i] = f[i - 1] + s[i] /\ f[i - 1] \in Int /\ s[i] \in Nat /\ i \in 0..n
      BY <1>1, <1>2
    <3>3. (i \in T) \in BOOLEAN /\ (i \in T => s[i] >= m)
      BY <1>3
    <3>4. c(i) \in Nat /\ m * c(i) <= f[i - 1] + s[i]
      BY ONLY <3>1, <3>2, <3>3, m \in Nat, OneMoreTerm
    <3> QED
      BY <3>2, <3>4
  <2>3. P \in SUBSET (0..n)
    OBVIOUS
  <2> HIDE DEF P
  <2> QED
    BY <1>1, <2>1, <2>2, <2>3, UpTo
<1>8. c(n) \in Nat /\ m * c(n) <= f[n]
  <2> HIDE DEF c
  <2> QED
    BY <1>1, <1>7
<1>9. T \cap (1..n) = T
  BY <1>4
<1>10. c(n) = Cardinality(T)
  BY <1>9
<1>11. f[n] \in Int
  BY <1>1, <1>2
<1> HIDE DEF c
<1> QED
  BY <1>2, <1>8, <1>10, <1>11
-----------------------------------------------------------------------------
(* Jobs.                                                                   *)

\* A pattern makes jobs.
LEMMA MatchedType ==
  ASSUME NEW p \in ReadPath
  PROVE  Matched(p) \in Seq(ReadJob)
<1> DEFINE n == Len(p.matches)
           eligible(f) == (p.dotOK \/ ~f.hidden) /\ ~f.outside /\ f.regular
           Step(x, i) == IF Len(x) < MaxReadFiles /\ eligible(p.matches[i]) THEN Append(x, Job(p.matches[i], FALSE))
                         ELSE x
           step == [q \in Seq(ReadJob) \X (1..n) |-> Step(q[1], q[2])]
           Is(g) == g = [i \in 0..n |-> IF i = 0 THEN <<>> ELSE Step(g[i - 1], i)]
           r == CHOOSE g : Is(g)
<1>1. n \in Nat /\ <<>> \in Seq(ReadJob)
  BY LenProperties DEF ReadPath
<1>2. ASSUME NEW x \in Seq(ReadJob), NEW i \in 1..n PROVE Step(x, i) \in Seq(ReadJob)
  <2>1. p.matches \in Seq(ReadFile)
    BY DEF ReadPath
  <2>2. Job(p.matches[i], FALSE) \in ReadJob
    BY <2>1, ElementOfSeq DEF Job, ReadJob
  <2> HIDE DEF eligible
  <2> QED
    BY <2>2, AppendProperties
<1>3. step \in [Seq(ReadJob) \X (1..n) -> Seq(ReadJob)]
  <2> HIDE DEF Step, n
  <2> QED
    BY <1>2
<1>4. PICK f \in [0..n -> Seq(ReadJob)] : f[0] = <<>> /\ \A i \in 1..n : f[i] = step[<<f[i - 1], i>>]
  <2> HIDE DEF n, step
  <2>1. Iterations(n, Seq(ReadJob), <<>>, step) # {}
    BY <1>1, <1>3, Iterates
  <2> QED
    BY <2>1 DEF Iterations
<1>5. \A i \in 1..n : f[i] = Step(f[i - 1], i)
  <2> TAKE i \in 1..n
  <2>1. i - 1 \in 0..n
    BY <1>1
  <2>2. <<f[i - 1], i>> \in Seq(ReadJob) \X (1..n)
    BY <2>1, <1>4
  <2> HIDE DEF n, Step
  <2> QED
    BY <2>2, <1>4
<1>6. Is(r)
  <2>1. \A i \in 0..n : f[i] = IF i = 0 THEN <<>> ELSE Step(f[i - 1], i)
    <3> HIDE DEF n, Step
    <3> QED
      BY <1>1, <1>4, <1>5
  <2>2. Is(f)
    <3> HIDE DEF n, Step
    <3> QED
      BY <2>1, <1>4
  <2> HIDE DEF Is
  <2> QED
    BY <2>2
<1>7. Matched(p) = r[n]
  BY DEF Matched
<1> HIDE DEF r, Step
<1>8. r[0] = <<>> /\ \A i \in 1..n : r[i] = Step(r[i - 1], i)
  <2>1. \A i \in 0..n : r[i] = IF i = 0 THEN <<>> ELSE Step(r[i - 1], i)
    <3> HIDE DEF n
    <3> QED
      BY <1>6
  <2> HIDE DEF n
  <2> QED
    BY <2>1, <1>1
<1> DEFINE P == {i \in 0..n : r[i] \in Seq(ReadJob)}
<1>9. P = 0..n
  <2>1. P \in SUBSET (0..n) /\ 0 \in P
    <3>1. 0 \in 0..n /\ r[0] \in Seq(ReadJob)
      BY <1>1, <1>8
    <3> HIDE DEF n
    <3> QED
      BY <3>1
  <2>2. ASSUME NEW i \in 1..n, i - 1 \in P PROVE i \in P
    <3>1. r[i - 1] \in Seq(ReadJob) /\ i \in 0..n
      BY <2>2, <1>1
    <3> QED
      BY <3>1, <1>2, <1>8
  <2> HIDE DEF P, n
  <2> QED
    BY <2>1, <2>2, <1>1, UpTo
<1> QED
  BY <1>1, <1>7, <1>9

\* A path makes jobs.
LEMMA ExpandType ==
  ASSUME NEW p \in ReadPath
  PROVE  ExpandReadPath(p) \in Seq(ReadJob)
<1>1. CASE p.glob
  <2>1. Matched(p) \in Seq(ReadJob)
    BY MatchedType
  <2>2. Job(Unmatched, TRUE) \in ReadJob
    BY DEF Job, Unmatched, ReadJob, ReadFile
  <2>3. <<Job(Unmatched, TRUE)>> \in Seq(ReadJob)
    <3> DEFINE u == Job(Unmatched, TRUE)
    <3> HIDE DEF u
    <3>1. u \in ReadJob
      BY <2>2 DEF u
    <3>2. <<u>> \in Seq(ReadJob)
      BY <3>1
    <3> QED
      BY <3>2 DEF u
  <2> QED
    BY <1>1, <2>1, <2>3 DEF ExpandReadPath
<1>2. CASE ~p.glob
  <2>1. p.matches \in Seq(ReadFile) /\ Len(p.matches) = 1
    BY <1>2 DEF ReadPath
  <2>2. p.matches[1] \in ReadFile
    BY <2>1, ElementOfSeq
  <2>3. Job(p.matches[1], p.matches[1].outside) \in ReadJob
    BY <2>2 DEF Job, ReadJob, ReadFile
  <2> QED
    BY <1>2, <2>3 DEF ExpandReadPath
<1> QED
  BY <1>1, <1>2

\* The paths of a call make jobs.
LEMMA AllJobsType ==
  ASSUME NEW paths \in Seq(ReadPath)
  PROVE  AllJobs(paths) \in Seq(ReadJob)
<1> DEFINE n == Len(paths)
           Step(x, i) == x \o ExpandReadPath(paths[i])
           step == [q \in Seq(ReadJob) \X (1..n) |-> Step(q[1], q[2])]
           Is(g) == g = [i \in 0..n |-> IF i = 0 THEN <<>> ELSE Step(g[i - 1], i)]
           r == CHOOSE g : Is(g)
<1>1. n \in Nat /\ <<>> \in Seq(ReadJob)
  BY LenProperties
<1>2. ASSUME NEW x \in Seq(ReadJob), NEW i \in 1..n PROVE Step(x, i) \in Seq(ReadJob)
  <2>1. paths[i] \in ReadPath
    BY ElementOfSeq
  <2>2. ExpandReadPath(paths[i]) \in Seq(ReadJob)
    BY <2>1, ExpandType
  <2> QED
    BY <2>2, ConcatProperties
<1>3. step \in [Seq(ReadJob) \X (1..n) -> Seq(ReadJob)]
  <2> HIDE DEF Step, n
  <2> QED
    BY <1>2
<1>4. PICK f \in [0..n -> Seq(ReadJob)] : f[0] = <<>> /\ \A i \in 1..n : f[i] = step[<<f[i - 1], i>>]
  <2> HIDE DEF n, step
  <2>1. Iterations(n, Seq(ReadJob), <<>>, step) # {}
    BY <1>1, <1>3, Iterates
  <2> QED
    BY <2>1 DEF Iterations
<1>5. \A i \in 1..n : f[i] = Step(f[i - 1], i)
  <2> TAKE i \in 1..n
  <2>1. i - 1 \in 0..n
    BY <1>1
  <2>2. <<f[i - 1], i>> \in Seq(ReadJob) \X (1..n)
    BY <2>1, <1>4
  <2> HIDE DEF n, Step
  <2> QED
    BY <2>2, <1>4
<1>6. Is(r)
  <2>1. \A i \in 0..n : f[i] = IF i = 0 THEN <<>> ELSE Step(f[i - 1], i)
    <3> HIDE DEF n, Step
    <3> QED
      BY <1>1, <1>4, <1>5
  <2>2. Is(f)
    <3> HIDE DEF n, Step
    <3> QED
      BY <2>1, <1>4
  <2> HIDE DEF Is
  <2> QED
    BY <2>2
<1>7. AllJobs(paths) = r[n]
  BY DEF AllJobs
<1> HIDE DEF r, Step
<1>8. r[0] = <<>> /\ \A i \in 1..n : r[i] = Step(r[i - 1], i)
  <2>1. \A i \in 0..n : r[i] = IF i = 0 THEN <<>> ELSE Step(r[i - 1], i)
    <3> HIDE DEF n
    <3> QED
      BY <1>6
  <2> HIDE DEF n
  <2> QED
    BY <2>1, <1>1
<1> DEFINE P == {i \in 0..n : r[i] \in Seq(ReadJob)}
<1>9. P = 0..n
  <2>1. P \in SUBSET (0..n) /\ 0 \in P
    <3>1. 0 \in 0..n /\ r[0] \in Seq(ReadJob)
      BY <1>1, <1>8
    <3> HIDE DEF n
    <3> QED
      BY <3>1
  <2>2. ASSUME NEW i \in 1..n, i - 1 \in P PROVE i \in P
    <3>1. r[i - 1] \in Seq(ReadJob) /\ i \in 0..n
      BY <2>2, <1>1
    <3> QED
      BY <3>1, <1>2, <1>8
  <2> HIDE DEF P, n
  <2> QED
    BY <2>1, <2>2, <1>1, UpTo
<1> QED
  BY <1>1, <1>7, <1>9

\* So do those that are read.
LEMMA JobsType ==
  ASSUME NEW paths \in Seq(ReadPath)
  PROVE  Jobs(paths) \in Seq(ReadJob)
<1> DEFINE s == AllJobs(paths)
           n == Lower(Len(s), MaxReadFiles)
<1>1. s \in Seq(ReadJob) /\ MaxReadFiles \in Nat /\ Len(s) \in Nat
  BY AllJobsType, LenProperties, ReadFilesAssumption
<1> HIDE DEF s
<1>2. n \in 0..Len(s)
  BY <1>1 DEF Lower
<1> HIDE DEF n
<1>3. \A i \in 1..n : i \in 1..Len(s)
  BY <1>1, <1>2
<1>4. SubSeq(s, 1, n) \in Seq(ReadJob)
  BY <1>1, <1>2, <1>3, SubSeqProperties
<1> QED
  BY <1>4 DEF Jobs, s, n

-----------------------------------------------------------------------------
(* Shares.                                                                 *)

\* A quotient is between its multiples.
LEMMA Quotient ==
  ASSUME NEW r \in Int, NEW l \in Nat \ {0}
  PROVE  r \div l \in Int /\ (r \div l) * l <= r /\ r < (r \div l + 1) * l
  OBVIOUS

\* A number whose multiple stays below the next one of q is at most q.
LEMMA QuotientLeast ==
  ASSUME NEW q \in Int, NEW m \in Int, NEW l \in Nat \ {0}, m * l < (q + 1) * l
  PROVE  m <= q
  OBVIOUS

\* There is a share as long as anything is left, and it is not more than that.
LEMMA ShareBounds ==
  ASSUME NEW r \in Int, NEW l \in Nat \ {0}
  PROVE  /\ Share(r, l) \in Int /\ Share(r, l) >= r \div l /\ Share(r, l) >= Lower(r, MinShare)
         /\ r > 0 => Share(r, l) \in 1..r
         /\ r <= 0 => Share(r, l) <= 0
<1> DEFINE q == r \div l
<1>1. q \in Int /\ q * l <= r /\ r < (q + 1) * l
  BY Quotient
<1>2. MinShare \in Nat \ {0}
  BY ReadFilesAssumption
<1> HIDE DEF q
<1>3. r > 0 => q <= r
  <2> SUFFICES ASSUME r > 0, q > r PROVE FALSE
    BY <1>1
  <2>1. q * l >= q
    BY <1>1
  <2> QED
    BY <1>1, <2>1
<1>4. r <= 0 => q <= 0
  <2> SUFFICES ASSUME r <= 0, q > 0 PROVE FALSE
    BY <1>1
  <2>1. q * l >= l
    BY <1>1
  <2> QED
    BY <1>1, <2>1
<1>5. Share(r, l) = Upper(q, Lower(r, MinShare))
  BY DEF Share, q
<1>6. Lower(r, MinShare) \in Int /\ (r > 0 => Lower(r, MinShare) \in 1..r) /\ (r <= 0 => Lower(r, MinShare) = r)
  BY <1>2 DEF Lower
<1> DEFINE w == Lower(r, MinShare)
<1> HIDE DEF w
<1>7. w \in Int /\ (r > 0 => w \in 1..r) /\ (r <= 0 => w = r)
  BY <1>6 DEF w
<1>8. Upper(q, w) \in {q, w} /\ Upper(q, w) \in Int /\ Upper(q, w) >= q /\ Upper(q, w) >= w
  BY <1>1, <1>7 DEF Upper
<1>9. (r > 0 => Upper(q, w) \in 1..r) /\ (r <= 0 => Upper(q, w) <= 0)
  BY <1>1, <1>3, <1>4, <1>7, <1>8
<1> QED
  BY <1>5, <1>8, <1>9 DEF q, w

\* The share is no less than what fits as often as there are files left.
LEMMA ShareSuffices ==
  ASSUME NEW r \in Int, NEW l \in Nat \ {0}, NEW m \in Nat, m * l <= r
  PROVE  m <= Share(r, l)
<1> DEFINE q == r \div l
<1>1. q \in Int /\ r < (q + 1) * l
  BY Quotient
<1>2. Share(r, l) \in Int /\ q <= Share(r, l)
  BY ShareBounds
<1> HIDE DEF q
<1>3. m * l \in Int /\ (q + 1) * l \in Int
  BY <1>1
<1>4. m * l < (q + 1) * l
  BY <1>1, <1>3
<1>5. m <= q
  BY <1>1, <1>4, QuotientLeast
<1> QED
  BY <1>1, <1>2, <1>5

\* Once a file has used up its share the next one gets no more.
LEMMA ShareShrinks ==
  ASSUME NEW r \in Int, NEW l \in Nat, l > 1, NEW x \in Int, r > 0, x <= r - Share(r, l) - 1
  PROVE  Share(x, l - 1) <= Share(r, l)
<1> DEFINE s == Share(r, l)
           q == r \div l
           y == x \div (l - 1)
<1>1. l \in Nat \ {0} /\ l - 1 \in Nat \ {0}
  OBVIOUS
<1>2. s \in 1..r /\ s >= q /\ s >= Lower(r, MinShare) /\ s \in Int
  BY <1>1, ShareBounds
<1>3. q \in Int /\ r < (q + 1) * l
  BY <1>1, Quotient
<1>4. y \in Int /\ y * (l - 1) <= x
  BY <1>1, Quotient
<1>5. Share(x, l - 1) = Upper(y, Lower(x, MinShare))
  BY DEF Share
<1>6. x <= r - s - 1
  OBVIOUS
<1> HIDE DEF s, q, y
<1>7. r < (s + 1) * l
  <2>1. (q + 1) * l <= (s + 1) * l
    BY <1>1, <1>2, <1>3
  <2> QED
    BY <1>2, <1>3, <2>1
<1>8. (s + 1) * l = (s + 1) * (l - 1) + (s + 1)
  BY <1>1, <1>2, OnceMore
<1>9. y * (l - 1) < (s + 1) * (l - 1)
  <2> DEFINE a == (s + 1) * (l - 1)
             b == y * (l - 1)
  <2>1. a \in Int /\ b \in Int /\ r < a + (s + 1) /\ b <= x
    BY <1>1, <1>2, <1>4, <1>7, <1>8
  <2> HIDE DEF a, b
  <2>2. b < a
    BY <2>1, <1>2, <1>6
  <2> QED
    BY <2>2 DEF a, b
<1>10. y <= s
  BY <1>1, <1>2, <1>4, <1>9, QuotientLeast
<1>11. Lower(x, MinShare) <= s
  <2>1. MinShare \in Nat
    BY ReadFilesAssumption
  <2> QED
    BY <1>2, <1>6, <2>1 DEF Lower
<1>12. Share(x, l - 1) <= s
  BY <1>5, <1>10, <1>11 DEF Upper
<1> QED
  BY <1>12 DEF s

\* What is read of a file within a share.
LEMMA ContentIs ==
  ASSUME freq.numbered \in BOOLEAN, NEW f \in ReadFile, NEW max \in Nat
  PROVE  /\ Content(f, max) \in Nat /\ Numbered(max) \in Nat /\ Content(f, max) <= Numbered(max)
         /\ f.size <= max => Content(f, max) = Numbered(f.size)
         /\ f.size > max => Content(f, max) >= max
  BY DEF Content, Numbered, Lower, ReadFile

\* More content is not shorter when its lines are numbered.
LEMMA NumberedGrows ==
  ASSUME freq.numbered \in BOOLEAN, NEW m \in Nat, NEW n \in Nat, m <= n
  PROVE  Numbered(m) \in Nat /\ Numbered(n) \in Nat /\ Numbered(m) <= Numbered(n)
  BY DEF Numbered

-----------------------------------------------------------------------------
(* One file of several.                                                    *)

\* The types of what a step reads.
LEMMA LoopTypes ==
  ASSUME FilesTypeOK, LoopInv
  PROVE  /\ Len(fres.jobs) \in Nat /\ Len(fres.items) = Len(fres.jobs)
         /\ \A i \in 1..Len(fres.jobs) :
              /\ fres.jobs[i] \in ReadJob /\ fres.jobs[i].err \in BOOLEAN /\ fres.jobs[i].file \in ReadFile
              /\ fres.jobs[i].file.size \in Nat /\ fres.jobs[i].file.statSize \in Nat /\ StatSize(fres.jobs[i]) \in Nat
              /\ fres.items[i] \in ReadItem /\ fres.items[i].content \in Nat /\ fres.items[i].cut \in BOOLEAN
         /\ fres.remaining \in Int /\ fres.todo \subseteq 1..Len(fres.jobs)
         /\ IsFiniteSet(Due) /\ fres.left \in Nat /\ Due \subseteq 1..Len(fres.jobs) /\ (Due # {} => fres.left > 0)
<1>1. fres.jobs \in Seq(ReadJob) /\ fres.items \in Seq(ReadItem) /\ fres.remaining \in Int
  BY DEF FilesTypeOK
<1>2. Len(fres.jobs) \in Nat /\ Len(fres.items) = Len(fres.jobs) /\ fres.todo \subseteq 1..Len(fres.jobs)
      /\ fres.left = Cardinality(Due)
  BY <1>1, LenProperties DEF LoopInv
<1>3. ASSUME NEW i \in 1..Len(fres.jobs) PROVE fres.jobs[i] \in ReadJob /\ fres.items[i] \in ReadItem
  BY <1>1, <1>2, ElementOfSeq
<1>4. ASSUME NEW j \in ReadJob PROVE j.err \in BOOLEAN /\ j.file \in ReadFile /\ j.file.size \in Nat
                                      /\ j.file.statSize \in Nat /\ StatSize(j) \in Nat
  BY DEF ReadJob, ReadFile, StatSize
<1>5. ASSUME NEW x \in ReadItem PROVE x.content \in Nat /\ x.cut \in BOOLEAN
  BY DEF ReadItem
<1>6. Due \subseteq 1..Len(fres.jobs)
  BY <1>2 DEF Due
<1>7. IsFiniteSet(Due)
  <2>1. IsFiniteSet(1..Len(fres.jobs))
    BY <1>2, FS_Interval
  <2> QED
    BY <2>1, <1>6, FS_Subset
<1>8. fres.left \in Nat /\ (Due # {} => fres.left > 0)
  BY <1>2, <1>7, FS_CardinalityType, FS_EmptySet
<1> QED
  BY <1>1, <1>2, <1>3, <1>4, <1>5, <1>6, <1>7, <1>8

\* What becomes of a job, by the share it is given.
Outcome(i, state, content, cut, spent) ==
  LET j == fres.jobs[i]
      share == Share(fres.remaining, fres.left)
      nothing(s) == state = s /\ content = 0 /\ cut = FALSE /\ spent = 0
  IN  \/ j.err = TRUE /\ nothing("failed")
      \/ j.err = FALSE /\ share <= 0 /\ nothing("unread")
      \/ j.err = FALSE /\ share > 0 /\ nothing("failed")
      \/ /\ j.err = FALSE /\ share > 0
         /\ state = "read" /\ content = Content(j.file, share) /\ cut = (j.file.size > share) /\ spent = content + ItemOverhead

Settled(i, state, content, cut, spent) ==
  /\ freq' = freq /\ fres'.state = "reading" /\ fres'.jobs = fres.jobs
  /\ fres'.todo = fres.todo \ {i} /\ fres'.remaining = fres.remaining - spent
  /\ fres'.left = (IF fres.jobs[i].err THEN fres.left ELSE fres.left - 1)
  /\ Len(fres'.items) = Len(fres.items) /\ \A k \in 1..Len(fres.items) : k # i => fres'.items[k] = fres.items[k]
  /\ fres'.items[i].state = state /\ fres'.items[i].content = content /\ fres'.items[i].cut = cut

\* An item is written and its job is no longer left; nothing else changes.
LEMMA SettleIs ==
  ASSUME FilesTypeOK, LoopInv, NEW i \in fres.todo, NEW state \in {"failed", "unread", "read"}, NEW content \in Nat,
         NEW cut \in BOOLEAN, NEW spent \in Nat, Settle(i, state, content, cut, spent), freq' = freq, fres.state = "reading"
  PROVE  FilesTypeOK' /\ Settled(i, state, content, cut, spent)
<1> DEFINE it == [state |-> state, content |-> content, cut |-> cut]
           l == IF fres.jobs[i].err THEN fres.left ELSE fres.left - 1
           r == fres.remaining - spent
           items == [fres.items EXCEPT ![i] = it]
           todo == fres.todo \ {i}
<1>1. it \in ReadItem /\ it.state = state /\ it.content = content /\ it.cut = cut
  BY DEF ReadItem
<1>2. fres.items \in Seq(ReadItem) /\ i \in 1..Len(fres.items) /\ fres.left \in Nat /\ fres.remaining \in Int
  BY LoopTypes DEF FilesTypeOK
<1>3. l \in Int /\ r \in Int
  BY <1>2
<1>4. todo \in SUBSET Nat
  BY DEF FilesTypeOK
<1>5. fres' = [fres EXCEPT !.todo = todo, !.left = l, !.remaining = r, !.items = items]
  BY DEF Settle, FilesTypeOK
<1> HIDE DEF it, l, r, todo
<1>6. items \in Seq(ReadItem) /\ Len(items) = Len(fres.items) /\ items[i] = it
      /\ \A k \in 1..Len(fres.items) : k # i => items[k] = fres.items[k]
  BY <1>1, <1>2, ExceptSeq
<1> HIDE DEF items
<1>7. FilesTypeOK'
  BY <1>3, <1>4, <1>5, <1>6 DEF FilesTypeOK
<1>8. fres'.todo = todo /\ fres'.left = l /\ fres'.remaining = r /\ fres'.items = items /\ fres'.jobs = fres.jobs
      /\ fres'.state = fres.state
  BY <1>5 DEF FilesTypeOK
<1>9. fres'.items[i].state = state /\ fres'.items[i].content = content /\ fres'.items[i].cut = cut
  BY <1>1, <1>6, <1>8
<1> QED
  BY <1>6, <1>7, <1>8, <1>9 DEF Settled, l, r, todo

\* A step of the loop takes the first job of the order and settles it in one of
\* the ways Outcome lists.
LEMMA ReadOneIs ==
  ASSUME FilesTypeOK, LoopInv, freq.numbered \in BOOLEAN, NEW i \in fres.todo, ReadOne(i)
  PROVE  FilesTypeOK' /\ (\A k \in fres.todo : Order(fres.jobs, i, k))
         /\ \E state \in {"failed", "unread", "read"}, content \in Nat, cut \in BOOLEAN, spent \in Nat :
              Settled(i, state, content, cut, spent) /\ Outcome(i, state, content, cut, spent)
<1> DEFINE j == fres.jobs[i]
           share == Share(fres.remaining, fres.left)
           content == Content(j.file, share)
<1>1. j \in ReadJob /\ j.err \in BOOLEAN /\ j.file \in ReadFile /\ j.file.size \in Nat /\ fres.remaining \in Int
  BY LoopTypes
<1>2. ASSUME ~j.err PROVE share \in Int
  <2>1. i \in Due
    BY <1>2 DEF Due
  <2>2. fres.left \in Nat \ {0}
    BY <2>1, LoopTypes
  <2> QED
    BY <1>1, <2>2, ShareBounds
<1>3. ASSUME ~j.err, share > 0 PROVE content \in Nat /\ content + ItemOverhead \in Nat
  <2>1. share \in Nat
    BY <1>2, <1>3
  <2>2. content \in Nat
    BY <2>1, <1>1, ContentIs
  <2> QED
    BY <2>2, ReadFilesAssumption
<1>4. fres.state = "reading" /\ freq' = freq /\ \A k \in fres.todo : Order(fres.jobs, i, k)
  BY DEF ReadOne
<1>5. \/ j.err /\ Settle(i, "failed", 0, FALSE, 0)
      \/ ~j.err /\ share <= 0 /\ Settle(i, "unread", 0, FALSE, 0)
      \/ ~j.err /\ share > 0 /\ Settle(i, "failed", 0, FALSE, 0)
      \/ ~j.err /\ share > 0 /\ Settle(i, "read", content, j.file.size > share, content + ItemOverhead)
  BY DEF ReadOne
<1> DEFINE Goal == FilesTypeOK' /\ \E state \in {"failed", "unread", "read"}, c \in Nat, cut \in BOOLEAN, spent \in Nat :
                     Settled(i, state, c, cut, spent) /\ Outcome(i, state, c, cut, spent)
<1>6. CASE j.err /\ Settle(i, "failed", 0, FALSE, 0)
  <2>1. FilesTypeOK' /\ Settled(i, "failed", 0, FALSE, 0)
    BY <1>4, <1>6, SettleIs
  <2>2. Outcome(i, "failed", 0, FALSE, 0)
    BY <1>1, <1>6 DEF Outcome
  <2> QED
    BY <2>1, <2>2, <1>4
<1>7. CASE ~j.err /\ share <= 0 /\ Settle(i, "unread", 0, FALSE, 0)
  <2>1. FilesTypeOK' /\ Settled(i, "unread", 0, FALSE, 0)
    BY <1>4, <1>7, SettleIs
  <2>2. Outcome(i, "unread", 0, FALSE, 0)
    BY <1>1, <1>7 DEF Outcome
  <2> QED
    BY <2>1, <2>2, <1>4
<1>8. CASE ~j.err /\ share > 0 /\ Settle(i, "failed", 0, FALSE, 0)
  <2>1. FilesTypeOK' /\ Settled(i, "failed", 0, FALSE, 0)
    BY <1>4, <1>8, SettleIs
  <2>2. Outcome(i, "failed", 0, FALSE, 0)
    BY <1>1, <1>8 DEF Outcome
  <2> QED
    BY <2>1, <2>2, <1>4
<1>9. CASE ~j.err /\ share > 0 /\ Settle(i, "read", content, j.file.size > share, content + ItemOverhead)
  <2> DEFINE cut == j.file.size > share
             spent == content + ItemOverhead
  <2>1. cut \in BOOLEAN /\ content \in Nat /\ spent \in Nat
    BY <1>3, <1>9
  <2>2. Outcome(i, "read", content, cut, spent)
    BY <1>1, <1>9 DEF Outcome
  <2> HIDE DEF cut, spent, content
  <2>3. FilesTypeOK' /\ Settled(i, "read", content, cut, spent)
    BY <1>4, <1>9, <2>1, SettleIs DEF cut, spent
  <2> QED
    BY <2>1, <2>2, <2>3, <1>4
<1> QED
  BY <1>5, <1>6, <1>7, <1>8, <1>9

\* A settled job leaves the others as they were.
LEMMA OthersStay ==
  ASSUME FilesTypeOK, LoopInv, NEW i \in fres.todo, NEW state \in {"failed", "unread", "read"}, NEW content, NEW cut \in BOOLEAN,
         NEW spent, Settled(i, state, content, cut, spent)
  PROVE  /\ i \in 1..Len(fres.jobs) /\ Len(fres'.jobs) = Len(fres.jobs) /\ Len(fres'.items) = Len(fres.jobs)
         /\ fres'.todo \subseteq fres.todo
         /\ \A k \in 1..Len(fres.jobs), s \in STRING : k # i => (ItemIs(k, s)' <=> ItemIs(k, s))
         /\ \A k \in 1..Len(fres.jobs) : k # i => (Short(k)' <=> Short(k)) /\ (Whole(k)' <=> Whole(k))
         /\ ItemIs(i, "none") /\ (\A s \in STRING : ItemIs(i, s)' <=> s = state)
         /\ Short(i)' <=> (state = "read" /\ cut) \/ state = "unread"
         /\ Whole(i)' <=> state = "read" /\ ~cut
<1>1. i \in 1..Len(fres.jobs) /\ Len(fres.items) = Len(fres.jobs) /\ ItemIs(i, "none")
  BY LoopTypes DEF LoopInv
<1>2. fres'.jobs = fres.jobs /\ fres'.todo = fres.todo \ {i} /\ Len(fres'.items) = Len(fres.items)
      /\ (\A k \in 1..Len(fres.items) : k # i => fres'.items[k] = fres.items[k])
      /\ fres'.items[i].state = state /\ fres'.items[i].cut = cut
  BY DEF Settled
<1> QED
  BY <1>1, <1>2 DEF ItemIs, Short, Whole

\* The order is one.
LEMMA OrderChains ==
  ASSUME FilesTypeOK, LoopInv, NEW i \in 1..Len(fres.jobs), NEW j \in 1..Len(fres.jobs), Order(fres.jobs, i, j)
  PROVE  /\ StatSize(fres.jobs[i]) <= StatSize(fres.jobs[j])
         /\ ~fres.jobs[i].err /\ ~fres.jobs[j].err => fres.jobs[i].file.statSize <= fres.jobs[j].file.statSize
<1>1. StatSize(fres.jobs[i]) \in Nat /\ StatSize(fres.jobs[j]) \in Nat
  BY LoopTypes
<1>2. StatSize(fres.jobs[i]) <= StatSize(fres.jobs[j])
  BY <1>1 DEF Order
<1> QED
  BY <1>2 DEF StatSize

\* A step leaves the rest of the order as it was, with one share less to give.
LEMMA ReadOneLoop ==
  ASSUME FilesTypeOK, LoopInv, NEW i \in fres.todo, NEW state \in {"failed", "unread", "read"}, NEW content \in Nat, NEW cut \in BOOLEAN,
         NEW spent \in Nat, Settled(i, state, content, cut, spent), Outcome(i, state, content, cut, spent),
         \A k \in fres.todo : Order(fres.jobs, i, k)
  PROVE  LoopInv' /\ Due' = Due \ {i} /\ fres'.left = Cardinality(Due')
<1> USE LoopTypes, OthersStay
<1>1. Due' = Due \ {i}
  BY DEF Due, Settled
<1>2. fres'.left = Cardinality(Due')
  <2>1. CASE fres.jobs[i].err
    <3>1. i \notin Due /\ Due' = Due
      BY <1>1, <2>1 DEF Due
    <3> QED
      BY <2>1, <3>1 DEF Settled, LoopInv
  <2>2. CASE ~fres.jobs[i].err
    <3>1. i \in Due
      BY <2>2 DEF Due
    <3>2. Cardinality(Due \ {i}) = Cardinality(Due) - 1
      BY <3>1, FS_RemoveElement
    <3> QED
      BY <1>1, <2>2, <3>2 DEF Settled, LoopInv
  <2> QED
    BY <2>1, <2>2
<1>3. fres'.jobs = fres.jobs /\ fres'.todo = fres.todo \ {i}
  BY DEF Settled
<1>4. ASSUME NEW k \in fres'.todo PROVE ItemIs(k, "none")' /\ fres'.items[k].content = 0
  <2>1. k \in fres.todo /\ k # i /\ k \in 1..Len(fres.items)
    BY <1>3, <1>4
  <2>2. ItemIs(k, "none") /\ fres.items[k].content = 0 /\ fres'.items[k] = fres.items[k]
    BY <2>1 DEF LoopInv, Settled
  <2> QED
    BY <2>2 DEF ItemIs
<1>5. ASSUME NEW k \in 1..Len(fres.jobs) PROVE k \in fres'.todo \/ \A l \in fres'.todo : Order(fres'.jobs, k, l)
  <2>1. CASE k \in fres.todo
    BY <1>3, <2>1
  <2>2. CASE k \notin fres.todo
    <3>1. \A l \in fres.todo : Order(fres.jobs, k, l)
      BY <2>2 DEF LoopInv
    <3> QED
      BY <1>3, <3>1
  <2> QED
    BY <2>1, <2>2
<1>6. ASSUME NEW k \in 1..Len(fres.jobs), ItemIs(k, "read")' \/ ItemIs(k, "unread")' PROVE ~fres'.jobs[k].err
  <2>1. CASE k = i
    <3>1. state # "failed"
      BY <1>6, <2>1 DEF ItemIs, Settled
    <3> QED
      BY <1>3, <2>1, <3>1 DEF Outcome
  <2>2. CASE k # i
    <3>1. fres'.items[k] = fres.items[k]
      BY <2>2 DEF Settled
    <3>2. ItemIs(k, "read") \/ ItemIs(k, "unread")
      BY <1>6, <3>1 DEF ItemIs
    <3> QED
      BY <1>3, <3>2 DEF LoopInv
  <2> QED
    BY <2>1, <2>2
<1>7. Len(fres'.items) = Len(fres'.jobs) /\ fres'.todo \subseteq 1..Len(fres'.jobs)
  BY <1>3
<1> QED
  BY <1>1, <1>2, <1>3, <1>4, <1>5, <1>6, <1>7 DEF LoopInv

\* What a job is given, and what it may take.
LEMMA OutcomeShare ==
  ASSUME FilesTypeOK, LoopInv, freq.numbered \in BOOLEAN, NEW i \in fres.todo, NEW state, NEW content, NEW cut,
         NEW spent, Outcome(i, state, content, cut, spent)
  PROVE  \/ state # "read" /\ content = 0 /\ cut = FALSE /\ spent = 0
         \/ /\ state = "read" /\ fres.jobs[i].err = FALSE /\ fres.remaining > 0 /\ spent = content + ItemOverhead
            /\ content \in Nat /\ content <= Numbered(fres.remaining)
            /\ fres.left \in Nat \ {0} /\ Share(fres.remaining, fres.left) \in 1..fres.remaining
<1> DEFINE share == Share(fres.remaining, fres.left)
           j == fres.jobs[i]
<1> SUFFICES ASSUME state = "read" PROVE /\ state = "read" /\ j.err = FALSE /\ fres.remaining > 0 /\ spent = content + ItemOverhead
            /\ content \in Nat /\ content <= Numbered(fres.remaining)
            /\ fres.left \in Nat \ {0} /\ share \in 1..fres.remaining
  BY DEF Outcome
<1>1. j.err = FALSE /\ share > 0 /\ content = Content(j.file, share) /\ spent = content + ItemOverhead
  BY DEF Outcome
<1>2. i \in Due /\ j.file \in ReadFile /\ fres.remaining \in Int
  BY <1>1, LoopTypes DEF Due
<1>3. fres.left \in Nat \ {0}
  BY <1>2, LoopTypes
<1>4. fres.remaining > 0 /\ share \in 1..fres.remaining
  <2> DEFINE r == fres.remaining
             l == fres.left
  <2> HIDE DEF r, l
  <2>1. r \in Int /\ l \in Nat \ {0} /\ Share(r, l) > 0
    BY <1>1, <1>2, <1>3 DEF r, l
  <2> DEFINE w == Share(r, l)
  <2>3. w \in Int /\ (r > 0 => w \in 1..r) /\ (r <= 0 => w <= 0) /\ w > 0
    BY <2>1, ShareBounds
  <2> HIDE DEF w
  <2>4. r > 0 /\ w \in 1..r
    BY <2>1, <2>3
  <2>2. r > 0 /\ Share(r, l) \in 1..r
    BY <2>4 DEF w
  <2> QED
    BY <2>2 DEF r, l
<1>5. share \in Nat
  BY <1>2, <1>4
<1>6. content \in Nat /\ content <= Numbered(share)
  BY <1>1, <1>2, <1>5, ContentIs
<1> HIDE DEF share
<1>7. Numbered(share) <= Numbered(fres.remaining) /\ Numbered(share) \in Nat /\ Numbered(fres.remaining) \in Nat
  BY <1>2, <1>4, <1>5 DEF Numbered
<1>8. content <= Numbered(fres.remaining)
  BY <1>6, <1>7
<1> QED
  BY <1>1, <1>3, <1>4, <1>6, <1>8 DEF share

\* What a file is given comes out of what is left: SpentInv survives a step.
LEMMA ReadOneSpent ==
  ASSUME FilesTypeOK, LoopInv, freq \in FilesRequest, SpentInv, NEW i \in fres.todo, NEW state \in {"failed", "unread", "read"},
         NEW content \in Nat, NEW cut \in BOOLEAN, NEW spent \in Nat,
         Settled(i, state, content, cut, spent), Outcome(i, state, content, cut, spent)
  PROVE  SpentInv'
<1> DEFINE n == Len(fres.items)
           s == [k \in 1..n |-> fres.items[k].content]
           t == [k \in 1..n |-> fres'.items[k].content]
<1>1. n \in Nat /\ i \in 1..n /\ (\A k \in 1..n : fres.items[k].content \in Nat) /\ fres.items[i].content = 0
      /\ fres.remaining \in Int
  BY LoopTypes DEF LoopInv
<1>2. Len(fres'.items) = n /\ fres'.items[i].content = content /\ (\A k \in 1..n : k # i => fres'.items[k] = fres.items[k])
      /\ fres'.remaining = fres.remaining - spent /\ freq' = freq
  BY DEF Settled
<1>3. freq.numbered \in BOOLEAN /\ freq.budget \in Nat \ {0}
  BY DEF FilesRequest
<1> HIDE DEF n
<1>4. s \in Seq(Int) /\ Len(s) = n /\ s[i] = 0
  BY <1>1
<1>5. \A k \in 1..n : fres'.items[k].content \in Nat
  BY <1>1, <1>2
<1>6. t \in Seq(Int) /\ Len(t) = n /\ t[i] = content /\ \A k \in 1..n : k # i => t[k] = s[k]
  BY <1>1, <1>2, <1>5
<1>7. Total(s) \in Int /\ Total(t) = Total(s) + content - 0
  <2> HIDE DEF s, t
  <2>1. Len(t) = Len(s) /\ i \in 1..Len(s) /\ \A k \in 1..Len(s) : k # i => t[k] = s[k]
    BY <1>1, <1>4, <1>6
  <2>2. Total(s) \in Int /\ Total(t) = Total(s) + t[i] - s[i]
    BY <1>4, <1>6, <2>1, TotalChanges
  <2> QED
    BY <1>4, <1>6, <2>2
<1>8. Total(s) \in Nat /\ Total(s) + fres.remaining <= freq.budget /\ Total(s) <= Numbered(freq.budget)
  BY DEF SpentInv, n
<1> DEFINE x == Total(s)
           y == Total(t)
<1>9. x \in Nat /\ y = x + content /\ x + fres.remaining <= freq.budget /\ x <= Numbered(freq.budget)
  BY <1>7, <1>8
<1> HIDE DEF x, y
<1>10. y \in Nat /\ y + (fres.remaining - spent) <= freq.budget /\ y <= Numbered(freq.budget)
  <2>1. CASE content = 0 /\ spent = 0
    BY <2>1, <1>1, <1>9
  <2>2. CASE fres.remaining > 0 /\ spent = content + ItemOverhead /\ content <= Numbered(fres.remaining)
    <3>1. ItemOverhead \in Nat
      BY ReadFilesAssumption
    <3>2. y + (fres.remaining - spent) <= freq.budget /\ y \in Nat
      BY <1>1, <1>3, <1>9, <2>2, <3>1
    <3>3. y <= Numbered(freq.budget)
      BY <1>1, <1>3, <1>9, <2>2 DEF Numbered
    <3> QED
      BY <3>2, <3>3
  <2> QED
    BY <2>1, <2>2, <1>3, OutcomeShare
<1>11. Numbered(freq.budget)' = Numbered(freq.budget)
  BY <1>2 DEF Numbered
<1>12. y = Total([k \in 1..Len(fres'.items) |-> fres'.items[k].content])
  BY <1>2 DEF y
<1> QED
  BY <1>2, <1>10, <1>11, <1>12 DEF SpentInv

\* Claims on what remains: a job that was settled has none any more.
LEMMA ReadOneFit ==
  ASSUME FilesTypeOK, LoopInv, freq \in FilesRequest, FitInv, NEW i \in fres.todo, NEW state \in {"failed", "unread", "read"},
         NEW content \in Nat, NEW cut \in BOOLEAN, NEW spent \in Nat,
         Settled(i, state, content, cut, spent), Outcome(i, state, content, cut, spent),
         \A k \in fres.todo : Order(fres.jobs, i, k), Due' = Due \ {i}
  PROVE  FitInv'
<1> DEFINE n == Len(fres.jobs)
           s == [k \in 1..n |-> Claim(k)]
           t == [k \in 1..n |-> Claim(k)']
<1>1. fres'.jobs = fres.jobs /\ freq' = freq /\ fres'.remaining = fres.remaining - spent
  BY DEF Settled
<1>2. (Steady' <=> Steady) /\ (Fits(fres.jobs)' <=> Fits(fres.jobs))
  BY <1>1 DEF Steady, Fits, Numbered
<1> SUFFICES ASSUME Steady, Fits(fres.jobs)
             PROVE  Total(t) <= fres.remaining - spent /\ \A k \in 1..n : ~Short(k)'
  BY <1>1, <1>2 DEF FitInv
<1>3. Total(s) <= fres.remaining /\ \A k \in 1..n : ~Short(k)
  BY DEF FitInv
<1>4. n \in Nat /\ i \in 1..n /\ fres.remaining \in Int /\ ItemOverhead \in Nat \ {0} /\ freq.numbered \in BOOLEAN
      /\ \A k \in 1..n : fres.jobs[k].file.size \in Nat /\ fres.jobs[k].err \in BOOLEAN
  BY LoopTypes, ReadFilesAssumption DEF FilesRequest
<1>5. \A k \in 1..n : Numbered(fres.jobs[k].file.size) \in Nat /\ Numbered(fres.jobs[k].file.size) >= fres.jobs[k].file.size
  BY <1>4 DEF Numbered
<1>6. \A k \in 1..n : Claim(k) \in Nat /\ (k # i => Claim(k)' = Claim(k)) /\ Claim(i)' = 0
  <2>1. \A k \in 1..n : Claim(k) \in Nat
    BY <1>4, <1>5 DEF Claim
  <2>2. \A k \in 1..n : k # i => (k \in Due' <=> k \in Due)
    OBVIOUS
  <2>3. i \notin Due'
    OBVIOUS
  <2>4. \A k \in 1..n : k # i => Claim(k)' = Claim(k)
    BY <1>1, <2>2 DEF Claim, Numbered
  <2>5. Claim(i)' = 0
    BY <2>3 DEF Claim
  <2> QED
    BY <2>1, <2>4, <2>5
<1>7. s \in Seq(Nat) /\ s \in Seq(Int) /\ Len(s) = n /\ \A k \in 1..n : s[k] = Claim(k)
  <2>1. \A k \in 1..n : Claim(k) \in Nat
    BY <1>6
  <2> HIDE DEF n
  <2> QED
    BY <1>4, <2>1
<1>8. t \in Seq(Int) /\ Len(t) = n /\ t[i] = 0 /\ \A k \in 1..n : k # i => t[k] = s[k]
  <2>1. \A k \in 1..n : Claim(k)' \in Int
    BY <1>6
  <2> HIDE DEF n
  <2>2. t \in Seq(Int) /\ Len(t) = n /\ \A k \in 1..n : t[k] = Claim(k)'
    BY <1>4, <2>1
  <2> HIDE DEF s, t
  <2> QED
    BY <1>4, <1>6, <1>7, <2>2
<1>9. Total(s) \in Int /\ Total(t) = Total(s) - Claim(i)
  <2> HIDE DEF s, t, n
  <2>1. Len(t) = Len(s) /\ i \in 1..Len(s) /\ \A k \in 1..Len(s) : k # i => t[k] = s[k]
    BY <1>4, <1>7, <1>8
  <2>2. Total(s) \in Int /\ Total(t) = Total(s) + t[i] - s[i]
    BY <1>7, <1>8, <2>1, TotalChanges
  <2>3. Claim(i) \in Nat /\ s[i] = Claim(i) /\ t[i] = 0
    BY <1>4, <1>6, <1>7, <1>8
  <2> QED
    BY <2>2, <2>3
<1>10. CASE fres.jobs[i].err
  <2>1. spent = 0 /\ state = "failed"
    BY <1>10 DEF Outcome
  <2>2. ~Short(i)'
    BY <2>1, OthersStay
  <2>3. \A k \in 1..n : ~Short(k)'
    BY <1>3, <2>2, OthersStay
  <2>4. Claim(i) \in Nat
    BY <1>4, <1>6
  <2> HIDE DEF s, t
  <2> QED
    BY <1>3, <1>4, <1>9, <2>1, <2>3, <2>4
<1>11. CASE ~fres.jobs[i].err
  <2> DEFINE m == Numbered(fres.jobs[i].file.size) + ItemOverhead
             share == Share(fres.remaining, fres.left)
  <2>1. i \in Due /\ Claim(i) = m /\ m \in Nat /\ m > fres.jobs[i].file.size
    BY <1>4, <1>5, <1>11 DEF Due, Claim
  <2>2. fres.left \in Nat \ {0} /\ fres.left = Cardinality(Due) /\ Due \subseteq 1..n
    BY <2>1, LoopTypes DEF LoopInv
  <2>3. ASSUME NEW k \in Due PROVE s[k] >= m
    <3>1. k \in fres.todo /\ ~fres.jobs[k].err /\ k \in 1..n
      BY <2>2, <2>3 DEF Due
    <3>2. fres.jobs[i].file.statSize <= fres.jobs[k].file.statSize
      BY <1>4, <1>11, <3>1, OrderChains
    <3>3. fres.jobs[i].file.size <= fres.jobs[k].file.size
      BY <1>4, <3>1, <3>2 DEF Steady
    <3>4. Numbered(fres.jobs[i].file.size) <= Numbered(fres.jobs[k].file.size)
      BY <1>4, <3>1, <3>3, NumberedGrows
    <3>5. s[k] = Numbered(fres.jobs[k].file.size) + ItemOverhead
      BY <1>7, <2>3, <3>1 DEF Claim
    <3> HIDE DEF s
    <3> QED
      BY <1>4, <1>5, <3>1, <3>4, <3>5
  <2>4. m * fres.left <= fres.remaining
    <3> HIDE DEF s, m, n
    <3>1. Due \in SUBSET (1..Len(s))
      BY <1>7, <2>2
    <3>2. m * Cardinality(Due) <= Total(s)
      BY <1>7, <2>1, <2>3, <3>1, TotalAtLeast
    <3>3. m * fres.left \in Int
      BY <2>1, <2>2
    <3> QED
      BY <1>3, <1>4, <1>9, <2>2, <3>2, <3>3
  <2>5. share \in Int /\ m <= share
    <3> HIDE DEF m
    <3>1. m <= share
      BY <1>4, <2>1, <2>2, <2>4, ShareSuffices
    <3>2. share \in Int
      BY <1>4, <2>2, ShareBounds
    <3> QED
      BY <3>1, <3>2
  <2>6. share > 0 /\ fres.jobs[i].file.size <= share
    <3> HIDE DEF m, share
    <3> QED
      BY <1>4, <2>1, <2>5
  <2>7. (state = "failed" /\ spent = 0) \/ (state = "read" /\ cut = FALSE /\ spent = m)
    <3>1. CASE state # "read"
      BY <1>4, <1>11, <2>6, <2>5, <3>1 DEF Outcome
    <3>2. CASE state = "read"
      <4>1. content = Content(fres.jobs[i].file, share) /\ cut = (fres.jobs[i].file.size > share) /\ spent = content + ItemOverhead
        BY <3>2 DEF Outcome
      <4>2. share \in Nat /\ fres.jobs[i].file \in ReadFile
        BY <1>4, <2>5, <2>6, LoopTypes
      <4>3. content = Numbered(fres.jobs[i].file.size)
        BY <1>4, <2>6, <4>1, <4>2, ContentIs
      <4>4. ~(fres.jobs[i].file.size > share)
        BY <1>4, <2>5, <2>6
      <4> QED
        BY <3>2, <4>1, <4>3, <4>4
    <3> QED
      BY <3>1, <3>2
  <2> HIDE DEF m, share, s, t
  <2>8. \A k \in 1..n : ~Short(k)'
    <3>1. ~Short(i)'
      BY <2>7, OthersStay
    <3> QED
      BY <1>3, <3>1, OthersStay
  <2>9. Total(t) <= fres.remaining - spent
    BY <1>3, <1>4, <1>9, <2>1, <2>7
  <2> QED
    BY <2>8, <2>9
<1> QED
  BY <1>10, <1>11

\* A share that was too small does not grow back: what is left after a file that
\* was cut, divided by one job fewer, is no more than its share was.
LEMMA ReadOneShare ==
  ASSUME FilesTypeOK, LoopInv, freq \in FilesRequest, ShareInv, NEW i \in fres.todo, NEW state \in {"failed", "unread", "read"},
         NEW content \in Nat, NEW cut \in BOOLEAN, NEW spent \in Nat,
         Settled(i, state, content, cut, spent), Outcome(i, state, content, cut, spent)
  PROVE  ShareInv'
<1> DEFINE n == Len(fres.jobs)
           share == Share(fres.remaining, fres.left)
           size(k) == fres.jobs[k].file.size
           stat(k) == fres.jobs[k].file.statSize
<1>1. fres'.jobs = fres.jobs /\ freq' = freq /\ fres'.remaining = fres.remaining - spent /\ fres'.todo = fres.todo \ {i}
      /\ fres'.left = (IF fres.jobs[i].err THEN fres.left ELSE fres.left - 1)
  BY DEF Settled
<1>2. n \in Nat /\ i \in 1..n /\ fres.remaining \in Int /\ ItemOverhead \in Nat \ {0} /\ freq.numbered \in BOOLEAN
      /\ \A k \in 1..n : size(k) \in Nat /\ stat(k) \in Nat /\ fres.jobs[k].err \in BOOLEAN
  BY LoopTypes, ReadFilesAssumption DEF FilesRequest
<1>3. Steady' <=> Steady
  BY <1>1 DEF Steady
<1> SUFFICES ASSUME Steady
             PROVE  /\ \A k \in 1..n : Short(k)' => Tight(k)' \/ GivenBack(k)'
                    /\ \A k, l \in 1..n : Short(k)' /\ Whole(l)' /\ size(l) > size(k) => Freed(k, l)'
  BY <1>1, <1>3 DEF ShareInv
<1>4. /\ \A k \in 1..n : Short(k) => Tight(k) \/ GivenBack(k)
      /\ \A k, l \in 1..n : Short(k) /\ Whole(l) /\ size(l) > size(k) => Freed(k, l)
      /\ \A k \in 1..n : size(k) = stat(k)
  BY DEF ShareInv, Steady
<1>5. ASSUME NEW k \in 1..n, Short(k) \/ Whole(k)
      PROVE  k # i /\ k \notin fres.todo /\ ~fres.jobs[k].err /\ (~fres.jobs[i].err => stat(k) <= stat(i))
  <2>1. ItemIs(k, "read") \/ ItemIs(k, "unread")
    BY <1>5 DEF Short, Whole
  <2>2. k \notin fres.todo /\ ~fres.jobs[k].err
    BY <2>1 DEF LoopInv, ItemIs
  <2>3. Order(fres.jobs, k, i)
    BY <2>2 DEF LoopInv
  <2> QED
    BY <1>2, <2>2, <2>3, OrderChains
<1>6. ASSUME ~fres.jobs[i].err
      PROVE  fres.left \in Nat \ {0} /\ share \in Int /\ (fres.remaining > 0 => share > 0) /\ (fres.remaining <= 0 => share <= 0)
  <2>1. i \in Due
    BY <1>6 DEF Due
  <2>2. fres.left \in Nat \ {0}
    BY <2>1, LoopTypes
  <2> DEFINE r == fres.remaining
             l == fres.left
  <2> HIDE DEF r, l
  <2>3. r \in Int /\ l \in Nat \ {0}
    BY <1>2, <2>2 DEF r, l
  <2>4. Share(r, l) \in Int /\ (r > 0 => Share(r, l) \in 1..r) /\ (r <= 0 => Share(r, l) <= 0)
    BY <2>3, ShareBounds
  <2> DEFINE w == Share(r, l)
  <2> HIDE DEF w
  <2>5. w \in Int /\ (r > 0 => w > 0) /\ (r <= 0 => w <= 0)
    BY <2>3, <2>4 DEF w
  <2> QED
    BY <2>2, <2>5 DEF r, l, w
<1>7. ASSUME state = "read", size(i) > share
      PROVE  fres'.left > 0 => Share(fres'.remaining, fres'.left) \in Int /\ Share(fres'.remaining, fres'.left) <= share
  <2> SUFFICES ASSUME fres'.left > 0 PROVE Share(fres'.remaining, fres'.left) \in Int /\ Share(fres'.remaining, fres'.left) <= share
    OBVIOUS
  <2>1. ~fres.jobs[i].err /\ share > 0 /\ content = Content(fres.jobs[i].file, share) /\ spent = content + ItemOverhead
    BY <1>7 DEF Outcome
  <2>2. fres.left \in Nat \ {0} /\ share \in Nat /\ fres.remaining > 0 /\ fres.jobs[i].file \in ReadFile
    BY <1>2, <1>6, <2>1, LoopTypes
  <2>3. content >= share
    BY <1>2, <1>7, <2>1, <2>2, ContentIs
  <2> DEFINE r == fres.remaining
             l == fres.left
             x == r - spent
  <2>4. fres'.left = l - 1 /\ fres'.remaining = x /\ share = Share(r, l)
    BY <1>1, <2>1
  <2>5. x \in Int /\ r \in Int /\ l \in Nat /\ l > 1 /\ r > 0 /\ x <= r - Share(r, l) - 1
    <3> HIDE DEF share
    <3>1. x \in Int /\ r \in Int /\ l \in Nat /\ l > 1 /\ r > 0 /\ x <= r - share - 1
      BY <1>2, <2>1, <2>2, <2>3, <2>4
    <3> QED
      BY <3>1, <2>4
  <2> HIDE DEF r, l, x, share
  <2>6. Share(x, l - 1) <= Share(r, l)
    BY <2>5, ShareShrinks
  <2>7. l - 1 \in Nat \ {0}
    BY <2>5
  <2>8. Share(x, l - 1) \in Int
    BY <2>5, <2>7, ShareBounds
  <2> QED
    BY <2>4, <2>6, <2>8
<1>8. ASSUME NEW k \in 1..n, k # i, GivenBack(k) PROVE GivenBack(k)'
  <2>1. PICK w \in (1..n) \ fres.todo : ItemIs(w, "failed") /\ ~fres.jobs[w].err /\ stat(w) >= stat(k)
    BY <1>8 DEF GivenBack
  <2>2. w # i /\ w \notin fres'.todo /\ fres'.items[w] = fres.items[w]
    BY <1>1, <2>1, OthersStay, LoopTypes DEF Settled
  <2>3. ItemIs(w, "failed")'
    BY <2>1, <2>2 DEF ItemIs
  <2> QED
    BY <1>1, <2>1, <2>2, <2>3 DEF GivenBack
<1>9. ASSUME NEW k \in 1..n, k # i, Short(k), Tight(k) PROVE Tight(k)' \/ GivenBack(k)'
  <2>1. CASE fres.remaining <= 0
    <3>1. spent = 0
      <4>1. spent = 0 \/ fres.remaining > 0
        BY <1>2, OutcomeShare
      <4> QED
        BY <1>2, <2>1, <4>1
    <3> QED
      BY <1>1, <1>2, <2>1, <3>1 DEF Tight
  <2>2. CASE fres.remaining > 0 /\ fres.jobs[i].err
    <3>1. spent = 0
      BY <1>2, <2>2 DEF Outcome
    <3>2. fres'.remaining = fres.remaining /\ fres'.left = fres.left
      BY <1>1, <1>2, <2>2, <3>1
    <3> QED
      BY <1>1, <1>9, <3>2 DEF Tight
  <2>3. CASE fres.remaining > 0 /\ ~fres.jobs[i].err
    <3>1. share > 0 /\ share < size(k)
      BY <1>2, <1>6, <1>9, <2>3 DEF Tight
    <3>2. stat(k) <= stat(i) /\ size(k) <= size(i)
      BY <1>2, <1>4, <1>5, <1>9, <2>3
    <3>3. state = "failed" \/ state = "read"
      BY <1>6, <2>3, <3>1 DEF Outcome
    <3>4. CASE state = "failed"
      <4>1. i \in (1..n) \ fres'.todo /\ ItemIs(i, "failed")'
        BY <1>1, <1>2, <3>4 DEF Settled, ItemIs
      <4> QED
        BY <1>1, <1>2, <2>3, <3>2, <4>1 DEF GivenBack
    <3>5. CASE state = "read"
      <4>1. share \in Int
        BY <1>6, <2>3
      <4> HIDE DEF share
      <4>2. size(i) > share
        BY <1>2, <3>1, <3>2, <4>1
      <4>3. fres'.left > 0 => Share(fres'.remaining, fres'.left) < size(k)
        BY <1>2, <1>7, <3>1, <3>5, <4>1, <4>2
      <4> QED
        BY <1>1, <4>3 DEF Tight
    <3> QED
      BY <3>3, <3>4, <3>5
  <2> QED
    BY <1>2, <2>1, <2>2, <2>3
<1>10. ASSUME Short(i)' PROVE Tight(i)'
  <2>1. (state = "read" /\ cut) \/ state = "unread"
    BY <1>10, OthersStay
  <2>2. CASE state = "unread"
    <3>1. ~fres.jobs[i].err /\ share <= 0 /\ spent = 0
      BY <2>2 DEF Outcome
    <3>2. fres.remaining <= 0
      BY <1>2, <1>6, <3>1
    <3> QED
      BY <1>1, <1>2, <3>1, <3>2 DEF Tight
  <2>3. CASE state = "read" /\ cut
    <3>1. ~fres.jobs[i].err /\ size(i) > share
      BY <2>3 DEF Outcome
    <3>2. share \in Int
      BY <1>6, <3>1
    <3> HIDE DEF share
    <3>3. fres'.left > 0 => Share(fres'.remaining, fres'.left) < size(i)
      BY <1>2, <1>7, <2>3, <3>1, <3>2
    <3> QED
      BY <1>1, <3>3 DEF Tight
  <2> QED
    BY <2>1, <2>2, <2>3
<1>11. ASSUME NEW k \in 1..n, Short(k)' PROVE Tight(k)' \/ GivenBack(k)'
  <2>1. CASE k = i
    BY <1>10, <1>11, <2>1
  <2>2. CASE k # i
    <3>1. Short(k)
      BY <1>11, <2>2, OthersStay
    <3> QED
      BY <1>4, <1>8, <1>9, <2>2, <3>1
  <2> QED
    BY <2>1, <2>2
<1>12. ASSUME NEW k \in 1..n, NEW l \in 1..n, Short(k)', Whole(l)', size(l) > size(k) PROVE Freed(k, l)'
  <2>1. k # l
    BY <1>2, <1>12
  <2>2. CASE k # i /\ l # i
    <3>1. Short(k) /\ Whole(l)
      BY <1>12, <2>2, OthersStay
    <3>2. PICK w \in 1..n : ItemIs(w, "failed") /\ ~fres.jobs[w].err /\ stat(w) \in stat(k)..stat(l)
      BY <1>4, <1>12, <3>1 DEF Freed
    <3>3. w # i /\ fres'.items[w] = fres.items[w]
      <4>1. ItemIs(i, "none") /\ Len(fres.items) = n
        BY DEF LoopInv
      <4>2. w # i
        BY <3>2, <4>1 DEF ItemIs
      <4> QED
        BY <4>1, <4>2 DEF Settled
    <3>4. ItemIs(w, "failed")'
      BY <3>2, <3>3 DEF ItemIs
    <3> QED
      BY <1>1, <3>2, <3>4 DEF Freed
  <2>3. CASE k = i
    <3>1. Whole(l)
      BY <1>12, <2>1, <2>3, OthersStay
    <3>2. ~fres.jobs[i].err
      <4>1. state # "failed"
        BY <1>12, <2>3, OthersStay
      <4> QED
        BY <4>1 DEF Outcome
    <3>3. stat(l) <= stat(i)
      BY <1>5, <3>1, <3>2
    <3> QED
      BY <1>2, <1>4, <1>12, <2>3, <3>3
  <2>4. CASE l = i /\ k # i
    <3>1. Short(k)
      BY <1>12, <2>4, OthersStay
    <3>2. state = "read" /\ ~cut
      BY <1>12, <2>4 DEF Whole, ItemIs, Settled
    <3>3. ~fres.jobs[i].err /\ share > 0 /\ ~(size(i) > share)
      BY <3>2 DEF Outcome
    <3>4. share \in Int /\ fres.remaining > 0 /\ fres.left > 0
      BY <1>2, <1>6, <3>3
    <3>5. ~Tight(k)
      <4>1. ~(share < size(k))
        <5> HIDE DEF share
        <5> QED
          BY <1>2, <1>12, <2>4, <3>3, <3>4
      <4> QED
        BY <1>2, <3>4, <4>1 DEF Tight
    <3>6. PICK w \in (1..n) \ fres.todo : ItemIs(w, "failed") /\ ~fres.jobs[w].err /\ stat(w) >= stat(k)
      BY <1>4, <3>1, <3>5 DEF GivenBack
    <3>7. w # i /\ fres'.items[w] = fres.items[w]
      BY <3>6, OthersStay, LoopTypes DEF Settled
    <3>8. ItemIs(w, "failed")'
      BY <3>6, <3>7 DEF ItemIs
    <3>9. Order(fres.jobs, w, i)
      BY <3>6 DEF LoopInv
    <3>10. stat(w) <= stat(i)
      BY <1>2, <3>3, <3>6, <3>9, OrderChains
    <3>11. stat(w) \in stat(k)..stat(l)
      BY <1>2, <2>4, <3>6, <3>10
    <3> QED
      BY <1>1, <3>6, <3>8, <3>11 DEF Freed
  <2> QED
    BY <2>1, <2>2, <2>3, <2>4
<1> QED
  BY <1>11, <1>12

\* A step of the loop keeps all parts of FilesInv.
LEMMA ReadOneHolds ==
  ASSUME FilesInv, freq.kind = "files", NEW i \in fres.todo, ReadOne(i)
  PROVE  FilesInv'
<1>1. FilesTypeOK /\ freq \in FilesRequest /\ freq.numbered \in BOOLEAN /\ fres.state = "reading"
  BY DEF FilesInv, FilesRequest, ReadOne
<1>2. LoopInv /\ SpentInv /\ FitInv /\ ShareInv
  BY <1>1 DEF FilesInv
<1>3. PICK state \in {"failed", "unread", "read"}, content \in Nat, cut \in BOOLEAN, spent \in Nat :
        Settled(i, state, content, cut, spent) /\ Outcome(i, state, content, cut, spent)
  BY <1>1, <1>2, ReadOneIs
<1>4. FilesTypeOK' /\ \A k \in fres.todo : Order(fres.jobs, i, k)
  BY <1>1, <1>2, ReadOneIs
<1>5. LoopInv' /\ Due' = Due \ {i}
  BY <1>1, <1>2, <1>3, <1>4, ReadOneLoop
<1>6. SpentInv'
  BY <1>1, <1>2, <1>3, ReadOneSpent
<1>7. FitInv'
  BY <1>1, <1>2, <1>3, <1>4, <1>5, ReadOneFit
<1>8. ShareInv'
  BY <1>1, <1>2, <1>3, ReadOneShare
<1>9. freq' = freq
  BY <1>3 DEF Settled
<1>10. freq' \in FilesRequest /\ freq'.kind = "files"
  BY <1>1, <1>9
<1> QED
  BY <1>4, <1>5, <1>6, <1>7, <1>8, <1>10 DEF FilesInv

\* At the start nothing is spent, and everything is claimed.
LEMMA ExpandHolds ==
  ASSUME FilesInv, Expand
  PROVE  FilesInv'
<1>1. FilesTypeOK /\ freq \in FilesRequest /\ freq.kind = "files" /\ freq' = freq
  BY DEF FilesInv, Expand
<1>2. freq.paths \in Seq(ReadPath) /\ freq.budget \in Nat \ {0} /\ freq.numbered \in BOOLEAN
  BY <1>1 DEF FilesRequest
<1>3. PICK jobs \in {Jobs(freq.paths)} :
        fres' = [fres EXCEPT !.state = "reading", !.jobs = jobs, !.todo = 1..Len(jobs), !.remaining = freq.budget,
                             !.left = Cardinality({i \in 1..Len(jobs) : ~jobs[i].err}),
                             !.items = [i \in 1..Len(jobs) |-> [state |-> "none", content |-> 0, cut |-> FALSE]]]
  BY DEF Expand
<1>4. jobs \in Seq(ReadJob)
  BY <1>2, JobsType
<1> DEFINE n == Len(jobs)
           items == [i \in 1..n |-> [state |-> "none", content |-> 0, cut |-> FALSE]]
           due == {i \in 1..n : ~jobs[i].err}
           left == Cardinality(due)
<1>5. n \in Nat /\ \A i \in 1..n : jobs[i] \in ReadJob /\ jobs[i].err \in BOOLEAN
  <2>1. n \in Nat /\ \A i \in 1..n : jobs[i] \in ReadJob
    BY <1>4, LenProperties, ElementOfSeq
  <2>2. \A j \in ReadJob : j.err \in BOOLEAN
    BY DEF ReadJob
  <2> QED
    BY <2>1, <2>2
<1>e. fres' = [fres EXCEPT !.state = "reading", !.jobs = jobs, !.todo = 1..n, !.remaining = freq.budget,
                           !.left = left, !.items = items]
  BY <1>3
<1> HIDE DEF n
<1>6. items \in Seq(ReadItem) /\ Len(items) = n
      /\ \A i \in 1..n : items[i].state = "none" /\ items[i].content = 0 /\ items[i].cut = FALSE
  <2> DEFINE it == [state |-> "none", content |-> 0, cut |-> FALSE]
  <2>1. it \in ReadItem /\ it.state = "none" /\ it.content = 0 /\ it.cut = FALSE
    BY DEF ReadItem
  <2> HIDE DEF it
  <2>2. items = [i \in 1..n |-> it]
    BY DEF it
  <2>3. [i \in 1..n |-> it] \in Seq(ReadItem) /\ Len([i \in 1..n |-> it]) = n
    BY <1>5, <2>1
  <2>4. \A i \in 1..n : items[i] = it
    BY <2>2
  <2> QED
    BY <2>1, <2>2, <2>3, <2>4
<1>7. left \in Int
  <2>1. due \subseteq 1..n /\ IsFiniteSet(1..n)
    BY <1>5, FS_Interval
  <2>2. IsFiniteSet(due)
    BY <2>1, FS_Subset
  <2> HIDE DEF due
  <2> QED
    BY <2>2, FS_CardinalityType
<1>8. 1..n \in SUBSET Nat
  OBVIOUS
<1> HIDE DEF items, left
<1>9. FilesTypeOK'
  <2>1. freq.budget \in Int
    BY <1>2
  <2> QED
    BY <1>1, <1>4, <1>e, <1>6, <1>7, <1>8, <2>1 DEF FilesTypeOK
<1>10. fres'.state = "reading" /\ fres'.jobs = jobs /\ fres'.todo = 1..n /\ fres'.remaining = freq.budget
       /\ fres'.left = left /\ fres'.items = items
  BY <1>1, <1>e DEF FilesTypeOK
<1>11. Due' = due
  BY <1>10 DEF Due
<1>12. LoopInv'
  BY <1>5, <1>6, <1>10, <1>11 DEF LoopInv, ItemIs, left, n
<1>13. SpentInv'
  <2> DEFINE s == [i \in 1..Len(items) |-> items[i].content]
  <2>1. s \in Seq(Int) /\ Len(s) = n /\ \A i \in 1..n : s[i] = 0
    BY <1>5, <1>6
  <2>2. Total(s) = 0
    <3> HIDE DEF s
    <3> QED
      BY <2>1, TotalZero
  <2>3. Numbered(freq.budget)' = Numbered(freq.budget) /\ Numbered(freq.budget) \in Nat
    BY <1>1, <1>2 DEF Numbered
  <2>4. Total(s) = Total([i \in 1..Len(fres'.items) |-> fres'.items[i].content])
    BY <1>10
  <2> HIDE DEF s
  <2>5. 0 \in Nat /\ 0 + freq.budget <= freq.budget /\ 0 <= Numbered(freq.budget)
    BY <1>2, <2>3
  <2> QED
    BY <1>1, <1>10, <2>2, <2>3, <2>4, <2>5 DEF SpentInv
<1>14. \A i \in 1..n : ~Short(i)'
  BY <1>6, <1>10 DEF Short, ItemIs
<1>15. FitInv'
  <2> DEFINE c(i) == IF jobs[i].err THEN 0 ELSE Numbered(jobs[i].file.size) + ItemOverhead
  <2>1. ASSUME NEW i \in 1..n PROVE Claim(i)' = c(i)
    <3>1. i \in Due' <=> ~jobs[i].err
      BY <1>11
    <3>2. Claim(i)' = IF i \in Due' THEN Numbered(jobs[i].file.size) + ItemOverhead ELSE 0
      BY <1>1, <1>10 DEF Claim, Numbered
    <3> QED
      BY <3>1, <3>2
  <2>2. [i \in 1..n |-> Claim(i)'] = [i \in 1..n |-> c(i)]
    <3> HIDE DEF c
    <3> QED
      BY <2>1
  <2>3. Fits(fres.jobs)' => Total([i \in 1..n |-> c(i)]) <= freq.budget
    BY <1>1, <1>10 DEF Fits, n, Numbered
  <2>4. Fits(fres.jobs)' => Total([i \in 1..n |-> Claim(i)']) <= fres'.remaining
    BY <1>10, <2>2, <2>3
  <2>5. Len(fres'.jobs) = n
    BY <1>10 DEF n
  <2> QED
    BY <1>14, <2>4, <2>5 DEF FitInv
<1>16. ShareInv'
  BY <1>10, <1>14 DEF ShareInv, n
<1>17. freq' \in FilesRequest /\ freq'.kind = "files"
  BY <1>1
<1> QED
  BY <1>9, <1>12, <1>13, <1>15, <1>16, <1>17 DEF FilesInv

\* The end of the loop changes nothing it speaks of.
LEMMA EndFilesHolds ==
  ASSUME FilesInv, EndFiles
  PROVE  FilesInv'
<1>1. FilesTypeOK /\ freq \in FilesRequest /\ freq.kind = "files" /\ freq' = freq /\ fres.state = "reading"
  BY DEF FilesInv, EndFiles
<1>2. LoopInv /\ SpentInv /\ FitInv /\ ShareInv
  BY <1>1 DEF FilesInv
<1> DEFINE answered == {i \in 1..Len(fres.items) : fres.items[i].state # "unread"}
           notRead == Len(AllJobs(freq.paths)) - Cardinality(answered)
           truncated == notRead > 0 \/ \E i \in answered : fres.items[i].cut
<1>3. fres' = [fres EXCEPT !.state = "done", !.files = answered, !.notRead = notRead, !.truncated = truncated]
  BY DEF EndFiles
<1>4. answered \in SUBSET Nat /\ truncated \in BOOLEAN
  <2>1. Len(fres.items) \in Nat
    BY <1>1, <1>2, LoopTypes
  <2> QED
    BY <2>1
<1>5. notRead \in Int
  <2>1. AllJobs(freq.paths) \in Seq(ReadJob)
    BY <1>1, AllJobsType DEF FilesRequest
  <2>2. Len(AllJobs(freq.paths)) \in Nat
    BY <2>1, LenProperties
  <2>3. IsFiniteSet(1..Len(fres.items))
    BY <1>1, <1>2, LoopTypes, FS_Interval
  <2>4. answered \subseteq 1..Len(fres.items)
    OBVIOUS
  <2> HIDE DEF answered
  <2>5. Cardinality(answered) \in Nat
    BY <2>3, <2>4, FS_Subset, FS_CardinalityType
  <2> QED
    BY <2>2, <2>5
<1> HIDE DEF answered, notRead, truncated
<1>6. FilesTypeOK'
  BY <1>1, <1>3, <1>4, <1>5 DEF FilesTypeOK
<1>7. fres'.jobs = fres.jobs /\ fres'.todo = fres.todo /\ fres'.remaining = fres.remaining
      /\ fres'.left = fres.left /\ fres'.items = fres.items
  BY <1>1, <1>3 DEF FilesTypeOK
<1>8. Due' = Due /\ \A k : (Short(k)' <=> Short(k)) /\ (Whole(k)' <=> Whole(k))
  BY <1>7 DEF Due, Short, Whole, ItemIs
<1>9. LoopInv'
  BY <1>2, <1>7, <1>8 DEF LoopInv, ItemIs
<1>10. SpentInv'
  BY <1>1, <1>2, <1>7 DEF SpentInv, Numbered
<1>11. FitInv'
  BY <1>1, <1>2, <1>7, <1>8 DEF FitInv, Fits, Steady, Claim, Numbered
<1>12. ShareInv'
  BY <1>1, <1>2, <1>7, <1>8 DEF ShareInv, Steady, Tight, GivenBack, Freed, ItemIs
<1>13. freq' \in FilesRequest /\ freq'.kind = "files"
  BY <1>1
<1> QED
  BY <1>6, <1>9, <1>10, <1>11, <1>12, <1>13 DEF FilesInv

-----------------------------------------------------------------------------
(* Picked lines.                                                           *)

\* A page is a beginning of the lines that are there, and not empty if any is.
LEMMA PageIs ==
  ASSUME freq \in LinesRequest, NEW want \in SUBSET (Nat \ {0}), NEW there, there = {l \in want : l <= Len(freq.file)}
  PROVE  /\ Page(want) \subseteq there
         /\ \A l \in Page(want), k \in there : k <= l => k \in Page(want)
         /\ there # {} => Page(want) # {}
<1> DEFINE Ok(k) == (\A j \in there : k <= j) \/ PageLen(there, k) <= freq.max
<1>1. Page(want) = {l \in there : \A k \in there : k <= l => Ok(k)}
  BY DEF Page
<1>2. there \in SUBSET Nat
  OBVIOUS
<1>3. ASSUME NEW l \in Page(want), NEW k \in there, k <= l PROVE k \in Page(want)
  <2>1. ASSUME NEW j \in there, j <= k PROVE Ok(j)
    <3>1. j <= l
      <4>1. l \in Nat /\ k \in Nat /\ j \in Nat
        BY <1>1, <1>2
      <4> QED
        BY <1>3, <2>1, <4>1
    <3> HIDE DEF Ok
    <3> QED
      BY <1>1, <3>1
  <2> HIDE DEF Ok
  <2> QED
    BY <1>1, <2>1
<1>4. ASSUME there # {} PROVE Page(want) # {}
  <2>1. PICK x \in there : \A y \in there : x <= y
    BY <1>2, <1>4, LeastNat
  <2>2. ASSUME NEW k \in there, k <= x PROVE \A j \in there : k <= j
    <3>1. k = x
      BY <1>2, <2>1, <2>2
    <3> QED
      BY <2>1, <3>1
  <2> QED
    BY <1>1, <2>1, <2>2
<1> QED
  BY <1>1, <1>3, <1>4

\* A page and the lines asked for next are disjoint parts of what was wanted.
LEMMA PickedLinesHold ==
  ASSUME FilesInv, ReadPickedLines
  PROVE  FilesInv'
<1>1. FilesTypeOK /\ freq \in LinesRequest /\ PagesInv /\ freq.kind = "lines" /\ freq' = freq /\ fres.state \in {"new", "reading"}
  BY DEF FilesInv, ReadPickedLines
<1>2. freq.want \in SUBSET (Nat \ {0}) /\ freq.file \in Seq(Nat)
  BY <1>1 DEF LinesRequest
<1>3. Len(freq.file) \in Nat
  BY <1>2, LenProperties
<1> DEFINE Gets(want, page) ==
       LET rest == {l \in want : l <= Len(freq.file)} \ page
           cursor == CHOOSE l \in rest : \A k \in rest : l <= k
       IN  fres' = IF rest = {}
                   THEN [fres EXCEPT !.state = "done", !.got = Append(@, page), !.want = {}, !.missing = {l \in want : l > Len(freq.file)}]
                   ELSE [fres EXCEPT !.state = "reading", !.got = Append(@, page), !.want = {l \in want : l >= cursor}]
<1>a. PICK want \in {IF fres.state = "new" THEN freq.want ELSE fres.want} : \E page \in {Page(want)} : Gets(want, page)
  BY DEF ReadPickedLines
<1>4. PICK page \in {Page(want)} : Gets(want, page)
  BY <1>a
<1> DEFINE N == Len(freq.file)
           there == {l \in want : l <= N}
           rest == there \ page
           cursor == CHOOSE l \in rest : \A k \in rest : l <= k
           old == UNION {fres.got[i] : i \in 1..Len(fres.got)}
           m == Len(fres.got)
<1>5. /\ want \in SUBSET (Nat \ {0}) /\ old \cup want = freq.want
      /\ (\A i \in 1..m : fres.got[i] \cap want = {} /\ fres.got[i] \subseteq 1..N)
      /\ (\A i, j \in 1..m : i # j => fres.got[i] \cap fres.got[j] = {})
      /\ m \in Nat /\ fres.got \in Seq(SUBSET Nat)
  <2>1. fres.got \in Seq(SUBSET Nat) /\ m \in Nat
    BY <1>1, LenProperties DEF FilesTypeOK
  <2>2. CASE fres.state = "new"
    <3>1. fres.got = <<>> /\ want = freq.want
      BY <1>1, <1>4, <2>2 DEF PagesInv
    <3>2. m = 0 /\ old = {}
      BY <3>1
    <3> QED
      BY <1>2, <2>1, <3>1, <3>2
  <2>3. CASE fres.state = "reading"
    <3>1. want = fres.want
      BY <1>4, <2>3
    <3>2. old \cup want = freq.want /\ (\A i, j \in 1..m : i # j => fres.got[i] \cap fres.got[j] = {})
      BY <1>1, <2>3, <3>1 DEF PagesInv, PickedLinesOnce
    <3>3. \A i \in 1..m : fres.got[i] \cap want = {} /\ fres.got[i] \subseteq 1..N
      BY <1>1, <2>3, <3>1 DEF PagesInv
    <3> QED
      BY <1>2, <2>1, <3>2, <3>3
  <2> QED
    BY <1>1, <2>2, <2>3
<1>6. page \subseteq there /\ (\A l \in page, k \in there : k <= l => k \in page) /\ (there # {} => page # {})
  BY <1>1, <1>4, <1>5, PageIs
<1>7. there \subseteq 1..N /\ there \subseteq want /\ page \in SUBSET Nat /\ there \in SUBSET Nat
  <2>1. N \in Nat
    BY <1>3
  <2> HIDE DEF N
  <2>2. \A l \in there : l \in want /\ l \in Nat \ {0} /\ l <= N
    BY <1>5
  <2> HIDE DEF there
  <2>3. \A l \in there : l \in 1..N
    BY <2>1, <2>2
  <2> QED
    BY <1>6, <2>2, <2>3
<1>8. fres' = IF rest = {}
              THEN [fres EXCEPT !.state = "done", !.got = Append(@, page), !.want = {}, !.missing = {l \in want : l > N}]
              ELSE [fres EXCEPT !.state = "reading", !.got = Append(@, page), !.want = {l \in want : l >= cursor}]
  BY <1>4
<1> DEFINE got == Append(fres.got, page)
           new == UNION {got[i] : i \in 1..Len(got)}
<1> HIDE DEF N, there, rest, cursor, m
<1>9. got \in Seq(SUBSET Nat) /\ Len(got) = m + 1 /\ got[m + 1] = page /\ \A i \in 1..m : got[i] = fres.got[i]
  BY <1>5, <1>7, AppendProperties DEF m
<1> HIDE DEF got
<1>10. new = old \cup page
  <2>1. 1..(m + 1) = (1..m) \cup {m + 1}
    BY <1>5
  <2> QED
    BY <1>9, <2>1 DEF m
<1>11. \A i \in 1..(m + 1) : got[i] \subseteq 1..N
  BY <1>5, <1>6, <1>7, <1>9
<1>12. \A i, j \in 1..(m + 1) : i # j => got[i] \cap got[j] = {}
  <2>1. \A i \in 1..m : fres.got[i] \cap page = {}
    BY <1>5, <1>6, <1>7
  <2>2. \A i \in 1..(m + 1) : i \in 1..m \/ i = m + 1
    BY <1>5
  <2> QED
    BY <1>5, <1>9, <2>1, <2>2
<1>13. freq' \in LinesRequest /\ freq'.kind = "lines" /\ N' = N
  BY <1>1 DEF N
<1>14. CASE rest = {}
  <2> DEFINE missing == {l \in want : l > N}
  <2>1. missing \in SUBSET Nat
    BY <1>5
  <2>2. new \cup missing = freq.want
    <3>1. want = there \cup missing
      <4>1. N \in Nat
        BY <1>3 DEF N
      <4>2. \A l \in want : l \in Nat /\ (l <= N \/ l > N)
        BY <1>5, <4>1
      <4> QED
        BY <4>2 DEF there
    <3>2. page = there
      BY <1>6, <1>14 DEF rest
    <3> QED
      BY <1>5, <1>10, <3>1, <3>2
  <2> HIDE DEF missing
  <2>3. fres' = [fres EXCEPT !.state = "done", !.got = got, !.want = {}, !.missing = missing]
    BY <1>8, <1>14 DEF missing, got
  <2>4. FilesTypeOK'
    BY <1>1, <1>9, <2>1, <2>3 DEF FilesTypeOK
  <2>5. fres'.state = "done" /\ fres'.got = got /\ fres'.missing = missing
    BY <1>1, <2>3 DEF FilesTypeOK
  <2>6. new \subseteq 1..N
    BY <1>9, <1>11
  <2>7. PickedLinesOnce'
    BY <1>1, <1>9, <1>12, <2>2, <2>5, <2>6 DEF PickedLinesOnce, N
  <2>8. PagesInv'
    BY <1>1, <1>9, <1>11, <2>5, <2>7 DEF PagesInv, N
  <2> QED
    BY <1>13, <2>4, <2>8 DEF FilesInv
<1>15. CASE rest # {}
  <2> DEFINE next == {l \in want : l >= cursor}
  <2>1. rest \in SUBSET Nat
    BY <1>7 DEF rest
  <2>2. cursor \in rest /\ \A k \in rest : cursor <= k
    <3>1. \E x \in rest : \A y \in rest : x <= y
      BY <1>15, <2>1, LeastNat
    <3> QED
      BY <3>1 DEF cursor
  <2>3. cursor \in Nat /\ cursor \in there /\ cursor \notin page /\ cursor <= N
    BY <2>1, <2>2, <1>3, <1>7 DEF rest, there, N
  <2>4. page \cap next = {}
    <3> SUFFICES ASSUME NEW l \in page, l \in next PROVE FALSE
      OBVIOUS
    <3>1. cursor <= l
      BY <1>7, <2>3
    <3> QED
      BY <1>6, <2>3, <3>1
  <2>5. page \cup next = want
    <3>1. ASSUME NEW l \in want, l \notin page PROVE l >= cursor
      <4>1. l \in Nat /\ N \in Nat
        BY <1>3, <1>5 DEF N
      <4>2. CASE l <= N
        <5>1. l \in rest
          BY <3>1, <4>2 DEF rest, there
        <5> QED
          BY <2>2, <2>3, <4>1, <5>1
      <4>3. CASE ~(l <= N)
        BY <2>3, <4>1, <4>3
      <4> QED
        BY <4>2, <4>3
    <3> QED
      BY <1>6, <1>7, <3>1
  <2>6. next \in SUBSET Nat /\ next \subseteq want
    BY <1>5
  <2>7. fres' = [fres EXCEPT !.state = "reading", !.got = got, !.want = next]
    BY <1>8, <1>15 DEF got
  <2> HIDE DEF next
  <2>8. FilesTypeOK'
    BY <1>1, <1>9, <2>6, <2>7 DEF FilesTypeOK
  <2>9. fres'.state = "reading" /\ fres'.got = got /\ fres'.want = next
    BY <1>1, <2>7 DEF FilesTypeOK
  <2>10. new \cup next = freq.want
    BY <1>5, <1>10, <2>5
  <2>11. got[Len(got)] # {}
    BY <1>6, <1>9, <2>3
  <2>12. PickedLinesOnce'
    BY <1>1, <1>9, <1>12, <2>9, <2>10, <2>11 DEF PickedLinesOnce
  <2>13. \A i \in 1..Len(got) : got[i] \cap next = {}
    <3>1. \A i \in 1..(m + 1) : i \in 1..m \/ i = m + 1
      BY <1>5
    <3> QED
      BY <1>5, <1>9, <2>4, <2>6, <3>1
  <2>14. PagesInv'
    BY <1>1, <1>9, <1>11, <2>9, <2>12, <2>13 DEF PagesInv, N
  <2> QED
    BY <1>13, <2>8, <2>14 DEF FilesInv
<1> QED
  BY <1>14, <1>15

-----------------------------------------------------------------------------

\* The inductive invariant of remote_read_files and of the client that picks
\* lines, for files of any sizes, any budget and any pages (ReadFiles,
\* readPickedLines).
THEOREM FilesInductive ==
  ASSUME NEW requests, requests \subseteq FilesRequest \cup LinesRequest
  PROVE  ReadFilesSpec(requests) => []FilesInv
<1>1. ReadFilesStarts(requests) => FilesInv
  <2> SUFFICES ASSUME ReadFilesStarts(requests) PROVE FilesInv
    OBVIOUS
  <2>1. fres = NoReads /\ freq \in FilesRequest \cup LinesRequest
    BY DEF ReadFilesStarts
  <2>2. FilesTypeOK /\ fres.state = "new" /\ fres.got = <<>>
    BY <2>1 DEF NoReads, FilesTypeOK
  <2>3. (freq.kind = "files" => freq \in FilesRequest) /\ (freq.kind = "lines" => freq \in LinesRequest)
    BY <2>1 DEF FilesRequest, LinesRequest
  <2>4. PagesInv
    BY <2>2 DEF PagesInv, PickedLinesOnce
  <2> QED
    BY <2>2, <2>3, <2>4 DEF FilesInv
<1>2. FilesInv /\ [ReadFilesNext]_filesVars => FilesInv'
  <2> SUFFICES ASSUME FilesInv, [ReadFilesNext]_filesVars PROVE FilesInv'
    OBVIOUS
  <2>1. CASE Expand
    BY <2>1, ExpandHolds
  <2>2. ASSUME NEW i \in fres.todo, ReadOne(i) PROVE FilesInv'
    <3>1. freq.kind = "files"
      BY <2>2 DEF ReadOne
    <3> QED
      BY <2>2, <3>1, ReadOneHolds
  <2>3. CASE EndFiles
    BY <2>3, EndFilesHolds
  <2>4. CASE ReadPickedLines
    BY <2>4, PickedLinesHold
  <2>5. CASE UNCHANGED filesVars
    <3>1. freq' = freq /\ fres' = fres
      BY <2>5 DEF filesVars
    <3>2. FilesTypeOK => FilesTypeOK'
      BY <3>1 DEF FilesTypeOK
    <3>3. LoopInv => LoopInv'
      BY <3>1 DEF LoopInv, Due, ItemIs
    <3>4. SpentInv => SpentInv'
      BY <3>1 DEF SpentInv, Numbered
    <3>5. FitInv => FitInv'
      <4>1. (Steady' <=> Steady) /\ (Fits(fres.jobs)' <=> Fits(fres.jobs)) /\ \A i : Claim(i)' = Claim(i) /\ (Short(i)' <=> Short(i))
        BY <3>1 DEF Steady, Fits, Claim, Short, ItemIs, Numbered, Due
      <4> QED
        BY <3>1, <4>1 DEF FitInv
    <3>6. ShareInv => ShareInv'
      BY <3>1 DEF ShareInv, Steady, Short, Whole, Tight, GivenBack, Freed, ItemIs
    <3>7. PagesInv => PagesInv'
      BY <3>1 DEF PagesInv, PickedLinesOnce
    <3> QED
      BY <3>2, <3>3, <3>4, <3>5, <3>6, <3>7, <3>1 DEF FilesInv
  <2> QED
    BY <2>1, <2>2, <2>3, <2>4, <2>5 DEF ReadFilesNext
<1> QED
  BY <1>1, <1>2, PTL DEF ReadFilesSpec

\* remote_read_files keeps its budget, spends it where it reads most files
\* whole, and a client that picks lines gets each once (ReadFiles,
\* readPickedLines).
THEOREM ReadsExact ==
  ASSUME NEW requests, requests \subseteq FilesRequest \cup LinesRequest
  PROVE  ReadFilesSpec(requests) => []ReadFilesExact
<1>1. FilesInv => ReadFilesExact
  <2> SUFFICES ASSUME FilesInv PROVE ReadFilesExact
    OBVIOUS
  <2>1. BudgetHolds
    BY DEF FilesInv, SpentInv, BudgetHolds
  <2>2. SmallFilesAreWhole
    BY DEF FilesInv, FitInv, ShareInv, SmallFilesAreWhole
  <2>3. PickedLinesOnce
    <3>1. CASE freq.kind = "lines"
      BY <3>1 DEF FilesInv, PagesInv
    <3>2. CASE freq.kind # "lines"
      BY <3>2 DEF PickedLinesOnce
    <3> QED
      BY <3>1, <3>2
  <2> QED
    BY <2>1, <2>2, <2>3 DEF ReadFilesExact
<1>2. ReadFilesSpec(requests) => []FilesInv
  BY FilesInductive
<1> QED
  BY <1>1, <1>2, PTL

-----------------------------------------------------------------------------
(* Paths.                                                                  *)

\* Names of path components.
Words == Names \cup {"root", "outside"}

\* A path is in the root, and not too deep, or beside it.
LEMMA PathIs ==
  ASSUME NEW p \in Paths
  PROVE  /\ p \in Seq(Words) /\ Len(p) \in Nat /\ Len(p) >= 1
         /\ p[1] = "root" => Len(p) <= Depth
         /\ p[1] = "outside" => Len(p) <= 2
         /\ p[1] \in {"root", "outside"}
         /\ Len(p) = 1 => p \in {Root, Outside}
         /\ \A i \in 2..Len(p) : p[i] \in Names
<1>1. CASE \E s \in UNION {[1..n -> Names] : n \in 0..(Depth - 1)} : p = Root \o s
  <2>0. PICK s \in UNION {[1..n -> Names] : n \in 0..(Depth - 1)} : p = Root \o s
    BY <1>1
  <2>1. PICK n \in 0..(Depth - 1) : s \in [1..n -> Names] /\ p = Root \o s
    BY <2>0
  <2>2. Depth \in Nat /\ n \in Nat /\ n + 1 <= Depth
    BY FileTreeAssumption
  <2>3. s \in Seq(Names) /\ Len(s) = n
    <3>1. s \in [1..n -> Names] /\ n \in Nat
      BY <2>1, <2>2
    <3>2. s \in Seq(Names)
      BY <3>1, SeqDef, Zenon
    <3>3. DOMAIN s = 1..n
      BY <3>1
    <3> QED
      BY <3>1, <3>2, <3>3, LenProperties
  <2>4. s \in Seq(Words)
    BY <2>3 DEF Words
  <2>5. Root \in Seq(Words) /\ Len(Root) = 1 /\ Root[1] = "root"
    BY DEF Words, Root
  <2>6. /\ Root \o s \in Seq(Words) /\ Len(Root \o s) = 1 + n
        /\ \A i \in 1..(1 + n) : (Root \o s)[i] = IF i <= 1 THEN Root[i] ELSE s[i - 1]
    <3>1. /\ Root \o s \in Seq(Words) /\ Len(Root \o s) = Len(Root) + Len(s)
          /\ \A i \in 1..(Len(Root) + Len(s)) :
               (Root \o s)[i] = IF i <= Len(Root) THEN Root[i] ELSE s[i - Len(Root)]
      BY <2>4, <2>5, ConcatProperties
    <3> QED
      BY <3>1, <2>3, <2>5
  <2>7. p[1] = "root" /\ Len(p) = n + 1 /\ p \in Seq(Words)
    BY <2>1, <2>2, <2>5, <2>6
  <2>8. ASSUME NEW i \in 2..Len(p) PROVE p[i] \in Names
    <3>1. i \in 1..(1 + n) /\ ~(i <= 1) /\ i - 1 \in 1..n
      BY <2>2, <2>7
    <3> QED
      BY <3>1, <2>1, <2>6
  <2>9. ASSUME Len(p) = 1 PROVE p = Root
    <3>1. Len(p) = Len(Root) /\ \A i \in 1..Len(p) : p[i] = Root[i]
      <4>1. \A i \in 1..Len(p) : i = 1
        BY <2>9
      <4> QED
        BY <4>1, <2>5, <2>7, <2>9
    <3> QED
      BY <3>1, <2>5, <2>7, SeqEqual
  <2> QED
    BY <2>2, <2>7, <2>8, <2>9
<1>2. CASE p = Outside
  <2>1. p = <<"outside">> /\ "outside" \in Words
    BY <1>2 DEF Outside, Words
  <2>2. p \in Seq(Words) /\ Len(p) = 1 /\ p[1] = "outside"
    BY <2>1
  <2> QED
    BY <2>2, <1>2
<1>3. CASE \E n \in Names : p = Append(Outside, n)
  <2>1. PICK n \in Names : p = Append(Outside, n)
    BY <1>3
  <2>2. Outside \in Seq(Words) /\ Len(Outside) = 1 /\ Outside[1] = "outside" /\ n \in Words
    BY DEF Words, Outside
  <2>3. p \in Seq(Words) /\ Len(p) = 1 + 1 /\ (\A i \in 1..1 : p[i] = Outside[i]) /\ p[1 + 1] = n
    <3>1. /\ Append(Outside, n) \in Seq(Words) /\ Len(Append(Outside, n)) = Len(Outside) + 1
          /\ (\A i \in 1..Len(Outside) : Append(Outside, n)[i] = Outside[i]) /\ Append(Outside, n)[Len(Outside) + 1] = n
      BY <2>2, AppendProperties
    <3> QED
      BY <3>1, <2>1, <2>2
  <2>4. Len(p) = 2 /\ p[1] = "outside" /\ p[2] = n
    BY <2>2, <2>3
  <2>5. \A i \in 2..2 : i = 2
    OBVIOUS
  <2> QED
    BY <2>3, <2>4, <2>5
<1> QED
  BY <1>1, <1>2, <1>3 DEF Paths

\* What the paths are, seen as sequences of names.
Pathlike(p) ==
  /\ Len(p) >= 1 /\ \A i \in 2..Len(p) : p[i] \in Names
  /\ (p[1] = "root" /\ Len(p) <= Depth) \/ (p[1] = "outside" /\ Len(p) <= 2)

\* What is built like one is a path.
LEMMA IsAPath ==
  ASSUME NEW p \in Seq(Words), Pathlike(p)
  PROVE  p \in Paths
<1>1. Len(p) \in Nat /\ Len(p) >= 1
  BY LenProperties DEF Pathlike
<1>2. CASE p[1] = "root" /\ Len(p) <= Depth
  <2> DEFINE n == Len(p) - 1
             s == [i \in 1..n |-> p[i + 1]]
  <2>1. Depth \in Nat /\ n \in Nat /\ n \in 0..(Depth - 1)
    BY FileTreeAssumption, <1>1, <1>2
  <2>2. s \in [1..n -> Names]
    <3>1. ASSUME NEW i \in 1..n PROVE p[i + 1] \in Names
      <4>1. i + 1 \in 2..Len(p)
        BY <2>1
      <4> QED
        BY <4>1 DEF Pathlike
    <3> QED
      BY <3>1
  <2>3. s \in Seq(Names) /\ Len(s) = n
    <3> HIDE DEF s, n
    <3> QED
      BY <2>1, <2>2
  <2>4. s \in Seq(Words)
    BY <2>3 DEF Words
  <2>5. Root \in Seq(Words) /\ Len(Root) = 1 /\ Root[1] = "root"
    BY DEF Words, Root
  <2>6. \A i \in 1..n : s[i] = p[i + 1]
    OBVIOUS
  <2> HIDE DEF s
  <2>7. /\ Root \o s \in Seq(Words) /\ Len(Root \o s) = 1 + n
        /\ \A i \in 1..(1 + n) : (Root \o s)[i] = IF i <= 1 THEN Root[i] ELSE s[i - 1]
    <3>1. /\ Root \o s \in Seq(Words) /\ Len(Root \o s) = Len(Root) + Len(s)
          /\ \A i \in 1..(Len(Root) + Len(s)) :
               (Root \o s)[i] = IF i <= Len(Root) THEN Root[i] ELSE s[i - Len(Root)]
      BY <2>4, <2>5, ConcatProperties
    <3> QED
      BY <3>1, <2>3, <2>5
  <2>8. ASSUME NEW i \in 1..Len(p) PROVE p[i] = (Root \o s)[i]
    <3>1. i \in 1..(1 + n)
      BY <2>1
    <3>2. CASE i <= 1
      BY <3>1, <3>2, <2>5, <2>7, <1>2
    <3>3. CASE ~(i <= 1)
      <4>1. i - 1 \in 1..n /\ (i - 1) + 1 = i
        BY <3>1, <3>3, <2>1
      <4> QED
        BY <3>1, <3>3, <4>1, <2>6, <2>7
    <3> QED
      BY <3>2, <3>3
  <2>9. p = Root \o s
    <3> DEFINE r == Root \o s
    <3>1. r \in Seq(Words) /\ Len(p) = Len(r) /\ \A i \in 1..Len(p) : p[i] = r[i]
      BY <2>1, <2>7, <2>8
    <3> HIDE DEF r
    <3>2. p = r
      BY <3>1, SeqEqual
    <3> QED
      BY <3>2 DEF r
  <2> HIDE DEF n
  <2> QED
    BY <2>1, <2>2, <2>9 DEF Paths
<1>3. CASE p[1] = "outside" /\ Len(p) <= 2
  <2>1. Outside \in Seq(Words) /\ Len(Outside) = 1 /\ Outside[1] = "outside"
    BY DEF Words, Outside
  <2>2. CASE Len(p) = 1
    <3>1. \A i \in 1..Len(p) : p[i] = Outside[i]
      BY <2>1, <2>2, <1>3
    <3>2. p = Outside
      BY <3>1, <2>1, <2>2, SeqEqual
    <3> QED
      BY <3>2 DEF Paths
  <2>3. CASE Len(p) = 2
    <3> DEFINE r == Append(Outside, p[2])
    <3>1. p[2] \in Names /\ p[2] \in Words
      BY <2>3 DEF Words, Pathlike
    <3>2. r \in Seq(Words) /\ Len(r) = 1 + 1 /\ (\A i \in 1..1 : r[i] = Outside[i]) /\ r[1 + 1] = p[2]
      <4>1. /\ r \in Seq(Words) /\ Len(r) = Len(Outside) + 1
            /\ (\A i \in 1..Len(Outside) : r[i] = Outside[i]) /\ r[Len(Outside) + 1] = p[2]
        <5> DEFINE e == p[2]
        <5>1. e \in Words
          BY <3>1
        <5> HIDE DEF e
        <5>2. /\ Append(Outside, e) \in Seq(Words) /\ Len(Append(Outside, e)) = Len(Outside) + 1
              /\ (\A i \in 1..Len(Outside) : Append(Outside, e)[i] = Outside[i])
              /\ Append(Outside, e)[Len(Outside) + 1] = e
          <6>1. Outside \in Seq(Words)
            BY <2>1
          <6> HIDE DEF r
          <6> QED
            BY <5>1, <6>1, AppendProperties
        <5> QED
          BY <5>2 DEF e
      <4> HIDE DEF r
      <4> QED
        BY <4>1, <2>1
    <3>3. r \in Seq(Words) /\ Len(p) = Len(r) /\ \A i \in 1..Len(p) : p[i] = r[i]
      <4>1. Len(r) = 2 /\ r[1] = "outside" /\ r[2] = p[2]
        BY <3>2, <2>1
      <4>2. \A i \in 1..Len(p) : i = 1 \/ i = 2
        BY <2>3
      <4> HIDE DEF r
      <4> QED
        BY <4>1, <4>2, <3>2, <2>3, <1>3
    <3> HIDE DEF r
    <3>4. p = r
      BY <3>3, SeqEqual
    <3> QED
      BY <3>4, <3>1 DEF Paths, r
  <2>4. Len(p) = 1 \/ Len(p) = 2
    <3> DEFINE n == Len(p)
    <3>1. n \in Nat /\ n >= 1 /\ n <= 2
      BY <1>1, <1>3
    <3> HIDE DEF n
    <3>2. n = 1 \/ n = 2
      BY <3>1
    <3> QED
      BY <3>2 DEF n
  <2> QED
    BY <2>2, <2>3, <2>4
<1> QED
  BY <1>2, <1>3 DEF Pathlike

\* A path lies under another that begins it.
LEMMA UnderIs ==
  ASSUME NEW p \in Seq(Words), NEW q \in Seq(Words)
  PROVE  Under(p, q) <=> Len(q) <= Len(p) /\ \A i \in 1..Len(q) : q[i] = p[i]
BY PrefixIs DEF Under

\* A path lies under itself.
LEMMA UnderSelf ==
  ASSUME NEW p \in Seq(Words)
  PROVE  Under(p, p)
<1>1. Len(p) <= Len(p)
  BY LenProperties
<1> QED
  BY <1>1, UnderIs

\* Lying under is transitive.
LEMMA UnderChain ==
  ASSUME NEW p \in Seq(Words), NEW q \in Seq(Words), NEW r \in Seq(Words), Under(p, q), Under(q, r)
  PROVE  Under(p, r)
BY PrefixChain DEF Under

\* Of two paths above one another path, one is above the other.
LEMMA UnderNest ==
  ASSUME NEW p \in Seq(Words), NEW q \in Seq(Words), NEW r \in Seq(Words), Under(p, q), Under(p, r)
  PROVE  Under(q, r) \/ Under(r, q)
<1>1. Len(q) \in Nat /\ Len(r) \in Nat
  BY LenProperties
<1>2. Len(q) <= Len(r) \/ Len(r) <= Len(q)
  BY <1>1
<1> QED
  BY <1>2, PrefixesNest DEF Under

\* Paths under one another are the same.
LEMMA UnderBoth ==
  ASSUME NEW p \in Seq(Words), NEW q \in Seq(Words), Under(p, q), Len(p) <= Len(q)
  PROVE  p = q
<1>1. Len(p) \in Nat /\ Len(q) \in Nat
  BY LenProperties
<1>2. Len(q) <= Len(p) /\ \A i \in 1..Len(q) : q[i] = p[i]
  BY UnderIs
<1>3. Len(p) = Len(q)
  BY <1>1, <1>2
<1>4. \A i \in 1..Len(p) : p[i] = q[i]
  BY <1>2, <1>3
<1> QED
  BY <1>3, <1>4, SeqEqual

\* A path and one more component.
LEMMA AppendIs ==
  ASSUME NEW d \in Seq(Words), NEW n \in Words
  PROVE  /\ Append(d, n) \in Seq(Words) /\ Len(Append(d, n)) = Len(d) + 1
         /\ Front(Append(d, n)) = d /\ Last(Append(d, n)) = n /\ Under(Append(d, n), d)
<1> DEFINE p == Append(d, n)
<1>1. p \in Seq(Words) /\ Len(p) = Len(d) + 1 /\ (\A i \in 1..Len(d) : p[i] = d[i]) /\ p[Len(d) + 1] = n
  BY AppendProperties
<1>2. Len(d) \in Nat
  BY LenProperties
<1> HIDE DEF p
<1>3. Last(p) = n
  BY <1>1 DEF Last
<1>4. Under(p, d)
  <2>1. Len(d) <= Len(p) /\ \A i \in 1..Len(d) : d[i] = p[i]
    BY <1>1, <1>2
  <2> QED
    BY <2>1, <1>1, UnderIs
<1>5. Front(p) = d
  <2>1. SubSeq(d, 1, Len(d)) = SubSeq(p, 1, Len(d))
    BY <1>4 DEF Under, IsPrefix
  <2>2. SubSeq(d, 1, Len(d)) = d
    BY SubSeqFull
  <2>3. Len(p) - 1 = Len(d)
    BY <1>1, <1>2
  <2> QED
    BY <2>1, <2>2, <2>3 DEF Front
<1> QED
  BY <1>1, <1>3, <1>4, <1>5 DEF p

\* A path is its parent and its last component (filepath.Dir, filepath.Base).
LEMMA FrontIs ==
  ASSUME NEW p \in Seq(Words), Len(p) >= 1
  PROVE  /\ Front(p) \in Seq(Words) /\ Len(Front(p)) = Len(p) - 1 /\ Last(p) \in Words
         /\ Append(Front(p), Last(p)) = p /\ Under(p, Front(p))
<1>1. Len(p) \in Nat
  BY LenProperties
<1>2. p # <<>>
  <2>1. Len(<<>>) = 0
    OBVIOUS
  <2> QED
    BY <2>1
<1>3. PICK d \in Seq(Words), n \in Words : p = Append(d, n)
  BY <1>2, SequenceEmptyOrAppend
<1>4. /\ Len(p) = Len(d) + 1 /\ Front(p) = d /\ Last(p) = n /\ Under(p, d)
  BY <1>3, AppendIs
<1>5. Len(d) \in Nat
  BY LenProperties
<1> QED
  BY <1>3, <1>4, <1>5

\* Above an entry of a directory is the entry or what is above the directory.
LEMMA UnderAppend ==
  ASSUME NEW d \in Seq(Words), NEW n \in Words, NEW q \in Seq(Words), Under(Append(d, n), q)
  PROVE  q = Append(d, n) \/ Under(d, q)
<1> DEFINE p == Append(d, n)
<1>1. p \in Seq(Words) /\ Len(p) = Len(d) + 1 /\ Under(p, d) /\ Under(p, q)
  BY AppendIs
<1> HIDE DEF p
<1>2. Len(d) \in Nat /\ Len(q) \in Nat
  BY LenProperties
<1>3. CASE Len(q) <= Len(d)
  BY <1>1, <1>3, PrefixesNest DEF Under
<1>4. CASE Len(p) <= Len(q)
  <2>1. p = q
    BY <1>1, <1>4, UnderBoth
  <2> QED
    BY <2>1 DEF p
<1> QED
  BY <1>1, <1>2, <1>3, <1>4

\* The root of the sandbox is a path of one component.
LEMMA RootIs == Root \in Seq(Words) /\ Len(Root) = 1 /\ Root[1] = "root" /\ Root \in Paths
<1>1. Root \in Seq(Words) /\ Len(Root) = 1 /\ Root[1] = "root"
  BY DEF Words, Root
<1>2. \A i \in 2..Len(Root) : Root[i] \in Names
  BY <1>1
<1>3. 1 <= Depth
  BY FileTreeAssumption
<1>4. Pathlike(Root)
  BY <1>1, <1>2, <1>3 DEF Pathlike
<1> QED
  BY <1>1, <1>4, IsAPath

\* A path is in the root when it begins there.
LEMMA InRoot ==
  ASSUME NEW p \in Seq(Words)
  PROVE  Under(p, Root) <=> Len(p) >= 1 /\ p[1] = "root"
<1>1. Under(p, Root) <=> Len(Root) <= Len(p) /\ \A i \in 1..Len(Root) : Root[i] = p[i]
  BY RootIs, UnderIs
<1>2. Len(p) \in Nat
  BY LenProperties
<1> QED
  BY <1>1, <1>2, RootIs

\* What is above a path, and not nothing, is a path.
LEMMA AbovePath ==
  ASSUME NEW p \in Paths, NEW q \in Seq(Words), Under(p, q), Len(q) >= 1
  PROVE  q \in Paths
<1>1. p \in Seq(Words) /\ Len(p) \in Nat /\ Len(p) >= 1 /\ Len(q) \in Nat
      /\ \A i \in 2..Len(p) : p[i] \in Names
  BY PathIs, LenProperties
<1>2. Len(q) <= Len(p) /\ \A i \in 1..Len(q) : q[i] = p[i]
  BY <1>1, UnderIs
<1>3. (p[1] = "root" /\ Len(p) <= Depth) \/ (p[1] = "outside" /\ Len(p) <= 2)
  BY PathIs
<1>4. Depth \in Nat
  BY FileTreeAssumption
<1>5. q[1] = p[1]
  BY <1>1, <1>2
<1>6. \A i \in 2..Len(q) : q[i] \in Names
  BY <1>1, <1>2
<1>7. (q[1] = "root" /\ Len(q) <= Depth) \/ (q[1] = "outside" /\ Len(q) <= 2)
  BY <1>1, <1>2, <1>3, <1>4, <1>5
<1> QED
  BY <1>6, <1>7, IsAPath DEF Pathlike

\* A path has one component or more than one.
LEMMA LongPath ==
  ASSUME NEW p \in Paths
  PROVE  Len(p) # 1 <=> Len(p) > 1
<1> DEFINE n == Len(p)
<1>1. n \in Nat /\ n >= 1
  BY PathIs
<1> HIDE DEF n
<1>2. n # 1 <=> n > 1
  BY <1>1
<1> QED
  BY <1>2 DEF n

\* The parent of a path is a path.
LEMMA FrontPath ==
  ASSUME NEW p \in Paths, Len(p) > 1
  PROVE  Front(p) \in Paths /\ Last(p) \in Words /\ Append(Front(p), Last(p)) = p /\ Under(p, Front(p)) /\ Len(Front(p)) = Len(p) - 1
<1>1. p \in Seq(Words) /\ Len(p) \in Nat /\ Len(p) >= 1
  BY PathIs
<1>2. /\ Front(p) \in Seq(Words) /\ Len(Front(p)) = Len(p) - 1 /\ Last(p) \in Words
      /\ Append(Front(p), Last(p)) = p /\ Under(p, Front(p))
  BY <1>1, FrontIs
<1>3. Len(Front(p)) >= 1
  BY <1>1, <1>2
<1>4. Front(p) \in Paths
  BY <1>2, <1>3, AbovePath
<1> QED
  BY <1>2, <1>4

\* What is above a path in the root is in the root.
LEMMA AboveInRoot ==
  ASSUME NEW p \in Seq(Words), NEW q \in Seq(Words), Under(p, q), Under(p, Root), Len(q) >= 1
  PROVE  Under(q, Root)
<1>1. Len(q) <= Len(p) /\ \A i \in 1..Len(q) : q[i] = p[i]
  BY UnderIs
<1>2. p[1] = "root"
  BY InRoot
<1>3. Len(q) \in Nat
  BY LenProperties
<1>4. q[1] = "root"
  BY <1>1, <1>2, <1>3
<1> QED
  BY <1>4, InRoot

\* A path in the root that is no longer than paths may be.
LEMMA RootDepth ==
  ASSUME NEW p \in Paths, Under(p, Root)
  PROVE  Len(p) <= Depth
<1>1. p \in Seq(Words)
  BY PathIs
<1>2. p[1] = "root"
  BY <1>1, InRoot
<1> QED
  BY <1>2, PathIs

-----------------------------------------------------------------------------
(* Resolving a path.                                                       *)

\* Where paths lead.
Places == [Paths -> Seq(Words)]

\* What is at a path.
LEMMA NodeIs ==
  ASSUME NEW t \in [Paths -> Nodes], NEW p
  PROVE  /\ At(t, p) \in Nodes
         /\ At(t, p).k \in {"none", "dir", "file", "link"}
         /\ At(t, p).k = "link" => p \in Paths /\ At(t, p).to \in Paths
         /\ p \in Paths => At(t, p) = t[p]
         /\ p \notin Paths => At(t, p) = None
         /\ At(t, p) = Dir <=> At(t, p).k = "dir"
         /\ At(t, p) = None <=> At(t, p).k = "none"
<1>1. At(t, p) \in Nodes
  BY DEF At, Nodes
<1>2. ASSUME NEW x \in Nodes
      PROVE  /\ x.k \in {"none", "dir", "file", "link"} /\ (x.k = "link" => x.to \in Paths)
             /\ (x = Dir <=> x.k = "dir") /\ (x = None <=> x.k = "none")
  BY DEF Nodes, None, Dir
<1>3. None.k = "none"
  BY DEF None
<1>4. (p \in Paths => At(t, p) = t[p]) /\ (p \notin Paths => At(t, p) = None)
  BY DEF At
<1> QED
  BY <1>1, <1>2, <1>3, <1>4

\* A step of the resolution finds places.
LEMMA StepType ==
  ASSUME NEW t \in [Paths -> Nodes], NEW real \in Places
  PROVE  Resolve(t, real) \in Places
<1> DEFINE q(p) == Append(real[Front(p)], Last(p))
           place(p) == IF Len(p) = 1 THEN p
                       ELSE IF real[Front(p)] = Err \/ At(t, real[Front(p)]).k = "file" THEN Err
                       ELSE IF At(t, q(p)).k = "link" THEN real[At(t, q(p)).to] ELSE q(p)
<1>1. ASSUME NEW p \in Paths PROVE place(p) \in Seq(Words)
  <2>1. p \in Seq(Words) /\ Len(p) \in Nat /\ Len(p) >= 1
    BY PathIs
  <2>2. CASE Len(p) = 1
    BY <2>1, <2>2
  <2>3. CASE Len(p) # 1
    <3>1. Front(p) \in Paths /\ Last(p) \in Words
      <4>1. Len(p) > 1
        BY <2>3, LongPath
      <4> QED
        BY <4>1, FrontPath
    <3>2. real[Front(p)] \in Seq(Words)
      BY <3>1 DEF Places
    <3>3. q(p) \in Seq(Words)
      BY <3>1, <3>2, AppendIs
    <3>4. At(t, q(p)).k = "link" => real[At(t, q(p)).to] \in Seq(Words)
      BY NodeIs DEF Places
    <3>5. Err \in Seq(Words)
      BY DEF Err
    <3> HIDE DEF q
    <3> QED
      BY <2>3, <3>3, <3>4, <3>5
  <2> QED
    BY <2>2, <2>3
<1>2. Resolve(t, real) = [p \in Paths |-> place(p)]
  BY DEF Resolve
<1> HIDE DEF place
<1> QED
  BY <1>1, <1>2 DEF Places

\* The places of all paths after each number of steps.
Levels(t) ==
  {f \in [0..MaxHops -> Places] : f[0] = [p \in Paths |-> Err] /\ \A n \in 1..MaxHops : f[n] = Resolve(t, f[n - 1])}

\* The repeated steps of resolvePath exist as a function.
LEMMA LevelsAre ==
  ASSUME NEW t \in [Paths -> Nodes]
  PROVE  \E f \in Levels(t) : \A p : ResolvePath(t, p) = f[MaxHops][p]
<1> DEFINE none == [q \in Paths |-> Err]
           step == [x \in Places \X (1..MaxHops) |-> Resolve(t, x[1])]
           Is(g) == g = [n \in 0..MaxHops |-> IF n = 0 THEN none ELSE Resolve(t, g[n - 1])]
           after == CHOOSE g : Is(g)
<1>1. MaxHops \in Nat /\ none \in Places
  BY FileTreeAssumption, EmptySeq DEF Places, Err
<1>2. step \in [Places \X (1..MaxHops) -> Places]
  BY StepType
<1>3. PICK f \in [0..MaxHops -> Places] : f[0] = none /\ \A n \in 1..MaxHops : f[n] = step[<<f[n - 1], n>>]
  <2> HIDE DEF none, step
  <2>1. Iterations(MaxHops, Places, none, step) # {}
    BY <1>1, <1>2, Iterates
  <2> QED
    BY <2>1 DEF Iterations
<1>4. \A n \in 1..MaxHops : f[n] = Resolve(t, f[n - 1])
  <2> TAKE n \in 1..MaxHops
  <2>1. n - 1 \in 0..MaxHops
    BY <1>1
  <2>2. <<f[n - 1], n>> \in Places \X (1..MaxHops)
    BY <2>1
  <2>3. step[<<f[n - 1], n>>] = Resolve(t, <<f[n - 1], n>>[1])
    BY <2>2
  <2> QED
    BY <2>3, <1>3
<1>5. Is(f)
  <2>1. f = [n \in 0..MaxHops |-> f[n]]
    BY <1>3
  <2>2. \A n \in 0..MaxHops : f[n] = IF n = 0 THEN none ELSE Resolve(t, f[n - 1])
    <3> TAKE n \in 0..MaxHops
    <3>1. CASE n = 0
      BY <3>1, <1>3
    <3>2. CASE n # 0
      <4>1. n \in 1..MaxHops
        BY <3>2, <1>1
      <4> QED
        BY <4>1, <3>2, <1>4
    <3> QED
      BY <3>1, <3>2
  <2> HIDE DEF none
  <2> QED
    BY <2>1, <2>2
<1>6. Is(after)
  <2> HIDE DEF Is
  <2> QED
    BY <1>5
<1>7. \A p : ResolvePath(t, p) = after[MaxHops][p]
  BY DEF ResolvePath
<1> HIDE DEF after
<1>8. after[0] = none /\ \A n \in 1..MaxHops : after[n] = Resolve(t, after[n - 1])
  <2> DEFINE X(n) == IF n = 0 THEN none ELSE Resolve(t, after[n - 1])
  <2>1. \A n \in 0..MaxHops : after[n] = X(n)
    <3>1. after = [n \in 0..MaxHops |-> X(n)]
      BY <1>6
    <3> HIDE DEF X
    <3> QED
      BY <3>1
  <2>2. 0 \in 0..MaxHops /\ X(0) = none
    BY <1>1
  <2>3. ASSUME NEW n \in 1..MaxHops PROVE X(n) = Resolve(t, after[n - 1]) /\ n \in 0..MaxHops
    <3>1. n # 0 /\ n \in 0..MaxHops
      BY <1>1
    <3> QED
      BY <3>1
  <2> HIDE DEF X, none
  <2> QED
    BY <2>1, <2>2, <2>3
<1> DEFINE P == {n \in 0..MaxHops : after[n] \in Places}
<1>9. P = 0..MaxHops
  <2>1. P \in SUBSET (0..MaxHops) /\ 0 \in P
    <3>1. after[0] \in Places /\ 0 \in 0..MaxHops
      BY <1>1, <1>8
    <3> QED
      BY <3>1
  <2>2. ASSUME NEW n \in 1..MaxHops, n - 1 \in P PROVE n \in P
    <3>1. after[n - 1] \in Places /\ n \in 0..MaxHops
      BY <2>2, <1>1
    <3>2. after[n] = Resolve(t, after[n - 1])
      BY <1>8
    <3>3. Resolve(t, after[n - 1]) \in Places
      BY <3>1, StepType
    <3> QED
      BY <3>1, <3>2, <3>3
  <2> HIDE DEF P
  <2> QED
    BY <2>1, <2>2, <1>1, UpTo
<1>10. after \in Levels(t)
  <2>1. \A n \in 0..MaxHops : after[n] \in Places
    BY <1>9
  <2>2. DOMAIN after = 0..MaxHops /\ after = [n \in 0..MaxHops |-> after[n]]
    BY <1>6
  <2>3. after \in [0..MaxHops -> Places]
    BY <2>1, <2>2
  <2> QED
    BY <2>3, <1>8 DEF Levels
<1> QED
  BY <1>7, <1>10

\* Where the parent of a path leads, and the entry that the path names.
Up(f, n, p) == f[n - 1][Front(p)]
Here(f, n, p) == Append(Up(f, n, p), Last(p))

\* What a step does to one path.
LEMMA StepIs ==
  ASSUME NEW t \in [Paths -> Nodes], NEW f \in Levels(t), NEW n \in 1..MaxHops, NEW p \in Paths
  PROVE  /\ f[n][p] \in Seq(Words)
         /\ Len(p) = 1 => f[n][p] = p
         /\ Len(p) > 1 =>
              /\ Up(f, n, p) \in Seq(Words) /\ Here(f, n, p) \in Seq(Words)
              /\ Up(f, n, p) = Err \/ At(t, Up(f, n, p)).k = "file" => f[n][p] = Err
              /\ Up(f, n, p) # Err /\ At(t, Up(f, n, p)).k # "file" =>
                   /\ At(t, Here(f, n, p)).k = "link" => f[n][p] = f[n - 1][At(t, Here(f, n, p)).to]
                   /\ At(t, Here(f, n, p)).k # "link" => f[n][p] = Here(f, n, p)
<1>1. n - 1 \in 0..MaxHops /\ n \in 0..MaxHops
  BY FileTreeAssumption
<1>2. f[n] \in Places /\ f[n - 1] \in Places /\ f[n] = Resolve(t, f[n - 1])
  BY <1>1 DEF Levels
<1>3. f[n][p] \in Seq(Words) /\ Len(p) \in Nat
  BY <1>2, PathIs DEF Places
<1> DEFINE real == f[n - 1]
           above == Up(f, n, p)
           q == Here(f, n, p)
<1>4. f[n][p] = IF Len(p) = 1 THEN p
                ELSE IF above = Err \/ At(t, above).k = "file" THEN Err
                ELSE IF At(t, q).k = "link" THEN real[At(t, q).to] ELSE q
  BY <1>2 DEF Resolve, Up, Here
<1>5. ASSUME Len(p) > 1 PROVE above \in Seq(Words) /\ q \in Seq(Words) /\ Len(p) # 1
  <2>1. Front(p) \in Paths /\ Last(p) \in Words
    BY <1>5, FrontPath
  <2>2. above \in Seq(Words)
    BY <2>1, <1>2 DEF Places, Up
  <2>3. q \in Seq(Words)
    BY <2>1, <2>2, AppendIs DEF Here
  <2>4. Len(p) # 1
    BY <1>5, LongPath
  <2> QED
    BY <2>2, <2>3, <2>4
<1> QED
  BY <1>3, <1>4, <1>5

\* Nothing is anywhere before the first step.
LEMMA NoSteps ==
  ASSUME NEW t \in [Paths -> Nodes], NEW f \in Levels(t), NEW p \in Paths
  PROVE  f[0][p] = Err
BY DEF Levels

\* A path that has a place keeps it.
LEMMA PlaceStays ==
  ASSUME NEW t \in [Paths -> Nodes], NEW f \in Levels(t), NEW n \in 1..MaxHops, NEW p \in Paths, f[n - 1][p] # Err
  PROVE  f[n][p] = f[n - 1][p]
<1> DEFINE P == {m \in 0..MaxHops : m # 0 => \A x \in Paths : f[m - 1][x] # Err => f[m][x] = f[m - 1][x]}
<1>1. MaxHops \in Nat
  BY FileTreeAssumption
<1>2. P \in SUBSET (0..MaxHops) /\ 0 \in P
  BY <1>1
<1>3. ASSUME NEW m \in 1..MaxHops, m - 1 \in P PROVE m \in P
  <2>1. m \in 0..MaxHops /\ m # 0
    BY <1>1
  <2> SUFFICES ASSUME NEW x \in Paths, f[m - 1][x] # Err PROVE f[m][x] = f[m - 1][x]
    BY <2>1
  <2>2. m # 1
    <3>1. m = 1 => m - 1 = 0
      OBVIOUS
    <3> QED
      BY <3>1, NoSteps
  <2>3. m - 1 \in 1..MaxHops /\ m - 1 # 0
    BY <1>1, <2>2
  <2>4. \A y \in Paths : f[(m - 1) - 1][y] # Err => f[m - 1][y] = f[(m - 1) - 1][y]
    BY <1>3, <2>3
  <2> DEFINE k == m - 1
  <2>5. k \in 1..MaxHops /\ f[k][x] # Err /\ \A y \in Paths : f[k - 1][y] # Err => f[k][y] = f[k - 1][y]
    BY <2>3, <2>4
  <2>6. CASE Len(x) = 1
    <3>1. f[m][x] = x
      BY <2>6, StepIs
    <3>2. f[k][x] = x
      <4> HIDE DEF k
      <4> QED
        BY <2>5, <2>6, StepIs
    <3> QED
      BY <3>1, <3>2
  <2>7. CASE Len(x) > 1
    <3>0. Front(x) \in Paths
      BY <2>7, FrontPath
    <3>1. /\ Up(f, k, x) # Err /\ At(t, Up(f, k, x)).k # "file"
          /\ At(t, Here(f, k, x)).k = "link" => f[k][x] = f[k - 1][At(t, Here(f, k, x)).to]
          /\ At(t, Here(f, k, x)).k # "link" => f[k][x] = Here(f, k, x)
      <4> HIDE DEF k
      <4> QED
        BY <2>5, <2>7, StepIs
    <3>2. Up(f, m, x) = Up(f, k, x)
      <4>1. Up(f, m, x) = f[k][Front(x)] /\ Up(f, k, x) = f[k - 1][Front(x)]
        BY DEF Up
      <4> HIDE DEF k
      <4> QED
        BY <4>1, <3>0, <3>1, <2>5
    <3>3. Here(f, m, x) = Here(f, k, x)
      BY <3>2 DEF Here
    <3>4. /\ At(t, Here(f, m, x)).k = "link" => f[m][x] = f[k][At(t, Here(f, m, x)).to]
          /\ At(t, Here(f, m, x)).k # "link" => f[m][x] = Here(f, m, x)
      <4>1. Up(f, m, x) # Err /\ At(t, Up(f, m, x)).k # "file"
        BY <3>1, <3>2
      <4> QED
        BY <4>1, <2>7, StepIs
    <3>5. CASE At(t, Here(f, k, x)).k # "link"
      BY <3>1, <3>3, <3>4, <3>5
    <3>6. CASE At(t, Here(f, k, x)).k = "link"
      <4> DEFINE to == At(t, Here(f, k, x)).to
      <4>1. to \in Paths
        BY <3>6, NodeIs
      <4>2. f[k][x] = f[k - 1][to] /\ f[m][x] = f[k][to]
        BY <3>1, <3>3, <3>4, <3>6
      <4> HIDE DEF to, k
      <4> QED
        BY <4>1, <4>2, <2>5 DEF k
    <3> QED
      BY <3>5, <3>6
  <2> QED
    BY <2>6, <2>7, LongPath
<1>4. P = 0..MaxHops
  <2> HIDE DEF P
  <2> QED
    BY <1>1, <1>2, <1>3, UpTo
<1>5. n \in P /\ n # 0
  <2>1. n \in 0..MaxHops /\ n # 0
    BY <1>1
  <2> QED
    BY <1>4, <2>1
<1> QED
  BY <1>5

\* No link is on the way to d, and no file but perhaps d itself.
Clean(t, d) ==
  \A x \in Paths : Under(d, x) => (Len(x) > 1 => t[x].k # "link") /\ (x # d => t[x].k # "file")

\* What a path resolves to is clean.
LEMMA PlacesClean ==
  ASSUME NEW t \in [Paths -> Nodes], NEW f \in Levels(t), NEW n \in 0..MaxHops, NEW p \in Paths, f[n][p] # Err
  PROVE  Clean(t, f[n][p])
<1> DEFINE P == {m \in 0..MaxHops : \A x \in Paths : f[m][x] # Err => Clean(t, f[m][x])}
<1>1. MaxHops \in Nat
  BY FileTreeAssumption
<1>2. P \in SUBSET (0..MaxHops) /\ 0 \in P
  BY <1>1, NoSteps
<1>3. ASSUME NEW m \in 1..MaxHops, m - 1 \in P PROVE m \in P
  <2>1. m \in 0..MaxHops /\ \A y \in Paths : f[m - 1][y] # Err => Clean(t, f[m - 1][y])
    BY <1>1, <1>3
  <2> SUFFICES ASSUME NEW x \in Paths, f[m][x] # Err PROVE Clean(t, f[m][x])
    BY <2>1
  <2>2. CASE Len(x) = 1
    <3>1. f[m][x] = x /\ x \in Seq(Words)
      BY <2>2, StepIs, PathIs
    <3>2. ASSUME NEW y \in Paths, Under(x, y) PROVE ~(Len(y) > 1) /\ y = x
      <4>1. y \in Seq(Words) /\ Len(y) \in Nat /\ Len(y) >= 1
        BY PathIs
      <4>2. Len(y) <= Len(x)
        BY <3>1, <3>2, <4>1, UnderIs
      <4>3. Len(x) <= Len(y)
        BY <4>1, <2>2
      <4>4. x = y
        BY <3>1, <3>2, <4>1, <4>3, UnderBoth
      <4> QED
        BY <4>4, <2>2, LongPath
    <3> QED
      BY <3>1, <3>2 DEF Clean
  <2>3. CASE Len(x) > 1
    <3> DEFINE d == Up(f, m, x)
               q == Here(f, m, x)
    <3>1. /\ d # Err /\ At(t, d).k # "file" /\ d \in Seq(Words) /\ q \in Seq(Words)
          /\ At(t, q).k = "link" => f[m][x] = f[m - 1][At(t, q).to]
          /\ At(t, q).k # "link" => f[m][x] = q
      BY <2>3, StepIs
    <3>2. Front(x) \in Paths /\ Last(x) \in Words
      BY <2>3, FrontPath
    <3>3. Clean(t, d)
      BY <2>1, <3>1, <3>2 DEF Up
    <3>4. CASE At(t, q).k = "link"
      <4>1. At(t, q).to \in Paths
        BY <3>4, NodeIs
      <4> QED
        BY <4>1, <3>1, <3>4, <2>1
    <3>5. CASE At(t, q).k # "link"
      <4>1. ASSUME NEW y \in Paths, Under(q, y)
            PROVE  (Len(y) > 1 => t[y].k # "link") /\ (y # q => t[y].k # "file")
        <5>1. y \in Seq(Words) /\ At(t, y) = t[y]
          BY PathIs, NodeIs
        <5>2. y = q \/ Under(d, y)
          BY <5>1, <4>1, <3>1, <3>2, UnderAppend DEF Here
        <5>3. CASE y = q
          BY <5>1, <5>3, <3>5
        <5>4. CASE Under(d, y)
          <6>1. (Len(y) > 1 => t[y].k # "link") /\ (y # d => t[y].k # "file")
            BY <5>4, <3>3 DEF Clean
          <6>2. y = d => t[y].k # "file"
            BY <5>1, <3>1
          <6> QED
            BY <6>1, <6>2
        <5> QED
          BY <5>2, <5>3, <5>4
      <4>2. Clean(t, q)
        BY <4>1 DEF Clean
      <4> QED
        BY <4>2, <3>1, <3>5
    <3> QED
      BY <3>4, <3>5
  <2> QED
    BY <2>2, <2>3, LongPath
<1>4. P = 0..MaxHops
  <2> HIDE DEF P
  <2> QED
    BY <1>1, <1>2, <1>3, UpTo
<1>5. n \in P
  BY <1>4
<1> QED
  BY <1>5

\* A clean path is where it says.
LEMMA CleanStays ==
  ASSUME NEW t \in [Paths -> Nodes], NEW f \in Levels(t), NEW n \in 1..MaxHops, NEW p \in Paths, Clean(t, p), Len(p) <= n
  PROVE  f[n][p] = p
<1> DEFINE P == {m \in 0..MaxHops : \A x \in Paths : Clean(t, x) /\ Len(x) <= m => f[m][x] = x}
<1>1. MaxHops \in Nat
  BY FileTreeAssumption
<1>2. P \in SUBSET (0..MaxHops) /\ 0 \in P
  <2>1. \A x \in Paths : ~(Len(x) <= 0)
    BY PathIs
  <2> QED
    BY <1>1, <2>1
<1>3. ASSUME NEW m \in 1..MaxHops, m - 1 \in P PROVE m \in P
  <2>1. m \in 0..MaxHops /\ \A y \in Paths : Clean(t, y) /\ Len(y) <= m - 1 => f[m - 1][y] = y
    BY <1>1, <1>3
  <2> SUFFICES ASSUME NEW x \in Paths, Clean(t, x), Len(x) <= m PROVE f[m][x] = x
    BY <2>1
  <2>2. CASE Len(x) = 1
    BY <2>2, StepIs
  <2>3. CASE Len(x) > 1
    <3> DEFINE d == Front(x)
    <3>1. d \in Paths /\ Last(x) \in Words /\ Append(d, Last(x)) = x /\ Under(x, d) /\ Len(d) = Len(x) - 1
      BY <2>3, FrontPath
    <3>2. x \in Seq(Words) /\ d \in Seq(Words) /\ Len(x) \in Nat /\ Len(d) \in Nat /\ Len(d) >= 1
      BY <3>1, PathIs
    <3>3. Len(d) <= m - 1
      BY <3>1, <3>2
    <3>4. d # x
      <4>1. Len(d) # Len(x)
        BY <3>1, <3>2
      <4> QED
        BY <4>1
    <3>5. Clean(t, d)
      <4> SUFFICES ASSUME NEW y \in Paths, Under(d, y)
                   PROVE  (Len(y) > 1 => t[y].k # "link") /\ (y # d => t[y].k # "file")
        BY DEF Clean
      <4>1. y \in Seq(Words) /\ Len(y) \in Nat
        BY PathIs
      <4>2. Under(x, y)
        BY <4>1, <3>1, <3>2, UnderChain
      <4>3. y # x
        <5>1. Len(y) <= Len(d)
          BY <4>1, <3>2, UnderIs
        <5>2. Len(y) # Len(x)
          BY <5>1, <4>1, <3>1, <3>2
        <5> QED
          BY <5>2
      <4> QED
        BY <4>2, <4>3 DEF Clean
    <3>6. f[m - 1][d] = d
      BY <3>1, <3>3, <3>5, <2>1
    <3>7. Up(f, m, x) = d /\ Here(f, m, x) = x
      BY <3>1, <3>6 DEF Up, Here
    <3>8. d # Err
      <4>1. Len(Err) = 0
        BY DEF Err
      <4> QED
        BY <4>1, <3>2
    <3>9. At(t, d).k # "file" /\ At(t, x).k # "link"
      <4>1. t[d].k # "file"
        BY <3>1, <3>4 DEF Clean
      <4>2. t[x].k # "link"
        BY <3>2, <2>3, UnderSelf DEF Clean
      <4> QED
        BY <4>1, <4>2, <3>1, NodeIs
    <3> HIDE DEF d
    <3> QED
      BY <2>3, <3>7, <3>8, <3>9, StepIs
  <2> QED
    BY <2>2, <2>3, LongPath
<1>4. P = 0..MaxHops
  <2> HIDE DEF P
  <2> QED
    BY <1>1, <1>2, <1>3, UpTo
<1>5. n \in P
  BY <1>4, <1>1
<1> QED
  BY <1>5

\* What os.RemoveAll leaves is a tree of nodes.
LEMMA CutIs ==
  ASSUME NEW t \in [Paths -> Nodes], NEW q \in Seq(Words)
  PROVE  /\ Cut(t, q) \in [Paths -> Nodes]
         /\ \A p \in Paths : Under(p, q) => Cut(t, q)[p] = None
         /\ \A p \in Paths : ~Under(p, q) => Cut(t, q)[p] = t[p]
<1>1. None \in Nodes
  BY DEF Nodes
<1> QED
  BY <1>1 DEF Cut

\* Without what was removed a path leads where it led, or to what was removed.
LEMMA PlacesCut ==
  ASSUME NEW t \in [Paths -> Nodes], NEW c \in Seq(Words), NEW f \in Levels(t), NEW g \in Levels(Cut(t, c)),
         NEW n \in 0..MaxHops, NEW p \in Paths, f[n][p] # Err
  PROVE  g[n][p] = f[n][p] \/ (g[n][p] # Err /\ Under(g[n][p], c))
<1> DEFINE Same(m, x) == g[m][x] = f[m][x] \/ (g[m][x] # Err /\ Under(g[m][x], c))
           u == Cut(t, c)
           P == {m \in 0..MaxHops : \A x \in Paths : f[m][x] # Err => Same(m, x)}
<1>1. MaxHops \in Nat
  BY FileTreeAssumption
<1>2. P \in SUBSET (0..MaxHops) /\ 0 \in P
  BY <1>1, NoSteps
<1>0. /\ u \in [Paths -> Nodes]
      /\ \A x \in Paths : Under(x, c) => u[x] = None
      /\ \A x \in Paths : ~Under(x, c) => u[x] = t[x]
  BY CutIs
<1> HIDE DEF u
<1>3. ASSUME NEW m \in 1..MaxHops, m - 1 \in P PROVE m \in P
  <2>1. m \in 0..MaxHops /\ \A y \in Paths : f[m - 1][y] # Err => Same(m - 1, y)
    BY <1>1, <1>3
  <2> SUFFICES ASSUME NEW x \in Paths, f[m][x] # Err PROVE Same(m, x)
    BY <2>1
  <2>2. g \in Levels(u)
    BY DEF u
  <2>3. CASE Len(x) = 1
    <3>1. f[m][x] = x
      BY <2>3, StepIs
    <3>2. g[m][x] = x
      BY <2>2, <2>3, <1>0, StepIs
    <3> QED
      BY <3>1, <3>2
  <2>4. CASE Len(x) > 1
    <3> DEFINE d == Up(f, m, x)
               q == Here(f, m, x)
               e == Up(g, m, x)
               r == Here(g, m, x)
    <3>1. /\ d # Err /\ At(t, d).k # "file" /\ d \in Seq(Words) /\ q \in Seq(Words)
          /\ At(t, q).k = "link" => f[m][x] = f[m - 1][At(t, q).to]
          /\ At(t, q).k # "link" => f[m][x] = q
      BY <2>4, StepIs
    <3>2. /\ e \in Seq(Words) /\ r \in Seq(Words)
          /\ e # Err /\ At(u, e).k # "file" =>
               /\ At(u, r).k = "link" => g[m][x] = g[m - 1][At(u, r).to]
               /\ At(u, r).k # "link" => g[m][x] = r
      BY <1>0, <2>2, <2>4, StepIs
    <3>3. Front(x) \in Paths /\ Last(x) \in Words
      BY <2>4, FrontPath
    <3>4. e = d \/ (e # Err /\ Under(e, c))
      BY <2>1, <3>1, <3>3 DEF Up
    <3>5. r = Append(e, Last(x)) /\ q = Append(d, Last(x)) /\ Under(r, e)
      BY <3>2, <3>3, AppendIs DEF Here
    <3>6. \A y \in Seq(Words) : Under(y, c) => At(u, y) = None
      BY <1>0 DEF At
    <3>7. \A y \in Seq(Words) : ~Under(y, c) => At(u, y) = At(t, y)
      BY <1>0 DEF At
    <3>8. None.k = "none"
      BY DEF None
    <3>9. r # Err
      <4>1. r # <<>>
        BY <3>2, <3>3, <3>5, AppendProperties
      <4> QED
        BY <4>1 DEF Err
    <3>10. ASSUME e # Err, At(u, e).k # "file", Under(r, c) PROVE Same(m, x)
      <4>1. At(u, r).k # "link"
        BY <3>2, <3>6, <3>8, <3>10
      <4> QED
        BY <4>1, <3>2, <3>9, <3>10
    <3>11. CASE e # Err /\ Under(e, c)
      <4>1. At(u, e).k # "file"
        BY <3>2, <3>6, <3>8, <3>11
      <4>2. Under(r, c)
        BY <3>2, <3>5, <3>11, UnderChain
      <4> QED
        BY <4>1, <4>2, <3>10, <3>11
    <3>12. CASE e = d
      <4>0. r = q /\ e # Err
        BY <3>1, <3>5, <3>12
      <4>1. At(u, e).k # "file"
        BY <3>1, <3>2, <3>6, <3>7, <3>8, <3>12
      <4>2. CASE Under(r, c)
        BY <4>0, <4>1, <4>2, <3>10
      <4>3. CASE ~Under(r, c)
        <5>1. At(u, r) = At(t, q)
          BY <4>0, <4>3, <3>2, <3>7
        <5>2. CASE At(t, q).k # "link"
          BY <5>1, <5>2, <4>0, <4>1, <3>1, <3>2
        <5>3. CASE At(t, q).k = "link"
          <6> DEFINE to == At(t, q).to
          <6>1. to \in Paths
            BY <5>3, NodeIs
          <6>2. f[m][x] = f[m - 1][to] /\ g[m][x] = g[m - 1][to]
            BY <5>1, <5>3, <4>0, <4>1, <3>1, <3>2
          <6>3. Same(m - 1, to)
            <7> HIDE DEF to, Same
            <7> QED
              BY <6>1, <6>2, <2>1
          <6> HIDE DEF to
          <6> QED
            BY <6>2, <6>3
        <5> QED
          BY <5>2, <5>3
      <4> QED
        BY <4>2, <4>3
    <3> QED
      BY <3>4, <3>11, <3>12
  <2> QED
    BY <2>3, <2>4, LongPath
<1>4. P = 0..MaxHops
  <2> HIDE DEF P
  <2> QED
    BY <1>1, <1>2, <1>3, UpTo
<1>5. n \in P
  BY <1>4
<1> QED
  BY <1>5

\* As many steps as the longest path has components are allowed.
LEMMA HopsSuffice == MaxHops \in Nat /\ 1 \in 1..MaxHops /\ MaxHops \in 1..MaxHops /\ MaxHops \in 0..MaxHops /\ Depth \in Nat /\ Depth <= MaxHops
BY FileTreeAssumption

\* A path that ends somewhere could be resolved.
LEMMA NotErr ==
  ASSUME NEW p \in Seq(Words)
  PROVE  p # Err <=> Len(p) >= 1
<1>1. Len(Err) = 0
  BY DEF Err
<1>2. p # Err => Len(p) \in Nat \ {0}
  BY EmptySeq DEF Err
<1> QED
  BY <1>1, <1>2

\* Where a path leads.
LEMMA RealIs ==
  ASSUME NEW t \in [Paths -> Nodes], NEW p \in Paths
  PROVE  /\ ResolvePath(t, p) \in Seq(Words)
         /\ Len(p) = 1 => ResolvePath(t, p) = p
         /\ ResolvePath(t, p) # Err => Clean(t, ResolvePath(t, p))
         /\ Clean(t, p) /\ Under(p, Root) => ResolvePath(t, p) = p
<1>1. PICK f \in Levels(t) : \A x : ResolvePath(t, x) = f[MaxHops][x]
  BY LevelsAre
<1>2. f[MaxHops][p] \in Seq(Words) /\ (Len(p) = 1 => f[MaxHops][p] = p)
  BY HopsSuffice, StepIs
<1>3. f[MaxHops][p] # Err => Clean(t, f[MaxHops][p])
  BY HopsSuffice, PlacesClean
<1>4. ASSUME Clean(t, p), Under(p, Root) PROVE f[MaxHops][p] = p
  <2>1. Len(p) <= Depth /\ Len(p) \in Nat
    BY <1>4, RootDepth, PathIs
  <2>2. Len(p) <= MaxHops
    BY <2>1, HopsSuffice
  <2> QED
    BY <2>2, <1>4, HopsSuffice, CleanStays
<1> QED
  BY <1>1, <1>2, <1>3, <1>4

\* The entry a path names.
LEMMA EntryIs ==
  ASSUME NEW t \in [Paths -> Nodes], NEW p \in Paths
  PROVE  /\ Entry(t, p) \in Seq(Words)
         /\ Len(p) = 1 => Entry(t, p) = p
         /\ Len(p) > 1 => /\ Front(p) \in Paths /\ Last(p) \in Words
                          /\ ResolvePath(t, Front(p)) \in Seq(Words)
                          /\ ResolvePath(t, Front(p)) = Err => Entry(t, p) = Err
                          /\ ResolvePath(t, Front(p)) # Err =>
                               /\ Entry(t, p) # Err /\ Entry(t, p) = Append(ResolvePath(t, Front(p)), Last(p))
                               /\ Front(Entry(t, p)) = ResolvePath(t, Front(p)) /\ Len(Entry(t, p)) > 1
                               /\ Under(Entry(t, p), ResolvePath(t, Front(p)))
<1>1. p \in Seq(Words)
  BY PathIs
<1>2. CASE Len(p) = 1
  <2>1. Entry(t, p) = p
    BY <1>2 DEF Entry
  <2> QED
    BY <1>1, <1>2, <2>1, LongPath
<1>3. CASE Len(p) > 1
  <2> DEFINE d == ResolvePath(t, Front(p))
  <2>1. Front(p) \in Paths /\ Last(p) \in Words /\ Len(p) # 1
    BY <1>3, FrontPath, LongPath
  <2>2. d \in Seq(Words)
    BY <2>1, RealIs
  <2>3. Entry(t, p) = IF d = Err THEN Err ELSE Append(d, Last(p))
    BY <2>1 DEF Entry
  <2> HIDE DEF d
  <2> DEFINE e == Append(d, Last(p))
  <2>4. e \in Seq(Words) /\ Len(e) = Len(d) + 1 /\ Under(e, d) /\ Front(e) = d
    BY <2>1, <2>2, AppendIs
  <2>5. Err \in Seq(Words)
    BY DEF Err
  <2>6. d # Err => Len(e) > 1
    <3>1. d # Err => Len(d) >= 1
      BY <2>2, NotErr
    <3>2. Len(d) \in Nat
      BY <2>2, LenProperties
    <3> QED
      BY <3>1, <3>2, <2>4
  <2>7. e # Err
    <3>1. Len(e) >= 1
      <4>1. Len(d) \in Nat
        BY <2>2, LenProperties
      <4> QED
        BY <4>1, <2>4
    <3> QED
      BY <3>1, <2>4, NotErr
  <2> HIDE DEF e
  <2>8. Entry(t, p) = IF d = Err THEN Err ELSE e
    BY <2>3 DEF e
  <2> QED
    BY <2>1, <2>2, <2>4, <2>5, <2>6, <2>7, <2>8 DEF d, e
<1> QED
  BY <1>2, <1>3, LongPath

\* A path that resolves names an entry, which it leads to unless that is a link.
LEMMA RealEntry ==
  ASSUME NEW t \in [Paths -> Nodes], NEW p \in Paths, ResolvePath(t, p) # Err
  PROVE  /\ Entry(t, p) # Err
         /\ At(t, Entry(t, p)).k # "link" => ResolvePath(t, p) = Entry(t, p)
         /\ Entry(t, p) \in Paths /\ Under(Entry(t, p), Root) => ResolvePath(t, Entry(t, p)) = ResolvePath(t, p)
         /\ Len(p) > 1 => ResolvePath(t, Front(p)) # Err /\ At(t, ResolvePath(t, Front(p))).k # "file"
<1>1. PICK f \in Levels(t) : \A x : ResolvePath(t, x) = f[MaxHops][x]
  BY LevelsAre
<1> DEFINE n == MaxHops
           e == Entry(t, p)
<1>2. f[n][p] # Err /\ n \in 1..MaxHops
  BY <1>1, HopsSuffice
<1>3. CASE Len(p) = 1
  <2>1. e = p /\ ResolvePath(t, p) = p
    BY <1>3, EntryIs, RealIs
  <2> QED
    BY <2>1, <1>3, LongPath
<1>4. CASE Len(p) > 1
  <2> DEFINE d == Up(f, n, p)
             q == Here(f, n, p)
  <2>1. /\ d # Err /\ At(t, d).k # "file" /\ d \in Seq(Words) /\ q \in Seq(Words)
        /\ At(t, q).k = "link" => f[n][p] = f[n - 1][At(t, q).to]
        /\ At(t, q).k # "link" => f[n][p] = q
    BY <1>2, <1>4, StepIs
  <2>2. Front(p) \in Paths /\ Last(p) \in Words
    BY <1>4, FrontPath
  <2>3. ResolvePath(t, Front(p)) = d
    <3>1. f[n - 1][Front(p)] # Err
      BY <2>1 DEF Up
    <3>2. f[n][Front(p)] = f[n - 1][Front(p)]
      BY <3>1, <2>2, <1>2, PlaceStays
    <3> QED
      BY <3>2, <1>1 DEF Up
  <2>4. e # Err /\ e = q
    <3>1. e # Err /\ e = Append(d, Last(p))
      BY <1>4, <2>1, <2>3, EntryIs
    <3> QED
      BY <3>1 DEF Here
  <2>5. At(t, e).k # "link" => ResolvePath(t, p) = e
    BY <2>1, <2>4, <1>1
  <2>6. ASSUME e \in Paths, Under(e, Root) PROVE ResolvePath(t, e) = ResolvePath(t, p)
    <3>1. Len(e) > 1 /\ Front(e) = d /\ Last(e) = Last(p) /\ Len(e) = Len(d) + 1
      <4>1. q = Append(d, Last(p))
        BY DEF Here
      <4>2. Front(q) = d /\ Last(q) = Last(p) /\ Len(q) = Len(d) + 1
        BY <4>1, <2>1, <2>2, AppendIs
      <4>3. Len(d) >= 1 /\ Len(d) \in Nat
        BY <2>1, NotErr, LenProperties
      <4> QED
        BY <4>2, <4>3, <2>4
    <3>2. d \in Paths
      BY <2>6, <3>1, FrontPath
    <3>3. Clean(t, d)
      BY <2>2, <2>1, <2>3, RealIs
    <3>4. f[n - 1][d] = d
      <4>1. Len(e) <= Depth /\ Len(d) \in Nat /\ Len(d) >= 1
        BY <2>6, <2>1, RootDepth, LenProperties, NotErr
      <4> DEFINE k == MaxHops - 1
      <4>2. k \in 1..MaxHops /\ Len(d) <= k
        BY <4>1, <3>1, HopsSuffice
      <4> HIDE DEF k
      <4>3. f[k][d] = d
        BY <4>2, <3>2, <3>3, CleanStays
      <4> QED
        BY <4>3 DEF k
    <3>5. Up(f, n, e) = d
      BY <3>1, <3>4 DEF Up
    <3>6. Here(f, n, e) = q
      BY <3>1, <3>5 DEF Here
    <3>7. /\ At(t, q).k = "link" => f[n][e] = f[n - 1][At(t, q).to]
          /\ At(t, q).k # "link" => f[n][e] = q
      <4> HIDE DEF n, e, d, q
      <4> QED
        BY <1>2, <2>1, <2>6, <3>1, <3>5, <3>6, StepIs
    <3> QED
      BY <3>7, <2>1, <1>1
  <2> QED
    BY <2>1, <2>3, <2>4, <2>5, <2>6
<1> QED
  BY <1>3, <1>4, LongPath

\* Removing something moves the end of a path nowhere else than below it.
LEMMA RealCut ==
  ASSUME NEW t \in [Paths -> Nodes], NEW c \in Seq(Words), NEW p \in Paths, ResolvePath(t, p) # Err
  PROVE  \/ ResolvePath(Cut(t, c), p) = ResolvePath(t, p)
         \/ ResolvePath(Cut(t, c), p) # Err /\ Under(ResolvePath(Cut(t, c), p), c)
<1>1. PICK f \in Levels(t) : \A x : ResolvePath(t, x) = f[MaxHops][x]
  BY LevelsAre
<1>2. Cut(t, c) \in [Paths -> Nodes]
  BY CutIs
<1>3. PICK g \in Levels(Cut(t, c)) : \A x : ResolvePath(Cut(t, c), x) = g[MaxHops][x]
  BY <1>2, LevelsAre
<1> QED
  BY <1>1, <1>3, HopsSuffice, PlacesCut

\* The same for the entry a path names.
LEMMA EntryCut ==
  ASSUME NEW t \in [Paths -> Nodes], NEW c \in Seq(Words), NEW p \in Paths, Entry(t, p) # Err
  PROVE  \/ Entry(Cut(t, c), p) = Entry(t, p)
         \/ Entry(Cut(t, c), p) # Err /\ Under(Entry(Cut(t, c), p), c)
<1> DEFINE u == Cut(t, c)
<1>1. u \in [Paths -> Nodes]
  BY CutIs
<1>2. CASE Len(p) = 1
  BY <1>1, <1>2, EntryIs
<1>3. CASE Len(p) > 1
  <2> DEFINE d == ResolvePath(t, Front(p))
             b == ResolvePath(u, Front(p))
  <2>1. Front(p) \in Paths /\ d # Err /\ Entry(t, p) = Append(d, Last(p))
    BY <1>3, EntryIs
  <2>2. b = d \/ (b # Err /\ Under(b, c))
    BY <2>1, RealCut
  <2>3. b # Err
    BY <2>1, <2>2
  <2>4. /\ Entry(u, p) \in Seq(Words) /\ Entry(u, p) # Err /\ b \in Seq(Words)
        /\ Entry(u, p) = Append(b, Last(p)) /\ Under(Entry(u, p), b)
    <3> HIDE DEF u
    <3> QED
      BY <1>1, <1>3, <2>3, EntryIs
  <2>5. CASE b = d
    BY <2>1, <2>4, <2>5
  <2>6. CASE Under(b, c)
    <3> HIDE DEF u, b
    <3>1. Under(Entry(u, p), c)
      BY <2>4, <2>6, UnderChain
    <3> QED
      BY <3>1, <2>4 DEF u
  <2> QED
    BY <2>2, <2>5, <2>6
<1> QED
  BY <1>2, <1>3, LongPath

-----------------------------------------------------------------------------
(* The sandbox.                                                            *)

\* What validatePath lets through, and the entry it names, are in the root.
LEMMA PathInside ==
  ASSUME NEW t \in [Paths -> Nodes], LinksInside(t), NEW p \in Paths, ValidatePath(t, p)
  PROVE  /\ ResolvePath(t, p) # Err /\ Under(ResolvePath(t, p), Root)
         /\ Entry(t, p) # Err /\ Under(Entry(t, p), Root)
<1>1. ResolvePath(t, p) # Err /\ Under(p, Root) /\ (ResolvePath(t, p) # p => Under(ResolvePath(t, p), ResolvePath(t, Root)))
  BY DEF ValidatePath
<1>2. ResolvePath(t, Root) = Root
  BY RootIs, RealIs
<1>3. Under(ResolvePath(t, p), Root)
  BY <1>1, <1>2
<1>4. Entry(t, p) # Err /\ (At(t, Entry(t, p)).k # "link" => ResolvePath(t, p) = Entry(t, p))
  BY <1>1, RealEntry
<1>5. CASE At(t, Entry(t, p)).k = "link"
  <2>1. Entry(t, p) \in Paths /\ t[Entry(t, p)].k = "link"
    BY <1>5, NodeIs
  <2> QED
    BY <2>1, <1>1, <1>3, <1>4 DEF LinksInside
<1> QED
  BY <1>1, <1>3, <1>4, <1>5

\* The entry that validateLinkPath lets through is in the root.
LEMMA LinkPathInside ==
  ASSUME NEW t \in [Paths -> Nodes], NEW p \in Paths, ValidateLinkPath(t, p)
  PROVE  Entry(t, p) # Err /\ Under(Entry(t, p), Root)
<1>1. CASE p = Root
  <2>1. Entry(t, p) = Root
    BY <1>1, RootIs, EntryIs
  <2>2. Under(Root, Root)
    BY RootIs, UnderSelf
  <2>3. Root # Err
    BY RootIs, NotErr
  <2> QED
    BY <2>1, <2>2, <2>3
<1>2. CASE p # Root
  <2>1. /\ Under(p, Root) /\ ResolvePath(t, Front(p)) # Err
        /\ Under(ResolvePath(t, Front(p)), ResolvePath(t, Root))
    BY <1>2 DEF ValidateLinkPath
  <2>2. ResolvePath(t, Root) = Root
    BY RootIs, RealIs
  <2>3. Len(p) > 1
    <3>1. p # Outside
      <4>1. p \in Seq(Words) /\ p[1] = "root"
        BY <2>1, PathIs, InRoot
      <4>2. Outside[1] = "outside"
        BY DEF Outside
      <4> QED
        BY <4>1, <4>2
    <3> QED
      BY <3>1, <1>2, PathIs, LongPath
  <2>4. /\ Entry(t, p) # Err /\ Entry(t, p) \in Seq(Words) /\ ResolvePath(t, Front(p)) \in Seq(Words)
        /\ Under(Entry(t, p), ResolvePath(t, Front(p)))
    BY <2>1, <2>3, EntryIs
  <2> QED
    BY <2>1, <2>2, <2>4, RootIs, UnderChain
<1> QED
  BY <1>1, <1>2

\* The trees that differ from t in the root only.
Within(t) == {u \in [Paths -> Nodes] : \A p \in Paths : ~Under(p, Root) => u[p] = t[p]}

\* Changes in the root, one after the other, are changes in the root.
LEMMA WithinChain ==
  ASSUME NEW t, NEW u \in Within(t), NEW v \in Within(u)
  PROVE  v \in Within(t)
BY DEF Within

\* So is no change.
LEMMA WithinSelf ==
  ASSUME NEW t \in [Paths -> Nodes]
  PROVE  t \in Within(t)
BY DEF Within

\* A change in the root puts no link outside it.
LEMMA LinksStayInside ==
  ASSUME NEW t \in [Paths -> Nodes], LinksInside(t), NEW u \in Within(t)
  PROVE  LinksInside(u)
BY DEF LinksInside, Within

\* What is below something in the root is in the root.
LEMMA BelowInRoot ==
  ASSUME NEW q \in Seq(Words), Under(q, Root)
  PROVE  \A x \in Paths : Under(x, q) => Under(x, Root)
BY PathIs, RootIs, UnderChain

\* The nodes that calls make.
LEMMA NodesHold == None \in Nodes /\ Dir \in Nodes /\ File(0) \in Nodes
BY DEF Nodes, File

\* os.RemoveAll of an entry in the root changes the root only.
LEMMA CutWithin ==
  ASSUME NEW t \in [Paths -> Nodes], NEW q \in Seq(Words), Under(q, Root)
  PROVE  Cut(t, q) \in Within(t)
BY CutIs, BelowInRoot DEF Within

\* So does one that fails on the way.
LEMMA PartialCutsWithin ==
  ASSUME NEW t \in [Paths -> Nodes], NEW q \in Seq(Words), Under(q, Root), NEW u \in PartialCuts(t, q)
  PROVE  u \in Within(t)
<1>1. PICK gone \in SUBSET (Subtree(t, q) \ {q}) : u = [x \in Paths |-> IF x \in gone THEN None ELSE t[x]]
  BY DEF PartialCuts
<1>2. \A x \in gone : Under(x, Root)
  BY BelowInRoot DEF Subtree
<1>3. u \in [Paths -> Nodes]
  BY <1>1, NodesHold
<1> QED
  BY <1>1, <1>2, <1>3 DEF Within

\* A subtree put in the root changes the root only.
LEMMA GraftWithin ==
  ASSUME NEW t \in [Paths -> Nodes], NEW from \in [Paths -> Nodes], NEW p, NEW q \in Seq(Words), Under(q, Root)
  PROVE  Graft(t, from, p, q) \in Within(t)
<1> DEFINE node(x) == IF Under(x, q) THEN At(from, Moved(x, q, p)) ELSE t[x]
<1>1. Graft(t, from, p, q) = [x \in Paths |-> node(x)]
  BY DEF Graft
<1>2. ASSUME NEW x \in Paths PROVE node(x) \in Nodes
  BY NodeIs
<1>3. ASSUME NEW x \in Paths, ~Under(x, Root) PROVE node(x) = t[x]
  BY <1>3, BelowInRoot
<1> HIDE DEF node
<1> QED
  BY <1>1, <1>2, <1>3 DEF Within

\* os.MkdirAll makes directories in the root only: what is above the root is there.
LEMMA MkdirAllWithin ==
  ASSUME NEW t \in [Paths -> Nodes], NEW q \in Seq(Words), Under(q, Root)
  PROVE  MkdirAll(t, q) \in Within(t)
<1>1. ASSUME NEW x \in Paths, Under(q, x) PROVE Under(x, Root)
  BY <1>1, PathIs, AboveInRoot
<1>2. MkdirAll(t, q) \in [Paths -> Nodes]
  BY NodesHold DEF MkdirAll
<1> QED
  BY <1>1, <1>2 DEF Within, MkdirAll

\* A copied file, and one truncated on the way, is where the destination leads.
LEMMA CopyOneFileWithin ==
  ASSUME NEW t \in [Paths -> Nodes], NEW p, NEW q, Under(ResolvePath(t, q), Root), NEW c \in CopyOneFile(t, p, q)
  PROVE  c.t \in Within(t)
<1> DEFINE from == ResolvePath(t, p)
           to == ResolvePath(t, q)
           opens == At(t, from).k = "file" /\ to \in Paths /\ HasParent(t, to) /\ At(t, to).k \in {"none", "file"}
           holding(f) == [t EXCEPT ![to] = f]
           all == {[ok |-> TRUE, t |-> holding(IF to = from THEN File(0) ELSE t[from])]}
                    \cup {[ok |-> FALSE, t |-> holding(File(0))] : f \in Faults \cap {TRUE}}
<1>1. CopyOneFile(t, p, q) = IF ~opens THEN {[ok |-> FALSE, t |-> t]} ELSE all
  BY DEF CopyOneFile
<1>2. CASE ~opens
  <2> HIDE DEF opens, all
  <2>1. c.t = t
    BY <1>1, <1>2
  <2> QED
    BY <2>1, WithinSelf
<1>3. CASE opens
  <2>1. to \in Paths /\ Under(to, Root) /\ from \in Paths
    <3>1. from \in Paths
      <4>1. None.k # "file"
        BY DEF None
      <4> QED
        BY <4>1, <1>3, NodeIs
    <3> QED
      BY <3>1, <1>3
  <2>2. ASSUME NEW f \in Nodes PROVE holding(f) \in Within(t)
    <3> HIDE DEF to
    <3> QED
      BY <2>1 DEF Within
  <2>3. t[from] \in Nodes /\ File(0) \in Nodes
    BY <2>1, NodesHold
  <2>4. c \in all
    <3> HIDE DEF opens, all
    <3> QED
      BY <1>1, <1>3
  <2>5. c.t = holding(IF to = from THEN File(0) ELSE t[from]) \/ c.t = holding(File(0))
    <3> DEFINE a == holding(IF to = from THEN File(0) ELSE t[from])
               b == holding(File(0))
    <3>1. c \in {[ok |-> TRUE, t |-> a]} \cup {[ok |-> FALSE, t |-> b] : f \in Faults \cap {TRUE}}
      BY <2>4
    <3> HIDE DEF a, b
    <3>2. c.t = a \/ c.t = b
      <4>1. c = [ok |-> TRUE, t |-> a] \/ c = [ok |-> FALSE, t |-> b]
        BY <3>1, Zenon
      <4> QED
        BY <4>1
    <3> QED
      BY <3>2 DEF a, b
  <2> HIDE DEF holding, to, from, all, opens
  <2> QED
    BY <2>2, <2>3, <2>5
<1> QED
  BY <1>2, <1>3

\* A tree copied in part into the root changes the root only.
LEMMA PartialCopiesWithin ==
  ASSUME NEW t \in [Paths -> Nodes], NEW p \in Seq(Words), NEW q \in Seq(Words), Under(q, Root), NEW u \in PartialCopies(t, p, q)
  PROVE  u \in Within(t)
<1> DEFINE made == MkdirAll(t, q)
           whole == Graft(made, made, p, q)
<1>1. made \in Within(t) /\ made \in [Paths -> Nodes]
  BY MkdirAllWithin DEF Within
<1>2. whole \in Within(made)
  <2> HIDE DEF made
  <2> QED
    BY <1>1, GraftWithin
<1>3. PICK drop : u = [x \in Paths |-> IF x \in drop THEN t[x] ELSE whole[x]]
  BY DEF PartialCopies
<1>4. whole \in Within(t)
  <2> HIDE DEF made, whole
  <2> QED
    BY <1>1, <1>2, WithinChain
<1> HIDE DEF whole
<1> QED
  BY <1>3, <1>4 DEF Within

\* copyDirRecursive changes the root only.
LEMMA CopyDirWithin ==
  ASSUME NEW t \in [Paths -> Nodes], NEW p \in Seq(Words), NEW path, NEW q \in Seq(Words), Under(q, Root),
         NEW c \in CopyDir(t, p, path, q)
  PROVE  c.t \in Within(t)
<1> DEFINE fails == {[ok |-> FALSE, t |-> r] : r \in PartialCopies(t, p, q)}
           source == [x \in Paths |-> Rebuilt(t, t[x])]
           full == Graft(MkdirAll(t, q), source, p, q)
<1>1. CopyDir(t, p, path, q) =
        IF ~CanMkdirAll(t, path, q) THEN {[ok |-> FALSE, t |-> t]}
        ELSE IF Under(q, p) THEN fails
        ELSE {[ok |-> TRUE, t |-> full]} \cup (IF TRUE \in Faults THEN fails ELSE {})
  BY DEF CopyDir
<1>2. c = [ok |-> FALSE, t |-> t] \/ c \in fails \/ c = [ok |-> TRUE, t |-> full]
  <2> HIDE DEF fails, full
  <2> QED
    BY <1>1
<1>3. c \in fails => c.t \in Within(t)
  <2>1. ASSUME c \in fails PROVE c.t \in PartialCopies(t, p, q)
    BY <2>1
  <2> QED
    BY <2>1, PartialCopiesWithin
<1>4. full \in Within(t)
  <2> DEFINE made == MkdirAll(t, q)
  <2>1. made \in Within(t) /\ made \in [Paths -> Nodes]
    BY MkdirAllWithin DEF Within
  <2>2. source \in [Paths -> Nodes]
    BY DEF Rebuilt
  <2> HIDE DEF made, source
  <2>3. Graft(made, source, p, q) \in Within(made)
    BY <2>1, <2>2, GraftWithin
  <2>4. Graft(made, source, p, q) \in Within(t)
    BY <2>1, <2>3, WithinChain
  <2> QED
    BY <2>4 DEF made
<1>5. t \in Within(t)
  BY WithinSelf
<1> HIDE DEF fails, full
<1> QED
  BY <1>2, <1>3, <1>4, <1>5

\* The copy of a move changes the root only.
LEMMA FallbackWithin ==
  ASSUME NEW t \in [Paths -> Nodes], NEW p \in Seq(Words), NEW path, NEW q \in Paths, Under(q, Root),
         Under(ResolvePath(t, q), Root), NEW c \in Fallback(t, p, path, q)
  PROVE  c.t \in Within(t)
<1>1. t \in Within(t) /\ q \in Seq(Words)
  BY WithinSelf, PathIs
<1>2. At(t, p).k \in {"none", "dir", "file", "link"}
  BY NodeIs
<1>3. CASE At(t, p).k = "none"
  <2>1. Fallback(t, p, path, q) = {[ok |-> FALSE, t |-> t]}
    BY <1>3 DEF Fallback
  <2> QED
    BY <2>1, <1>1
<1>4. CASE At(t, p).k = "link"
  <2> DEFINE u == [t EXCEPT ![q] = t[p]]
  <2>1. u \in Within(t)
    <3>1. t[p] \in Nodes
      BY <1>4, NodeIs
    <3> QED
      BY <3>1 DEF Within
  <2>2. Fallback(t, p, path, q) = {IF HasParent(t, q) THEN [ok |-> TRUE, t |-> u] ELSE [ok |-> FALSE, t |-> t]}
    BY <1>4 DEF Fallback
  <2> HIDE DEF u
  <2> QED
    BY <2>1, <2>2, <1>1
<1>5. CASE At(t, p).k = "dir"
  <2>1. Fallback(t, p, path, q) = CopyDir(t, p, path, q)
    BY <1>5 DEF Fallback
  <2> QED
    BY <2>1, <1>1, CopyDirWithin
<1>6. CASE At(t, p).k = "file"
  <2>1. Fallback(t, p, path, q) = CopyOneFile(t, p, q)
    BY <1>6 DEF Fallback
  <2> QED
    BY <2>1, CopyOneFileWithin
<1> QED
  BY <1>2, <1>3, <1>4, <1>5, <1>6

\* Removing the source of a move changes the root only.
LEMMA CleanupWithin ==
  ASSUME NEW c, c.t \in [Paths -> Nodes], NEW p \in Seq(Words), Under(p, Root), NEW d \in Cleanup(c, p)
  PROVE  d.t \in Within(c.t)
<1> DEFINE rest == IF TRUE \in Faults THEN PartialCuts(c.t, p) ELSE {}
<1>1. CASE ~c.ok
  <2>1. d = c
    BY <1>1 DEF Cleanup
  <2> QED
    BY <2>1, WithinSelf
<1>2. CASE c.ok
  <2>1. d \in {[ok |-> TRUE, t |-> Cut(c.t, p)]} \cup {[ok |-> FALSE, t |-> r] : r \in rest}
    BY <1>2 DEF Cleanup
  <2>2. d.t = Cut(c.t, p) \/ d.t \in rest
    <3> HIDE DEF rest
    <3> QED
      BY <2>1
  <2>3. d.t = Cut(c.t, p) \/ d.t \in PartialCuts(c.t, p)
    BY <2>2
  <2> QED
    BY <2>3, CutWithin, PartialCutsWithin
<1> QED
  BY <1>1, <1>2

\* The place of a move: nothing is there once the destination is removed.
LEMMA DestinationIs ==
  ASSUME NEW t \in [Paths -> Nodes], LinksInside(t), NEW dst \in Paths, ValidatePath(t, dst)
  PROVE  /\ Vacated(t, dst) \in Within(t) /\ Vacated(t, dst) \in [Paths -> Nodes]
         /\ Entry(t, dst) \in Seq(Words) /\ Entry(t, dst) # Err /\ Under(Entry(t, dst), Root)
         /\ Entry(Vacated(t, dst), dst) \in Seq(Words) /\ Entry(Vacated(t, dst), dst) # Err
         /\ Under(Entry(Vacated(t, dst), dst), Entry(t, dst)) /\ Under(Entry(Vacated(t, dst), dst), Root)
         /\ At(Vacated(t, dst), Entry(Vacated(t, dst), dst)) = None
         /\ Entry(Vacated(t, dst), dst) \in Paths =>
              ResolvePath(Vacated(t, dst), Entry(Vacated(t, dst), dst)) = Entry(Vacated(t, dst), dst)
<1> DEFINE q0 == Entry(t, dst)
           u == Vacated(t, dst)
           q == Entry(u, dst)
<1>1. q0 # Err /\ Under(q0, Root) /\ q0 \in Seq(Words) /\ ResolvePath(t, dst) # Err
  BY PathInside, EntryIs
<1>2. Cut(t, q0) \in Within(t) /\ t \in Within(t)
  BY <1>1, CutWithin, WithinSelf
<1>3. u \in Within(t) /\ u \in [Paths -> Nodes]
  BY <1>2 DEF Vacated, Within
<1>4. q # Err /\ Under(q, q0) /\ q \in Seq(Words) /\ At(u, q) = None
  <2>1. CASE Exists(t, dst)
    <3>1. u = Cut(t, q0)
      BY <2>1 DEF Vacated
    <3>2. Entry(Cut(t, q0), dst) = q0 \/ (Entry(Cut(t, q0), dst) # Err /\ Under(Entry(Cut(t, q0), dst), q0))
      BY <1>1, EntryCut
    <3>3. \A x \in Paths : Under(x, q0) => u[x] = None
      BY <3>1, <1>1, CutIs
    <3> HIDE DEF u
    <3>4. q \in Seq(Words)
      BY <1>3, EntryIs
    <3>5. Under(q, q0) /\ q # Err
      BY <3>1, <3>2, <1>1, UnderSelf
    <3>6. At(u, q) = None
      BY <3>3, <3>5 DEF At
    <3> QED
      BY <3>4, <3>5, <3>6
  <2>2. CASE ~Exists(t, dst)
    <3>1. u = t
      BY <2>2 DEF Vacated
    <3> QED
      BY <3>1, <2>2, <1>1, UnderSelf DEF Exists
  <2> QED
    BY <2>1, <2>2
<1>5. Under(q, Root)
  <2> HIDE DEF u, q, q0
  <2> QED
    BY <1>1, <1>4, RootIs, UnderChain
<1>6. ASSUME q \in Paths PROVE ResolvePath(u, q) = q
  <2>1. CASE Len(dst) = 1
    <3> HIDE DEF u
    <3>1. q = dst
      BY <2>1, <1>3, EntryIs
    <3> QED
      BY <3>1, <2>1, <1>3, RealIs
  <2>2. CASE Len(dst) > 1
    <3> DEFINE d == ResolvePath(t, Front(dst))
               e == ResolvePath(u, Front(dst))
    <3>1. d # Err /\ At(t, d).k # "file" /\ Front(dst) \in Paths /\ d \in Seq(Words)
      BY <2>2, <1>1, RealEntry, EntryIs
    <3>2. At(u, e).k # "file"
      <4>0. None.k = "none"
        BY DEF None
      <4>1. CASE Exists(t, dst)
        <5>1. u = Cut(t, q0)
          BY <4>1 DEF Vacated
        <5>2. e = d \/ Under(e, q0)
          BY <5>1, <3>1, <1>1, RealCut
        <5>3. (\A x \in Paths : Under(x, q0) => u[x] = None) /\ \A x \in Paths : ~Under(x, q0) => u[x] = t[x]
          BY <5>1, <1>1, CutIs
        <5>4. Under(e, q0) => At(u, e) = None
          BY <5>3 DEF At
        <5>5. ~Under(e, q0) => At(u, e) = At(t, e)
          BY <5>3 DEF At
        <5> QED
          BY <5>2, <5>4, <5>5, <4>0, <3>1
      <4>2. CASE ~Exists(t, dst)
        BY <4>2, <3>1 DEF Vacated
      <4> QED
        BY <4>1, <4>2
    <3> HIDE DEF u
    <3>3. e \in Seq(Words) /\ Last(dst) \in Words
      BY <2>2, <1>3, EntryIs
    <3>4. e # Err
      BY <2>2, <1>3, <1>4, EntryIs
    <3>5. q = Append(e, Last(dst))
      BY <2>2, <3>4, <1>3, EntryIs
    <3>6. Clean(u, e)
      BY <3>1, <3>4, <1>3, RealIs
    <3> HIDE DEF e, q
    <3>7. Clean(u, q)
      <4> SUFFICES ASSUME NEW x \in Paths, Under(q, x)
                   PROVE  (Len(x) > 1 => u[x].k # "link") /\ (x # q => u[x].k # "file")
        BY DEF Clean
      <4>0. x \in Seq(Words) /\ At(u, x) = u[x]
        BY <1>3, PathIs, NodeIs
      <4>1. x = q \/ Under(e, x)
        BY <3>3, <3>5, <4>0, UnderAppend
      <4>2. CASE x = q
        <5>1. u[x] = None
          BY <4>0, <4>2, <1>4
        <5> QED
          BY <4>2, <5>1 DEF None
      <4>3. CASE Under(e, x) /\ x # e
        BY <4>3, <3>6 DEF Clean
      <4>4. CASE x = e
        <5>1. Len(x) > 1 => u[x].k # "link"
          BY <4>4, <3>3, <3>6, UnderSelf DEF Clean
        <5>2. u[x].k # "file"
          BY <3>2, <4>0, <4>4
        <5> QED
          BY <5>1, <5>2
      <4> QED
        BY <4>1, <4>2, <4>3, <4>4
    <3> QED
      BY <3>7, <1>3, <1>5, <1>6, RealIs
  <2> QED
    BY <2>1, <2>2, LongPath
<1> QED
  BY <1>1, <1>3, <1>4, <1>5, <1>6

\* The source of a move, once the destination is removed: where it was, or gone.
LEMMA SourceIs ==
  ASSUME NEW t \in [Paths -> Nodes], LinksInside(t), NEW dst \in Paths, ValidatePath(t, dst),
         NEW src \in Paths, ValidateLinkPath(t, src)
  PROVE  /\ Entry(t, src) # Err /\ Entry(t, src) \in Seq(Words) /\ Under(Entry(t, src), Root)
         /\ Entry(Vacated(t, dst), src) \in Seq(Words) /\ Entry(Vacated(t, dst), src) # Err
         /\ Under(Entry(Vacated(t, dst), src), Root)
         /\ \/ Entry(Vacated(t, dst), src) = Entry(t, src)
            \/ At(Vacated(t, dst), Entry(Vacated(t, dst), src)) = None
<1> DEFINE q0 == Entry(t, dst)
           u == Vacated(t, dst)
           p == Entry(u, src)
<1>1. u \in [Paths -> Nodes] /\ q0 \in Seq(Words) /\ Under(q0, Root)
  BY DestinationIs
<1>2. Entry(t, src) # Err /\ Entry(t, src) \in Seq(Words) /\ Under(Entry(t, src), Root)
  BY LinkPathInside, EntryIs
<1>3. p \in Seq(Words)
  <2> HIDE DEF u
  <2> QED
    BY <1>1, EntryIs
<1>4. CASE Exists(t, dst)
  <2>1. u = Cut(t, q0)
    BY <1>4 DEF Vacated
  <2>2. p = Entry(t, src) \/ (p # Err /\ Under(p, q0))
    BY <2>1, <1>1, <1>2, EntryCut
  <2>3. CASE p = Entry(t, src)
    BY <2>3, <1>2, <1>3
  <2>4. CASE p # Err /\ Under(p, q0)
    <3>1. \A x \in Paths : Under(x, q0) => u[x] = None
      BY <2>1, <1>1, CutIs
    <3> HIDE DEF u, p, q0
    <3>2. Under(p, Root)
      BY <2>4, <1>1, <1>3, RootIs, UnderChain
    <3>3. At(u, p) = None
      BY <2>4, <3>1 DEF At
    <3> QED
      BY <2>4, <3>2, <3>3, <1>2, <1>3 DEF u, p
  <2> QED
    BY <2>2, <2>3, <2>4
<1>5. CASE ~Exists(t, dst)
  <2>1. u = t
    BY <1>5 DEF Vacated
  <2> QED
    BY <2>1, <1>2
<1> QED
  BY <1>4, <1>5

\* One call changes the root only, whatever it is asked and whatever fails.
LEMMA MoveWithin ==
  ASSUME tree \in [Paths -> Nodes], LinksInside(tree), NEW src \in Paths, NEW dst \in Paths, NEW b \in BOOLEAN, Move(src, dst, b)
  PROVE  tree' \in Within(tree)
<1> DEFINE q0 == Entry(tree, dst)
           t1 == Vacated(tree, dst)
           p == Entry(t1, src)
           q == Entry(t1, dst)
           refused == \/ ~ValidateLinkPath(tree, src) \/ ~ValidatePath(tree, dst)
                      \/ ~Exists(tree, src) \/ (Exists(tree, dst) /\ ~b)
<1>1. CASE refused
  <2>1. tree' = tree
    BY <1>1 DEF Move, Answer
  <2> QED
    BY <2>1, WithinSelf
<1>2. CASE ~refused
  <2>1. ValidateLinkPath(tree, src) /\ ValidatePath(tree, dst)
    BY <1>2
  <2>2. /\ t1 \in Within(tree) /\ t1 \in [Paths -> Nodes]
        /\ q0 \in Seq(Words) /\ Under(q0, Root)
        /\ q \in Seq(Words) /\ Under(q, Root) /\ (q \in Paths => ResolvePath(t1, q) = q)
    BY <2>1, DestinationIs
  <2>3. p \in Seq(Words) /\ Under(p, Root)
    BY <2>1, SourceIs
  <2>4. \/ \E t \in PartialCuts(tree, q0) : Answer("move", src, dst, FALSE, 0, t)
        \/ Answer("move", src, dst, TRUE, 0, Graft(Cut(t1, p), t1, p, q))
        \/ q \in Paths /\ \E c \in Fallback(t1, p, dst, q) : \E d \in Cleanup(c, p) : Answer("move", src, dst, d.ok, 0, d.t)
    BY <1>2 DEF Move
  <2> HIDE DEF q0, t1, p, q
  <2>5. CASE \E t \in PartialCuts(tree, q0) : Answer("move", src, dst, FALSE, 0, t)
    <3>1. tree' \in PartialCuts(tree, q0)
      BY <2>5 DEF Answer
    <3> QED
      BY <3>1, <2>2, PartialCutsWithin
  <2>6. CASE Answer("move", src, dst, TRUE, 0, Graft(Cut(t1, p), t1, p, q))
    <3> DEFINE v == Cut(t1, p)
    <3>1. v \in Within(t1) /\ v \in [Paths -> Nodes]
      BY <2>2, <2>3, CutWithin DEF Within
    <3>2. tree' = Graft(v, t1, p, q)
      BY <2>6 DEF Answer
    <3> HIDE DEF v
    <3>3. Graft(v, t1, p, q) \in Within(v)
      BY <3>1, <2>2, <2>3, GraftWithin
    <3> QED
      BY <3>1, <3>2, <3>3, <2>2, WithinChain
  <2>7. CASE q \in Paths /\ \E c \in Fallback(t1, p, dst, q) : \E d \in Cleanup(c, p) : Answer("move", src, dst, d.ok, 0, d.t)
    <3>1. PICK c \in Fallback(t1, p, dst, q) : \E d \in Cleanup(c, p) : Answer("move", src, dst, d.ok, 0, d.t)
      BY <2>7
    <3>2. PICK d \in Cleanup(c, p) : tree' = d.t
      BY <3>1 DEF Answer
    <3>3. c.t \in Within(t1) /\ c.t \in [Paths -> Nodes]
      BY <2>2, <2>3, <2>7, FallbackWithin DEF Within
    <3>4. d.t \in Within(c.t)
      BY <2>3, <3>3, CleanupWithin
    <3>5. c.t \in Within(tree)
      BY <3>3, <2>2, WithinChain
    <3> QED
      BY <3>2, <3>4, <3>5, WithinChain
  <2> QED
    BY <2>4, <2>5, <2>6, <2>7
<1> QED
  BY <1>1, <1>2

\* CopyFile changes the root only.
LEMMA CopyWithin ==
  ASSUME tree \in [Paths -> Nodes], LinksInside(tree), NEW src \in Paths, NEW dst \in Paths, NEW b \in BOOLEAN, Copy(src, dst, b)
  PROVE  tree' \in Within(tree)
<1> DEFINE p == Entry(tree, src)
           q == Entry(tree, dst)
           refused == \/ ~ValidatePath(tree, src) \/ ~ValidatePath(tree, dst)
                      \/ ~Exists(tree, src) \/ (Exists(tree, dst) /\ (~b \/ At(tree, p) = Dir))
           copies == IF At(tree, p) = Dir THEN CopyDir(tree, p, dst, q) ELSE CopyOneFile(tree, p, q)
<1>1. CASE refused
  <2>1. tree' = tree
    BY <1>1 DEF Copy, Answer
  <2> QED
    BY <2>1, WithinSelf
<1>2. CASE ~refused
  <2>1. ValidatePath(tree, src) /\ ValidatePath(tree, dst)
    BY <1>2
  <2>2. /\ ResolvePath(tree, dst) # Err /\ Under(ResolvePath(tree, dst), Root)
        /\ q # Err /\ Under(q, Root)
    BY <2>1, PathInside
  <2>3. q \in Seq(Words) /\ p \in Seq(Words)
    BY EntryIs
  <2>4. q \in Paths /\ \E c \in copies : Answer("copy", src, dst, c.ok, 0, c.t)
    BY <1>2 DEF Copy
  <2>5. PICK c \in copies : tree' = c.t
    BY <2>4 DEF Answer
  <2>6. Under(ResolvePath(tree, q), Root)
    BY <2>2, <2>4, RealEntry
  <2>7. c \in CopyDir(tree, p, dst, q) \/ c \in CopyOneFile(tree, p, q)
    BY <2>5
  <2> HIDE DEF p, q
  <2> QED
    BY <2>2, <2>3, <2>5, <2>6, <2>7, CopyDirWithin, CopyOneFileWithin
<1> QED
  BY <1>1, <1>2

\* DeleteFile changes the root only: the target of a link stays.
LEMMA DeleteWithin ==
  ASSUME tree \in [Paths -> Nodes], NEW path \in Paths, NEW r \in BOOLEAN, NEW c \in BOOLEAN, NEW d \in BOOLEAN,
         Delete(path, r, c, d)
  PROVE  tree' \in Within(tree)
<1> DEFINE p == Entry(tree, path)
<1>1. tree' = tree \/ (ValidateLinkPath(tree, path) /\ (tree' = Cut(tree, p) \/ tree' \in PartialCuts(tree, p)))
  BY DEF Delete, DeleteTarget, Answer
<1>2. p \in Seq(Words) /\ (ValidateLinkPath(tree, path) => Under(p, Root))
  BY EntryIs, LinkPathInside
<1> HIDE DEF p
<1> QED
  BY <1>1, <1>2, WithinSelf, CutWithin, PartialCutsWithin

\* MakeDir changes the root only.
LEMMA MakeDirWithin ==
  ASSUME tree \in [Paths -> Nodes], LinksInside(tree), NEW path \in Paths, NEW b \in BOOLEAN, MakeDir(path, b)
  PROVE  tree' \in Within(tree)
<1> DEFINE p == ResolvePath(tree, path)
<1>1. tree' = tree \/ (ValidatePath(tree, path) /\ tree' = MkdirAll(tree, p))
  BY DEF MakeDir, Answer
<1>2. p \in Seq(Words) /\ (ValidatePath(tree, path) => Under(p, Root))
  BY RealIs, PathInside
<1> HIDE DEF p
<1> QED
  BY <1>1, <1>2, WithinSelf, MkdirAllWithin

\* Every call changes the root only.
LEMMA StepWithin ==
  ASSUME tree \in [Paths -> Nodes], LinksInside(tree), [TreeNext]_treeVars
  PROVE  tree' \in Within(tree)
<1>1. tree \in Within(tree)
  BY WithinSelf
<1>2. CASE UNCHANGED treeVars \/ Answered
  <2>1. tree' = tree
    BY <1>2 DEF treeVars, Answered
  <2> QED
    BY <2>1, <1>1
<1>3. CASE Call
  BY <1>3, MoveWithin, CopyWithin, DeleteWithin, MakeDirWithin DEF Call
<1> QED
  BY <1>2, <1>3 DEF TreeNext

\* From every tree whose links lie in the root, and for every sequence of moves,
\* copies, deletions and directories made, whatever the links lead to and
\* whichever steps fail, nothing outside the root changes (validatePath,
\* validateLinkPath). Its invariant is that links lie in the root: MoveFile
\* replaces the entry that its destination names, not what it leads to, and
\* where that entry lies follows only if no link outside the root is on the way.
THEOREM SandboxKept ==
  ASSUME NEW trees, \A t \in trees : t \in [Paths -> Nodes] /\ LinksInside(t)
  PROVE  TreeSpec(trees) => SandboxHolds
<1> DEFINE Inv == tree \in [Paths -> Nodes] /\ LinksInside(tree)
<1>1. TreeStarts(trees) => Inv
  BY DEF TreeStarts
<1>2. Inv /\ [TreeNext]_treeVars => Inv'
  <2> SUFFICES ASSUME Inv, [TreeNext]_treeVars PROVE Inv'
    OBVIOUS
  <2>1. tree' \in Within(tree)
    BY StepWithin
  <2>2. \A t \in [Paths -> Nodes] : LinksInside(t) => \A u \in Within(t) : LinksInside(u)
    BY LinksStayInside
  <2>3. LinksInside(tree')
    BY <2>1, <2>2
  <2>4. tree' \in [Paths -> Nodes]
    BY <2>1 DEF Within
  <2> QED
    BY <2>3, <2>4 DEF LinksInside
<1>3. Inv /\ [TreeNext]_treeVars => [\A p \in Paths : ~Under(p, Root) => tree'[p] = tree[p]]_treeVars
  <2> SUFFICES ASSUME Inv, [TreeNext]_treeVars PROVE \A p \in Paths : ~Under(p, Root) => tree'[p] = tree[p]
    OBVIOUS
  <2>1. tree' \in Within(tree)
    BY StepWithin
  <2> QED
    BY <2>1 DEF Within
<1> HIDE DEF Inv
<1> QED
  BY <1>1, <1>2, <1>3, PTL DEF TreeSpec, SandboxHolds

-----------------------------------------------------------------------------
(* Subtrees that move.                                                     *)

\* A path that moves keeps what is below the part that changes.
LEMMA MovedIs ==
  ASSUME NEW x \in Seq(Words), NEW p \in Seq(Words), NEW q \in Seq(Words), Under(x, p)
  PROVE  /\ Moved(x, p, q) \in Seq(Words) /\ Len(Moved(x, p, q)) = Len(q) + Len(x) - Len(p) /\ Under(Moved(x, p, q), q)
         /\ \A i \in 1..Len(q) : Moved(x, p, q)[i] = q[i]
         /\ \A i \in 1..(Len(x) - Len(p)) : Moved(x, p, q)[Len(q) + i] = x[Len(p) + i]
<1> DEFINE lx == Len(x)
           lp == Len(p)
           lq == Len(q)
           rest == SubSeq(x, Len(p) + 1, Len(x))
           y == q \o rest
<1>1. lx \in Nat /\ lp \in Nat /\ lq \in Nat /\ lp <= lx
  BY UnderIs, LenProperties
<1>2. \A i \in (lp + 1)..lx : x[i] \in Words
  <2>1. \A i \in 1..lx : x[i] \in Words
    BY ElementOfSeq
  <2> HIDE DEF lx, lp
  <2> QED
    BY <2>1, <1>1
<1>3. rest = SubSeq(x, lp + 1, lx)
  OBVIOUS
<1>4. q \in Seq(Words) /\ Len(q) = lq
  OBVIOUS
<1>5. y = Moved(x, p, q)
  BY DEF Moved
<1> HIDE DEF lx, lp, rest
<1>6. /\ rest \in Seq(Words) /\ Len(rest) = lx - lp
      /\ \A i \in 1..(lx - lp) : rest[i] = x[lp + i]
  <2>1. lp + 1 \in Int /\ lx \in Int
    BY <1>1
  <2>2. /\ rest \in Seq(Words) /\ Len(rest) = IF lp + 1 <= lx THEN lx - (lp + 1) + 1 ELSE 0
        /\ \A i \in 1..(lx - (lp + 1) + 1) : rest[i] = x[(lp + 1) + i - 1]
    BY <1>2, <1>3, <2>1, SubSeqProperties
  <2>3. lx - (lp + 1) + 1 = lx - lp /\ \A i \in 1..(lx - lp) : (lp + 1) + i - 1 = lp + i
    BY <1>1
  <2> QED
    BY <2>2, <2>3, <1>1
<1>7. /\ y \in Seq(Words) /\ Len(y) = Len(q) + Len(rest)
      /\ \A i \in 1..(Len(q) + Len(rest)) : y[i] = IF i <= Len(q) THEN q[i] ELSE rest[i - Len(q)]
  BY <1>6, ConcatProperties
<1> HIDE DEF y, lq
<1>8. /\ y \in Seq(Words) /\ Len(y) = lq + (lx - lp)
      /\ \A i \in 1..(lq + (lx - lp)) : y[i] = IF i <= lq THEN q[i] ELSE rest[i - lq]
  BY <1>7, <1>6, <1>4
<1>9. \A i \in 1..lq : y[i] = q[i]
  BY <1>8, <1>1
<1>10. ASSUME NEW i \in 1..(lx - lp) PROVE y[lq + i] = x[lp + i]
  <2>1. lq + i \in 1..(lq + (lx - lp)) /\ ~(lq + i <= lq) /\ (lq + i) - lq = i
    BY <1>1
  <2> QED
    BY <2>1, <1>8, <1>6
<1>11. lq + (lx - lp) = lq + lx - lp /\ lq <= lq + (lx - lp)
  BY <1>1
<1>12. Under(y, q)
  BY <1>4, <1>8, <1>9, <1>11, UnderIs
<1> QED
  BY <1>5, <1>8, <1>9, <1>10, <1>11, <1>12 DEF lx, lp, lq

\* Moved there and back, a path is where it was.
LEMMA MovedBack ==
  ASSUME NEW x \in Seq(Words), NEW p \in Seq(Words), NEW q \in Seq(Words), Under(x, p)
  PROVE  Moved(Moved(x, p, q), q, p) = x
<1> DEFINE y == Moved(x, p, q)
           z == Moved(y, q, p)
           lx == Len(x)
           lp == Len(p)
           lq == Len(q)
<1>1. lx \in Nat /\ lp \in Nat /\ lq \in Nat /\ lp <= lx /\ \A i \in 1..lp : p[i] = x[i]
  BY UnderIs, LenProperties
<1>2. /\ y \in Seq(Words) /\ Len(y) = lq + lx - lp /\ Under(y, q)
      /\ \A i \in 1..(lx - lp) : y[lq + i] = x[lp + i]
  BY MovedIs
<1> HIDE DEF y
<1>3. /\ z \in Seq(Words) /\ Len(z) = lp + Len(y) - lq
      /\ \A i \in 1..lp : z[i] = p[i]
      /\ \A i \in 1..(Len(y) - lq) : z[lq - lq + lp + i] = y[lq + i]
  <2>1. /\ z \in Seq(Words) /\ Len(z) = lp + Len(y) - lq
        /\ \A i \in 1..lp : z[i] = p[i]
        /\ \A i \in 1..(Len(y) - lq) : z[lp + i] = y[lq + i]
    BY <1>2, MovedIs
  <2>2. lq - lq + lp = lp
    BY <1>1
  <2> QED
    BY <2>1, <2>2
<1> HIDE DEF z, lx, lp, lq
<1>4. Len(z) = lx /\ \A i \in 1..(lx - lp) : z[lp + i] = x[lp + i]
  <2>1. Len(y) - lq = lx - lp /\ lp + Len(y) - lq = lx /\ lq - lq + lp = lp
    BY <1>1, <1>2
  <2> QED
    BY <2>1, <1>2, <1>3
<1>5. ASSUME NEW i \in 1..lx PROVE z[i] = x[i]
  <2>1. CASE i <= lp
    BY <2>1, <1>1, <1>3
  <2>2. CASE ~(i <= lp)
    <3>1. i - lp \in 1..(lx - lp) /\ lp + (i - lp) = i
      BY <2>2, <1>1
    <3> QED
      BY <3>1, <1>4
  <2> QED
    BY <2>1, <2>2
<1>6. x \in Seq(Words) /\ Len(x) = lx
  BY DEF lx
<1>7. z = x
  BY <1>3, <1>4, <1>5, <1>6, SeqEqual
<1> QED
  BY <1>7 DEF z, y

\* The place itself moves to the new place.
LEMMA MovedSelf ==
  ASSUME NEW p \in Seq(Words), NEW q \in Seq(Words)
  PROVE  Moved(p, p, q) = q
<1>1. Under(p, p) /\ Len(p) \in Nat /\ Len(q) \in Nat
  BY UnderSelf, LenProperties
<1>2. Moved(p, p, q) \in Seq(Words) /\ Len(Moved(p, p, q)) = Len(q) + Len(p) - Len(p) /\ Under(Moved(p, p, q), q)
  BY <1>1, MovedIs
<1>3. Len(Moved(p, p, q)) <= Len(q)
  BY <1>1, <1>2
<1> QED
  BY <1>2, <1>3, UnderBoth

\* What is further down stays further down.
LEMMA MovedBelow ==
  ASSUME NEW x \in Seq(Words), NEW p \in Seq(Words), NEW q \in Seq(Words), Under(x, p), x # p
  PROVE  /\ Len(x) >= 1 /\ Under(Front(x), p) /\ Len(Moved(x, p, q)) >= 1 /\ Len(q) < Len(Moved(x, p, q))
         /\ Front(Moved(x, p, q)) = Moved(Front(x), p, q)
<1> DEFINE y == Moved(x, p, q)
           lx == Len(x)
           lp == Len(p)
           lq == Len(q)
<1>1. lx \in Nat /\ lp \in Nat /\ lq \in Nat /\ lp <= lx /\ \A i \in 1..lp : p[i] = x[i]
  BY UnderIs, LenProperties
<1>2. lp < lx
  <2>1. ~(lx <= lp)
    BY UnderBoth
  <2> HIDE DEF lx, lp
  <2> QED
    BY <2>1, <1>1
<1>3. /\ y \in Seq(Words) /\ Len(y) = lq + lx - lp
      /\ \A i \in 1..lq : y[i] = q[i]
      /\ \A i \in 1..(lx - lp) : y[lq + i] = x[lp + i]
  BY MovedIs
<1> DEFINE ly == Len(y)
<1>4. lx >= 1 /\ ly >= 1 /\ lq < ly /\ ly \in Nat /\ ly = lq + lx - lp
  <2> HIDE DEF lx, lp, lq, y
  <2> QED
    BY <1>1, <1>2, <1>3
<1>5. Front(x) \in Seq(Words) /\ Len(Front(x)) = lx - 1 /\ Under(x, Front(x))
  BY <1>4, FrontIs
<1>6. \A i \in 1..(lx - 1) : Front(x)[i] = x[i]
  BY <1>5, UnderIs
<1>7. Front(y) \in Seq(Words) /\ Len(Front(y)) = ly - 1 /\ Under(y, Front(y))
  BY <1>3, <1>4, FrontIs
<1>8. \A i \in 1..(ly - 1) : Front(y)[i] = y[i]
  BY <1>3, <1>7, UnderIs
<1> DEFINE w == Front(x)
<1>9. w \in Seq(Words) /\ Len(w) = lx - 1 /\ \A i \in 1..(lx - 1) : w[i] = x[i]
  BY <1>5, <1>6
<1>10. Under(w, p)
  <2>1. lp <= lx - 1 /\ \A i \in 1..lp : p[i] = w[i]
    <3> HIDE DEF lx, lp, w
    <3> QED
      BY <1>1, <1>2, <1>9
  <2> QED
    BY <2>1, <1>9, UnderIs
<1> HIDE DEF w
<1> DEFINE z == Moved(w, p, q)
<1>11. /\ z \in Seq(Words) /\ Len(z) = lq + (lx - 1) - lp
       /\ \A i \in 1..lq : z[i] = q[i]
       /\ \A i \in 1..((lx - 1) - lp) : z[lq + i] = w[lp + i]
  <2>1. /\ z \in Seq(Words) /\ Len(z) = lq + Len(w) - lp
        /\ \A i \in 1..lq : z[i] = q[i]
        /\ \A i \in 1..(Len(w) - lp) : z[lq + i] = w[lp + i]
    <3>1. w \in Seq(Words)
      BY <1>9
    <3>2. /\ Moved(w, p, q) \in Seq(Words) /\ Len(Moved(w, p, q)) = Len(q) + Len(w) - Len(p)
          /\ \A i \in 1..Len(q) : Moved(w, p, q)[i] = q[i]
          /\ \A i \in 1..(Len(w) - Len(p)) : Moved(w, p, q)[Len(q) + i] = w[Len(p) + i]
      BY <3>1, <1>10, MovedIs, Zenon
    <3> QED
      BY <3>2, Zenon
  <2> HIDE DEF z, lx, lp, lq
  <2> QED
    BY <2>1, <1>9
<1> DEFINE v == Front(y)
<1>12. v \in Seq(Words) /\ Len(v) = ly - 1 /\ \A i \in 1..(ly - 1) : v[i] = y[i]
  BY <1>7, <1>8
<1> HIDE DEF z, v, lx, lp, lq, ly
<1>13. Len(v) = Len(z) /\ Len(v) = ly - 1
  BY <1>1, <1>4, <1>11, <1>12
<1>14. ASSUME NEW i \in 1..(ly - 1) PROVE v[i] = z[i]
  <2>1. CASE i <= lq
    <3>1. i \in 1..lq
      BY <2>1, <1>1, <1>4
    <3> QED
      BY <3>1, <1>3, <1>11, <1>12
  <2>2. CASE ~(i <= lq)
    <3> DEFINE j == i - lq
    <3>1. j \in 1..((lx - 1) - lp) /\ j \in 1..(lx - lp) /\ lq + j = i /\ lp + j \in 1..(lx - 1)
      BY <2>2, <1>1, <1>2, <1>4
    <3> HIDE DEF j
    <3>2. z[lq + j] = w[lp + j] /\ y[lq + j] = x[lp + j] /\ w[lp + j] = x[lp + j]
      BY <3>1, <1>3, <1>9, <1>11
    <3> QED
      BY <3>1, <3>2, <1>12
  <2> QED
    BY <2>1, <2>2
<1>15. v = z
  BY <1>11, <1>12, <1>13, <1>14, SeqEqual
<1> QED
  BY <1>4, <1>10, <1>15 DEF v, z, w, y, lx, ly, lq

\* A path that moves into the root and is not too long is a path.
LEMMA MovedPath ==
  ASSUME NEW x \in Paths, NEW p \in Seq(Words), Len(p) >= 1, Under(x, p), NEW q \in Paths, Under(q, Root),
         Len(x) - Len(p) + Len(q) <= Depth
  PROVE  Moved(x, p, q) \in Paths
<1> DEFINE y == Moved(x, p, q)
           lx == Len(x)
           lp == Len(p)
           lq == Len(q)
<1>1. /\ x \in Seq(Words) /\ q \in Seq(Words) /\ lq >= 1 /\ q[1] = "root"
      /\ (\A i \in 2..lx : x[i] \in Names) /\ (\A i \in 2..lq : q[i] \in Names)
  BY PathIs, InRoot
<1>2. lx \in Nat /\ lp \in Nat /\ lq \in Nat /\ lp <= lx /\ lp >= 1 /\ lx - lp + lq <= Depth /\ Depth \in Nat
  BY <1>1, UnderIs, LenProperties, FileTreeAssumption
<1>3. /\ y \in Seq(Words) /\ Len(y) = lq + lx - lp
      /\ \A i \in 1..lq : y[i] = q[i]
      /\ \A i \in 1..(lx - lp) : y[lq + i] = x[lp + i]
  BY <1>1, MovedIs
<1> HIDE DEF y, lx, lp, lq
<1>4. Len(y) >= 1 /\ Len(y) <= Depth /\ y[1] = "root"
  BY <1>1, <1>2, <1>3
<1>5. ASSUME NEW i \in 2..Len(y) PROVE y[i] \in Names
  <2>1. CASE i <= lq
    <3>1. i \in 2..lq /\ i \in 1..lq
      BY <2>1, <1>2, <1>3
    <3> QED
      BY <3>1, <1>1, <1>3
  <2>2. CASE ~(i <= lq)
    <3> DEFINE j == i - lq
    <3>1. j \in 1..(lx - lp) /\ lq + j = i /\ lp + j \in 2..lx
      BY <2>2, <1>2, <1>3
    <3> HIDE DEF j
    <3> QED
      BY <3>1, <1>1, <1>3
  <2> QED
    BY <2>1, <2>2
<1>6. Pathlike(y)
  BY <1>4, <1>5 DEF Pathlike
<1> QED
  BY <1>3, <1>6, IsAPath DEF y

-----------------------------------------------------------------------------
(* Trees stay trees.                                                       *)

\* What a layout is, path by path.
LEMMA LayoutIs ==
  ASSUME NEW t \in Layouts
  PROVE  t \in [Paths -> Nodes] /\ \A p \in Paths : t[p] # None /\ Len(p) > 1 => t[Front(p)] = Dir
BY DEF Layouts

\* What is above a path, and not the path, is above its parent.
LEMMA AboveFront ==
  ASSUME NEW p \in Paths, Len(p) > 1, NEW x \in Seq(Words), Under(p, x), x # p
  PROVE  Under(Front(p), x)
<1> DEFINE d == Front(p)
           l == Last(p)
<1>1. d \in Seq(Words) /\ l \in Words /\ Append(d, l) = p
  BY FrontPath, PathIs
<1> HIDE DEF d, l
<1>2. x = Append(d, l) \/ Under(d, x)
  BY <1>1, UnderAppend
<1>3. Under(d, x)
  BY <1>1, <1>2
<1> QED
  BY <1>3 DEF d

\* Above what is there are directories.
LEMMA DirsAbove ==
  ASSUME NEW t \in Layouts, NEW p \in Paths, t[p] # None, NEW x \in Paths, Under(p, x), x # p
  PROVE  t[x] = Dir
<1> DEFINE P == {n \in 0..Len(p) : \A y \in Paths : Len(y) <= n /\ t[y] # None /\ Under(y, x) /\ x # y => t[x] = Dir}
<1>1. Len(p) \in Nat /\ x \in Seq(Words) /\ p \in Seq(Words)
  BY PathIs
<1>2. 0 \in P
  <2>1. \A y \in Paths : ~(Len(y) <= 0)
    BY PathIs
  <2> QED
    BY <2>1, <1>1
<1>3. ASSUME NEW n \in 1..Len(p), n - 1 \in P PROVE n \in P
  <2> SUFFICES ASSUME NEW y \in Paths, Len(y) <= n, t[y] # None, Under(y, x), x # y PROVE t[x] = Dir
    BY <1>1
  <2>1. y \in Seq(Words) /\ Len(y) \in Nat /\ Len(y) >= 1 /\ Len(x) >= 1 /\ n \in Nat
    BY <1>1, PathIs
  <2>2. Len(y) > 1
    <3>1. ~(Len(y) <= Len(x))
      BY <2>1, <1>1, UnderBoth
    <3>2. Len(y) # 1
      BY <3>1, <2>1
    <3> QED
      BY <3>2, LongPath
  <2>3. Front(y) \in Paths /\ Last(y) \in Words /\ Append(Front(y), Last(y)) = y /\ Len(Front(y)) = Len(y) - 1
    BY <2>2, FrontPath
  <2>4. t[Front(y)] = Dir
    BY <2>2, LayoutIs
  <2>5. Under(Front(y), x)
    BY <2>2, <1>1, AboveFront
  <2>6. CASE x = Front(y)
    BY <2>4, <2>6
  <2>7. CASE x # Front(y)
    <3>1. Len(Front(y)) <= n - 1
      BY <2>1, <2>3
    <3>2. t[Front(y)] # None
      BY <2>4 DEF Dir, None
    <3> QED
      BY <1>3, <2>3, <2>5, <2>7, <3>1, <3>2
  <2> QED
    BY <2>6, <2>7
<1>4. P \in SUBSET (0..Len(p))
  OBVIOUS
<1>5. Len(p) \in P
  <2>1. P = 0..Len(p)
    <3> HIDE DEF P
    <3> QED
      BY <1>1, <1>2, <1>3, <1>4, UpTo
  <2> HIDE DEF P
  <2> QED
    BY <2>1, <1>1
<1>6. Len(p) <= Len(p)
  BY <1>1
<1> QED
  BY <1>5, <1>6

\* Below what is not a directory is nothing.
LEMMA NothingBelow ==
  ASSUME NEW t \in Layouts, NEW p \in Paths, t[p] # Dir, NEW x \in Paths, Under(x, p), x # p
  PROVE  t[x] = None
BY DirsAbove

\* What is below a path's parent.
LEMMA UnderFront ==
  ASSUME NEW x \in Paths, Len(x) > 1, NEW q \in Seq(Words), Under(Front(x), q)
  PROVE  Under(x, q)
<1>1. Front(x) \in Paths /\ Under(x, Front(x))
  BY FrontPath
<1>2. x \in Seq(Words) /\ Front(x) \in Seq(Words)
  BY <1>1, PathIs
<1> QED
  BY <1>1, <1>2, UnderChain

\* A layout after os.RemoveAll.
LEMMA CutLayout ==
  ASSUME NEW t \in Layouts, NEW q \in Seq(Words)
  PROVE  Cut(t, q) \in Layouts
<1> DEFINE u == Cut(t, q)
<1>1. t \in [Paths -> Nodes]
  BY LayoutIs
<1>2. /\ u \in [Paths -> Nodes]
      /\ \A x \in Paths : Under(x, q) => u[x] = None
      /\ \A x \in Paths : ~Under(x, q) => u[x] = t[x]
  BY <1>1, CutIs
<1> HIDE DEF u
<1>3. ASSUME NEW x \in Paths, u[x] # None, Len(x) > 1 PROVE u[Front(x)] = Dir
  <2>1. ~Under(x, q) /\ t[x] # None
    BY <1>2, <1>3
  <2>2. t[Front(x)] = Dir /\ Front(x) \in Paths
    BY <2>1, <1>3, LayoutIs, FrontPath
  <2>3. ~Under(Front(x), q)
    BY <2>1, <1>3, UnderFront
  <2> QED
    BY <2>2, <2>3, <1>2
<1>4. u \in Layouts
  BY <1>2, <1>3 DEF Layouts
<1> QED
  BY <1>4 DEF u

\* A layout after one that failed on the way.
LEMMA PartialCutsLayout ==
  ASSUME NEW t \in Layouts, NEW q, NEW u \in PartialCuts(t, q)
  PROVE  u \in Layouts
<1>1. PICK gone \in SUBSET (Subtree(t, q) \ {q}) :
        /\ \A x \in gone : Subtree(t, x) \subseteq gone
        /\ u = [x \in Paths |-> IF x \in gone THEN None ELSE t[x]]
  BY DEF PartialCuts
<1>2. t \in [Paths -> Nodes] /\ None \in Nodes
  BY LayoutIs, NodesHold
<1>3. u \in [Paths -> Nodes]
  BY <1>1, <1>2
<1>4. ASSUME NEW x \in Paths, u[x] # None, Len(x) > 1 PROVE u[Front(x)] = Dir
  <2>1. x \notin gone /\ t[x] # None
    BY <1>1, <1>4
  <2>2. t[Front(x)] = Dir /\ Front(x) \in Paths /\ Under(x, Front(x))
    BY <2>1, <1>4, LayoutIs, FrontPath
  <2>3. x \in Subtree(t, Front(x))
    BY <2>1, <2>2 DEF Subtree
  <2>4. Front(x) \notin gone
    BY <1>1, <2>1, <2>3
  <2> QED
    BY <1>1, <2>2, <2>4
<1> QED
  BY <1>3, <1>4 DEF Layouts

\* A layout after os.MkdirAll, when nothing else is in the way.
LEMMA MkdirAllLayout ==
  ASSUME NEW t \in Layouts, NEW p \in Paths, \A x \in Paths : Under(p, x) /\ x # p => t[x] \in {None, Dir}
  PROVE  /\ MkdirAll(t, p) \in Layouts /\ (Len(p) > 1 => MkdirAll(t, p)[Front(p)] = Dir)
         /\ \A x \in Paths : ~Under(p, x) => MkdirAll(t, p)[x] = t[x]
<1> DEFINE u == MkdirAll(t, p)
<1>1. t \in [Paths -> Nodes] /\ Dir \in Nodes /\ Dir # None
  BY LayoutIs, NodesHold DEF Dir, None
<1>2. u = [x \in Paths |-> IF Under(p, x) /\ t[x] = None THEN Dir ELSE t[x]]
  BY DEF MkdirAll
<1>3. u \in [Paths -> Nodes]
  BY <1>1, <1>2
<1>4. ASSUME NEW x \in Paths, Under(p, x), x # p PROVE u[x] = Dir
  BY <1>1, <1>2, <1>4
<1>5. ASSUME NEW x \in Paths, ~Under(p, x) PROVE u[x] = t[x]
  BY <1>2, <1>5
<1>6. ASSUME NEW x \in Paths, Len(x) > 1, Under(p, x) PROVE u[Front(x)] = Dir
  <2>1. Front(x) \in Paths /\ Under(x, Front(x)) /\ Len(Front(x)) = Len(x) - 1
    BY <1>6, FrontPath
  <2>2. x \in Seq(Words) /\ p \in Seq(Words) /\ Front(x) \in Seq(Words) /\ Len(x) \in Nat /\ Len(p) \in Nat
    BY <2>1, PathIs
  <2>3. Under(p, Front(x))
    BY <1>6, <2>1, <2>2, UnderChain
  <2>4. Front(x) # p
    <3>1. Len(x) <= Len(p)
      BY <1>6, <2>2, UnderIs
    <3> QED
      BY <3>1, <2>1, <2>2
  <2> QED
    BY <2>1, <2>3, <2>4, <1>4
<1>7. ASSUME NEW x \in Paths, u[x] # None, Len(x) > 1 PROVE u[Front(x)] = Dir
  <2>1. CASE Under(p, x)
    BY <2>1, <1>6, <1>7
  <2>2. CASE ~Under(p, x)
    <3>1. t[x] # None
      BY <2>2, <1>5, <1>7
    <3>2. Front(x) \in Paths /\ t[Front(x)] = Dir
      BY <3>1, <1>7, LayoutIs, FrontPath
    <3> QED
      BY <3>2, <1>1, <1>2
  <2> QED
    BY <2>1, <2>2
<1>8. u \in Layouts
  BY <1>3, <1>7 DEF Layouts
<1>9. Len(p) > 1 => u[Front(p)] = Dir
  <2>1. Under(p, p)
    BY PathIs, UnderSelf
  <2> QED
    BY <2>1, <1>6
<1> HIDE DEF u
<1>10. /\ u \in Layouts /\ (Len(p) > 1 => u[Front(p)] = Dir)
       /\ \A x \in Paths : ~Under(p, x) => u[x] = t[x]
  BY <1>5, <1>8, <1>9
<1> QED
  BY <1>10 DEF u

\* What a graft leaves at a path.
LEMMA GraftIs ==
  ASSUME NEW t \in [Paths -> Nodes], NEW from \in [Paths -> Nodes], NEW p, NEW q
  PROVE  /\ Graft(t, from, p, q) \in [Paths -> Nodes]
         /\ \A x \in Paths : Under(x, q) => Graft(t, from, p, q)[x] = At(from, Moved(x, q, p))
         /\ \A x \in Paths : ~Under(x, q) => Graft(t, from, p, q)[x] = t[x]
<1> DEFINE node(x) == IF Under(x, q) THEN At(from, Moved(x, q, p)) ELSE t[x]
<1>1. Graft(t, from, p, q) = [x \in Paths |-> node(x)]
  BY DEF Graft
<1>2. ASSUME NEW x \in Paths PROVE node(x) \in Nodes
  BY NodeIs
<1>3. ASSUME NEW x \in Paths PROVE (Under(x, q) => node(x) = At(from, Moved(x, q, p))) /\ (~Under(x, q) => node(x) = t[x])
  OBVIOUS
<1> HIDE DEF node
<1> QED
  BY <1>1, <1>2, <1>3

\* A layout with a subtree put in a directory of it.
LEMMA GraftLayout ==
  ASSUME NEW t \in Layouts, NEW from \in Layouts, NEW p \in Seq(Words), Len(p) >= 1, NEW q \in Paths,
         Len(q) > 1 => t[Front(q)] = Dir
  PROVE  Graft(t, from, p, q) \in Layouts
<1> DEFINE u == Graft(t, from, p, q)
<1>1. t \in [Paths -> Nodes] /\ from \in [Paths -> Nodes] /\ q \in Seq(Words)
  BY LayoutIs, PathIs
<1>2. /\ u \in [Paths -> Nodes]
      /\ \A x \in Paths : Under(x, q) => u[x] = At(from, Moved(x, q, p))
      /\ \A x \in Paths : ~Under(x, q) => u[x] = t[x]
  BY <1>1, GraftIs
<1> HIDE DEF u
<1>3. ASSUME NEW x \in Paths, u[x] # None, Len(x) > 1 PROVE u[Front(x)] = Dir
  <2>1. Front(x) \in Paths /\ x \in Seq(Words) /\ Under(x, Front(x)) /\ Len(Front(x)) = Len(x) - 1 /\ Len(x) \in Nat
    BY <1>3, FrontPath, PathIs
  <2>2. CASE x = q
    <3>1. ~Under(Front(x), q)
      <4>1. Front(x) \in Seq(Words) /\ ~(Len(q) <= Len(Front(x)))
        BY <2>1, <2>2, PathIs
      <4> QED
        BY <4>1, <1>1, UnderIs
    <3> QED
      BY <3>1, <2>1, <2>2, <1>2, <1>3
  <2>3. CASE Under(x, q) /\ x # q
    <3> DEFINE y == Moved(x, q, p)
    <3>1. /\ Under(Front(x), q) /\ Front(y) = Moved(Front(x), q, p) /\ Len(y) >= 1 /\ Len(p) < Len(y)
          /\ y \in Seq(Words)
      BY <2>1, <2>3, <1>1, MovedBelow, MovedIs
    <3>2. At(from, y) # None
      BY <2>3, <1>2, <1>3
    <3>3. y \in Paths /\ from[y] # None
      BY <3>2, <1>1, NodeIs
    <3>4. Len(y) > 1
      <4>1. Len(y) \in Nat /\ Len(p) \in Nat
        BY <3>1, LenProperties
      <4>2. Len(y) # 1
        BY <4>1, <3>1
      <4> QED
        BY <4>2, <3>3, LongPath
    <3> HIDE DEF y
    <3>5. from[Front(y)] = Dir /\ Front(y) \in Paths
      BY <3>3, <3>4, LayoutIs, FrontPath
    <3>6. u[Front(x)] = At(from, Front(y))
      BY <3>1, <2>1, <1>2
    <3> QED
      BY <3>5, <3>6 DEF At
  <2>4. CASE ~Under(x, q)
    <3>1. ~Under(Front(x), q)
      BY <2>4, <1>1, <1>3, UnderFront
    <3>2. t[x] # None
      BY <2>4, <1>2, <1>3
    <3>3. t[Front(x)] = Dir
      BY <3>2, <1>3, LayoutIs
    <3> QED
      BY <3>1, <3>3, <2>1, <1>2
  <2> QED
    BY <2>2, <2>3, <2>4
<1>4. u \in Layouts
  BY <1>2, <1>3 DEF Layouts
<1> QED
  BY <1>4 DEF u

\* A layout with a leaf put in a directory of it.
LEMMA LeafLayout ==
  ASSUME NEW t \in Layouts, NEW q \in Paths, HasParent(t, q), t[q] # Dir, NEW node \in Nodes
  PROVE  [t EXCEPT ![q] = node] \in Layouts
<1> DEFINE u == [t EXCEPT ![q] = node]
<1>1. t \in [Paths -> Nodes] /\ Len(q) > 1 /\ At(t, Front(q)) = Dir
  BY LayoutIs DEF HasParent
<1>2. t[Front(q)] = Dir
  BY <1>1, FrontPath DEF At
<1>3. u \in [Paths -> Nodes] /\ u[q] = node /\ \A x \in Paths : x # q => u[x] = t[x]
  BY <1>1
<1> HIDE DEF u
<1>4. ASSUME NEW x \in Paths, u[x] # None, Len(x) > 1 PROVE u[Front(x)] = Dir
  <2>1. Front(x) \in Paths
    BY <1>4, FrontPath
  <2>2. t[Front(x)] = Dir
    BY <1>2, <1>3, <1>4, LayoutIs
  <2>3. Front(x) # q
    BY <2>2
  <2> QED
    BY <2>1, <2>2, <2>3, <1>3
<1>5. u \in Layouts
  BY <1>3, <1>4 DEF Layouts
<1> QED
  BY <1>5 DEF u

\* What stands in the way of os.MkdirAll: nothing.
LEMMA CanMkdirAllIs ==
  ASSUME NEW t, NEW path, NEW q, CanMkdirAll(t, path, q)
  PROVE  q \in Paths /\ \A x \in Paths : Under(q, x) /\ x # q => t[x] \in {None, Dir}
BY DEF CanMkdirAll

\* A layout with a tree copied in part.
LEMMA PartialCopiesLayout ==
  ASSUME NEW t \in Layouts, NEW p \in Seq(Words), Len(p) >= 1, NEW path, NEW q, CanMkdirAll(t, path, q),
         NEW u \in PartialCopies(t, p, q)
  PROVE  u \in Layouts
<1> DEFINE made == MkdirAll(t, q)
           whole == Graft(made, made, p, q)
<1>1. PICK drop \in SUBSET Subtree(whole, q) :
        /\ \A x \in drop : Subtree(whole, x) \subseteq drop
        /\ u = [x \in Paths |-> IF x \in drop THEN t[x] ELSE whole[x]]
  BY DEF PartialCopies
<1>2. q \in Paths /\ made \in Layouts /\ (Len(q) > 1 => made[Front(q)] = Dir)
  BY CanMkdirAllIs, MkdirAllLayout
<1> HIDE DEF made
<1>3. whole \in Layouts
  BY <1>2, GraftLayout
<1> HIDE DEF whole
<1>4. t \in [Paths -> Nodes] /\ whole \in [Paths -> Nodes]
  BY <1>3, LayoutIs
<1>5. u \in [Paths -> Nodes]
  BY <1>1, <1>4
<1>6. ASSUME NEW x \in Paths, u[x] # None, Len(x) > 1 PROVE u[Front(x)] = Dir
  <2>1. Front(x) \in Paths /\ Under(x, Front(x))
    BY <1>6, FrontPath
  <2>2. CASE x \in drop
    <3>1. t[x] # None /\ whole[x] # None
      BY <2>2, <1>1, <1>6 DEF Subtree
    <3>2. t[Front(x)] = Dir /\ whole[Front(x)] = Dir
      BY <3>1, <1>3, <1>6, LayoutIs
    <3> QED
      BY <3>2, <2>1, <1>1
  <2>3. CASE x \notin drop
    <3>1. whole[x] # None
      BY <2>3, <1>1, <1>6
    <3>2. whole[Front(x)] = Dir
      BY <3>1, <1>3, <1>6, LayoutIs
    <3>3. x \in Subtree(whole, Front(x))
      BY <3>1, <2>1 DEF Subtree
    <3>4. Front(x) \notin drop
      BY <3>3, <2>3, <1>1
    <3> QED
      BY <3>2, <3>4, <2>1, <1>1
  <2> QED
    BY <2>2, <2>3
<1> QED
  BY <1>5, <1>6 DEF Layouts

-----------------------------------------------------------------------------
(* What a copy, and the copy of a move, can come to.                       *)

\* What the copy of a file can come to: nothing, a file where the destination
\* leads, or a truncated one (copyOneFile).
FileCopied(t, p, q, c) ==
  LET from == ResolvePath(t, p)
      to == ResolvePath(t, q)
  IN  /\ from \in Paths /\ to \in Paths /\ At(t, from).k = "file" /\ HasParent(t, to) /\ At(t, to).k \in {"none", "file"}
      /\ \/ c.ok /\ to # from /\ c.t = [t EXCEPT ![to] = t[from]]
         \/ c.ok /\ to = from /\ c.t = [t EXCEPT ![to] = File(0)]
         \/ ~c.ok /\ c.t = [t EXCEPT ![to] = File(0)]

\* copyOneFile comes to nothing or to one of these.
LEMMA CopyOneFileIs ==
  ASSUME NEW t \in [Paths -> Nodes], NEW p, NEW q, NEW c \in CopyOneFile(t, p, q)
  PROVE  (~c.ok /\ c.t = t) \/ FileCopied(t, p, q, c)
<1> DEFINE from == ResolvePath(t, p)
           to == ResolvePath(t, q)
           opens == At(t, from).k = "file" /\ to \in Paths /\ HasParent(t, to) /\ At(t, to).k \in {"none", "file"}
           a == [t EXCEPT ![to] = IF to = from THEN File(0) ELSE t[from]]
           b == [t EXCEPT ![to] = File(0)]
           all == {[ok |-> TRUE, t |-> a]} \cup {[ok |-> FALSE, t |-> b] : f \in Faults \cap {TRUE}}
<1>1. CopyOneFile(t, p, q) = IF ~opens THEN {[ok |-> FALSE, t |-> t]} ELSE all
  BY DEF CopyOneFile
<1>2. CASE ~opens
  <2> HIDE DEF opens, all
  <2> QED
    BY <1>1, <1>2
<1>3. CASE opens
  <2>1. from \in Paths
    <3>1. None.k # "file"
      BY DEF None
    <3> QED
      BY <3>1, <1>3, NodeIs
  <2>2. c \in all
    <3> HIDE DEF opens, all
    <3> QED
      BY <1>1, <1>3
  <2>3. (to # from => a = [t EXCEPT ![to] = t[from]]) /\ (to = from => a = b)
    OBVIOUS
  <2> HIDE DEF a, b
  <2>4. c = [ok |-> TRUE, t |-> a] \/ c = [ok |-> FALSE, t |-> b]
    BY <2>2, Zenon
  <2>5. (c.ok /\ c.t = a) \/ (~c.ok /\ c.t = b)
    BY <2>4
  <2>6. \/ c.ok /\ to # from /\ c.t = [t EXCEPT ![to] = t[from]]
        \/ c.ok /\ to = from /\ c.t = b
        \/ ~c.ok /\ c.t = b
    <3> HIDE DEF to, from
    <3> QED
      BY <2>3, <2>5, Zenon
  <2> QED
    BY <2>1, <2>6, <1>3 DEF FileCopied, b
<1> QED
  BY <1>2, <1>3

\* What the copy of a directory can come to: nothing, a part of it, or all of it
\* (copyDirRecursive).
LEMMA CopyDirIs ==
  ASSUME NEW t \in [Paths -> Nodes], NEW p, NEW path, NEW q, NEW c \in CopyDir(t, p, path, q)
  PROVE  \/ ~c.ok /\ c.t = t
         \/ CanMkdirAll(t, path, q) /\ ~c.ok /\ c.t \in PartialCopies(t, p, q)
         \/ CanMkdirAll(t, path, q) /\ ~Under(q, p) /\ c.ok /\ c.t = Graft(MkdirAll(t, q), t, p, q)
<1> DEFINE fails == {[ok |-> FALSE, t |-> r] : r \in PartialCopies(t, p, q)}
           source == [x \in Paths |-> Rebuilt(t, t[x])]
           full == Graft(MkdirAll(t, q), source, p, q)
<1>1. CopyDir(t, p, path, q) =
        IF ~CanMkdirAll(t, path, q) THEN {[ok |-> FALSE, t |-> t]}
        ELSE IF Under(q, p) THEN fails
        ELSE {[ok |-> TRUE, t |-> full]} \cup (IF TRUE \in Faults THEN fails ELSE {})
  BY DEF CopyDir
<1>2. source = t
  BY DEF Rebuilt
<1>3. \/ c = [ok |-> FALSE, t |-> t]
      \/ CanMkdirAll(t, path, q) /\ c \in fails
      \/ CanMkdirAll(t, path, q) /\ ~Under(q, p) /\ c = [ok |-> TRUE, t |-> full]
  <2> HIDE DEF fails, full
  <2> QED
    BY <1>1
<1>4. c \in fails => ~c.ok /\ c.t \in PartialCopies(t, p, q)
  OBVIOUS
<1>5. full = Graft(MkdirAll(t, q), t, p, q)
  BY <1>2
<1> HIDE DEF fails, full, source
<1>6. c = [ok |-> FALSE, t |-> t] => ~c.ok /\ c.t = t
  OBVIOUS
<1>7. c = [ok |-> TRUE, t |-> full] => c.ok /\ c.t = full
  OBVIOUS
<1> QED
  BY <1>3, <1>4, <1>5, <1>6, <1>7, Zenon

\* What the copy of a move can come to (MoveFile).
LEMMA FallbackIs ==
  ASSUME NEW t \in [Paths -> Nodes], NEW p, NEW path, NEW q, NEW c \in Fallback(t, p, path, q)
  PROVE  \/ ~c.ok /\ c.t = t
         \/ At(t, p).k = "link" /\ HasParent(t, q) /\ c.ok /\ c.t = [t EXCEPT ![q] = t[p]]
         \/ At(t, p).k = "dir" /\ c \in CopyDir(t, p, path, q)
         \/ At(t, p).k = "file" /\ c \in CopyOneFile(t, p, q)
<1>1. At(t, p).k \in {"none", "dir", "file", "link"}
  BY NodeIs
<1>2. CASE At(t, p).k = "none"
  <2>1. Fallback(t, p, path, q) = {[ok |-> FALSE, t |-> t]}
    BY <1>2 DEF Fallback
  <2> QED
    BY <2>1
<1>3. CASE At(t, p).k = "link"
  <2> DEFINE u == [t EXCEPT ![q] = t[p]]
  <2>1. Fallback(t, p, path, q) = {IF HasParent(t, q) THEN [ok |-> TRUE, t |-> u] ELSE [ok |-> FALSE, t |-> t]}
    BY <1>3 DEF Fallback
  <2> HIDE DEF u
  <2>2. (HasParent(t, q) /\ c.ok /\ c.t = u) \/ (~c.ok /\ c.t = t)
    BY <2>1
  <2> QED
    BY <2>2, <1>3 DEF u
<1>4. CASE At(t, p).k = "dir"
  BY <1>4 DEF Fallback
<1>5. CASE At(t, p).k = "file"
  BY <1>5 DEF Fallback
<1> QED
  BY <1>1, <1>2, <1>3, <1>4, <1>5

\* What becomes of the source of a move that copied (MoveFile).
LEMMA CleanupIs ==
  ASSUME NEW c, NEW p, NEW d \in Cleanup(c, p)
  PROVE  \/ ~c.ok /\ ~d.ok /\ d.t = c.t
         \/ c.ok /\ d.ok /\ d.t = Cut(c.t, p)
         \/ c.ok /\ ~d.ok /\ d.t \in PartialCuts(c.t, p)
<1> DEFINE rest == IF TRUE \in Faults THEN PartialCuts(c.t, p) ELSE {}
           whole == Cut(c.t, p)
<1>1. CASE ~c.ok
  <2>1. d = c
    BY <1>1 DEF Cleanup
  <2> QED
    BY <2>1, <1>1
<1>2. CASE c.ok
  <2>1. d \in {[ok |-> TRUE, t |-> whole]} \cup {[ok |-> FALSE, t |-> r] : r \in rest}
    BY <1>2 DEF Cleanup
  <2> HIDE DEF rest, whole
  <2>2. (d.ok /\ d.t = whole) \/ (~d.ok /\ d.t \in rest)
    <3>1. d = [ok |-> TRUE, t |-> whole] \/ \E r \in rest : d = [ok |-> FALSE, t |-> r]
      BY <2>1, Zenon
    <3> QED
      BY <3>1
  <2>3. (d.ok /\ d.t = whole) \/ (~d.ok /\ d.t \in PartialCuts(c.t, p))
    BY <2>2 DEF rest
  <2> QED
    BY <2>3, <1>2 DEF whole
<1> QED
  BY <1>1, <1>2

\* A layout with a copy in it, however far the copy got.
LEMMA CopyDirLayout ==
  ASSUME NEW t \in Layouts, NEW p \in Seq(Words), Len(p) >= 1, NEW path, NEW q, NEW c \in CopyDir(t, p, path, q)
  PROVE  c.t \in Layouts
<1>1. t \in [Paths -> Nodes]
  BY LayoutIs
<1>2. CASE c.t = t
  BY <1>2
<1>3. CASE CanMkdirAll(t, path, q) /\ c.t \in PartialCopies(t, p, q)
  BY <1>3, PartialCopiesLayout
<1>4. CASE CanMkdirAll(t, path, q) /\ c.t = Graft(MkdirAll(t, q), t, p, q)
  <2> DEFINE made == MkdirAll(t, q)
  <2>1. q \in Paths /\ made \in Layouts /\ (Len(q) > 1 => made[Front(q)] = Dir)
    BY <1>4, CanMkdirAllIs, MkdirAllLayout
  <2> HIDE DEF made
  <2>2. Graft(made, t, p, q) \in Layouts
    BY <2>1, GraftLayout
  <2> QED
    BY <2>2, <1>4 DEF made
<1> QED
  BY <1>1, <1>2, <1>3, <1>4, CopyDirIs

\* A layout with a copied file in it, whole or truncated.
LEMMA CopyOneFileLayout ==
  ASSUME NEW t \in Layouts, NEW p, NEW q, NEW c \in CopyOneFile(t, p, q)
  PROVE  c.t \in Layouts
<1> DEFINE from == ResolvePath(t, p)
           to == ResolvePath(t, q)
<1>1. t \in [Paths -> Nodes] /\ File(0) \in Nodes
  BY LayoutIs, NodesHold
<1>2. CASE c.t = t
  BY <1>2
<1>3. CASE FileCopied(t, p, q, c)
  <2>1. /\ from \in Paths /\ to \in Paths /\ HasParent(t, to) /\ At(t, to).k \in {"none", "file"}
        /\ c.t = [t EXCEPT ![to] = t[from]] \/ c.t = [t EXCEPT ![to] = File(0)]
    BY <1>3 DEF FileCopied
  <2>2. t[to] # Dir /\ t[from] \in Nodes
    <3>1. At(t, to) = t[to] /\ Dir.k = "dir"
      BY <2>1 DEF At, Dir
    <3> QED
      BY <3>1, <2>1, <1>1
  <2> HIDE DEF from, to
  <2> QED
    BY <2>1, <2>2, <1>1, LeafLayout
<1> QED
  BY <1>1, <1>2, <1>3, CopyOneFileIs

\* A layout with what a move copied in it.
LEMMA FallbackLayout ==
  ASSUME NEW t \in Layouts, NEW p \in Seq(Words), Len(p) >= 1, NEW path, NEW q \in Paths, t[q] # Dir,
         NEW c \in Fallback(t, p, path, q)
  PROVE  c.t \in Layouts
<1>1. t \in [Paths -> Nodes]
  BY LayoutIs
<1>2. CASE c.t = t
  BY <1>2
<1>3. CASE At(t, p).k = "link" /\ HasParent(t, q) /\ c.t = [t EXCEPT ![q] = t[p]]
  <2>1. t[p] \in Nodes
    BY <1>1, <1>3, NodeIs
  <2> QED
    BY <2>1, <1>3, LeafLayout
<1>4. CASE c \in CopyDir(t, p, path, q)
  BY <1>4, CopyDirLayout
<1>5. CASE c \in CopyOneFile(t, p, q)
  BY <1>5, CopyOneFileLayout
<1> QED
  BY <1>1, <1>2, <1>3, <1>4, <1>5, FallbackIs

\* A layout after the source of a move is removed, in part or whole.
LEMMA CleanupLayout ==
  ASSUME NEW c, c.t \in Layouts, NEW p \in Seq(Words), NEW d \in Cleanup(c, p)
  PROVE  d.t \in Layouts
BY CleanupIs, CutLayout, PartialCutsLayout

\* A layout once the destination of a move is removed.
LEMMA VacatedLayout ==
  ASSUME NEW t \in Layouts, NEW dst \in Paths
  PROVE  Vacated(t, dst) \in Layouts
<1>1. t \in [Paths -> Nodes]
  BY LayoutIs
<1>2. Entry(t, dst) \in Seq(Words)
  BY <1>1, EntryIs
<1>3. Cut(t, Entry(t, dst)) \in Layouts
  BY <1>2, CutLayout
<1> QED
  BY <1>3 DEF Vacated

\* A directory holds the entry at a path.
LEMMA ParentIs ==
  ASSUME NEW t, NEW q \in Paths, HasParent(t, q)
  PROVE  Len(q) > 1 /\ Front(q) \in Paths /\ t[Front(q)] = Dir
<1>1. Len(q) > 1 /\ At(t, Front(q)) = Dir
  BY DEF HasParent
<1>2. Front(q) \in Paths
  BY <1>1, FrontPath
<1> QED
  BY <1>1, <1>2 DEF At

\* What is being moved is not above the directory it goes to.
LEMMA ParentStays ==
  ASSUME NEW t \in Layouts, NEW p \in Seq(Words), NEW q \in Paths, HasParent(t, q), ~Under(q, p)
  PROVE  /\ Cut(t, p)[Front(q)] = Dir
         /\ MkdirAll(Cut(t, p), q)[q] \in {Dir, Cut(t, p)[q]}
         /\ \A x \in Paths : x # q => MkdirAll(Cut(t, p), q)[x] = Cut(t, p)[x]
<1> DEFINE u == Cut(t, p)
<1>1. t \in [Paths -> Nodes] /\ q \in Seq(Words) /\ Dir # None
  BY LayoutIs, PathIs DEF Dir, None
<1>2. /\ u \in [Paths -> Nodes] /\ \A x \in Paths : ~Under(x, p) => u[x] = t[x]
  BY <1>1, CutIs
<1>3. Len(q) > 1 /\ Front(q) \in Paths /\ t[Front(q)] = Dir /\ Under(q, Front(q))
  BY ParentIs, FrontPath
<1>4. ASSUME NEW x \in Paths, Under(q, x), x # q PROVE u[x] = Dir
  <2>1. x \in Seq(Words) /\ Front(q) \in Seq(Words)
    BY <1>3, PathIs
  <2>2. ~Under(x, p)
    BY <1>4, <1>1, <2>1, UnderChain
  <2>3. Under(Front(q), x)
    BY <2>1, <1>3, <1>4, AboveFront
  <2>4. t[x] = Dir
    BY <2>3, <1>1, <1>3, DirsAbove
  <2> QED
    BY <2>2, <2>4, <1>2
<1>5. u[Front(q)] = Dir
  <2>1. Front(q) # q
    <3>1. Len(Front(q)) = Len(q) - 1 /\ Len(q) \in Nat
      BY <1>3, FrontPath, PathIs
    <3> QED
      BY <3>1
  <2> QED
    BY <2>1, <1>3, <1>4
<1>6. MkdirAll(u, q) = [x \in Paths |-> IF Under(q, x) /\ u[x] = None THEN Dir ELSE u[x]]
  BY DEF MkdirAll
<1>7. ASSUME NEW x \in Paths, x # q PROVE MkdirAll(u, q)[x] = u[x]
  BY <1>1, <1>4, <1>6, <1>7
<1>8. MkdirAll(u, q)[q] \in {Dir, u[q]}
  BY <1>6
<1> QED
  BY <1>5, <1>7, <1>8

\* os.Rename leaves a layout.
LEMMA RenameLayout ==
  ASSUME NEW t \in Layouts, NEW p \in Seq(Words), Len(p) >= 1, NEW q \in Paths, RenameWorks(t, p, q)
  PROVE  Graft(Cut(t, p), t, p, q) \in Layouts
<1> DEFINE u == Cut(t, p)
<1>1. u \in Layouts
  BY CutLayout
<1>2. u[Front(q)] = Dir
  BY ParentStays DEF RenameWorks
<1> HIDE DEF u
<1>3. Graft(u, t, p, q) \in Layouts
  BY <1>1, <1>2, GraftLayout
<1> QED
  BY <1>3 DEF u

\* What is in the root has a name.
LEMMA RootNamed ==
  ASSUME NEW p \in Seq(Words), Under(p, Root)
  PROVE  Len(p) >= 1
BY InRoot

\* MoveFile leaves a layout, whichever of its steps fails.
LEMMA MoveLayout ==
  ASSUME tree \in Layouts, LinksInside(tree), NEW src \in Paths, NEW dst \in Paths, NEW b \in BOOLEAN, Move(src, dst, b)
  PROVE  tree' \in Layouts
<1> DEFINE q0 == Entry(tree, dst)
           t1 == Vacated(tree, dst)
           p == Entry(t1, src)
           q == Entry(t1, dst)
           refused == \/ ~ValidateLinkPath(tree, src) \/ ~ValidatePath(tree, dst)
                      \/ ~Exists(tree, src) \/ (Exists(tree, dst) /\ ~b)
<1>0. tree \in [Paths -> Nodes]
  BY LayoutIs
<1>1. CASE refused
  BY <1>1 DEF Move, Answer
<1>2. CASE ~refused
  <2>1. ValidateLinkPath(tree, src) /\ ValidatePath(tree, dst)
    BY <1>2
  <2>2. q0 \in Seq(Words) /\ At(t1, q) = None
    BY <1>0, <2>1, DestinationIs
  <2>3. p \in Seq(Words) /\ Len(p) >= 1
    BY <1>0, <2>1, SourceIs, RootNamed
  <2>4. t1 \in Layouts
    BY VacatedLayout
  <2>5. \/ \E t \in PartialCuts(tree, q0) : Answer("move", src, dst, FALSE, 0, t)
        \/ q \in Paths /\ RenameWorks(t1, p, q) /\ Answer("move", src, dst, TRUE, 0, Graft(Cut(t1, p), t1, p, q))
        \/ q \in Paths /\ \E c \in Fallback(t1, p, dst, q) : \E d \in Cleanup(c, p) : Answer("move", src, dst, d.ok, 0, d.t)
    BY <1>2 DEF Move
  <2> HIDE DEF q0, t1, p, q
  <2>6. CASE \E t \in PartialCuts(tree, q0) : Answer("move", src, dst, FALSE, 0, t)
    <3>1. tree' \in PartialCuts(tree, q0)
      BY <2>6 DEF Answer
    <3> QED
      BY <3>1, PartialCutsLayout
  <2>7. CASE q \in Paths /\ RenameWorks(t1, p, q) /\ Answer("move", src, dst, TRUE, 0, Graft(Cut(t1, p), t1, p, q))
    <3>1. tree' = Graft(Cut(t1, p), t1, p, q)
      BY <2>7 DEF Answer
    <3> QED
      BY <3>1, <2>3, <2>4, <2>7, RenameLayout
  <2>8. CASE q \in Paths /\ \E c \in Fallback(t1, p, dst, q) : \E d \in Cleanup(c, p) : Answer("move", src, dst, d.ok, 0, d.t)
    <3>1. PICK c \in Fallback(t1, p, dst, q) : \E d \in Cleanup(c, p) : Answer("move", src, dst, d.ok, 0, d.t)
      BY <2>8
    <3>2. PICK d \in Cleanup(c, p) : tree' = d.t
      BY <3>1 DEF Answer
    <3>3. t1[q] # Dir
      BY <2>2, <2>8 DEF At, Dir, None
    <3>4. c.t \in Layouts
      BY <2>3, <2>4, <2>8, <3>3, FallbackLayout
    <3> QED
      BY <2>3, <3>2, <3>4, CleanupLayout
  <2> QED
    BY <2>5, <2>6, <2>7, <2>8
<1> QED
  BY <1>1, <1>2

\* CopyFile leaves a layout.
LEMMA CopyLayout ==
  ASSUME tree \in Layouts, LinksInside(tree), NEW src \in Paths, NEW dst \in Paths, NEW b \in BOOLEAN, Copy(src, dst, b)
  PROVE  tree' \in Layouts
<1> DEFINE p == Entry(tree, src)
           q == Entry(tree, dst)
           refused == \/ ~ValidatePath(tree, src) \/ ~ValidatePath(tree, dst)
                      \/ ~Exists(tree, src) \/ (Exists(tree, dst) /\ (~b \/ At(tree, p) = Dir))
           copies == IF At(tree, p) = Dir THEN CopyDir(tree, p, dst, q) ELSE CopyOneFile(tree, p, q)
<1>0. tree \in [Paths -> Nodes]
  BY LayoutIs
<1>1. CASE refused
  BY <1>1 DEF Copy, Answer
<1>2. CASE ~refused
  <2>1. ValidatePath(tree, src)
    BY <1>2
  <2>2. p \in Seq(Words) /\ Len(p) >= 1
    BY <1>0, <2>1, PathInside, EntryIs, RootNamed
  <2>3. PICK c \in copies : tree' = c.t
    BY <1>2 DEF Copy, Answer
  <2>4. c \in CopyDir(tree, p, dst, q) \/ c \in CopyOneFile(tree, p, q)
    BY <2>3
  <2> HIDE DEF p, q
  <2> QED
    BY <2>2, <2>3, <2>4, CopyDirLayout, CopyOneFileLayout
<1> QED
  BY <1>1, <1>2

\* DeleteFile leaves a layout.
LEMMA DeleteLayout ==
  ASSUME tree \in Layouts, NEW path \in Paths, NEW r \in BOOLEAN, NEW c \in BOOLEAN, NEW d \in BOOLEAN,
         Delete(path, r, c, d)
  PROVE  tree' \in Layouts
<1> DEFINE p == Entry(tree, path)
<1>1. tree' = tree \/ tree' = Cut(tree, p) \/ tree' \in PartialCuts(tree, p)
  BY DEF Delete, DeleteTarget, Answer
<1>2. p \in Seq(Words)
  BY LayoutIs, EntryIs
<1> HIDE DEF p
<1> QED
  BY <1>1, <1>2, CutLayout, PartialCutsLayout

\* MakeDir leaves a layout.
LEMMA MakeDirLayout ==
  ASSUME tree \in Layouts, NEW path \in Paths, NEW b \in BOOLEAN, MakeDir(path, b)
  PROVE  tree' \in Layouts
<1> DEFINE p == ResolvePath(tree, path)
<1>1. \/ tree' = tree
      \/ p \in Paths /\ (CanMkdirAll(tree, path, p) \/ HasParent(tree, p)) /\ tree' = MkdirAll(tree, p)
  BY DEF MakeDir, Answer
<1> HIDE DEF p
<1>2. CASE tree' = tree
  BY <1>2
<1>3. CASE p \in Paths /\ CanMkdirAll(tree, path, p) /\ tree' = MkdirAll(tree, p)
  BY <1>3, CanMkdirAllIs, MkdirAllLayout
<1>4. CASE p \in Paths /\ HasParent(tree, p) /\ tree' = MkdirAll(tree, p)
  <2>1. Len(p) > 1 /\ Front(p) \in Paths /\ tree[Front(p)] = Dir /\ Dir # None
    BY <1>4, ParentIs DEF Dir, None
  <2>2. ASSUME NEW x \in Paths, Under(p, x), x # p PROVE tree[x] = Dir
    <3>1. x \in Seq(Words)
      BY PathIs
    <3>2. Under(Front(p), x)
      BY <3>1, <1>4, <2>1, <2>2, AboveFront
    <3> QED
      BY <3>2, <2>1, DirsAbove
  <2> QED
    BY <1>4, <2>2, MkdirAllLayout
<1> QED
  BY <1>1, <1>2, <1>3, <1>4

-----------------------------------------------------------------------------
(* Moves are exact.                                                        *)

\* The source of a move that finds it is the entry it was before the destination
\* was removed, and nothing of it was removed with it (MoveFile).
LEMMA SourceKept ==
  ASSUME NEW t \in [Paths -> Nodes], LinksInside(t), NEW dst \in Paths, ValidatePath(t, dst),
         NEW src \in Paths, ValidateLinkPath(t, src),
         NEW p, p = Entry(Vacated(t, dst), src), NEW q, q = Entry(Vacated(t, dst), dst),
         At(Vacated(t, dst), p) # None, ~Under(q, p)
  PROVE  p = Entry(t, src) /\ \A y \in Paths : Under(y, p) => Vacated(t, dst)[y] = t[y]
<1> DEFINE t1 == Vacated(t, dst)
           q0 == Entry(t, dst)
<1>1. q0 \in Seq(Words) /\ q \in Seq(Words) /\ Under(q, q0) /\ t1 \in [Paths -> Nodes]
  BY DestinationIs
<1>2. p \in Seq(Words) /\ p = Entry(t, src)
  BY SourceIs
<1>3. t1 = t \/ t1 = Cut(t, q0)
  BY DEF Vacated
<1>4. p \in Paths /\ t1[p] # None
  BY <1>1, NodeIs
<1> HIDE DEF t1, q0
<1>5. ASSUME NEW y \in Paths, Under(y, p), t1 = Cut(t, q0) PROVE t1[y] = t[y]
  <2>1. /\ \A x \in Paths : Under(x, q0) => t1[x] = None
        /\ \A x \in Paths : ~Under(x, q0) => t1[x] = t[x]
    BY <1>1, <1>5, CutIs
  <2>2. ~Under(p, q0)
    BY <1>4, <2>1
  <2>3. ~Under(q0, p)
    BY <1>1, <1>2, UnderChain
  <2>4. ~Under(y, q0)
    BY <2>2, <2>3, <1>1, <1>2, <1>5, PathIs, UnderNest
  <2> QED
    BY <2>1, <2>4
<1>6. \A y \in Paths : Under(y, p) => t1[y] = t[y]
  BY <1>3, <1>5
<1> QED
  BY <1>2, <1>6 DEF t1

\* Trees that agree below a path give the same graft of it.
LEMMA GraftSame ==
  ASSUME NEW t \in [Paths -> Nodes], NEW a \in [Paths -> Nodes], NEW b \in [Paths -> Nodes],
         NEW p \in Seq(Words), NEW q \in Seq(Words), \A y \in Paths : Under(y, p) => a[y] = b[y]
  PROVE  Graft(t, a, p, q) = Graft(t, b, p, q)
<1> DEFINE u == Graft(t, a, p, q)
           v == Graft(t, b, p, q)
<1>1. /\ u \in [Paths -> Nodes]
      /\ \A x \in Paths : Under(x, q) => u[x] = At(a, Moved(x, q, p))
      /\ \A x \in Paths : ~Under(x, q) => u[x] = t[x]
  BY GraftIs
<1>2. /\ v \in [Paths -> Nodes]
      /\ \A x \in Paths : Under(x, q) => v[x] = At(b, Moved(x, q, p))
      /\ \A x \in Paths : ~Under(x, q) => v[x] = t[x]
  BY GraftIs
<1> HIDE DEF u, v
<1>3. ASSUME NEW x \in Paths, Under(x, q) PROVE At(a, Moved(x, q, p)) = At(b, Moved(x, q, p))
  <2>1. x \in Seq(Words)
    BY PathIs
  <2>2. Under(Moved(x, q, p), p)
    BY <2>1, <1>3, MovedIs
  <2> QED
    BY <2>2 DEF At
<1>4. \A x \in Paths : u[x] = v[x]
  BY <1>1, <1>2, <1>3
<1>5. u = v
  BY <1>1, <1>2, <1>4
<1> QED
  BY <1>5 DEF u, v

\* The tree of a move of p to q, its missing parents made.
Relocated(t, p, q) == Graft(MkdirAll(Cut(t, p), q), t, p, q)

\* What os.MkdirAll leaves at a path.
LEMMA MkdirAllIs ==
  ASSUME NEW t \in [Paths -> Nodes], NEW p
  PROVE  /\ MkdirAll(t, p) \in [Paths -> Nodes]
         /\ \A x \in Paths : ~(Under(p, x) /\ t[x] = None) => MkdirAll(t, p)[x] = t[x]
         /\ \A x \in Paths : Under(p, x) /\ t[x] = None => MkdirAll(t, p)[x] = Dir
BY NodesHold DEF MkdirAll

\* What a move leaves at a path.
LEMMA RelocatedIs ==
  ASSUME NEW t \in [Paths -> Nodes], NEW p \in Seq(Words), NEW q
  PROVE  /\ Relocated(t, p, q) \in [Paths -> Nodes]
         /\ \A x \in Paths : Under(x, q) => Relocated(t, p, q)[x] = At(t, Moved(x, q, p))
         /\ \A x \in Paths : ~Under(x, q) => Relocated(t, p, q)[x] = MkdirAll(Cut(t, p), q)[x]
<1> DEFINE u == Cut(t, p)
           v == MkdirAll(u, q)
<1>1. u \in [Paths -> Nodes]
  BY CutIs
<1> HIDE DEF u
<1>2. v \in [Paths -> Nodes]
  BY <1>1, MkdirAllIs
<1> HIDE DEF v
<1>3. /\ Graft(v, t, p, q) \in [Paths -> Nodes]
      /\ \A x \in Paths : Under(x, q) => Graft(v, t, p, q)[x] = At(t, Moved(x, q, p))
      /\ \A x \in Paths : ~Under(x, q) => Graft(v, t, p, q)[x] = v[x]
  BY <1>2, GraftIs
<1> QED
  BY <1>3 DEF Relocated, u, v

\* A rename puts the subtree in a directory that is there: nothing else is made.
LEMMA RenameExact ==
  ASSUME NEW t \in Layouts, NEW p \in Seq(Words), NEW q \in Paths, RenameWorks(t, p, q)
  PROVE  Graft(Cut(t, p), t, p, q) = Relocated(t, p, q)
<1> DEFINE u == Graft(Cut(t, p), t, p, q)
           v == Relocated(t, p, q)
<1>1. t \in [Paths -> Nodes] /\ Cut(t, p) \in [Paths -> Nodes] /\ q \in Seq(Words)
  BY LayoutIs, CutIs, PathIs
<1>2. /\ u \in [Paths -> Nodes]
      /\ \A x \in Paths : Under(x, q) => u[x] = At(t, Moved(x, q, p))
      /\ \A x \in Paths : ~Under(x, q) => u[x] = Cut(t, p)[x]
  BY <1>1, GraftIs
<1>3. /\ v \in [Paths -> Nodes]
      /\ \A x \in Paths : Under(x, q) => v[x] = At(t, Moved(x, q, p))
      /\ \A x \in Paths : ~Under(x, q) => v[x] = MkdirAll(Cut(t, p), q)[x]
  BY <1>1, RelocatedIs
<1> HIDE DEF u, v
<1>4. \A x \in Paths : x # q => MkdirAll(Cut(t, p), q)[x] = Cut(t, p)[x]
  BY ParentStays DEF RenameWorks
<1>5. Under(q, q)
  BY <1>1, UnderSelf
<1>6. \A x \in Paths : u[x] = v[x]
  BY <1>2, <1>3, <1>4, <1>5
<1>7. u = v
  BY <1>2, <1>3, <1>6
<1> QED
  BY <1>7 DEF u, v

\* What is there is not below what is not there.
LEMMA NotBelow ==
  ASSUME NEW t \in Layouts, NEW p \in Paths, t[p] # None, NEW q \in Paths, t[q] = None
  PROVE  ~Under(p, q)
<1>1. Dir # None
  BY DEF Dir, None
<1> QED
  BY <1>1, DirsAbove

\* A copied leaf, its source removed, is moved.
LEMMA LeafExact ==
  ASSUME NEW t \in Layouts, NEW p \in Paths, t[p] # None, t[p] # Dir, NEW q \in Paths, t[q] = None, HasParent(t, q)
  PROVE  ~Under(q, p) /\ Cut([t EXCEPT ![q] = t[p]], p) = Relocated(t, p, q)
<1> DEFINE c == [t EXCEPT ![q] = t[p]]
           u == Cut(c, p)
           v == Relocated(t, p, q)
<1>1. t \in [Paths -> Nodes] /\ p \in Seq(Words) /\ q \in Seq(Words) /\ Dir # None
  BY LayoutIs, PathIs DEF Dir, None
<1>2. ~Under(p, q)
  BY NotBelow
<1>3. ~Under(q, p)
  <2> SUFFICES ASSUME Under(q, p) PROVE FALSE
    OBVIOUS
  <2>1. Len(q) > 1 /\ Front(q) \in Paths /\ t[Front(q)] = Dir
    BY ParentIs
  <2>2. Under(Front(q), p)
    BY <2>1, <1>1, AboveFront
  <2>3. CASE Front(q) = p
    BY <2>1, <2>3
  <2>4. CASE Front(q) # p
    BY <2>1, <2>2, <2>4, <1>1, DirsAbove
  <2> QED
    BY <2>3, <2>4
<1>4. c \in [Paths -> Nodes] /\ c[q] = t[p] /\ \A x \in Paths : x # q => c[x] = t[x]
  BY <1>1
<1> HIDE DEF c
<1>5. /\ u \in [Paths -> Nodes]
      /\ \A x \in Paths : Under(x, p) => u[x] = None
      /\ \A x \in Paths : ~Under(x, p) => u[x] = c[x]
  BY <1>1, <1>4, CutIs
<1>6. /\ v \in [Paths -> Nodes]
      /\ \A x \in Paths : Under(x, q) => v[x] = At(t, Moved(x, q, p))
      /\ \A x \in Paths : ~Under(x, q) => v[x] = MkdirAll(Cut(t, p), q)[x]
  BY <1>1, RelocatedIs
<1> HIDE DEF u, v
<1>7. \A x \in Paths : x # q => MkdirAll(Cut(t, p), q)[x] = Cut(t, p)[x]
  BY <1>1, <1>3, ParentStays
<1>8. ASSUME NEW x \in Paths PROVE u[x] = v[x]
  <2>1. CASE x = q
    <3>1. Moved(q, q, p) = p /\ Under(q, q)
      BY <1>1, MovedSelf, UnderSelf
    <3>2. v[q] = t[p]
      BY <3>1, <1>6 DEF At
    <3> QED
      BY <2>1, <3>2, <1>3, <1>4, <1>5
  <2>2. CASE Under(x, q) /\ x # q
    <3> DEFINE y == Moved(x, q, p)
    <3>1. x \in Seq(Words)
      BY PathIs
    <3>2. ~Under(x, p)
      BY <3>1, <2>2, <1>1, <1>2, <1>3, UnderNest
    <3>3. t[x] = None
      BY <2>2, <1>1, NothingBelow
    <3>4. Under(y, p) /\ y # p
      <4>1. Under(y, p) /\ Len(p) < Len(y) /\ y \in Seq(Words)
        BY <3>1, <2>2, <1>1, MovedIs, MovedBelow
      <4>2. Len(p) \in Nat
        BY <1>1, LenProperties
      <4> QED
        BY <4>1, <4>2
    <3> HIDE DEF y
    <3>5. At(t, y) = None
      BY <3>4, NothingBelow DEF At
    <3> QED
      BY <2>2, <3>2, <3>3, <3>5, <1>4, <1>5, <1>6 DEF y
  <2>3. CASE ~Under(x, q)
    <3>1. x # q
      BY <2>3, <1>1, UnderSelf
    <3>2. v[x] = Cut(t, p)[x]
      BY <2>3, <3>1, <1>6, <1>7
    <3>3. /\ Under(x, p) => Cut(t, p)[x] = None
          /\ ~Under(x, p) => Cut(t, p)[x] = t[x]
      BY <1>1, CutIs
    <3> QED
      BY <3>1, <3>2, <3>3, <1>4, <1>5
  <2> QED
    BY <2>1, <2>2, <2>3
<1>9. u = v
  BY <1>5, <1>6, <1>8
<1> QED
  BY <1>3, <1>9 DEF u, v, c

\* A copied directory, its source removed, is moved.
LEMMA DirExact ==
  ASSUME NEW t \in Layouts, NEW p \in Paths, t[p] # None, NEW q \in Paths, t[q] = None, ~Under(q, p)
  PROVE  Cut(Graft(MkdirAll(t, q), t, p, q), p) = Relocated(t, p, q)
<1> DEFINE m == MkdirAll(t, q)
           g == Graft(m, t, p, q)
           u == Cut(g, p)
           w == Cut(t, p)
           mw == MkdirAll(w, q)
           v == Relocated(t, p, q)
<1>1. t \in [Paths -> Nodes] /\ p \in Seq(Words) /\ q \in Seq(Words) /\ ~Under(p, q)
  BY LayoutIs, PathIs, NotBelow
<1>2. /\ m \in [Paths -> Nodes]
      /\ \A x \in Paths : ~(Under(q, x) /\ t[x] = None) => m[x] = t[x]
      /\ \A x \in Paths : Under(q, x) /\ t[x] = None => m[x] = Dir
  BY <1>1, MkdirAllIs
<1> HIDE DEF m
<1>3. /\ g \in [Paths -> Nodes]
      /\ \A x \in Paths : Under(x, q) => g[x] = At(t, Moved(x, q, p))
      /\ \A x \in Paths : ~Under(x, q) => g[x] = m[x]
  BY <1>1, <1>2, GraftIs
<1> HIDE DEF g
<1>4. /\ u \in [Paths -> Nodes]
      /\ \A x \in Paths : Under(x, p) => u[x] = None
      /\ \A x \in Paths : ~Under(x, p) => u[x] = g[x]
  BY <1>1, <1>3, CutIs
<1>5. /\ v \in [Paths -> Nodes]
      /\ \A x \in Paths : Under(x, q) => v[x] = At(t, Moved(x, q, p))
      /\ \A x \in Paths : ~Under(x, q) => v[x] = mw[x]
  BY <1>1, RelocatedIs
<1>6. /\ w \in [Paths -> Nodes]
      /\ \A x \in Paths : Under(x, p) => w[x] = None
      /\ \A x \in Paths : ~Under(x, p) => w[x] = t[x]
  BY <1>1, CutIs
<1> HIDE DEF w
<1>7. /\ mw \in [Paths -> Nodes]
      /\ \A x \in Paths : ~(Under(q, x) /\ w[x] = None) => mw[x] = w[x]
      /\ \A x \in Paths : Under(q, x) /\ w[x] = None => mw[x] = Dir
  BY <1>6, MkdirAllIs
<1> HIDE DEF u, v, mw
<1>8. ASSUME NEW x \in Paths PROVE u[x] = v[x]
  <2>0. x \in Seq(Words)
    BY PathIs
  <2>1. CASE Under(x, q)
    <3>1. ~Under(x, p)
      BY <2>0, <2>1, <1>1, UnderNest
    <3> QED
      BY <2>1, <3>1, <1>3, <1>4, <1>5
  <2>2. CASE ~Under(x, q) /\ Under(x, p)
    <3>1. ~Under(q, x)
      BY <2>0, <2>2, <1>1, UnderChain
    <3> QED
      BY <2>2, <3>1, <1>4, <1>5, <1>6, <1>7
  <2>3. CASE ~Under(x, q) /\ ~Under(x, p)
    BY <2>3, <1>2, <1>3, <1>4, <1>5, <1>6, <1>7
  <2> QED
    BY <2>1, <2>2, <2>3
<1>9. u = v
  BY <1>4, <1>5, <1>8
<1> QED
  BY <1>9 DEF u, v, g, m

\* The file a move copies is the entry itself: no link leads to it.
LEMMA FileIsItself ==
  ASSUME NEW t \in Layouts, NEW p \in Paths, Under(p, Root), t[p].k = "file"
  PROVE  ResolvePath(t, p) = p
<1>1. t[p] # None /\ Dir.k = "dir"
  BY DEF None, Dir
<1>2. ASSUME NEW x \in Paths, Under(p, x) PROVE t[x].k # "link" /\ (x # p => t[x].k # "file")
  BY <1>1, <1>2, DirsAbove
<1>3. Clean(t, p)
  BY <1>2 DEF Clean
<1> QED
  BY <1>3, LayoutIs, RealIs

\* A tree with a leaf put in it.
LeafAt(t, q, node) == [t EXCEPT ![q] = node]

\* What the copy of a file within a move comes to.
LEMMA MovedFile ==
  ASSUME NEW t \in Layouts, NEW p \in Paths, Under(p, Root), t[p].k = "file", NEW q \in Paths, t[q] = None,
         ResolvePath(t, q) = q, NEW c \in CopyOneFile(t, p, q)
  PROVE  \/ ~c.ok /\ c.t = t
         \/ ~c.ok /\ c.t = LeafAt(t, q, File(0))
         \/ c.ok /\ HasParent(t, q) /\ c.t = LeafAt(t, q, t[p])
<1>1. t \in [Paths -> Nodes] /\ ResolvePath(t, p) = p
  BY LayoutIs, FileIsItself
<1>2. q # p
  BY DEF None
<1>3. CASE FileCopied(t, p, q, c)
  BY <1>1, <1>2, <1>3 DEF FileCopied, LeafAt
<1> QED
  BY <1>1, <1>3, CopyOneFileIs

\* The copy of a move that succeeds, and the removal of its source, move it.
LEMMA FallbackExact ==
  ASSUME NEW t \in Layouts, NEW p \in Seq(Words), Under(p, Root), NEW path, NEW q \in Paths, t[q] = None,
         ResolvePath(t, q) = q, NEW c \in Fallback(t, p, path, q), c.ok
  PROVE  At(t, p) # None /\ ~Under(q, p) /\ Cut(c.t, p) = Relocated(t, p, q)
<1>1. t \in [Paths -> Nodes]
  BY LayoutIs
<1>2. p \in Paths => At(t, p) = t[p]
  BY DEF At
<1>3. None.k = "none" /\ Dir.k = "dir"
  BY DEF None, Dir
<1>4. At(t, p) # None => p \in Paths
  BY DEF At
<1>5. CASE At(t, p).k = "link" /\ HasParent(t, q) /\ c.t = [t EXCEPT ![q] = t[p]]
  <2>1. p \in Paths /\ t[p] # None /\ t[p] # Dir
    BY <1>2, <1>3, <1>4, <1>5
  <2> QED
    BY <2>1, <1>2, <1>5, LeafExact
<1>6. CASE At(t, p).k = "dir" /\ c \in CopyDir(t, p, path, q)
  <2>1. p \in Paths /\ t[p] # None
    BY <1>2, <1>3, <1>4, <1>6
  <2>2. ~Under(q, p) /\ c.t = Graft(MkdirAll(t, q), t, p, q)
    BY <1>1, <1>6, CopyDirIs
  <2> QED
    BY <2>1, <2>2, <1>2, DirExact
<1>7. CASE At(t, p).k = "file" /\ c \in CopyOneFile(t, p, q)
  <2>1. p \in Paths /\ t[p] # None /\ t[p] # Dir /\ t[p].k = "file"
    BY <1>2, <1>3, <1>4, <1>7
  <2>2. HasParent(t, q) /\ c.t = LeafAt(t, q, t[p])
    BY <2>1, <1>7, MovedFile
  <2> QED
    BY <2>1, <2>2, <1>2, LeafExact DEF LeafAt
<1> QED
  BY <1>1, <1>5, <1>6, <1>7, FallbackIs

\* A tree copied in part leaves what is there and not at the destination.
LEMMA PartialCopiesKeep ==
  ASSUME NEW t \in [Paths -> Nodes], NEW p, NEW q, NEW u \in PartialCopies(t, p, q),
         NEW x \in Paths, ~Under(x, q), t[x] # None
  PROVE  u[x] = t[x]
<1> DEFINE made == MkdirAll(t, q)
           whole == Graft(made, made, p, q)
<1>1. PICK drop : u = [y \in Paths |-> IF y \in drop THEN t[y] ELSE whole[y]]
  BY DEF PartialCopies
<1>2. made \in [Paths -> Nodes] /\ made[x] = t[x]
  BY MkdirAllIs
<1> HIDE DEF made
<1>3. whole[x] = made[x]
  BY <1>2, GraftIs
<1> HIDE DEF whole
<1> QED
  BY <1>1, <1>2, <1>3

\* The copy of a move, however far it got, leaves what is there and not at the
\* destination; the source among it.
LEMMA FallbackKeeps ==
  ASSUME NEW t \in Layouts, NEW p \in Seq(Words), Under(p, Root), NEW path, NEW q \in Paths, t[q] = None,
         ResolvePath(t, q) = q, NEW c \in Fallback(t, p, path, q), NEW x \in Paths, ~Under(x, q), t[x] # None
  PROVE  c.t[x] = t[x]
<1>1. t \in [Paths -> Nodes] /\ q \in Seq(Words)
  BY LayoutIs, PathIs
<1>2. x # q
  BY <1>1, UnderSelf
<1>3. CASE c.t = t
  BY <1>3
<1>4. CASE c.t = [t EXCEPT ![q] = t[p]] \/ c.t = [t EXCEPT ![q] = File(0)]
  BY <1>1, <1>2, <1>4
<1>5. CASE c \in CopyDir(t, p, path, q)
  <2>1. CASE c.t \in PartialCopies(t, p, q)
    BY <2>1, <1>1, PartialCopiesKeep
  <2>2. CASE c.t = Graft(MkdirAll(t, q), t, p, q)
    <3> DEFINE made == MkdirAll(t, q)
    <3>1. made \in [Paths -> Nodes] /\ made[x] = t[x]
      BY <1>1, MkdirAllIs
    <3> HIDE DEF made
    <3>2. Graft(made, t, p, q)[x] = made[x]
      BY <3>1, <1>1, GraftIs
    <3> QED
      BY <2>2, <3>1, <3>2 DEF made
  <2> QED
    BY <2>1, <2>2, <1>1, <1>3, <1>5, CopyDirIs
<1>6. CASE At(t, p).k = "file" /\ c \in CopyOneFile(t, p, q)
  <2>1. p \in Paths /\ t[p].k = "file"
    <3>1. None.k # "file"
      BY DEF None
    <3> QED
      BY <3>1, <1>6 DEF At
  <2>2. c.t = t \/ c.t = LeafAt(t, q, t[p]) \/ c.t = LeafAt(t, q, File(0))
    BY <2>1, <1>6, MovedFile
  <2> QED
    BY <2>2, <1>3, <1>4 DEF LeafAt
<1> QED
  BY <1>1, <1>3, <1>4, <1>5, <1>6, FallbackIs

\* The copy of a move that succeeds has put all below the source at the
\* destination before any of it is removed.
LEMMA FallbackPuts ==
  ASSUME NEW t \in Layouts, NEW p \in Seq(Words), Under(p, Root), NEW path, NEW q \in Paths, Under(q, Root), t[q] = None,
         ResolvePath(t, q) = q, FitsAt(t, p, q), NEW c \in Fallback(t, p, path, q), c.ok,
         NEW x \in Paths, Under(x, p), x # p, t[x] # None, ~Under(x, q)
  PROVE  Moved(x, p, q) \in Paths /\ c.t[Moved(x, p, q)] = t[x]
<1>1. t \in [Paths -> Nodes] /\ q \in Seq(Words) /\ x \in Seq(Words) /\ Len(p) >= 1 /\ Under(q, q)
  BY LayoutIs, PathIs, RootNamed, UnderSelf
<1>2. p \in Paths /\ t[p] = Dir
  <2>1. p \in Paths
    BY <1>1, AbovePath
  <2> QED
    BY <2>1, DirsAbove
<1>3. c \in CopyDir(t, p, path, q)
  <2>1. At(t, p).k = "dir"
    BY <1>2 DEF At, Dir
  <2> QED
    BY <2>1, <1>1, FallbackIs
<1>4. c.t = Graft(MkdirAll(t, q), t, p, q)
  BY <1>1, <1>3, CopyDirIs
<1> DEFINE y == Moved(x, p, q)
<1>5. y \in Paths /\ Under(y, q) /\ Moved(y, q, p) = x
  <2>1. Len(x) - Len(p) + Len(q) <= Depth
    BY DEF FitsAt, Subtree
  <2>2. y \in Paths
    BY <2>1, <1>1, MovedPath
  <2>3. Under(y, q) /\ Moved(y, q, p) = x
    BY <1>1, MovedIs, MovedBack
  <2> QED
    BY <2>2, <2>3
<1> HIDE DEF y
<1> DEFINE made == MkdirAll(t, q)
<1>6. made \in [Paths -> Nodes]
  BY <1>1, MkdirAllIs
<1> HIDE DEF made
<1>7. Graft(made, t, p, q)[y] = At(t, Moved(y, q, p))
  BY <1>1, <1>5, <1>6, GraftIs
<1>8. c.t[y] = t[x]
  BY <1>4, <1>5, <1>7 DEF made, At
<1> QED
  BY <1>5, <1>8 DEF y

\* What a move does once its paths are accepted.
LEMMA MoveIs ==
  ASSUME NEW src, NEW dst, NEW b, Move(src, dst, b),
         NEW t1, t1 = Vacated(tree, dst), NEW p, p = Entry(t1, src), NEW q, q = Entry(t1, dst)
  PROVE  /\ last'.op = "move" /\ last'.src = src /\ last'.dst = dst
         /\ \/ ~last'.ok /\ tree' = tree
            \/ /\ ValidateLinkPath(tree, src) /\ ValidatePath(tree, dst)
               /\ \/ ~last'.ok /\ tree' \in PartialCuts(tree, Entry(tree, dst))
                  \/ /\ q \in Paths /\ RenameWorks(t1, p, q)
                     /\ last'.ok /\ tree' = Graft(Cut(t1, p), t1, p, q)
                  \/ /\ q \in Paths /\ FitsAt(t1, p, q)
                     /\ \E c \in Fallback(t1, p, dst, q) : \E d \in Cleanup(c, p) : (last'.ok <=> d.ok) /\ tree' = d.t
<1> DEFINE refused == \/ ~ValidateLinkPath(tree, src) \/ ~ValidatePath(tree, dst)
                      \/ ~Exists(tree, src) \/ (Exists(tree, dst) /\ ~b)
<1>1. ASSUME NEW ok, NEW n, NEW u, Answer("move", src, dst, ok, n, u)
      PROVE  last'.op = "move" /\ last'.src = src /\ last'.dst = dst /\ last'.ok = ok /\ tree' = u
  BY <1>1 DEF Answer
<1>2. CASE refused
  <2>1. Answer("move", src, dst, FALSE, 0, tree)
    BY <1>2 DEF Move
  <2> QED
    BY <2>1, <1>1
<1>3. CASE ~refused
  <2>1. ValidateLinkPath(tree, src) /\ ValidatePath(tree, dst)
    BY <1>3
  <2>2. \/ \E t \in PartialCuts(tree, Entry(tree, dst)) : Answer("move", src, dst, FALSE, 0, t)
        \/ q \in Paths /\ RenameWorks(t1, p, q) /\ Answer("move", src, dst, TRUE, 0, Graft(Cut(t1, p), t1, p, q))
        \/ /\ q \in Paths /\ FitsAt(t1, p, q)
           /\ \E c \in Fallback(t1, p, dst, q) : \E d \in Cleanup(c, p) : Answer("move", src, dst, d.ok, 0, d.t)
    BY <1>3 DEF Move
  <2>3. CASE \E t \in PartialCuts(tree, Entry(tree, dst)) : Answer("move", src, dst, FALSE, 0, t)
    <3>1. PICK t \in PartialCuts(tree, Entry(tree, dst)) : Answer("move", src, dst, FALSE, 0, t)
      BY <2>3
    <3>2. last'.op = "move" /\ last'.src = src /\ last'.dst = dst /\ last'.ok = FALSE /\ tree' = t
      BY <3>1, <1>1
    <3> QED
      BY <3>2, <2>1
  <2>4. CASE q \in Paths /\ RenameWorks(t1, p, q) /\ Answer("move", src, dst, TRUE, 0, Graft(Cut(t1, p), t1, p, q))
    BY <2>1, <2>4, <1>1
  <2>5. CASE /\ q \in Paths /\ FitsAt(t1, p, q)
             /\ \E c \in Fallback(t1, p, dst, q) : \E d \in Cleanup(c, p) : Answer("move", src, dst, d.ok, 0, d.t)
    <3>1. PICK c \in Fallback(t1, p, dst, q) : \E d \in Cleanup(c, p) : Answer("move", src, dst, d.ok, 0, d.t)
      BY <2>5
    <3>2. PICK d \in Cleanup(c, p) : Answer("move", src, dst, d.ok, 0, d.t)
      BY <3>1
    <3>3. last'.op = "move" /\ last'.src = src /\ last'.dst = dst /\ last'.ok = d.ok /\ tree' = d.t
      BY <3>2, <1>1
    <3> QED
      BY <3>3, <2>1, <2>5
  <2> QED
    BY <2>2, <2>3, <2>4, <2>5
<1> QED
  BY <1>2, <1>3

\* A move that reports success is exact.
LEMMA MoveExact ==
  ASSUME tree \in Layouts, LinksInside(tree), NEW src \in Paths, NEW dst \in Paths, NEW b \in BOOLEAN, Move(src, dst, b),
         last'.ok, NEW t1, t1 = Vacated(tree, dst), NEW q, q = Entry(t1, dst), NEW p, p = Entry(tree, src)
  PROVE  tree' = Graft(MkdirAll(Cut(t1, p), q), tree, p, q)
<1> DEFINE p1 == Entry(t1, src)
<1>1. tree \in [Paths -> Nodes]
  BY LayoutIs
<1>2. /\ ValidateLinkPath(tree, src) /\ ValidatePath(tree, dst) /\ q \in Paths
      /\ \/ RenameWorks(t1, p1, q) /\ tree' = Graft(Cut(t1, p1), t1, p1, q)
         \/ \E c \in Fallback(t1, p1, dst, q) : \E d \in Cleanup(c, p1) : d.ok /\ tree' = d.t
  BY MoveIs
<1>3. t1 \in Layouts /\ t1 \in [Paths -> Nodes]
  BY VacatedLayout, LayoutIs
<1>4. t1[q] = None /\ ResolvePath(t1, q) = q /\ q \in Seq(Words)
  <2>1. At(t1, q) = None /\ ResolvePath(t1, q) = q
    BY <1>1, <1>2, DestinationIs
  <2> QED
    BY <2>1, <1>2, PathIs DEF At
<1>5. p1 \in Seq(Words) /\ Under(p1, Root)
  BY <1>1, <1>2, SourceIs
<1> HIDE DEF p1
<1>6. At(t1, p1) # None /\ ~Under(q, p1) /\ tree' = Relocated(t1, p1, q)
  <2>1. CASE RenameWorks(t1, p1, q) /\ tree' = Graft(Cut(t1, p1), t1, p1, q)
    <3>1. At(t1, p1) # None /\ ~Under(q, p1)
      BY <2>1 DEF RenameWorks
    <3> QED
      BY <3>1, <2>1, <1>2, <1>3, <1>5, RenameExact
  <2>2. CASE \E c \in Fallback(t1, p1, dst, q) : \E d \in Cleanup(c, p1) : d.ok /\ tree' = d.t
    <3>1. PICK c \in Fallback(t1, p1, dst, q) : \E d \in Cleanup(c, p1) : d.ok /\ tree' = d.t
      BY <2>2
    <3>2. c.ok /\ tree' = Cut(c.t, p1)
      BY <3>1, CleanupIs
    <3>3. At(t1, p1) # None /\ ~Under(q, p1) /\ Cut(c.t, p1) = Relocated(t1, p1, q)
      BY <3>2, <1>2, <1>3, <1>4, <1>5, FallbackExact
    <3> QED
      BY <3>2, <3>3
  <2> QED
    BY <2>1, <2>2, <1>2
<1>7. p1 = p /\ \A y \in Paths : Under(y, p1) => t1[y] = tree[y]
  BY <1>1, <1>2, <1>6, SourceKept DEF p1
<1>8. Graft(MkdirAll(Cut(t1, p), q), t1, p, q) = Graft(MkdirAll(Cut(t1, p), q), tree, p, q)
  <2> DEFINE m == MkdirAll(Cut(t1, p), q)
  <2>1. m \in [Paths -> Nodes]
    BY <1>3, <1>5, <1>7, CutIs, MkdirAllIs
  <2> HIDE DEF m
  <2>2. Graft(m, t1, p, q) = Graft(m, tree, p, q)
    BY <2>1, <1>1, <1>3, <1>4, <1>5, <1>7, GraftSame
  <2> QED
    BY <2>2 DEF m
<1> QED
  BY <1>6, <1>7, <1>8 DEF Relocated

\* A move that fails loses nothing of a source that is apart from the destination.
LEMMA FailedMove ==
  ASSUME tree \in Layouts, LinksInside(tree), NEW src \in Paths, NEW dst \in Paths, NEW b \in BOOLEAN, Move(src, dst, b),
         ~last'.ok, NEW t1, t1 = Vacated(tree, dst), NEW q, q = Entry(t1, dst), NEW p, p = Entry(tree, src),
         NEW q0, q0 = Entry(tree, dst), ~Under(p, q0), ~Under(q0, p), NEW x \in Subtree(tree, p)
  PROVE  tree'[x] = tree[x] \/ At(tree', Moved(x, p, q)) = tree[x]
<1> DEFINE p1 == Entry(t1, src)
<1>1. tree \in [Paths -> Nodes] /\ t1 \in Layouts /\ t1 \in [Paths -> Nodes]
  BY VacatedLayout, LayoutIs
<1>2. x \in Paths /\ x \in Seq(Words) /\ Under(x, p) /\ tree[x] # None
  BY PathIs DEF Subtree
<1>3. p \in Seq(Words) /\ q0 \in Seq(Words)
  BY <1>1, EntryIs
<1>4. ~Under(x, q0)
  BY <1>2, <1>3, UnderNest
<1>5. t1[x] = tree[x]
  <2>1. Cut(tree, q0)[x] = tree[x]
    BY <1>1, <1>2, <1>3, <1>4, CutIs
  <2> QED
    BY <2>1 DEF Vacated
<1>6. CASE tree' = tree
  BY <1>6
<1>7. CASE tree' \in PartialCuts(tree, q0)
  <2>1. PICK gone \in SUBSET (Subtree(tree, q0) \ {q0}) : tree' = [y \in Paths |-> IF y \in gone THEN None ELSE tree[y]]
    BY <1>7 DEF PartialCuts
  <2>2. x \notin gone
    BY <1>4 DEF Subtree
  <2> QED
    BY <2>1, <2>2, <1>2
<1>8. CASE /\ ValidateLinkPath(tree, src) /\ ValidatePath(tree, dst) /\ q \in Paths /\ FitsAt(t1, p1, q)
           /\ \E c \in Fallback(t1, p1, dst, q) : \E d \in Cleanup(c, p1) : ~d.ok /\ tree' = d.t
  <2>1. t1[q] = None /\ ResolvePath(t1, q) = q /\ q \in Seq(Words) /\ Under(q, q0) /\ Under(q, Root)
    <3>1. At(t1, q) = None /\ ResolvePath(t1, q) = q /\ Under(q, q0) /\ Under(q, Root)
      BY <1>1, <1>8, DestinationIs
    <3> QED
      BY <3>1, <1>8, PathIs DEF At
  <2>2. p1 \in Seq(Words) /\ Under(p1, Root) /\ (p1 = p \/ At(t1, p1) = None)
    BY <1>1, <1>8, SourceIs
  <2>3. ~Under(x, q)
    BY <2>1, <1>2, <1>3, <1>4, UnderChain
  <2>4. PICK c \in Fallback(t1, p1, dst, q) : \E d \in Cleanup(c, p1) : ~d.ok /\ tree' = d.t
    BY <1>8
  <2> HIDE DEF p1
  <2>5. c.t[x] = tree[x]
    BY <2>1, <2>2, <2>3, <1>1, <1>2, <1>5, <1>8, FallbackKeeps
  <2>6. CASE tree' = c.t
    BY <2>5, <2>6
  <2>7. CASE c.ok /\ tree' \in PartialCuts(c.t, p1)
    <3>1. At(t1, p1) # None
      BY <2>1, <2>2, <2>7, <1>1, <1>8, FallbackExact
    <3>2. p1 = p
      BY <3>1, <2>2
    <3>3. PICK gone \in SUBSET (Subtree(c.t, p) \ {p}) : tree' = [y \in Paths |-> IF y \in gone THEN None ELSE c.t[y]]
      BY <3>2, <2>7 DEF PartialCuts
    <3>4. CASE x \notin gone
      BY <3>3, <3>4, <2>5, <1>2
    <3>5. CASE x \in gone
      <4> DEFINE y == Moved(x, p, q)
      <4>1. y \in Paths /\ c.t[y] = t1[x]
        BY <3>2, <3>5, <2>1, <2>2, <2>3, <2>7, <1>1, <1>2, <1>5, <1>8, FallbackPuts
      <4>2. ~Under(y, p)
        <5>1. y \in Seq(Words) /\ Under(y, q)
          BY <2>1, <1>2, <1>3, MovedIs
        <5>2. Under(y, q0)
          BY <5>1, <2>1, <1>3, UnderChain
        <5> QED
          BY <5>1, <5>2, <1>3, UnderNest
      <4>3. y \notin gone
        BY <4>2 DEF Subtree
      <4> HIDE DEF y
      <4>4. At(tree', y) = t1[x]
        BY <4>1, <4>3, <3>3 DEF At
      <4> QED
        BY <4>4, <1>5 DEF y
    <3> QED
      BY <3>4, <3>5
  <2> QED
    BY <2>4, <2>6, <2>7, CleanupIs
<1> QED
  BY <1>6, <1>7, <1>8, MoveIs

-----------------------------------------------------------------------------
(* Copies and deletions are exact.                                         *)

\* A copy that reports success is exact (CopyFile).
LEMMA CopyExact ==
  ASSUME tree \in [Paths -> Nodes], NEW src \in Paths, NEW dst \in Paths, NEW b \in BOOLEAN, Copy(src, dst, b),
         last'.ok, NEW p, p = Entry(tree, src), NEW q, q = Entry(tree, dst),
         NEW from, from = ResolvePath(tree, p), NEW to, to = ResolvePath(tree, q)
  PROVE  /\ tree[p] = Dir => tree' = Graft(MkdirAll(tree, q), tree, p, q)
         /\ tree[p] # Dir /\ from # to => tree' = LeafAt(tree, to, tree[from])
<1> DEFINE refused == \/ ~ValidatePath(tree, src) \/ ~ValidatePath(tree, dst)
                      \/ ~Exists(tree, src) \/ (Exists(tree, dst) /\ (~b \/ At(tree, p) = Dir))
           copies == IF At(tree, p) = Dir THEN CopyDir(tree, p, dst, q) ELSE CopyOneFile(tree, p, q)
<1>1. ~refused
  <2> SUFFICES ASSUME refused PROVE FALSE
    OBVIOUS
  <2>1. Answer("copy", src, dst, FALSE, 0, tree)
    BY DEF Copy
  <2> QED
    BY <2>1 DEF Answer
<1>2. p \in Paths /\ At(tree, p) = tree[p]
  BY <1>1 DEF Exists, At
<1>3. PICK c \in copies : Answer("copy", src, dst, c.ok, 0, c.t)
  BY <1>1 DEF Copy
<1>4. c.ok /\ tree' = c.t
  BY <1>3 DEF Answer
<1>5. CASE tree[p] = Dir
  <2>1. c \in CopyDir(tree, p, dst, q)
    BY <1>2, <1>3, <1>5
  <2> QED
    BY <2>1, <1>4, <1>5, CopyDirIs
<1>6. CASE tree[p] # Dir
  <2>1. c \in CopyOneFile(tree, p, q)
    BY <1>2, <1>3, <1>6
  <2>2. FileCopied(tree, p, q, c)
    BY <2>1, <1>4, CopyOneFileIs
  <2>3. ASSUME from # to PROVE c.t = LeafAt(tree, to, tree[from])
    BY <2>2, <2>3, <1>4 DEF FileCopied, LeafAt
  <2> QED
    BY <2>3, <1>4, <1>6
<1> QED
  BY <1>5, <1>6

\* The deletion of p answers what it counted, and removes that or, in a dry run,
\* nothing (DeleteFile).
LEMMA DeleteIs ==
  ASSUME tree \in [Paths -> Nodes], NEW path \in Paths, NEW r \in BOOLEAN, NEW c \in BOOLEAN, NEW d \in BOOLEAN,
         Delete(path, r, c, d), last'.ok, NEW p, p = Entry(tree, path)
  PROVE  /\ last'.src = path /\ ValidateLinkPath(tree, path) /\ path # Root /\ p \in Paths /\ tree[p] # None
         /\ tree[p] = Dir => last'.entries = Cardinality(Subtree(tree, p) \ {p})
         /\ tree[p] # Dir => last'.entries = 1
         /\ (last'.op = "dry_run" /\ tree' = tree) \/ (last'.op = "delete" /\ tree' = Cut(tree, p))
<1> DEFINE isDir == At(tree, p) = Dir
           entries == IF isDir THEN DeleteEntries(tree, p) ELSE 1
           refused == \/ ~ValidateLinkPath(tree, path) \/ path = Root \/ At(tree, p) = None
                      \/ (isDir /\ entries > 0 /\ ~r) \/ (~d /\ ~c)
<1>1. ~refused
  <2> SUFFICES ASSUME refused PROVE FALSE
    OBVIOUS
  <2>1. Answer("delete", path, path, FALSE, 0, tree)
    BY DEF Delete, DeleteTarget
  <2> QED
    BY <2>1 DEF Answer
<1>2. \/ Answer("dry_run", path, path, TRUE, entries, tree)
      \/ Answer("delete", path, path, TRUE, entries, Cut(tree, p))
      \/ \E t \in PartialCuts(tree, p) : Answer("delete", path, path, FALSE, 0, t)
  BY <1>1 DEF Delete, DeleteTarget
<1>3. \A t : ~Answer("delete", path, path, FALSE, 0, t)
  BY DEF Answer
<1>4. /\ last'.src = path /\ last'.entries = entries
      /\ (last'.op = "dry_run" /\ tree' = tree) \/ (last'.op = "delete" /\ tree' = Cut(tree, p))
  <2> HIDE DEF entries
  <2> QED
    BY <1>2, <1>3 DEF Answer
<1>5. p \in Paths /\ At(tree, p) = tree[p] /\ tree[p] # None
  BY <1>1 DEF At
<1>6. /\ tree[p] = Dir => entries = Cardinality(Subtree(tree, p) \ {p})
      /\ tree[p] # Dir => entries = 1
  BY <1>5 DEF DeleteEntries
<1>7. ValidateLinkPath(tree, path) /\ path # Root
  BY <1>1
<1> HIDE DEF entries
<1> QED
  BY <1>4, <1>5, <1>6, <1>7

\* The entries that change when p is removed are those it holds.
LEMMA CutChanges ==
  ASSUME NEW t \in [Paths -> Nodes], NEW p \in Seq(Words)
  PROVE  {x \in Paths : Cut(t, p)[x] # t[x]} = Subtree(t, p)
<1>1. ASSUME NEW x \in Paths PROVE Cut(t, p)[x] # t[x] <=> Under(x, p) /\ t[x] # None
  BY CutIs
<1> QED
  BY <1>1 DEF Subtree

\* The set of places and names of a path.
Spelled(p) == {<<i, p[i]>> : i \in 1..Len(p)}

\* Finitely many names make finitely many paths.
LEMMA FinitePaths ==
  ASSUME IsFiniteSet(Names)
  PROVE  IsFiniteSet(Paths)
<1> DEFINE n == Depth + 2
           T == SUBSET ((1..n) \X Words)
           f == [p \in Paths |-> Spelled(p)]
<1>1. n \in Nat /\ Depth \in Nat
  BY FileTreeAssumption
<1>2. IsFiniteSet(Words)
  <2>1. IsFiniteSet({"root", "outside"})
    <3>1. {"root", "outside"} = {"root"} \cup {"outside"}
      OBVIOUS
    <3>2. IsFiniteSet({"root"}) /\ IsFiniteSet({"outside"})
      BY FS_Singleton
    <3>3. IsFiniteSet({"root"} \cup {"outside"})
      BY <3>2, FS_Union
    <3> QED
      BY <3>1, <3>3, Zenon
  <2>2. IsFiniteSet(Names \cup {"root", "outside"})
    BY <2>1, FS_Union
  <2> QED
    BY <2>2, Zenon DEF Words
<1>3. IsFiniteSet(1..n)
  BY <1>1, FS_Interval
<1>4. IsFiniteSet(T)
  <2> HIDE DEF n
  <2> QED
    BY <1>2, <1>3, FS_Product, FS_SUBSET
<1>5. ASSUME NEW p \in Paths PROVE Spelled(p) \in T /\ Len(p) \in Nat /\ p \in Seq(Words)
  <2>1. p \in Seq(Words) /\ Len(p) \in Nat /\ Len(p) <= n
    BY <1>1, PathIs
  <2>2. \A i \in 1..Len(p) : p[i] \in Words /\ i \in 1..n
    BY <2>1, <1>1, ElementOfSeq
  <2> HIDE DEF n
  <2> QED
    BY <2>1, <2>2 DEF Spelled
<1>6. ASSUME NEW p \in Paths, NEW q \in Paths, Spelled(p) = Spelled(q) PROVE p = q
  <2>1. \A i \in 1..Len(p) : \E j \in 1..Len(q) : <<i, p[i]>> = <<j, q[j]>>
    BY <1>6, Zenon DEF Spelled
  <2>2. \A i \in 1..Len(q) : \E j \in 1..Len(p) : <<i, q[i]>> = <<j, p[j]>>
    BY <1>6, Zenon DEF Spelled
  <2>3. \A i \in 1..Len(p) : i \in 1..Len(q) /\ p[i] = q[i]
    BY <2>1
  <2>4. \A i \in 1..Len(q) : i \in 1..Len(p)
    BY <2>2
  <2>5. Len(p) = Len(q)
    <3> DEFINE a == Len(p)
               b == Len(q)
    <3>1. a \in Nat /\ b \in Nat /\ (\A i \in 1..a : i \in 1..b) /\ (\A i \in 1..b : i \in 1..a)
      BY <2>3, <2>4, <1>5
    <3> HIDE DEF a, b
    <3>2. a <= b /\ b <= a
      <4>1. a # 0 => a \in 1..a
        BY <3>1
      <4>2. b # 0 => b \in 1..b
        BY <3>1
      <4> QED
        BY <4>1, <4>2, <3>1
    <3>3. a = b
      BY <3>1, <3>2
    <3> QED
      BY <3>3 DEF a, b
  <2> QED
    BY <2>3, <2>5, <1>5, SeqEqual
<1> HIDE DEF T
<1>7. f \in [Paths -> T] /\ \A p, q \in Paths : f[p] = f[q] => p = q
  BY <1>5, <1>6
<1> HIDE DEF f
<1>8. f \in Injection(Paths, T)
  BY <1>7 DEF Injection, IsInjective
<1> QED
  BY <1>4, <1>8, FS_Injection

\* A deletion removes exactly what it counted.
LEMMA DeleteExact ==
  ASSUME IsFiniteSet(Paths), tree \in Layouts, NEW path \in Paths, NEW r \in BOOLEAN, NEW c \in BOOLEAN, NEW d \in BOOLEAN,
         Delete(path, r, c, d), last'.ok, NEW p, p = Entry(tree, path),
         NEW gone, gone = {x \in Paths : tree'[x] # tree[x]}
  PROVE  /\ gone \subseteq Subtree(tree, p) \ {Root}
         /\ last'.op = "dry_run" => gone = {}
         /\ last'.op # "dry_run" /\ tree[p] = Dir => Cardinality(gone) = last'.entries + 1
         /\ last'.op # "dry_run" /\ tree[p] # Dir => Cardinality(gone) = last'.entries
<1>1. tree \in [Paths -> Nodes] /\ p \in Seq(Words)
  BY LayoutIs, EntryIs
<1>2. /\ ValidateLinkPath(tree, path) /\ path # Root /\ p \in Paths /\ tree[p] # None
      /\ tree[p] = Dir => last'.entries = Cardinality(Subtree(tree, p) \ {p})
      /\ tree[p] # Dir => last'.entries = 1
      /\ (last'.op = "dry_run" /\ tree' = tree) \/ (last'.op = "delete" /\ tree' = Cut(tree, p))
  BY <1>1, DeleteIs
<1>3. CASE last'.op = "dry_run" /\ tree' = tree
  BY <1>3
<1>4. CASE last'.op = "delete" /\ tree' = Cut(tree, p)
  <2>1. gone = Subtree(tree, p)
    BY <1>1, <1>4, CutChanges
  <2>2. Root \notin Subtree(tree, p)
    <3>1. Len(path) > 1
      <4>1. Under(path, Root) /\ path \in Seq(Words)
        BY <1>2, PathIs DEF ValidateLinkPath
      <4>2. ~(Len(path) <= Len(Root))
        BY <4>1, <1>2, RootIs, UnderBoth
      <4>3. Len(path) # 1
        <5> DEFINE n == Len(path)
        <5>1. ~(n <= 1)
          BY <4>2, RootIs
        <5> HIDE DEF n
        <5>2. n # 1
          BY <5>1
        <5> QED
          BY <5>2 DEF n
      <4> QED
        BY <4>3, LongPath
    <3>2. p # Err
      BY <1>1, <1>2, LinkPathInside
    <3>3. Len(p) > 1
      BY <3>1, <3>2, <1>1, EntryIs
    <3>4. ~(Len(p) <= Len(Root))
      BY <3>3, <1>1, RootIs, LenProperties
    <3>5. ~Under(Root, p)
      BY <3>4, <1>1, RootIs, UnderIs
    <3> QED
      BY <3>5 DEF Subtree
  <2>3. p \in Subtree(tree, p) /\ IsFiniteSet(Subtree(tree, p))
    <3>1. p \in Subtree(tree, p)
      BY <1>1, <1>2, UnderSelf DEF Subtree
    <3>2. Subtree(tree, p) \in SUBSET Paths
      BY DEF Subtree
    <3> QED
      BY <3>1, <3>2, FS_Subset
  <2>4. CASE tree[p] = Dir
    <3> DEFINE S == Subtree(tree, p)
    <3>1. IsFiniteSet(S) /\ p \in S
      BY <2>3
    <3> HIDE DEF S
    <3>2. Cardinality(S \ {p}) = Cardinality(S) - 1 /\ Cardinality(S) \in Nat
      BY <3>1, FS_RemoveElement, FS_CardinalityType
    <3>3. Cardinality(S) = Cardinality(S \ {p}) + 1
      BY <3>2
    <3> QED
      BY <3>3, <2>1, <2>2, <2>4, <1>2, <1>4 DEF S
  <2>5. CASE tree[p] # Dir
    <3>1. Subtree(tree, p) = {p}
      BY <2>3, <2>5, <1>2, NothingBelow DEF Subtree
    <3>2. Cardinality({p}) = 1
      BY FS_Singleton
    <3> QED
      BY <3>1, <3>2, <2>1, <2>2, <2>5, <1>2, <1>4
  <2> QED
    BY <2>4, <2>5
<1> QED
  BY <1>2, <1>3, <1>4

-----------------------------------------------------------------------------
(* Every step.                                                             *)

\* A move answers as a move, and is one more call.
LEMMA MoveAnswers ==
  ASSUME NEW src, NEW dst, NEW b, Move(src, dst, b)
  PROVE  ops' = ops + 1 /\ last'.op = "move" /\ last'.src = src /\ last'.dst = dst
<1>1. ops' = ops + 1
  BY DEF Move, Answer
<1> QED
  BY <1>1, MoveIs

\* The same of a copy.
LEMMA CopyAnswers ==
  ASSUME NEW src, NEW dst, NEW b, Copy(src, dst, b)
  PROVE  ops' = ops + 1 /\ last'.op = "copy" /\ last'.src = src /\ last'.dst = dst
BY DEF Copy, Answer

\* The same of a deletion.
LEMMA DeleteAnswers ==
  ASSUME NEW path, NEW r, NEW c, NEW d, Delete(path, r, c, d)
  PROVE  ops' = ops + 1 /\ last'.op \in {"delete", "dry_run"} /\ last'.src = path
<1>1. \E ok, n, t : Answer("delete", path, path, ok, n, t) \/ Answer("dry_run", path, path, ok, n, t)
  BY Zenon DEF Delete
<1> QED
  BY <1>1 DEF Answer

\* The same of a directory made.
LEMMA MakeDirAnswers ==
  ASSUME NEW path, NEW b, MakeDir(path, b)
  PROVE  ops' = ops + 1 /\ last'.op = "mkdir"
BY DEF MakeDir, Answer

\* The steps, one by one.
LEMMA Steps ==
  ASSUME [TreeNext]_treeVars
  PROVE  \/ UNCHANGED treeVars
         \/ Answered /\ last'.op = "none"
         \/ ops < MaxOps /\ \E src, dst \in Paths, b \in BOOLEAN : Move(src, dst, b)
         \/ ops < MaxOps /\ \E src, dst \in Paths, b \in BOOLEAN : Copy(src, dst, b)
         \/ ops < MaxOps /\ \E p \in Paths, b \in BOOLEAN : MakeDir(p, b)
         \/ ops < MaxOps /\ \E p \in Paths, r, c, d \in BOOLEAN : Delete(p, r, c, d)
BY DEF TreeNext, Call, Answered, NoCall

\* The type invariant, links in the root only, is inductive: each call leaves a
\* tree, however far it got (MoveFile, CopyFile, DeleteFile, MakeDir).
LEMMA TypeKept ==
  ASSUME TreeTypeOK, [TreeNext]_treeVars
  PROVE  TreeTypeOK'
<1>1. tree \in Layouts /\ LinksInside(tree) /\ ops \in 0..MaxOps /\ tree \in [Paths -> Nodes] /\ MaxOps \in Nat
  BY LayoutIs, FileTreeAssumption DEF TreeTypeOK
<1>2. LinksInside(tree')
  <2>1. tree' \in Within(tree)
    BY <1>1, StepWithin
  <2>2. \A t \in [Paths -> Nodes] : LinksInside(t) => \A u \in Within(t) : LinksInside(u)
    BY LinksStayInside
  <2> QED
    BY <1>1, <2>1, <2>2
<1>3. tree' \in Layouts /\ ops' \in 0..MaxOps
  <2>1. CASE UNCHANGED treeVars \/ Answered
    BY <2>1, <1>1 DEF treeVars, Answered
  <2>2. ASSUME ops < MaxOps, NEW src \in Paths, NEW dst \in Paths, NEW b \in BOOLEAN, Move(src, dst, b)
        PROVE  tree' \in Layouts /\ ops' \in 0..MaxOps
    BY <2>2, <1>1, MoveAnswers, MoveLayout
  <2>3. ASSUME ops < MaxOps, NEW src \in Paths, NEW dst \in Paths, NEW b \in BOOLEAN, Copy(src, dst, b)
        PROVE  tree' \in Layouts /\ ops' \in 0..MaxOps
    BY <2>3, <1>1, CopyAnswers, CopyLayout
  <2>4. ASSUME ops < MaxOps, NEW p \in Paths, NEW b \in BOOLEAN, MakeDir(p, b)
        PROVE  tree' \in Layouts /\ ops' \in 0..MaxOps
    BY <2>4, <1>1, MakeDirAnswers, MakeDirLayout
  <2>5. ASSUME ops < MaxOps, NEW p \in Paths, NEW r \in BOOLEAN, NEW c \in BOOLEAN, NEW d \in BOOLEAN, Delete(p, r, c, d)
        PROVE  tree' \in Layouts /\ ops' \in 0..MaxOps
    BY <2>5, <1>1, DeleteAnswers, DeleteLayout
  <2> QED
    BY <2>1, <2>2, <2>3, <2>4, <2>5, Steps
<1>4. (\A p \in Paths : tree'[p].k = "link" => Under(p, Root)) /\ tree' \in Layouts /\ ops' \in 0..MaxOps
  BY <1>2, <1>3 DEF LinksInside
<1> QED
  BY <1>4 DEF TreeTypeOK, LinksInside

\* From every tree whose links lie in the root, every sequence of calls leaves a
\* tree: what is there is in a directory (MoveFile, CopyFile, DeleteFile, MakeDir).
THEOREM TreeInductive ==
  ASSUME NEW trees, \A t \in trees : t \in Layouts /\ LinksInside(t)
  PROVE  TreeSpec(trees) => []TreeTypeOK
<1>1. TreeStarts(trees) => TreeTypeOK
  BY FileTreeAssumption DEF TreeStarts, TreeTypeOK
<1>2. TreeTypeOK /\ [TreeNext]_treeVars => TreeTypeOK'
  BY TypeKept
<1> QED
  BY <1>1, <1>2, PTL DEF TreeSpec

\* Only a move answers as a move.
LEMMA MoveMade ==
  ASSUME [TreeNext]_treeVars, last'.op = "move", ~UNCHANGED treeVars
  PROVE  \E src, dst \in Paths, b \in BOOLEAN : Move(src, dst, b) /\ last'.src = src /\ last'.dst = dst
BY Steps, MoveAnswers, CopyAnswers, DeleteAnswers, MakeDirAnswers

\* The same of a copy.
LEMMA CopyMade ==
  ASSUME [TreeNext]_treeVars, last'.op = "copy", ~UNCHANGED treeVars
  PROVE  \E src, dst \in Paths, b \in BOOLEAN : Copy(src, dst, b) /\ last'.src = src /\ last'.dst = dst
BY Steps, MoveAnswers, CopyAnswers, DeleteAnswers, MakeDirAnswers

\* The same of a deletion.
LEMMA DeleteMade ==
  ASSUME [TreeNext]_treeVars, last'.op \in {"delete", "dry_run"}, ~UNCHANGED treeVars
  PROVE  \E p \in Paths, r, c, d \in BOOLEAN : Delete(p, r, c, d) /\ last'.src = p
BY Steps, MoveAnswers, CopyAnswers, DeleteAnswers, MakeDirAnswers

\* From every tree whose links lie in the root, and for every sequence of calls:
\* a move, a copy or a deletion that reports success has done exactly that and
\* nothing else, whether a move renamed or copied, and a move that fails has lost
\* nothing of a source apart from its destination (MoveFile, CopyFile, DeleteFile).
THEOREM TreeCallsExact ==
  ASSUME IsFiniteSet(Names), NEW trees, \A t \in trees : t \in Layouts /\ LinksInside(t)
  PROVE  TreeSpec(trees) => TreeCallsAreExact
<1>1. TreeSpec(trees) => []TreeTypeOK
  BY TreeInductive
<1>2. IsFiniteSet(Paths)
  BY FinitePaths
<1>3. TreeTypeOK /\ [TreeNext]_treeVars =>
        [last'.op = "move" /\ last'.ok =>
           LET p == Entry(tree, last'.src)
               t1 == Vacated(tree, last'.dst)
               q == Entry(t1, last'.dst)
           IN  tree' = Graft(MkdirAll(Cut(t1, p), q), tree, p, q)]_treeVars
  <2> SUFFICES ASSUME TreeTypeOK, [TreeNext]_treeVars, ~UNCHANGED treeVars, last'.op = "move", last'.ok
               PROVE  LET p == Entry(tree, last'.src)
                          t1 == Vacated(tree, last'.dst)
                          q == Entry(t1, last'.dst)
                      IN  tree' = Graft(MkdirAll(Cut(t1, p), q), tree, p, q)
    BY Zenon
  <2>1. PICK src \in Paths, dst \in Paths, b \in BOOLEAN : Move(src, dst, b) /\ last'.src = src /\ last'.dst = dst
    BY MoveMade
  <2> DEFINE p == Entry(tree, src)
             t1 == Vacated(tree, dst)
             q == Entry(t1, dst)
  <2>2. tree \in Layouts /\ LinksInside(tree)
    BY DEF TreeTypeOK
  <2>3. \A u, x, y : u = t1 /\ x = Entry(u, dst) /\ y = p => tree' = Graft(MkdirAll(Cut(u, y), x), tree, y, x)
    BY <2>1, <2>2, MoveExact
  <2>4. tree' = Graft(MkdirAll(Cut(t1, p), q), tree, p, q)
    BY <2>3, Zenon
  <2> QED
    BY <2>1, <2>4, Zenon
<1>4. TreeTypeOK /\ [TreeNext]_treeVars =>
        [last'.op = "move" /\ ~last'.ok =>
           LET p == Entry(tree, last'.src)
               q0 == Entry(tree, last'.dst)
               q == Entry(Vacated(tree, last'.dst), last'.dst)
           IN  p # Err /\ q0 # Err /\ ~Under(p, q0) /\ ~Under(q0, p) =>
                 \A x \in Subtree(tree, p) :
                   \/ tree'[x] = tree[x]
                   \/ At(tree', Moved(x, p, q)) = tree[x]]_treeVars
  <2> SUFFICES ASSUME TreeTypeOK, [TreeNext]_treeVars, ~UNCHANGED treeVars, last'.op = "move", ~last'.ok
               PROVE  LET p == Entry(tree, last'.src)
                          q0 == Entry(tree, last'.dst)
                          q == Entry(Vacated(tree, last'.dst), last'.dst)
                      IN  p # Err /\ q0 # Err /\ ~Under(p, q0) /\ ~Under(q0, p) =>
                            \A x \in Subtree(tree, p) :
                              \/ tree'[x] = tree[x]
                              \/ At(tree', Moved(x, p, q)) = tree[x]
    BY Zenon
  <2>1. PICK src \in Paths, dst \in Paths, b \in BOOLEAN : Move(src, dst, b) /\ last'.src = src /\ last'.dst = dst
    BY MoveMade
  <2> DEFINE p == Entry(tree, src)
             q0 == Entry(tree, dst)
             t1 == Vacated(tree, dst)
             q == Entry(t1, dst)
  <2>2. tree \in Layouts /\ LinksInside(tree)
    BY DEF TreeTypeOK
  <2>3. ASSUME ~Under(p, q0), ~Under(q0, p), NEW x \in Subtree(tree, p)
        PROVE  tree'[x] = tree[x] \/ At(tree', Moved(x, p, q)) = tree[x]
    <3>1. \A u, y, z, y0 : u = t1 /\ y = Entry(u, dst) /\ z = p /\ y0 = q0 => tree'[x] = tree[x] \/ At(tree', Moved(x, z, y)) = tree[x]
      BY <2>1, <2>2, <2>3, FailedMove
    <3> QED
      BY <3>1, Zenon
  <2> QED
    BY <2>1, <2>3, Zenon
<1>5. TreeTypeOK /\ [TreeNext]_treeVars =>
        [last'.op = "copy" /\ last'.ok =>
           LET p == Entry(tree, last'.src)
               q == Entry(tree, last'.dst)
               from == ResolvePath(tree, p)
               to == ResolvePath(tree, q)
           IN  IF tree[p] = Dir THEN tree' = Graft(MkdirAll(tree, q), tree, p, q)
               ELSE from # to => tree' = [tree EXCEPT ![to] = tree[from]]]_treeVars
  <2> SUFFICES ASSUME TreeTypeOK, [TreeNext]_treeVars, ~UNCHANGED treeVars, last'.op = "copy", last'.ok
               PROVE  LET p == Entry(tree, last'.src)
                          q == Entry(tree, last'.dst)
                          from == ResolvePath(tree, p)
                          to == ResolvePath(tree, q)
                      IN  IF tree[p] = Dir THEN tree' = Graft(MkdirAll(tree, q), tree, p, q)
                          ELSE from # to => tree' = [tree EXCEPT ![to] = tree[from]]
    BY Zenon
  <2>1. PICK src \in Paths, dst \in Paths, b \in BOOLEAN : Copy(src, dst, b) /\ last'.src = src /\ last'.dst = dst
    BY CopyMade
  <2> DEFINE p == Entry(tree, src)
             q == Entry(tree, dst)
             from == ResolvePath(tree, p)
             to == ResolvePath(tree, q)
  <2>2. tree \in [Paths -> Nodes]
    BY LayoutIs DEF TreeTypeOK
  <2>3. \A x, y, f, g : x = p /\ y = q /\ f = from /\ g = to =>
          /\ tree[x] = Dir => tree' = Graft(MkdirAll(tree, y), tree, x, y)
          /\ tree[x] # Dir /\ f # g => tree' = LeafAt(tree, g, tree[f])
    BY <2>1, <2>2, CopyExact
  <2>4. /\ tree[p] = Dir => tree' = Graft(MkdirAll(tree, q), tree, p, q)
        /\ tree[p] # Dir => (from # to => tree' = LeafAt(tree, to, tree[from]))
    BY <2>3, Zenon
  <2>5. \A f, g : LeafAt(tree, g, tree[f]) = [tree EXCEPT ![g] = tree[f]]
    BY DEF LeafAt
  <2>6. CASE tree[p] = Dir
    BY <2>1, <2>4, <2>6, Zenon
  <2>7. CASE tree[p] # Dir
    BY <2>1, <2>4, <2>5, <2>7, Zenon
  <2> QED
    BY <2>6, <2>7
<1>6. TreeTypeOK /\ [TreeNext]_treeVars =>
        [last'.op \in {"delete", "dry_run"} /\ last'.ok =>
           LET p == Entry(tree, last'.src)
               gone == {x \in Paths : tree'[x] # tree[x]}
           IN  /\ gone \subseteq Subtree(tree, p) \ {Root}
               /\ IF last'.op = "dry_run" THEN gone = {}
                  ELSE Cardinality(gone) = last'.entries + (IF tree[p] = Dir THEN 1 ELSE 0)]_treeVars
  <2> SUFFICES ASSUME TreeTypeOK, [TreeNext]_treeVars, ~UNCHANGED treeVars, last'.op \in {"delete", "dry_run"}, last'.ok
               PROVE  LET p == Entry(tree, last'.src)
                          gone == {x \in Paths : tree'[x] # tree[x]}
                      IN  /\ gone \subseteq Subtree(tree, p) \ {Root}
                          /\ IF last'.op = "dry_run" THEN gone = {}
                             ELSE Cardinality(gone) = last'.entries + (IF tree[p] = Dir THEN 1 ELSE 0)
    BY Zenon
  <2>1. PICK path \in Paths, r \in BOOLEAN, c \in BOOLEAN, d \in BOOLEAN : Delete(path, r, c, d) /\ last'.src = path
    BY DeleteMade
  <2> DEFINE p == Entry(tree, path)
             gone == {x \in Paths : tree'[x] # tree[x]}
             entries == last'.entries
             dry == last'.op = "dry_run"
  <2>2. tree \in Layouts
    BY DEF TreeTypeOK
  <2>3. \A y, g : y = p /\ g = gone =>
          /\ g \subseteq Subtree(tree, y) \ {Root}
          /\ last'.op = "dry_run" => g = {}
          /\ last'.op # "dry_run" /\ tree[y] = Dir => Cardinality(g) = last'.entries + 1
          /\ last'.op # "dry_run" /\ tree[y] # Dir => Cardinality(g) = last'.entries
    BY <1>2, <2>1, <2>2, DeleteExact
  <2>4. /\ gone \subseteq Subtree(tree, p) \ {Root}
        /\ dry => gone = {}
        /\ ~dry /\ tree[p] = Dir => Cardinality(gone) = entries + 1
        /\ ~dry /\ tree[p] # Dir => Cardinality(gone) = entries
    BY <2>3, Zenon
  <2>5. ~dry /\ tree[p] # Dir => entries = 1
    <3>1. \A y : y = p => (tree[y] # Dir => last'.entries = 1)
      BY <2>1, <2>2, LayoutIs, DeleteIs
    <3> QED
      BY <3>1, Zenon
  <2>6. ~dry /\ tree[p] # Dir => Cardinality(gone) = entries + 0
    <3> HIDE DEF gone, entries, dry, p
    <3> QED
      BY <2>4, <2>5
  <2>7. /\ gone \subseteq Subtree(tree, p) \ {Root}
        /\ IF dry THEN gone = {} ELSE Cardinality(gone) = entries + (IF tree[p] = Dir THEN 1 ELSE 0)
    <3> HIDE DEF gone, entries, dry, p
    <3>1. CASE dry
      BY <2>4, <3>1
    <3>2. CASE ~dry /\ tree[p] = Dir
      BY <2>4, <3>2
    <3>3. CASE ~dry /\ tree[p] # Dir
      BY <2>4, <2>6, <3>3
    <3> QED
      BY <3>1, <3>2, <3>3
  <2> QED
    BY <2>1, <2>7, Zenon
<1> QED
  BY <1>1, <1>3, <1>4, <1>5, <1>6, PTL
     DEF TreeSpec, TreeCallsAreExact, MoveIsExact, FailedMoveLosesNothing, CopyIsExact, DeleteIsExact

=============================================================================
