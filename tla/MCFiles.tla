------------------------------ MODULE MCFiles ------------------------------
(* The file tools, one kind to a behaviour: calls that manage a tree of files  *)
(* one after the other, calls that write and edit one file at the same time,   *)
(* and the tools that read: windows of a file, several files, search, find     *)
(* and diff.                                                                   *)
EXTENDS FileTree, FileEdit, ReadWindows, ReadFiles, Searches, Diff

VARIABLE part  \* which kind a behaviour is about

vars == <<treeVars, editVars, readVars, filesVars, searchVars, findVars, diffVars, part>>

SeqsUpTo(S, n) == UNION {[1..k -> S] : k \in 0..n}

-----------------------------------------------------------------------------
(* Edits.                                                                      *)

Pair(old, new, all) == [old |-> old, new |-> new, all |-> all]
MCTexts == {<<1>>, <<2>>, <<Unencodable>>}
MCPairLists ==
  {<<Pair(<<2>>, <<1, 1>>, TRUE), Pair(<<1>>, <<>>, TRUE)>>,
   <<Pair(<<1>>, <<2>>, FALSE), Pair(<<2>>, <<1>>, FALSE)>>,
   <<Pair(<<2>>, <<Unencodable>>, TRUE)>>,
   <<Pair(<<2, 1>>, <<1>>, FALSE), Pair(<<>>, <<1>>, FALSE)>>}

-----------------------------------------------------------------------------
(* Windows of a file.                                                          *)

RECURSIVE CharTexts(_, _)
CharTexts(chars, n) ==
  IF n = 0 THEN {<<>>} ELSE LET t == CharTexts(chars, n - 1) IN t \cup {x \o c : x \in t, c \in chars}
Utf8Files == CharTexts({<<"n">>, <<"a">>, <<"C", "T">>, <<"E", "T", "T">>}, 4)
GbFiles == CharTexts({<<"n">>, <<"d">>, <<"a">>, <<"C">>}, 4)
Gb4Files(n) == CharTexts({<<"n">>, <<"d">>, <<"C">>}, n)
LineFiles == CharTexts({<<"n">>, <<"a">>}, 6)
Reads(fs, modes, encs, maxs, ats, tos) == [file : fs, mode : modes, enc : encs, max : maxs, at : ats, to : tos]

ReadInit ==
  \/ ReadStarts(Reads(Utf8Files, {"bytes", "tail"}, {"utf-8", "auto"}, {1, 3, 4}, {0, 1}, {0}))
  \/ ReadStarts(Reads(GbFiles, {"bytes", "tail"}, {"gbk"}, {1, 3}, {0, 1}, {0}))
  \/ ReadStarts(Reads(Gb4Files(6), {"bytes"}, {"gb18030"}, {4, 5}, {0, 1}, {0}))
  \/ ReadStarts(Reads(Gb4Files(7), {"bytes"}, {"gb18030"}, {7}, {0, 1}, {0}))
  \/ ReadStarts(Reads(Utf8Files, {"lines"}, {"auto"}, {2, 4}, {1, 2}, {2, 9}))
  \/ ReadStarts(Reads(LineFiles, {"lines"}, {"utf-8"}, {1, 2, 3}, {1, 2}, {2, 9}))
  \/ ReadStarts(Reads(LineFiles, {"last"}, {"utf-8"}, {1, 2, 3, 4}, {0}, {1, 2, 3}))
NoRead == ReadStarts(Reads({<<>>}, {"bytes"}, {"utf-8"}, {1}, {0}, {0}))

-----------------------------------------------------------------------------
(* Several files.                                                              *)

Sized(n) == [size |-> n, statSize |-> n, hidden |-> FALSE, outside |-> FALSE, regular |-> TRUE, readable |-> TRUE]
Odd == {[Sized(2) EXCEPT !.hidden = TRUE], [Sized(2) EXCEPT !.outside = TRUE], [Sized(2) EXCEPT !.regular = FALSE],
        [Sized(2) EXCEPT !.readable = FALSE], [Sized(2) EXCEPT !.statSize = 0], [Sized(0) EXCEPT !.statSize = 3]}
Plain(f) == [glob |-> FALSE, dotOK |-> FALSE, inRoots |-> TRUE, matches |-> <<f>>]
Glob(ms, d, r) == [glob |-> TRUE, dotOK |-> d, inRoots |-> r, matches |-> ms]
PlainPaths(ns, n) == SeqsUpTo({Plain(Sized(k)) : k \in ns}, n) \ {<<>>}
Barred == [Sized(5) EXCEPT !.readable = FALSE]
MixedPaths ==
  {<<Plain(Sized(k)), Plain(Barred), Plain(Sized(n))>> : k, n \in {4, 5, 6}} \cup
  {<<Plain(Sized(3)), Plain(f), Plain(Sized(1)), Plain(Sized(2))>> : f \in Odd}
  \cup {<<Plain(Sized(3)), Glob(<<f, Sized(1), g>>, d, r), Plain(Sized(5))>> :
          f, g \in Odd \cup {Sized(6)}, d \in BOOLEAN, r \in BOOLEAN}

FilesInit ==
  \/ ReadFilesStarts([kind : {"files"}, paths : PlainPaths({0, 1, 2, 4, 7}, 3), budget : {1, 5, 9, 14, 18}, numbered : {FALSE}])
  \/ ReadFilesStarts([kind : {"files"}, paths : MixedPaths, budget : {4, 9, 12, 20}, numbered : BOOLEAN])
  \/ ReadFilesStarts([kind : {"lines"}, file : SeqsUpTo({0, 2, 5}, 4), want : (SUBSET (1..5)) \ {{}}, max : {1, 4, 8}])
NoFiles == ReadFilesStarts({[kind |-> "none"]})

-----------------------------------------------------------------------------
(* Search and find.                                                            *)

F(l) == [kind |-> "file", lines |-> l]
K(k) == [kind |-> k, lines |-> <<>>]
SearchTrees ==
  {<<F(a), F(b)>> : a \in SeqsUpTo(BOOLEAN, 4), b \in SeqsUpTo(BOOLEAN, 1)}
  \cup {<<K("ignored"), F(a), K(k), F(b)>> : a, b \in {<<TRUE>>, <<FALSE, TRUE>>}, k \in SkipReasons}

SearchInit ==
  \/ SearchStarts([tree : SearchTrees, mode : {"content"}, before : 0..1, after : 0..2, max : {1, 3}])
  \/ SearchStarts([tree : SearchTrees, mode : {"files", "count"}, before : {0}, after : {0}, max : 1..3])
NoSearch == SearchStarts({[tree |-> <<>>, mode |-> "files", before |-> 0, after |-> 0, max |-> 1]})

Found1(depths, dirs, readables, hiddens, wanteds, keys) ==
  [depth : depths, dir : dirs, readable : readables, hidden : hiddens, wanted : wanteds, key : keys]
Dirs1 == Found1({1}, {TRUE}, BOOLEAN, BOOLEAN, BOOLEAN, {1})
FileAt(d) == Found1({d}, {FALSE}, {TRUE}, BOOLEAN, BOOLEAN, {1, 2})
GoodAt(d) == Found1({d}, {FALSE}, {TRUE}, {FALSE}, {TRUE}, {1, 2})
FindTrees ==
  {<<a, b, c, d>> : a \in Dirs1, b \in FileAt(2), c \in GoodAt(2) \cup GoodAt(1), d \in GoodAt(1)}
  \cup {<<a, b, c, d>> : a, b, c, d \in GoodAt(1)}

FindInit == FindStarts([tree : FindTrees, depth : {0, 1}, sort : BOOLEAN, max : {1, 3}])
NoFind == FindStarts({[tree |-> <<>>, depth |-> 0, sort |-> FALSE, max |-> 1]})

-----------------------------------------------------------------------------
(* Diff.                                                                       *)

Line(w) == [word |-> w, spaces |-> 1, cr |-> FALSE]
TwoLines == {Line(1), Line(2)}
FourLines == TwoLines \cup {[Line(1) EXCEPT !.spaces = 2], [Line(1) EXCEPT !.cr = TRUE]}
Diffs(forms, recoded, spaces, olds, news, maxs) ==
  [kind : {"files"}, form : forms, recoded : recoded, ignoreSpace : spaces, old : olds, new : news, max : maxs]
FewEntries == {Absent, [kind |-> "dir"]} \cup {[kind |-> "file", content |-> c, unreadable |-> FALSE] : c \in {1, 2}}
Entries ==
  FewEntries \cup {[kind |-> "symlink", to |-> x] : x \in {1, 2}}
  \cup {[kind |-> "file", content |-> 0, unreadable |-> FALSE], [kind |-> "file", content |-> 1, unreadable |-> TRUE]}

DiffInit ==
  \/ DiffStarts(Diffs({"text"}, {FALSE}, {FALSE}, SeqsUpTo(TwoLines, 4), SeqsUpTo(TwoLines, 4), {3, 20}))
  \/ DiffStarts(Diffs({"text", "binary", "large"}, BOOLEAN, BOOLEAN, SeqsUpTo(FourLines, 2), SeqsUpTo(FourLines, 2), {20}))
  \/ DiffStarts([kind : {"tree"}, left : [1..2 -> Entries], right : [1..2 -> Entries], showDiffs : {FALSE}])
  \/ DiffStarts([kind : {"tree"}, left : [1..3 -> FewEntries], right : [1..3 -> FewEntries], showDiffs : {TRUE}])
NoDiffs == DiffStarts({[kind |-> "none"]})

-----------------------------------------------------------------------------

Init ==
  /\ part \in {"tree", "edit", "read", "files", "search", "find", "diff"}
  /\ IF part = "tree" THEN TreeInit ELSE tree = Holding(<<>>) /\ ops = 0 /\ last = NoCall
  /\ IF part = "edit" THEN EditInit ELSE file = NoFile /\ parent = TRUE /\ call = [c \in EditCalls |-> Idle]
  /\ IF part = "read" THEN ReadInit ELSE NoRead
  /\ IF part = "files" THEN FilesInit ELSE NoFiles
  /\ IF part = "search" THEN SearchInit ELSE NoSearch
  /\ IF part = "find" THEN FindInit ELSE NoFind
  /\ IF part = "diff" THEN DiffInit ELSE NoDiffs

Next ==
  /\ UNCHANGED part
  /\ \/ part = "tree" /\ TreeNext
     \/ part = "edit" /\ EditNext
     \/ part = "read" /\ ReadFileContent
     \/ part = "files" /\ ReadFilesNext
     \/ part = "search" /\ SearchNext
     \/ part = "find" /\ FindNext
     \/ part = "diff" /\ DiffNext
  /\ part # "tree" => UNCHANGED treeVars
  /\ part # "edit" => UNCHANGED editVars
  /\ part # "read" => UNCHANGED readVars
  /\ part # "files" => UNCHANGED filesVars
  /\ part # "search" => UNCHANGED searchVars
  /\ part # "find" => UNCHANGED findVars
  /\ part # "diff" => UNCHANGED diffVars

Spec == Init /\ [][Next]_vars

Symmetry == Permutations(EditCalls)

=============================================================================
