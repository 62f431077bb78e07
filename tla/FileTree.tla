----------------------------- MODULE FileTree -----------------------------
(***************************************************************************)
(* The tools that manage files (manageops.go: MoveFile, CopyFile,          *)
(* DeleteFile, MakeDir) inside the path sandbox (fileops.go: validatePath, *)
(* validateLinkPath, resolvePath), on a small file system with symlinks.   *)
(* One call at a time, in any sequence; what may fail on the way (a rename *)
(* across file systems, a copy that runs out of space, a clean-up) fails   *)
(* or not. A path is a sequence of names below the root directory of the   *)
(* file system; the sandbox has one root.                                  *)
(***************************************************************************)
EXTENDS Integers, Sequences, FiniteSets, SequencesExt, TLC

CONSTANTS
  Names,      \* names of directory entries
  Depth,      \* bound: longest path
  MaxHops,    \* bound: components and links on the way of a path (40 links in resolvePath)
  MaxOps,     \* bound: calls
  Faults      \* whether renames, copies and clean-ups may fail

ASSUME FileTreeAssumption ==
  /\ Depth \in Nat \ {0} /\ MaxHops \in Nat /\ Depth <= MaxHops
  /\ MaxOps \in Nat /\ Faults \subseteq BOOLEAN

Root == <<"root">>        \* SHELL_API_FS_ROOT
Outside == <<"outside">>  \* a directory beside it
Paths == {Root \o s : s \in UNION {[1..n -> Names] : n \in 0..(Depth - 1)}}
           \cup {Outside} \cup {Append(Outside, n) : n \in Names}

None == [k |-> "none"]
Dir == [k |-> "dir"]
File(d) == [k |-> "file", data |-> d]  \* 0: empty
Link(p) == [k |-> "link", to |-> p]
Nodes == {None, Dir} \cup [k : {"file"}, data : Nat] \cup [k : {"link"}, to : Paths]
Err == <<>>                            \* a path that cannot be resolved

VARIABLES
  tree,  \* Paths -> node
  ops,   \* calls so far
  last   \* the call just answered: [op, src, dst, ok, entries]

treeVars == <<tree, ops, last>>

\* Trees as they are: what is there is in a directory.
Layouts == {t \in [Paths -> Nodes] : \A p \in Paths : t[p] # None /\ Len(p) > 1 => t[Front(p)] = Dir}

-----------------------------------------------------------------------------
(* The file system.                                                        *)

Under(p, q) == IsPrefix(q, p)

\* Links lie in the root only; they may lead anywhere.
LinksInside(t) == \A p \in Paths : t[p].k = "link" => Under(p, Root)

TreeTypeOK == tree \in Layouts /\ LinksInside(tree) /\ ops \in 0..MaxOps

Subtree(t, p) == {q \in Paths : Under(q, p) /\ t[q] # None}
At(t, p) == IF p \in Paths THEN t[p] ELSE None

\* One step of resolvePath: `real` tells where the paths further up, and those
\* that links lead to, are.
Resolve(t, real) ==
  [p \in Paths |->
     IF Len(p) = 1 THEN p
     ELSE LET parent == real[Front(p)]
              q == Append(parent, Last(p))
          IN  IF parent = Err \/ At(t, parent).k = "file" THEN Err
              ELSE IF At(t, q).k = "link" THEN real[At(t, q).to] ELSE q]

\* resolvePath: every link followed, missing components kept as written,
\* dangling links followed to where they point. Err for a loop, or below a file.
ResolvePath(t, p) ==
  LET after[n \in 0..MaxHops] == IF n = 0 THEN [q \in Paths |-> Err] ELSE Resolve(t, after[n - 1])
  IN  after[MaxHops][p]

\* The entry a path names, its last component not followed.
Entry(t, p) ==
  IF Len(p) = 1 THEN p
  ELSE LET d == ResolvePath(t, Front(p)) IN IF d = Err THEN Err ELSE Append(d, Last(p))

Exists(t, p) == At(t, Entry(t, p)) # None           \* Lstat
HasParent(t, p) == Len(p) > 1 /\ At(t, Front(p)) = Dir

\* os.RemoveAll
Cut(t, p) == [q \in Paths |-> IF Under(q, p) THEN None ELSE t[q]]

\* Where x, which is p or below it, is when p is q.
Moved(x, p, q) == q \o SubSeq(x, Len(p) + 1, Len(x))

\* The subtree of `from` at p, put at q.
Graft(t, from, p, q) == [x \in Paths |-> IF Under(x, q) THEN At(from, Moved(x, q, p)) ELSE t[x]]

\* Nothing of p is lost to the bound on the depth when it is put at q.
FitsAt(t, p, q) == \A x \in Subtree(t, p) : Len(x) - Len(p) + Len(q) <= Depth

\* What os.RemoveAll leaves when it fails on the way.
PartialCuts(t, p) ==
  {[q \in Paths |-> IF q \in gone THEN None ELSE t[q]] :
     gone \in {s \in SUBSET (Subtree(t, p) \ {p}) :
                 \A x \in s : Subtree(t, x) \subseteq s}}

\* os.MkdirAll: p and its missing ancestors. It follows no link that leads nowhere.
MkdirAll(t, p) == [q \in Paths |-> IF Under(p, q) /\ t[q] = None THEN Dir ELSE t[q]]
CanMkdirAll(t, path, p) ==
  /\ p \in Paths /\ \A q \in Paths : Under(p, q) => t[q] \in {None, Dir}
  /\ \A x \in Paths : Under(path, x) /\ At(t, Entry(t, x)).k = "link" => At(t, ResolvePath(t, x)) = Dir

-----------------------------------------------------------------------------
(* The sandbox.                                                            *)

\* Mutant of ValidatePath: only the path as written is checked.
ValidatePathAsWritten(t, p) == Under(p, Root)

ValidatePath(t, p) ==
  /\ Under(p, Root)
  /\ LET real == ResolvePath(t, p) IN real # Err /\ (real # p => Under(real, ResolvePath(t, Root)))

\* The last component may be a link leading anywhere.
ValidateLinkPath(t, p) ==
  /\ Under(p, Root)
  /\ p = Root \/ LET d == ResolvePath(t, Front(p)) IN d # Err /\ Under(d, ResolvePath(t, Root))

-----------------------------------------------------------------------------
(* The calls. `after` is the tree a call leaves.                           *)

NoCall == [op |-> "none", src |-> Root, dst |-> Root, ok |-> TRUE, entries |-> 0]

Answer(op, src, dst, ok, entries, after) ==
  /\ ops' = ops + 1
  /\ last' = [op |-> op, src |-> src, dst |-> dst, ok |-> ok, entries |-> entries]
  /\ tree' = after

\* copyOneFile, [ok, t]: the destination is opened with O_TRUNC and may be a
\* link. A file copied onto itself is empty when it is read; a copy that fails
\* on the way leaves a truncated file.
CopyOneFile(t, p, q) ==
  LET from == ResolvePath(t, p)
      to == ResolvePath(t, q)
      opens == At(t, from).k = "file" /\ to \in Paths /\ HasParent(t, to) /\ At(t, to).k \in {"none", "file"}
      holding(f) == [t EXCEPT ![to] = f]
  IN  IF ~opens THEN {[ok |-> FALSE, t |-> t]}
      ELSE {[ok |-> TRUE, t |-> holding(IF to = from THEN File(0) ELSE t[from])]}
           \cup {[ok |-> FALSE, t |-> holding(File(0))] : f \in Faults \cap {TRUE}}

\* copyDirRecursive up to an error: any part of the subtree whose directories
\* are there. A copy into its own subtree finds its own output.
PartialCopies(t, p, q) ==
  LET made == MkdirAll(t, q)
      whole == Graft(made, made, p, q)
  IN  {[x \in Paths |-> IF x \in drop THEN t[x] ELSE whole[x]] :
         drop \in {s \in SUBSET Subtree(whole, q) : \A x \in s : Subtree(whole, x) \subseteq s}}

\* What the copy of a tree makes of an entry: a link is made anew.
Rebuilt(t, node) == node

\* copyDirRecursive to `path`, which leads to q, [ok, t]. Into its own subtree it
\* goes on until the path is too long, and fails.
CopyDir(t, p, path, q) ==
  LET fails == {[ok |-> FALSE, t |-> r] : r \in PartialCopies(t, p, q)}
      source == [x \in Paths |-> Rebuilt(t, t[x])]
  IN  IF ~CanMkdirAll(t, path, q) THEN {[ok |-> FALSE, t |-> t]}
      ELSE IF Under(q, p) THEN fails
      ELSE {[ok |-> TRUE, t |-> Graft(MkdirAll(t, q), source, p, q)]} \cup (IF TRUE \in Faults THEN fails ELSE {})

\* Mutant of Cleanup: the source is removed whether or not it was copied.
CleanupAlways(c, p) == {[ok |-> c.ok, t |-> Cut(c.t, p)]}

\* After the copy of a move the source is removed, if that succeeds.
Cleanup(c, p) ==
  IF ~c.ok THEN {c}
  ELSE {[ok |-> TRUE, t |-> Cut(c.t, p)]}
       \cup {[ok |-> FALSE, t |-> r] : r \in IF TRUE \in Faults THEN PartialCuts(c.t, p) ELSE {}}

\* The copy of MoveFile when the rename fails: a link is moved as a link.
Fallback(t, p, path, q) ==
  CASE At(t, p).k = "none" -> {[ok |-> FALSE, t |-> t]}
    [] At(t, p).k = "link" -> {IF HasParent(t, q) THEN [ok |-> TRUE, t |-> [t EXCEPT ![q] = t[p]]]
                               ELSE [ok |-> FALSE, t |-> t]}
    [] At(t, p).k = "dir" -> CopyDir(t, p, path, q)
    [] At(t, p).k = "file" -> CopyOneFile(t, p, q)

\* os.Rename, which may also fail because the file systems differ.
RenameWorks(t, p, q) == At(t, p) # None /\ HasParent(t, q) /\ ~Under(q, p)

\* The tree once the destination of a move is removed, if it is there.
Vacated(t, dst) == IF Exists(t, dst) THEN Cut(t, Entry(t, dst)) ELSE t

\* MoveFile. The destination is removed before the source is renamed.
Move(src, dst, overwrite) ==
  LET t1 == Vacated(tree, dst)
      p == Entry(t1, src)
      q == Entry(t1, dst)
  IN  IF \/ ~ValidateLinkPath(tree, src) \/ ~ValidatePath(tree, dst)
         \/ ~Exists(tree, src) \/ (Exists(tree, dst) /\ ~overwrite)
      THEN Answer("move", src, dst, FALSE, 0, tree)
      ELSE \/ /\ TRUE \in Faults /\ Exists(tree, dst)
              /\ \E t \in PartialCuts(tree, Entry(tree, dst)) : Answer("move", src, dst, FALSE, 0, t)
           \/ /\ q \in Paths /\ FitsAt(t1, p, q) /\ RenameWorks(t1, p, q)
              /\ Answer("move", src, dst, TRUE, 0, Graft(Cut(t1, p), t1, p, q))
           \/ /\ q \in Paths /\ FitsAt(t1, p, q) /\ (~RenameWorks(t1, p, q) \/ TRUE \in Faults)
              /\ \E c \in Fallback(t1, p, dst, q) : \E d \in Cleanup(c, p) :
                   Answer("move", src, dst, d.ok, 0, d.t)

Copy(src, dst, overwrite) ==
  LET p == Entry(tree, src)
      q == Entry(tree, dst)
  IN  IF \/ ~ValidatePath(tree, src) \/ ~ValidatePath(tree, dst)
         \/ ~Exists(tree, src) \/ (Exists(tree, dst) /\ (~overwrite \/ At(tree, p) = Dir))
      THEN Answer("copy", src, dst, FALSE, 0, tree)
      ELSE /\ q \in Paths /\ FitsAt(tree, p, q)
           /\ \E c \in IF At(tree, p) = Dir THEN CopyDir(tree, p, dst, q) ELSE CopyOneFile(tree, p, q) :
                Answer("copy", src, dst, c.ok, 0, c.t)

\* What a deletion of a directory counts: everything below it.
DeleteEntries(t, p) == Cardinality(Subtree(t, p) \ {p})

DeleteTarget(p) == Entry(tree, p)

Delete(path, recursive, confirm, dryRun) ==
  LET p == DeleteTarget(path)
      isDir == At(tree, p) = Dir
      entries == IF isDir THEN DeleteEntries(tree, p) ELSE 1
  IN  IF \/ ~ValidateLinkPath(tree, path) \/ path = Root \/ At(tree, p) = None
         \/ (isDir /\ entries > 0 /\ ~recursive) \/ (~dryRun /\ ~confirm)
      THEN Answer("delete", path, path, FALSE, 0, tree)
      ELSE \/ dryRun /\ Answer("dry_run", path, path, TRUE, entries, tree)
           \/ ~dryRun /\ Answer("delete", path, path, TRUE, entries, Cut(tree, p))
           \/ /\ ~dryRun /\ TRUE \in Faults
              /\ \E t \in PartialCuts(tree, p) : Answer("delete", path, path, FALSE, 0, t)

MakeDir(path, parents) ==
  LET p == ResolvePath(tree, path)
      can == IF parents THEN CanMkdirAll(tree, path, p)
             ELSE At(tree, Entry(tree, path)).k # "link" /\ HasParent(tree, p)
  IN  IF ~ValidatePath(tree, path) \/ At(tree, p).k = "file" THEN Answer("mkdir", path, path, FALSE, 0, tree)
      ELSE IF At(tree, p) = Dir THEN Answer("mkdir", path, path, TRUE, 0, tree)
      ELSE /\ p \in Paths
           /\ Answer("mkdir", path, path, can, 0, IF can THEN MkdirAll(tree, p) ELSE tree)

\* The client has its answer.
Answered == last.op # "none" /\ last' = NoCall /\ UNCHANGED <<tree, ops>>

Call ==
  \/ \E src, dst \in Paths, b \in BOOLEAN : Move(src, dst, b) \/ Copy(src, dst, b)
  \/ \E p \in Paths, b \in BOOLEAN : MakeDir(p, b)
  \/ \E p \in Paths, r, c, d \in BOOLEAN : Delete(p, r, c, d)

TreeNext ==
  \/ Answered
  \/ last.op = "none" /\ ops < MaxOps /\ Call

-----------------------------------------------------------------------------
(* A root with a directory, files, links out of the root, links inside it,  *)
(* a link that leads nowhere and a loop.                                    *)

Holding(entries) == [p \in Paths |-> IF p \in DOMAIN entries THEN entries[p]
                                     ELSE IF p \in {Root, Outside} THEN Dir
                                     ELSE IF p = Outside \o <<"a">> THEN File(3) ELSE None]
RA == Root \o <<"a">>
RB == Root \o <<"b">>
RAA == RA \o <<"a">>

Trees ==
  {Holding(RA :> Dir @@ RAA :> File(1) @@ RB :> Link(Outside)),
   Holding(RA :> Dir @@ RAA :> Link(Outside \o <<"a">>) @@ RB :> File(2)),
   Holding(RA :> Link(RB) @@ RB :> Dir @@ (RB \o <<"a">>) :> File(1)),
   Holding(RA :> Link(Outside \o <<"b">>) @@ RB :> Link(Root)),
   Holding(RA :> Link(RB) @@ RB :> Link(RA)),
   Holding(RA :> File(1) @@ RB :> Link(RA))}

TreeStarts(trees) == tree \in trees /\ ops = 0 /\ last = NoCall
TreeInit == TreeStarts(Trees)
TreeSpec(trees) == TreeStarts(trees) /\ [][TreeNext]_treeVars

-----------------------------------------------------------------------------
(* What holds.                                                             *)

\* No call changes anything outside the root, whatever links lie on its paths
\* and whichever of its steps fails (validatePath, validateLinkPath).
SandboxHolds == [][\A p \in Paths : ~Under(p, Root) => tree'[p] = tree[p]]_treeVars

\* A move that reports success has moved the subtree of its source as it was,
\* links as links, to its destination, and has changed nothing else, whether
\* it renamed or copied; a copied directory brings missing parents. The
\* destination is where its path leads once what was there is removed (MoveFile).
MoveIsExact ==
  [][last'.op = "move" /\ last'.ok =>
       LET p == Entry(tree, last'.src)
           t1 == Vacated(tree, last'.dst)
           q == Entry(t1, last'.dst)
       IN  tree' = Graft(MkdirAll(Cut(t1, p), q), tree, p, q)]_treeVars

\* A move that fails has lost nothing of its source: every entry is still there
\* or is at the destination. Not so a move onto itself or onto a directory that
\* holds it: the destination is removed first (MoveFile).
FailedMoveLosesNothing ==
  [][last'.op = "move" /\ ~last'.ok =>
       LET p == Entry(tree, last'.src)
           q0 == Entry(tree, last'.dst)
           q == Entry(Vacated(tree, last'.dst), last'.dst)
       IN  p # Err /\ q0 # Err /\ ~Under(p, q0) /\ ~Under(q0, p) =>
             \A x \in Subtree(tree, p) :
               \/ tree'[x] = tree[x]
               \/ At(tree', Moved(x, p, q)) = tree[x]]_treeVars

\* A copy that reports success leaves its source as it was and a copy of it at
\* the destination, links in a tree rebuilt as links, and changes nothing else;
\* but a file copied onto itself is lost (CopyFile, copyDirRecursive).
CopyIsExact ==
  [][last'.op = "copy" /\ last'.ok =>
       LET p == Entry(tree, last'.src)
           q == Entry(tree, last'.dst)
           from == ResolvePath(tree, p)
           to == ResolvePath(tree, q)
       IN  IF tree[p] = Dir THEN tree' = Graft(MkdirAll(tree, q), tree, p, q)
           ELSE from # to => tree' = [tree EXCEPT ![to] = tree[from]]]_treeVars

\* A deletion removes exactly the entries it counted, below the path it was
\* given, never the target of a link and never the root; a dry run counts the
\* same and removes nothing (DeleteFile).
DeleteIsExact ==
  [][last'.op \in {"delete", "dry_run"} /\ last'.ok =>
       LET p == Entry(tree, last'.src)
           gone == {x \in Paths : tree'[x] # tree[x]}
       IN  /\ gone \subseteq Subtree(tree, p) \ {Root}
           /\ IF last'.op = "dry_run" THEN gone = {}
              ELSE Cardinality(gone) = last'.entries + (IF tree[p] = Dir THEN 1 ELSE 0)]_treeVars

\* A management call that reports success has done exactly what it says, and a
\* move that fails has lost nothing (MoveFile, CopyFile, DeleteFile).
TreeCallsAreExact == []TreeTypeOK /\ MoveIsExact /\ FailedMoveLosesNothing /\ CopyIsExact /\ DeleteIsExact

=============================================================================
