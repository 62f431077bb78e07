----------------------------- MODULE FileEdit -----------------------------
(***************************************************************************)
(* Calls that write, edit, preview, upload and download one file           *)
(* (fileops.go: WriteFileContent, previewWrite, EditFileContent,           *)
(* UploadBase64, DownloadBase64) and run at the same time, without a lock. *)
(* A write opens the file (which truncates it, or not) and then puts its   *)
(* bytes; an edit reads the file first and computes all of its pairs in    *)
(* memory; a download is a sequence of calls that read one chunk each. A   *)
(* put may fail with a part of its bytes in the file. File contents are    *)
(* sequences of characters, of which Unencodable has no place in the       *)
(* encoding of the file.                                                   *)
(***************************************************************************)
EXTENDS Integers, Sequences, FiniteSets, SequencesExt

CONSTANTS
  Chars,        \* characters of the encoding of the file
  EditCalls,    \* the calls
  Texts,        \* what calls write
  PairLists,    \* the edits of an edit call: sequences of [old, new, all]
  ChunkSizes,   \* max_bytes of a download
  PutFaults     \* whether a put may fail

Unencodable == 0
NoFile == <<-1>>       \* nothing there
IsDirectory == <<-2>>

\* What a client may send, and what the file holds.
Text == Seq(Chars \cup {Unencodable})
Contents == {NoFile, IsDirectory} \cup Seq(Chars)

ASSUME FileEditAssumption ==
  /\ Chars \cap {Unencodable, -1, -2} = {} /\ IsFiniteSet(EditCalls)
  /\ Texts \subseteq Text /\ PairLists \subseteq Seq([old : Text, new : Text, all : BOOLEAN])
  /\ ChunkSizes \subseteq Nat /\ PutFaults \subseteq BOOLEAN

Requests ==
  [op : {"write"}, data : Texts, app : BOOLEAN, dirs : BOOLEAN, dry : BOOLEAN]
  \cup [op : {"upload"}, data : Texts, app : BOOLEAN, dirs : BOOLEAN, valid : BOOLEAN]
  \cup [op : {"edit"}, pairs : PairLists, dry : BOOLEAN]
  \cup [op : {"download"}, max : ChunkSizes]

VARIABLES
  file,    \* NoFile, IsDirectory or the bytes
  parent,  \* the directory of the file exists
  call     \* EditCalls -> record

editVars == <<file, parent, call>>

\* The answer of a call, with what a preview predicts.
Result(ok, created, unchanged, n) == [ok |-> ok, created |-> created, unchanged |-> unchanged, n |-> n]
NoResult == Result(FALSE, FALSE, FALSE, 0)

\* A call: where it is, its request and answer, the bytes it puts, the place or
\* size it has read, the bytes it has read; the rest are ghosts.
Idle == [pc |-> "idle", req |-> [op |-> "none"], res |-> NoResult, out |-> <<>>, at |-> 0, got |-> <<>>,
         fault |-> FALSE, began |-> 0, ended |-> 0, snap |-> NoFile, snapParent |-> FALSE, left |-> NoFile]

EditCall ==
  [pc : {"idle", "prepared", "opened", "stat", "read", "done"}, req : Requests \cup {Idle.req},
   res : [ok : BOOLEAN, created : BOOLEAN, unchanged : BOOLEAN, n : Nat], out : Text, at : Nat, got : Seq(Chars),
   fault : BOOLEAN, began : Nat, ended : Nat, snap : Contents, snapParent : BOOLEAN, left : Contents]

EditTypeOK == file \in Contents /\ parent \in BOOLEAN /\ call \in [EditCalls -> EditCall]

-----------------------------------------------------------------------------
(* Text.                                                                   *)

IsText(s) == s \notin {NoFile, IsDirectory}

\* encodeFromUTF8
CanEncode(s) == \A i \in DOMAIN s : s[i] # Unencodable

OccursAt(s, old, i) == i + Len(old) - 1 <= Len(s) /\ SubSeq(s, i, i + Len(old) - 1) = old

\* strings.Count and strings.Replace, from the left and without overlap: up to a
\* place in s the occurrences, the text they make, and the end of the last one.
ReplaceStep(s, old, new, r, i) ==
  IF i <= r.end THEN r
  ELSE IF OccursAt(s, old, i) THEN [n |-> r.n + 1, s |-> r.s \o new, end |-> i + Len(old) - 1]
  ELSE [r EXCEPT !.s = Append(@, s[i])]

Replaced(s, old, new) ==
  LET upTo[i \in 0..Len(s)] ==
        IF i = 0 THEN [n |-> 0, s |-> <<>>, end |-> 0] ELSE ReplaceStep(s, old, new, upTo[i - 1], i)
  IN  upTo[Len(s)]

\* What one pair makes of a text [ok, s, n]: it must be there and, unless all
\* are replaced, only once. An RE2 pattern replaces all.
EditPair(r, e) ==
  LET x == Replaced(r.s, e.old, e.new)
  IN  IF ~r.ok \/ e.old = <<>> \/ x.n = 0 \/ (~e.all /\ x.n > 1) THEN [r EXCEPT !.ok = FALSE]
      ELSE [ok |-> TRUE, s |-> x.s, n |-> r.n + x.n]

\* All pairs in order, in memory.
ApplyEdits(s, pairs) ==
  LET r[i \in 0..Len(pairs)] == IF i = 0 THEN [ok |-> TRUE, s |-> s, n |-> 0] ELSE EditPair(r[i - 1], pairs[i])
  IN  r[Len(pairs)]

\* encodedResult
EncodedResult(old, data, app) == IF app /\ IsText(old) THEN old \o data ELSE data

-----------------------------------------------------------------------------
(* Steps of a call. `began` and `ended` order the calls; `snap`, `left` are *)
(* what the file held then.                                                 *)

Moment == Cardinality({c \in EditCalls : call[c].pc # "idle"})
            + Cardinality({c \in EditCalls : call[c].pc = "done"})

Begins(c, req, pc, result, out, newParent) ==
  /\ parent' = newParent
  /\ UNCHANGED file
  /\ call' = [call EXCEPT ![c] =
       [pc |-> pc, req |-> req, res |-> result, out |-> out, at |-> 0, got |-> <<>>, fault |-> FALSE,
        began |-> Moment, ended |-> Moment + 1, snap |-> file, snapParent |-> parent, left |-> file]]

Ends(c, result, newFile, fault) ==
  /\ file' = newFile
  /\ UNCHANGED parent
  /\ call' = [call EXCEPT ![c].pc = "done", ![c].res = result, ![c].left = newFile,
                          ![c].fault = fault, ![c].ended = Moment]

PreviewRefused(req, old, dir) ==
  ~CanEncode(req.data) \/ old = IsDirectory \/ (old = NoFile /\ ~req.dirs /\ ~dir)

\* previewWrite: the checks of the write and what it would leave.
Preview(req, old, dir) ==
  IF PreviewRefused(req, old, dir) THEN NoResult
  ELSE Result(TRUE, old = NoFile, old # NoFile /\ EncodedResult(old, req.data, req.app) = old, Len(req.data))

PreviewWrite(c, req) ==
  /\ req.op = "write" /\ req.dry
  /\ Begins(c, req, "done", Preview(req, file, parent), <<>>, parent)

\* WriteFileContent up to the open: make_dirs, whether the file is there, the
\* encoding.
StartWrite(c, req) ==
  /\ req.op = "write" /\ ~req.dry
  /\ Begins(c, req, IF CanEncode(req.data) THEN "prepared" ELSE "done",
            [NoResult EXCEPT !.created = file = NoFile], req.data, parent \/ req.dirs)

\* UploadBase64 up to the open. The bytes are what the text stands for.
StartUpload(c, req) ==
  /\ req.op = "upload" /\ CanEncode(req.data)
  /\ Begins(c, req, IF req.valid THEN "prepared" ELSE "done",
            [NoResult EXCEPT !.created = req.valid /\ file = NoFile], req.data, parent \/ (req.valid /\ req.dirs))

\* EditFileContent up to the open: the file is read, all pairs are applied.
StartEdit(c, req) ==
  LET r == ApplyEdits(file, req.pairs)
      fails == ~IsText(file) \/ ~r.ok
  IN  /\ req.op = "edit"
      /\ IF fails THEN Begins(c, req, "done", NoResult, <<>>, parent)
         ELSE IF req.dry \/ ~CanEncode(r.s)
         THEN Begins(c, req, "done", Result(req.dry, FALSE, FALSE, r.n), <<>>, parent)
         ELSE Begins(c, req, "prepared", Result(FALSE, FALSE, FALSE, r.n), r.s, parent)

Appends(c) == call[c].req.op # "edit" /\ call[c].req.app

Opened(c) == IF file = NoFile \/ ~Appends(c) THEN <<>> ELSE file

\* os.OpenFile, os.WriteFile: created or truncated.
Open(c) ==
  /\ call[c].pc = "prepared"
  /\ IF file = IsDirectory \/ ~parent THEN Ends(c, NoResult, file, FALSE)
     ELSE /\ file' = Opened(c)
          /\ call' = [call EXCEPT ![c].pc = "opened", ![c].at = Len(file')]
          /\ UNCHANGED parent

\* Mutant of PutAt: appended where the file ended when it was opened.
PutAtOpened(c) == IF call[c].at < Len(file) THEN call[c].at ELSE Len(file)

\* O_APPEND puts at the end; without it a file is written from its start.
PutAt(c) == IF Appends(c) THEN Len(file) ELSE 0

\* f.Write of s at position p.
Put(s, p) == SubSeq(file, 1, p) \o s \o SubSeq(file, p + Len(s) + 1, Len(file))

\* The bytes go into the file, or a part of them and an error.
Write(c) ==
  LET out == call[c].out
      n == IF call[c].req.op = "edit" THEN call[c].res.n ELSE Len(out)
  IN  /\ call[c].pc = "opened"
      /\ \/ Ends(c, Result(TRUE, call[c].res.created, Put(out, PutAt(c)) = call[c].snap, n), Put(out, PutAt(c)), FALSE)
         \/ /\ TRUE \in PutFaults
            /\ \E k \in 0..(Len(out) - 1) : Ends(c, NoResult, Put(SubSeq(out, 1, k), PutAt(c)), TRUE)

-----------------------------------------------------------------------------
(* A download, chunk after chunk.                                          *)

StartDownload(c, req) ==
  req.op = "download" /\ Begins(c, req, IF IsText(file) THEN "stat" ELSE "done", NoResult, <<>>, parent)

\* DownloadBase64: the size is read before the bytes.
StatChunk(c) ==
  /\ call[c].pc = "stat"
  /\ call' = [call EXCEPT ![c].pc = "read", ![c].at = Len(file)]
  /\ UNCHANGED <<file, parent>>

AtEof(offset, n, total) == offset + n >= total

\* The next chunk starts where this one ended, until eof.
ReadChunk(c) ==
  LET offset == Len(call[c].got)
      chunk == SubSeq(file, offset + 1, IF offset + call[c].req.max < Len(file) THEN offset + call[c].req.max ELSE Len(file))
      eof == AtEof(offset, Len(chunk), call[c].at)
  IN  /\ call[c].pc = "read"
      /\ call' = [call EXCEPT ![c].got = @ \o chunk, ![c].left = file,
                              ![c].pc = IF eof THEN "done" ELSE "stat", ![c].ended = Moment,
                              ![c].res.ok = eof]
      /\ UNCHANGED <<file, parent>>

\* The file may be there, with any of texts, or not.
EditStarts(texts) ==
  /\ \/ file \in {NoFile, IsDirectory} \cup texts /\ parent = TRUE
     \/ file = NoFile /\ parent = FALSE
  /\ call = [c \in EditCalls |-> Idle]
EditInit == EditStarts({<<>>, <<1>>, <<2, 1, 2>>})

EditNext ==
  \E c \in EditCalls :
    \/ call[c].pc = "idle" /\ \E req \in Requests :
         \/ PreviewWrite(c, req) \/ StartWrite(c, req) \/ StartUpload(c, req)
         \/ StartEdit(c, req) \/ StartDownload(c, req)
    \/ Open(c) \/ Write(c) \/ StatChunk(c) \/ ReadChunk(c)

-----------------------------------------------------------------------------
(* What holds.                                                             *)

Started(c) == call[c].pc # "idle"
Done(c) == call[c].pc = "done"
Changes(c) == Started(c) /\ call[c].req.op # "download" /\ ~(call[c].req.op \in {"write", "edit"} /\ call[c].req.dry)
Before(c, d) == Done(c) /\ call[c].ended < call[d].began
Alone(c) == \A d \in EditCalls \ {c} : Changes(d) => Before(d, c) \/ Before(c, d)

\* The file a request leaves when it is the only one.
Expected(req, old) ==
  IF req.op = "edit" THEN ApplyEdits(old, req.pairs).s ELSE EncodedResult(old, req.data, req.app)

\* A call that no other call overlaps leaves exactly the file it says: all of
\* its pairs or its bytes when it succeeds, the file untouched when it refuses,
\* and a beginning of its bytes only when the put itself fails (EditFileContent,
\* WriteFileContent, UploadBase64).
ExactAlone(c) ==
  Done(c) /\ Changes(c) /\ Alone(c) =>
    LET want == Expected(call[c].req, call[c].snap)
    IN  CASE call[c].res.ok -> call[c].left = want
          [] call[c].fault -> IsPrefix(call[c].left, want)
          [] OTHER -> call[c].left = call[c].snap

\* EditFileContent promises that any failure of an edit aborts it without
\* touching the file. It does not hold: the file is truncated before the bytes
\* are put, and a put that fails leaves it cut off.
EditIsAtomic ==
  \A c \in EditCalls : Done(c) /\ call[c].req.op = "edit" /\ ~call[c].res.ok /\ Alone(c) => call[c].left = call[c].snap

\* A preview and the call it previews, both from the same file and undisturbed,
\* give the same answer; only an edit whose result has no place in the encoding
\* of the file is not refused by its dry run (previewWrite).
DryRunPredicts ==
  \A c, d \in EditCalls :
    /\ Done(c) /\ Done(d) /\ ~Changes(c) /\ Changes(d) /\ Alone(d) /\ ~call[d].fault
    /\ call[c].req.op \in {"write", "edit"} /\ call[d].req.op = call[c].req.op /\ call[c].req = [call[d].req EXCEPT !.dry = TRUE]
    /\ call[c].snap = call[d].snap /\ call[c].snapParent = call[d].snapParent
    => IF call[d].res.ok \/ call[d].req.op = "write"
       THEN /\ call[c].res.ok = call[d].res.ok
            /\ call[c].res.n = call[d].res.n
            /\ call[d].req.op = "write" /\ call[d].res.ok =>
                 call[c].res.created = call[d].res.created /\ call[c].res.unchanged = (call[d].left = call[d].snap)
       ELSE call[c].res.ok => ~CanEncode(Expected(call[d].req, call[d].snap))

OnlyAppends(c) == \A d \in EditCalls : Changes(d) /\ ~Appends(d) => Before(d, c)

\* Bytes that were appended stay, whole and in place, as long as no call that
\* truncates runs after the append began: appends do not overwrite each other
\* (O_APPEND in WriteFileContent and UploadBase64).
AppendKept(c) ==
  Done(c) /\ Changes(c) /\ call[c].res.ok /\ Appends(c) /\ OnlyAppends(c) =>
    \E p \in 0..(Len(file) - Len(call[c].out)) :
      /\ SubSeq(file, p + 1, p + Len(call[c].out)) = call[c].out
      /\ IsText(call[c].snap) => p >= Len(call[c].snap)

\* The chunks of a download join without a gap: while calls only append, they
\* are a beginning of the file, and at eof they hold at least what the file
\* held when the download began (DownloadBase64).
DownloadJoins(c) ==
  Started(c) /\ call[c].req.op = "download" /\ IsText(call[c].snap) /\ OnlyAppends(c) =>
    IsPrefix(call[c].got, file) /\ (Done(c) => IsPrefix(call[c].snap, call[c].got))

\* What a call reports is what it did to the file or read of it, for calls at
\* once as far as they leave each other alone, and nothing that cannot be
\* encoded is ever in the file (WriteFileContent, EditFileContent, previewWrite,
\* UploadBase64, DownloadBase64).
CallsAreExact ==
  EditTypeOK /\ DryRunPredicts /\ \A c \in EditCalls : ExactAlone(c) /\ AppendKept(c) /\ DownloadJoins(c)

-----------------------------------------------------------------------------
(* Why it holds: the invariant behind the proofs of FilesProofs.           *)

EditSpec(texts) == EditStarts(texts) /\ [][EditNext]_editVars

Underway(c) == call[c].pc \in {"prepared", "opened"}
Edited(c) == ApplyEdits(call[c].snap, call[c].req.pairs)

\* What a call knows of itself, whatever the others do.
OwnFacts(c) ==
  /\ Started(c) <=> call[c].req.op # "none"
  /\ Started(c) /\ ~Changes(c) /\ call[c].req.op # "download" =>
       /\ Done(c)
       /\ call[c].req.op = "write" => call[c].res = Preview(call[c].req, call[c].snap, call[c].snapParent)
       /\ call[c].req.op = "edit" => call[c].res = IF IsText(call[c].snap) /\ Edited(c).ok
                                                  THEN Result(TRUE, FALSE, FALSE, Edited(c).n) ELSE NoResult
  /\ Underway(c) \/ (Done(c) /\ Changes(c) /\ call[c].res.ok) =>
       /\ Changes(c) /\ call[c].out \in Seq(Chars)
       /\ call[c].req.op = "edit" => IsText(call[c].snap) /\ Edited(c).ok /\ call[c].out = Edited(c).s /\ call[c].res.n = Edited(c).n
       /\ call[c].req.op # "edit" => call[c].out = call[c].req.data /\ call[c].res.created = (call[c].snap = NoFile)
  /\ call[c].pc \in {"stat", "read"} => call[c].req.op = "download" /\ IsText(call[c].snap)
  /\ Started(c) /\ ~call[c].snapParent => call[c].snap = NoFile
  /\ call[c].fault => Done(c) /\ ~call[c].res.ok

\* The file under a call that runs alone is the one it found, opened or not.
Undisturbed(c) ==
  Underway(c) /\ Alone(c) =>
    /\ parent = (call[c].snapParent \/ (call[c].req.op # "edit" /\ call[c].req.dirs))
    /\ call[c].pc = "prepared" => file = call[c].snap
    /\ call[c].pc = "opened" =>
         /\ parent /\ call[c].snap # IsDirectory
         /\ file = IF call[c].snap = NoFile \/ ~Appends(c) THEN <<>> ELSE call[c].snap

\* Why a call that ran alone and met no fault was refused, or was not.
AnswerFacts(c) ==
  Done(c) /\ Changes(c) /\ Alone(c) /\ ~call[c].fault =>
    /\ call[c].req.op = "write" =>
         /\ call[c].res.ok = ~PreviewRefused(call[c].req, call[c].snap, call[c].snapParent)
         /\ call[c].res.n = IF call[c].res.ok THEN Len(call[c].req.data) ELSE 0
    /\ call[c].req.op = "edit" /\ ~call[c].res.ok =>
         ~IsText(call[c].snap) \/ ~Edited(c).ok \/ ~CanEncode(Edited(c).s)

\* A file that is there stays, and while calls only append it only grows.
Grows(c) ==
  /\ Started(c) /\ IsText(call[c].snap) => IsText(file)
  /\ call[c].pc = "opened" \/ (Done(c) /\ Changes(c) /\ call[c].res.ok) => IsText(file)
  /\ Underway(c) /\ Appends(c) /\ OnlyAppends(c) /\ IsText(call[c].snap) => Len(call[c].snap) <= Len(file)
  /\ Started(c) /\ call[c].req.op = "download" /\ OnlyAppends(c) /\ IsText(call[c].snap) =>
       /\ IsPrefix(call[c].snap, file)
       /\ call[c].pc = "read" => Len(call[c].snap) <= call[c].at /\ call[c].at <= Len(file)

CallInv(c) ==
  /\ Started(c) => call[c].began < Moment
  /\ Done(c) => call[c].ended < Moment
  /\ OwnFacts(c) /\ Undisturbed(c) /\ AnswerFacts(c) /\ ExactAlone(c)
  /\ Grows(c) /\ AppendKept(c) /\ DownloadJoins(c)

EditInv == EditTypeOK /\ (file = NoFile \/ parent) /\ \A c \in EditCalls : CallInv(c)

=============================================================================
