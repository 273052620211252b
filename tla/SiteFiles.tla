------------------------------ MODULE SiteFiles ------------------------------
(***************************************************************************)
(* The file manager: uploads in chunks, with a journal, and operations on  *)
(* a selection of entries.  Every operation that changes a site's public   *)
(* tree holds the host's mutex from its start to its answer; it may fail   *)
(* at any step, the broker may stop, the answer may be lost, and the       *)
(* browser may send any chunk again, early or late.                        *)
(*                                                                         *)
(* A file is a sequence of pieces.  Nobody but its upload touches a        *)
(* staging file, and an upload ID stays with one file of the operator.     *)
(***************************************************************************)
EXTENDS Integers, Sequences, FiniteSets, SequencesExt

CONSTANTS Uploads,      \* numbers of uploads
          Dirs, Names,  \* what paths are made of
          MaxPieces,    \* chunks of an upload
          MaxChanges    \* operations on selections and edits
FilesAssumption == Uploads \subseteq Nat /\ MaxPieces \in Nat

VARIABLES tree,         \* what is at a path
          upload,       \* what the browser uploads: path, pieces, overwrite
          staged,       \* staging files
          records,      \* journals of uploads
          published,    \* what an upload has put at its path, in order
          told,         \* uploads answered as complete
          op,           \* the operation on a selection that has the mutex
          report,       \* what a failed move does not count as moved
          changes

fileVars == <<tree, upload, staged, records, published, told, op, report, changes>>
uploadVars == <<upload, staged, records, published, told>>

Paths  == Dirs \X Names
Absent == <<-1>>        Directory == <<-2>>       Torn == -3
Original == <<1>>       Edited    == <<2>>        Archive  == <<3>>        Member == <<4>>
Piece(u, n) == 10 * u + n
Whole(u)    == [n \in 1 .. upload[u].pieces |-> Piece(u, n)]
IsFile(c)   == c \notin {Absent, Directory}

NoUpload == [path |-> CHOOSE p \in Paths : TRUE, pieces |-> -1, overwrite |-> FALSE]
NoRecord == [state |-> "active", next |-> 0]
NoOp     == [kind |-> "none", left |-> <<>>, dest |-> CHOOSE d \in Dirs : TRUE, overwrite |-> FALSE]

-----------------------------------------------------------------------------
\* Uploads.

queueUpload(u, p, pieces, overwrite) ==
    /\ upload[u] = NoUpload
    /\ upload' = [upload EXCEPT ![u] = [path |-> p, pieces |-> pieces, overwrite |-> overwrite]]
    /\ UNCHANGED <<tree, staged, records, published, told, op, report, changes>>

\* The size of a staging file is that of its pieces: a torn one is no multiple.
SizeIs(f, n)              == Len(f) = n /\ ~Contains(f, Torn)
sameChunk(f, u, off, len) == Len(f) >= off + len /\ (len = 1 => f[off + 1] = Piece(u, off + 1))
publishedUploadAt(u, n)   == IsFile(tree[upload[u].path]) /\ SizeIs(tree[upload[u].path], n)

\* The journal allows the chunk: it is the next one, or it was appended before the
\* journal was, or it has been confirmed and is the last: then nothing is written.
Resumed(f, r, u, off, len) ==
    IF SizeIs(f, r.next) THEN r.next
    ELSE IF SizeIs(f, off + len) /\ r.next = off /\ sameChunk(f, u, off, len) THEN off + len
    ELSE -1

\* Mutant of AcceptsOffset: a chunk beyond what is there is accepted.
AcceptsAnyOffset(f, u, off, len, next) ==
    off < next => sameChunk(f, u, off, len) /\ off + len = next /\ next = upload[u].pieces

AcceptsOffset(f, u, off, len, next) ==
    IF off < next THEN sameChunk(f, u, off, len) /\ off + len = next /\ next = upload[u].pieces
                  ELSE off = next

\* How far a call comes: each stage is reached only after the one before it.
Stages == <<"opened", "torn", "written", "saved", "publishing", "renamed", "complete">>

UploadFileChunk(u, off) ==
    LET p     == upload[u].path
        len   == IF off < upload[u].pieces THEN 1 ELSE 0
        final == off + len = upload[u].pieces
        r     == records[u]
        f     == IF staged[u] = Absent /\ r.state = "active" THEN <<>> ELSE staged[u]
        next  == Resumed(f, r, u, off, len)
        new   == IF off < next \/ len = 0 THEN f ELSE Append(f, Piece(u, off + 1))
        free  == IF upload[u].overwrite THEN tree[p] # Directory ELSE tree[p] = Absent
    IN  /\ upload[u] # NoUpload /\ off \in 0 .. upload[u].pieces /\ op = NoOp
        /\ \/ /\ r.state = "complete" /\ publishedUploadAt(u, r.next)
              /\ told' = told \union {u} /\ UNCHANGED <<tree, staged, records, published>>
           \/ /\ r.state = "publishing" /\ staged[u] = Absent /\ publishedUploadAt(u, r.next)
              /\ records' = [records EXCEPT ![u].state = "complete"]
              /\ told' = told \union {u} /\ UNCHANGED <<tree, staged, published>>
           \/ /\ r.state # "complete" /\ f # Absent
              /\ \E i \in DOMAIN Stages :
                    LET Reached(s) == \E j \in 1 .. i : Stages[j] = s
                        after == IF Reached("complete") THEN "complete"
                                 ELSE IF Reached("publishing") THEN "publishing" ELSE r.state
                    IN  /\ i > 1 => next # -1 /\ AcceptsOffset(f, u, off, len, next)
                        /\ Stages[i] = "torn" => new # f
                        /\ Reached("publishing") => final
                        /\ Reached("renamed") => free
                        /\ records' = [records EXCEPT ![u] =
                              [state |-> after,
                               next  |-> IF Reached("saved") THEN Len(new)
                                         ELSE IF next = -1 THEN r.next ELSE next]]
                        /\ staged' = [staged EXCEPT ![u] =
                              IF Reached("renamed") THEN Absent ELSE IF Reached("written") THEN new
                              ELSE IF Stages[i] = "torn" THEN Append(f, Torn) ELSE f]
                        /\ IF Reached("renamed")
                           THEN /\ tree' = [tree EXCEPT ![p] = new]
                                /\ published' = [published EXCEPT ![u] = Append(@, new)]
                           ELSE UNCHANGED <<tree, published>>
                        /\ told' = IF Reached("complete") THEN told \union {u} ELSE told
    /\ UNCHANGED <<upload, op, changes>> /\ report' = {}

-----------------------------------------------------------------------------
\* The editor, and operations on one entry.

Change == op = NoOp /\ changes < MaxChanges /\ changes' = changes + 1 /\ report' = {}

WriteFile(p) ==
    /\ Change /\ tree[p] # Directory
    /\ tree' = [tree EXCEPT ![p] = Edited]
    /\ UNCHANGED <<uploadVars, op>>

RenameFile(p, name) ==
    /\ Change /\ tree[p] # Absent /\ tree[<<p[1], name>>] = Absent
    /\ tree' = [tree EXCEPT ![<<p[1], name>>] = tree[p], ![p] = Absent]
    /\ UNCHANGED <<uploadVars, op>>

\* A directory that cannot be given to the site's user is removed again.
CreateDirectory(p) ==
    /\ Change /\ tree[p] = Absent
    /\ tree' = [tree EXCEPT ![p] = Directory]
    /\ UNCHANGED <<uploadVars, op>>

\* The archive is written beside its place and moved there, over nothing.
ArchiveFiles(p) ==
    /\ Change /\ tree[p] = Absent /\ \E q \in Paths : tree[q] # Absent
    /\ tree' = [tree EXCEPT ![p] = Archive]
    /\ UNCHANGED <<uploadVars, op>>

-----------------------------------------------------------------------------
\* Operations on a selection: one entry after the other, until one fails.

Begin(kind, selection, dest, overwrite) ==
    /\ Change
    /\ op' = [kind |-> kind, left |-> selection, dest |-> dest, overwrite |-> overwrite]
    /\ UNCHANGED <<tree, uploadVars>>

\* Everything selected is measured before anything is deleted.
DeleteFiles(selection) ==
    /\ \A i \in DOMAIN selection : tree[selection[i]] # Absent
    /\ Begin("delete", selection, NoOp.dest, FALSE)
CopyFiles(selection, dest, overwrite) == Begin("copy", selection, dest, overwrite)
MoveFiles(selection, dest, overwrite) == Begin("move", selection, dest, overwrite)
ExtractFile(p, members) == tree[p] = Archive /\ Begin("extract", members, NoOp.dest, FALSE)

Current == Head(op.left)
Target  == <<op.dest, Current[2]>>
Done    == op' = IF Len(op.left) = 1 THEN NoOp ELSE [op EXCEPT !.left = Tail(@)]

\* What a failed move does not report as moved should be where it was.
Failed == /\ op' = NoOp
          /\ report' = IF op.kind # "move" THEN {}
                       ELSE {<<op.left[i], tree[op.left[i]]>> : i \in DOMAIN op.left}

removeSelected ==
    /\ op.kind = "delete" /\ tree[Current] # Absent
    /\ tree' = [tree EXCEPT ![Current] = Absent]
    /\ Done

\* With overwrite the entry in the way is removed first.
moveSelected ==
    /\ op.kind = "move" /\ tree[Current] # Absent
    /\ LET cleared == IF op.overwrite THEN [tree EXCEPT ![Target] = Absent] ELSE tree
       IN  \/ /\ cleared[Current] # Absent /\ cleared[Target] = Absent
              /\ tree' = [cleared EXCEPT ![Target] = cleared[Current], ![Current] = Absent]
              /\ Done /\ UNCHANGED report
           \/ tree' = cleared /\ Failed

\* A copy is made under another name before anything is removed.
copySelected ==
    /\ op.kind = "copy" /\ tree[Current] # Absent
    /\ LET cleared == IF op.overwrite THEN [tree EXCEPT ![Target] = Absent] ELSE tree
       IN  \/ /\ cleared[Target] = Absent
              /\ tree' = [cleared EXCEPT ![Target] = tree[Current]]
              /\ Done /\ UNCHANGED report
           \/ tree' = cleared /\ Failed

extractSelected ==
    /\ op.kind = "extract" /\ tree[Current] = Absent
    /\ tree' = [tree EXCEPT ![Current] = Member]
    /\ Done

Selected ==
    /\ op # NoOp
    /\ \/ (removeSelected \/ extractSelected) /\ UNCHANGED report
       \/ moveSelected \/ copySelected
       \/ Failed /\ UNCHANGED tree
    /\ UNCHANGED <<uploadVars, changes>>

BrokerStops ==
    /\ op # NoOp
    /\ op' = NoOp
    /\ UNCHANGED <<tree, uploadVars, report, changes>>

-----------------------------------------------------------------------------
Selections == {<<p>> : p \in Paths} \union {s \in Paths \X Paths : s[1] # s[2]}

FilesInit ==
    /\ tree \in [Paths -> {Absent, Original}]
    /\ upload = [u \in Uploads |-> NoUpload] /\ staged = [u \in Uploads |-> Absent]
    /\ records = [u \in Uploads |-> NoRecord] /\ published = [u \in Uploads |-> <<>>]
    /\ told = {} /\ op = NoOp /\ report = {} /\ changes = 0

FilesNext ==
    \/ \E u \in Uploads :
          \/ \E p \in Paths, n \in 0 .. MaxPieces, overwrite \in BOOLEAN : queueUpload(u, p, n, overwrite)
          \/ \E off \in 0 .. MaxPieces : UploadFileChunk(u, off)
    \/ \E p \in Paths : \/ WriteFile(p) \/ CreateDirectory(p) \/ ArchiveFiles(p)
                        \/ \E name \in Names : RenameFile(p, name)
    \/ changes < MaxChanges /\
       \E s \in Selections : \/ DeleteFiles(s)
                             \/ \E p \in Paths : ExtractFile(p, s)
                             \/ \E d \in Dirs, overwrite \in BOOLEAN :
                                   CopyFiles(s, d, overwrite) \/ MoveFiles(s, d, overwrite)
    \/ Selected \/ BrokerStops

FilesSpec == FilesInit /\ [][FilesNext]_fileVars

-----------------------------------------------------------------------------
FilesTypeOK ==
    /\ DOMAIN tree = Paths /\ \A p \in Paths : tree[p] \in Seq(Int)
    /\ \A u \in Uploads : records[u].next \in 0 .. MaxPieces
    /\ told \subseteq Uploads /\ changes \in 0 .. MaxChanges

\* However often its chunks are sent, and wherever a call breaks off, an upload
\* puts its file in place at most once, whole, and is complete only after that.
UploadsAreExact ==
    \A u \in Uploads :
        /\ published[u] \in {<<>>, <<Whole(u)>>}
        /\ u \in told => published[u] # <<>>

\* A selected entry is moved or it is not: what a failed move has not counted is
\* where it was.  (files_manager.md: "Multi-selection operations commit one
\* top-level selection at a time.")
OneSelectionAtATime == \A e \in report : tree[e[1]] = e[2]
=============================================================================
