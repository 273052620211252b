-------------------------- MODULE SiteContentProofs --------------------------
(***************************************************************************)
(* What becomes of a site's files and content, as theorems of the          *)
(* specification of the work on sites: the safety of uploads, for any      *)
(* number of uploads, pieces and operations on selections; and of jobs     *)
(* that replace content, and what they answer, for any number of jobs,     *)
(* calls and stops.                                                        *)
(***************************************************************************)
EXTENDS SiteWork, SequenceTheorems, TLAPS

\* A step of that work is a step of its files, or leaves them alone.
LEMMA FilesStep ==
  ASSUME [Next]_vars
  PROVE  [F!FilesNext]_F!fileVars
  <1>1. CASE Files
    BY <1>1 DEF Files
  <1>2. CASE Content \/ Settings \/ Schedule \/ Record \/ UNCHANGED vars
    BY <1>2 DEF Content, Settings, Schedule, Record, vars, manager, F!fileVars
  <1> QED BY <1>1, <1>2 DEF Next

\* The specification of the work on sites implements that of their files.
THEOREM FilesAreRefined == Spec => F!FilesSpec
  <1>1. Init => F!FilesInit
    BY DEF Init
  <1>2. [Next]_vars => [F!FilesNext]_F!fileVars
    BY FilesStep
  <1> QED BY <1>1, <1>2, PTL DEF Spec, F!FilesSpec

-----------------------------------------------------------------------------
(***************************************************************************)
(* Uploads.  A staging file is the beginning of its upload's file, or it is*)
(* torn and no chunk is accepted any more; it is gone exactly when it was  *)
(* put in place, and the journal of the upload knows that before it is.    *)
(***************************************************************************)
UploadRow == [path : F!Paths \cup {F!NoUpload.path}, pieces : Nat \cup {-1}, overwrite : BOOLEAN]

UploadRecord == [state : {"active", "publishing", "complete"}, next : Nat]

UploadTypes ==
    /\ upload \in [Uploads -> UploadRow] /\ staged \in [Uploads -> Seq(Int)]
    /\ records \in [Uploads -> UploadRecord] /\ published \in [Uploads -> Seq(Seq(Int))]
    /\ told \subseteq Uploads

\* The first pieces of a file, and what may be in its staging file.
Upto(u, k) == [n \in 1..k |-> F!Piece(u, n)]

HasTorn(f) == \E i \in 1..Len(f) : f[i] = F!Torn

Partial(u, f) == f = F!Absent \/ HasTorn(f) \/ \E k \in 0..upload[u].pieces : f = Upto(u, k)

\* The journal says that the file was put in place.
IsPut(u) ==
    \/ records[u].state = "complete"
    \/ records[u].state = "publishing" /\ staged[u] = F!Absent

UploadFits(u) ==
    /\ upload[u] = F!NoUpload =>
          staged[u] = F!Absent /\ records[u].state = "active" /\ published[u] = <<>>
    /\ upload[u] # F!NoUpload => upload[u].pieces \in Nat
    /\ Partial(u, staged[u])
    /\ published[u] = IF IsPut(u) THEN <<F!Whole(u)>> ELSE <<>>
    /\ u \in told => IsPut(u)

UploadsInv == UploadTypes /\ \A u \in Uploads : UploadFits(u)

\* What a call for a chunk starts from, and what it makes.
ChunkLength(u, off) == IF off < upload[u].pieces THEN 1 ELSE 0

Begun(u) == IF staged[u] = F!Absent /\ records[u].state = "active" THEN <<>> ELSE staged[u]

NextPiece(u, off) == F!Resumed(Begun(u), records[u], u, off, ChunkLength(u, off))

Grown(u, off) ==
    IF off < NextPiece(u, off) \/ ChunkLength(u, off) = 0 THEN Begun(u)
    ELSE Append(Begun(u), F!Piece(u, off + 1))

LEMMA PieceIs == \A u \in Uploads, n \in Nat : F!Piece(u, n) \in Nat /\ (n > 0 => F!Piece(u, n) > 0)
  BY FilesAssumption DEF F!FilesAssumption, F!Piece

LEMMA UptoIs ==
  ASSUME NEW u \in Uploads, NEW k \in Nat
  PROVE  /\ Upto(u, k) \in Seq(Int) /\ Len(Upto(u, k)) = k /\ Upto(u, k) # F!Absent
         /\ Append(Upto(u, k), F!Piece(u, k + 1)) = Upto(u, k + 1)
         /\ k = 0 => Upto(u, k) = <<>>
  <1>1. \A n \in 1..(k + 1) : F!Piece(u, n) \in Int /\ F!Piece(u, n) > 0
    BY PieceIs
  <1> DEFINE s == Upto(u, k)
             t == Upto(u, k + 1)
  <1>2. s \in Seq(Int) /\ Len(s) = k /\ \A n \in 1..k : s[n] = F!Piece(u, n)
    BY <1>1 DEF Upto
  <1>3. t \in Seq(Int) /\ Len(t) = k + 1 /\ \A n \in 1..(k + 1) : t[n] = F!Piece(u, n)
    BY <1>1 DEF Upto
  <1>4. k = 0 => s = <<>>
    BY <1>2
  <1>5. s # F!Absent
    <2>1. CASE k = 1
      <3>1. s[1] > 0
        BY <1>1, <1>2, <2>1
      <3> QED BY <3>1 DEF F!Absent
    <2>2. CASE k # 1
      BY <1>2, <2>2 DEF F!Absent
    <2> QED BY <2>1, <2>2
  <1> HIDE DEF s, t
  <1>6. Append(s, F!Piece(u, k + 1)) = t
    <2>1. F!Piece(u, k + 1) \in Int
      BY <1>1
    <2>2. /\ Append(s, F!Piece(u, k + 1)) \in Seq(Int) /\ Len(Append(s, F!Piece(u, k + 1))) = k + 1
          /\ \A n \in 1..(k + 1) : Append(s, F!Piece(u, k + 1))[n] = t[n]
      BY <1>2, <1>3, <2>1
    <2> QED BY <1>3, <2>2, SeqEqual
  <1> QED BY <1>2, <1>4, <1>5, <1>6 DEF s, t

LEMMA SizeIsWhole ==
  ASSUME NEW u \in Uploads, NEW f \in Seq(Int), Partial(u, f), f # F!Absent, NEW n, F!SizeIs(f, n)
  PROVE  \E k \in 0..upload[u].pieces : f = Upto(u, k) /\ n = k
  <1>1. ~ HasTorn(f) /\ Len(f) = n
    BY DEF F!SizeIs, HasTorn, F!Contains
  <1>2. PICK k \in 0..upload[u].pieces : f = Upto(u, k)
    BY <1>1 DEF Partial
  <1>3. k \in Nat
    OBVIOUS
  <1>4. Len(Upto(u, k)) = k
    BY <1>3, UptoIs
  <1> QED BY <1>1, <1>2, <1>4

\* A chunk that is accepted goes to the end of what is there, or is there already;
\* with the last one the file is whole.
LEMMA ChunkGrows ==
  ASSUME UploadTypes, NEW u \in Uploads, UploadFits(u), upload[u] # F!NoUpload,
         NEW off \in 0..upload[u].pieces, Begun(u) # F!Absent, NextPiece(u, off) # -1,
         F!AcceptsOffset(Begun(u), u, off, ChunkLength(u, off), NextPiece(u, off))
  PROVE  /\ NextPiece(u, off) \in Nat
         /\ \E k \in 0..upload[u].pieces : Grown(u, off) = Upto(u, k)
         /\ off + ChunkLength(u, off) = upload[u].pieces => Grown(u, off) = F!Whole(u)
  <1> DEFINE f    == Begun(u)
             len  == ChunkLength(u, off)
             next == NextPiece(u, off)
             max  == upload[u].pieces
             first == records[u].next
  <1>1. /\ max \in Nat /\ off \in Nat /\ off <= max /\ first \in Nat
        /\ len \in {0, 1} /\ (len = 1 <=> off < max) /\ (len = 0 <=> off = max)
    BY DEF UploadTypes, UploadRecord, UploadFits, ChunkLength
  <1>2. f \in Seq(Int) /\ Partial(u, f)
    <2>1. staged[u] \in Seq(Int) /\ Partial(u, staged[u])
      BY DEF UploadTypes, UploadFits
    <2>2. <<>> = Upto(u, 0) /\ 0 \in 0..max
      <3>1. 0 \in Nat /\ 0 \in 0..max
        BY <1>1
      <3>2. Upto(u, 0) = <<>>
        BY <3>1, UptoIs
      <3> QED BY <3>1, <3>2
    <2> QED BY <2>1, <2>2 DEF Partial, Begun
  <1>3. \/ F!SizeIs(f, first) /\ next = first
        \/ F!SizeIs(f, off + len) /\ first = off /\ next = off + len
    BY DEF NextPiece, F!Resumed
  <1> HIDE DEF f, len, next
  <1>4. PICK k \in 0..max : f = Upto(u, k) /\ next = k
    <2>1. f # F!Absent
      BY DEF f
    <2>2. CASE F!SizeIs(f, first) /\ next = first
      BY <1>2, <2>1, <2>2, SizeIsWhole
    <2>3. CASE F!SizeIs(f, off + len) /\ next = off + len
      BY <1>2, <2>1, <2>3, SizeIsWhole
    <2> QED BY <1>3, <2>2, <2>3
  <1>5. IF off < next THEN off + len = next /\ next = max ELSE off = next
    BY DEF F!AcceptsOffset, f, len, next
  <1>6. Grown(u, off) = IF off < next \/ len = 0 THEN f ELSE Append(f, F!Piece(u, off + 1))
    BY DEF Grown, f, len, next
  <1>7. CASE off < next \/ len = 0
    <2>1. k = max
      BY <1>1, <1>4, <1>5, <1>7
    <2>2. Grown(u, off) = Upto(u, max)
      BY <1>4, <1>6, <1>7, <2>1
    <2> QED BY <1>1, <1>4, <2>1, <2>2 DEF F!Whole, Upto, next
  <1>8. CASE ~ (off < next) /\ len # 0
    <2>1. k = off /\ k + 1 \in 0..max
      BY <1>1, <1>4, <1>5, <1>8
    <2>2. Grown(u, off) = Upto(u, k + 1)
      <3>1. k \in Nat /\ off = k
        BY <2>1
      <3>2. Append(Upto(u, k), F!Piece(u, k + 1)) = Upto(u, k + 1)
        BY <3>1, UptoIs
      <3> QED BY <1>4, <1>6, <1>8, <3>1, <3>2
    <2>3. off + len = max => k + 1 = max
      BY <1>1, <1>8, <2>1
    <2> QED BY <1>4, <2>1, <2>2, <2>3 DEF F!Whole, Upto, next, len
  <1> QED BY <1>7, <1>8

\* How far a call comes, by the number of its stage.
LEMMA StagesAre ==
  /\ DOMAIN F!Stages = 1..7
  /\ \A i \in 1..7 : /\ (\E j \in 1..i : F!Stages[j] = "written") <=> i >= 3
                     /\ (\E j \in 1..i : F!Stages[j] = "saved") <=> i >= 4
                     /\ (\E j \in 1..i : F!Stages[j] = "publishing") <=> i >= 5
                     /\ (\E j \in 1..i : F!Stages[j] = "renamed") <=> i >= 6
                     /\ (\E j \in 1..i : F!Stages[j] = "complete") <=> i = 7
                     /\ F!Stages[i] = "torn" <=> i = 2
  <1> DEFINE s == F!Stages
  <1>1. /\ DOMAIN s = 1..7 /\ s[1] = "opened" /\ s[2] = "torn" /\ s[3] = "written" /\ s[4] = "saved"
        /\ s[5] = "publishing" /\ s[6] = "renamed" /\ s[7] = "complete"
    BY DEF F!Stages
  <1> HIDE DEF s
  <1>2. ASSUME NEW i \in 1..7
        PROVE  /\ (\E j \in 1..i : s[j] = "written") <=> i >= 3
               /\ (\E j \in 1..i : s[j] = "saved") <=> i >= 4
               /\ (\E j \in 1..i : s[j] = "publishing") <=> i >= 5
               /\ (\E j \in 1..i : s[j] = "renamed") <=> i >= 6
               /\ (\E j \in 1..i : s[j] = "complete") <=> i = 7
               /\ s[i] = "torn" <=> i = 2
    <2>1. \A j \in 1..i : j = 1 \/ j = 2 \/ j = 3 \/ j = 4 \/ j = 5 \/ j = 6 \/ j = 7
      OBVIOUS
    <2> QED BY <1>1, <2>1
  <1> QED BY <1>1, <1>2 DEF s

\* A call for a chunk: the file is found in place, or it is worked on up to a stage.
ChunkEnds(u, off, i) ==
    LET r    == records[u]
        f    == Begun(u)
        next == NextPiece(u, off)
        new  == Grown(u, off) IN
    /\ i > 1 => next # -1 /\ F!AcceptsOffset(f, u, off, ChunkLength(u, off), next)
    /\ i = 2 => new # f
    /\ i >= 5 => off + ChunkLength(u, off) = upload[u].pieces
    /\ records' = [records EXCEPT ![u] =
          [state |-> IF i = 7 THEN "complete" ELSE IF i >= 5 THEN "publishing" ELSE r.state,
           next  |-> IF i >= 4 THEN Len(new) ELSE IF next = -1 THEN r.next ELSE next]]
    /\ staged' = [staged EXCEPT ![u] = IF i >= 6 THEN F!Absent ELSE IF i >= 3 THEN new
                                       ELSE IF i = 2 THEN Append(f, F!Torn) ELSE f]
    /\ published' = IF i >= 6 THEN [published EXCEPT ![u] = Append(@, new)] ELSE published
    /\ told' = IF i = 7 THEN told \cup {u} ELSE told

LEMMA ChunkIs ==
  ASSUME NEW u \in Uploads, NEW off, F!UploadFileChunk(u, off)
  PROVE  /\ upload' = upload /\ upload[u] # F!NoUpload /\ off \in 0..upload[u].pieces
         /\ \/ /\ records[u].state = "complete" /\ told' = told \cup {u}
               /\ UNCHANGED <<staged, records, published>>
            \/ /\ records[u].state = "publishing" /\ staged[u] = F!Absent /\ told' = told \cup {u}
               /\ records' = [records EXCEPT ![u].state = "complete"] /\ UNCHANGED <<staged, published>>
            \/ /\ records[u].state # "complete" /\ Begun(u) # F!Absent
               /\ \E i \in 1..7 : ChunkEnds(u, off, i)
  <1> DEFINE len  == ChunkLength(u, off)
             f    == Begun(u)
             next == NextPiece(u, off)
             new  == Grown(u, off)
             Reached(s, i) == \E j \in 1..i : F!Stages[j] = s
  <1>1. upload' = upload /\ upload[u] # F!NoUpload /\ off \in 0..upload[u].pieces
    BY DEF F!UploadFileChunk
  <1>2. CASE /\ records[u].state = "complete" /\ told' = told \cup {u}
             /\ UNCHANGED <<staged, records, published>>
    BY <1>1, <1>2
  <1>3. CASE /\ records[u].state = "publishing" /\ staged[u] = F!Absent /\ told' = told \cup {u}
             /\ records' = [records EXCEPT ![u].state = "complete"] /\ UNCHANGED <<staged, published>>
    BY <1>1, <1>3
  <1>4. ASSUME records[u].state # "complete", f # F!Absent, NEW i \in DOMAIN F!Stages,
               i > 1 => next # -1 /\ F!AcceptsOffset(f, u, off, len, next),
               F!Stages[i] = "torn" => new # f,
               Reached("publishing", i) => off + len = upload[u].pieces,
               records' = [records EXCEPT ![u] =
                  [state |-> IF Reached("complete", i) THEN "complete"
                             ELSE IF Reached("publishing", i) THEN "publishing" ELSE records[u].state,
                   next  |-> IF Reached("saved", i) THEN Len(new)
                             ELSE IF next = -1 THEN records[u].next ELSE next]],
               staged' = [staged EXCEPT ![u] =
                  IF Reached("renamed", i) THEN F!Absent ELSE IF Reached("written", i) THEN new
                  ELSE IF F!Stages[i] = "torn" THEN Append(f, F!Torn) ELSE f],
               IF Reached("renamed", i) THEN published' = [published EXCEPT ![u] = Append(@, new)]
               ELSE published' = published,
               told' = IF Reached("complete", i) THEN told \cup {u} ELSE told
        PROVE  \E j \in 1..7 : ChunkEnds(u, off, j)
    <2>1. /\ i \in 1..7 /\ (Reached("written", i) <=> i >= 3) /\ (Reached("saved", i) <=> i >= 4)
          /\ (Reached("publishing", i) <=> i >= 5) /\ (Reached("renamed", i) <=> i >= 6)
          /\ (Reached("complete", i) <=> i = 7) /\ (F!Stages[i] = "torn" <=> i = 2)
      BY StagesAre
    <2> HIDE DEF Reached, len, f, next, new
    <2>2. ChunkEnds(u, off, i)
      BY <1>4, <2>1 DEF ChunkEnds, len, f, next, new
    <2> QED BY <2>1, <2>2
  <1>5. \/ /\ records[u].state = "complete" /\ told' = told \cup {u}
           /\ UNCHANGED <<staged, records, published>>
        \/ /\ records[u].state = "publishing" /\ staged[u] = F!Absent /\ told' = told \cup {u}
           /\ records' = [records EXCEPT ![u].state = "complete"] /\ UNCHANGED <<staged, published>>
        \/ /\ records[u].state # "complete" /\ f # F!Absent
           /\ \E i \in DOMAIN F!Stages :
               /\ i > 1 => next # -1 /\ F!AcceptsOffset(f, u, off, len, next)
               /\ F!Stages[i] = "torn" => new # f
               /\ Reached("publishing", i) => off + len = upload[u].pieces
               /\ records' = [records EXCEPT ![u] =
                  [state |-> IF Reached("complete", i) THEN "complete"
                             ELSE IF Reached("publishing", i) THEN "publishing" ELSE records[u].state,
                   next  |-> IF Reached("saved", i) THEN Len(new)
                             ELSE IF next = -1 THEN records[u].next ELSE next]]
               /\ staged' = [staged EXCEPT ![u] =
                  IF Reached("renamed", i) THEN F!Absent ELSE IF Reached("written", i) THEN new
                  ELSE IF F!Stages[i] = "torn" THEN Append(f, F!Torn) ELSE f]
               /\ IF Reached("renamed", i) THEN published' = [published EXCEPT ![u] = Append(@, new)]
                  ELSE published' = published
               /\ told' = IF Reached("complete", i) THEN told \cup {u} ELSE told
    BY Zenon DEF F!UploadFileChunk, ChunkLength, Begun, NextPiece, Grown
  <1> HIDE DEF Reached, len, f, next, new
  <1> QED BY <1>1, <1>2, <1>3, <1>4, <1>5 DEF f

\* What is said of an upload stays true when nothing of it changes.
LEMMA UploadStays ==
  ASSUME NEW u \in Uploads, UploadFits(u), upload'[u] = upload[u], staged'[u] = staged[u],
         records'[u] = records[u], published'[u] = published[u], u \in told' => u \in told
  PROVE  UploadFits(u)'
  <1>1. Partial(u, staged[u])'
    BY DEF UploadFits, Partial, HasTorn, Upto, F!Piece
  <1>2. IsPut(u)' <=> IsPut(u)
    BY DEF IsPut
  <1>3. F!Whole(u)' = F!Whole(u)
    BY DEF F!Whole, F!Piece
  <1> QED BY <1>1, <1>2, <1>3 DEF UploadFits

\* A call that works on the staging file.
LEMMA ChunkKeeps ==
  ASSUME UploadsInv, NEW u \in Uploads, NEW off \in 0..upload[u].pieces, upload[u] # F!NoUpload, upload' = upload,
         records[u].state # "complete", Begun(u) # F!Absent, NEW i \in 1..7, ChunkEnds(u, off, i)
  PROVE  UploadsInv'
  <1> DEFINE f    == Begun(u)
             len  == ChunkLength(u, off)
             next == NextPiece(u, off)
             new  == Grown(u, off)
             file == IF i >= 6 THEN F!Absent ELSE IF i >= 3 THEN new ELSE IF i = 2 THEN Append(f, F!Torn) ELSE f
             saved == [state |-> IF i = 7 THEN "complete" ELSE IF i >= 5 THEN "publishing" ELSE records[u].state,
                       next  |-> IF i >= 4 THEN Len(new) ELSE IF next = -1 THEN records[u].next ELSE next]
  <1>1. UploadTypes /\ UploadFits(u) /\ upload[u].pieces \in Nat
    BY DEF UploadsInv, UploadFits
  <1>2. /\ staged' = [staged EXCEPT ![u] = file] /\ records' = [records EXCEPT ![u] = saved]
        /\ published' = IF i >= 6 THEN [published EXCEPT ![u] = Append(@, new)] ELSE published
        /\ told' = IF i = 7 THEN told \cup {u} ELSE told
        /\ i > 1 => next # -1 /\ F!AcceptsOffset(f, u, off, len, next)
        /\ i >= 5 => off + len = upload[u].pieces
    BY DEF ChunkEnds
  <1>3. f \in Seq(Int) /\ Partial(u, f) /\ f # F!Absent
    <2>1. staged[u] \in Seq(Int) /\ Partial(u, staged[u])
      BY <1>1 DEF UploadTypes, UploadFits
    <2>2. Partial(u, <<>>)
      <3>1. 0 \in Nat /\ 0 \in 0..upload[u].pieces
        BY <1>1
      <3>2. Upto(u, 0) = <<>>
        BY <3>1, UptoIs
      <3> QED BY <3>1, <3>2 DEF Partial
    <2> QED BY <2>1, <2>2 DEF Begun
  <1>4. next \in Nat \cup {-1} /\ records[u] \in UploadRecord
    BY <1>1 DEF NextPiece, F!Resumed, ChunkLength, UploadTypes, UploadRecord
  <1>5. ~ IsPut(u) /\ published[u] = <<>> /\ u \notin told
    <2>1. ~ IsPut(u)
      BY DEF IsPut, Begun
    <2> QED BY <1>1, <2>1 DEF UploadFits
  <1>6. ASSUME i > 1
        PROVE  /\ new \in Seq(Int) /\ new # F!Absent /\ \E k \in 0..upload[u].pieces : new = Upto(u, k)
               /\ i >= 5 => new = F!Whole(u)
    <2>1. PICK k \in 0..upload[u].pieces : new = Upto(u, k)
      BY <1>1, <1>2, <1>6, ChunkGrows
    <2>2. off + len = upload[u].pieces => new = F!Whole(u)
      BY <1>1, <1>2, <1>6, ChunkGrows
    <2>3. k \in Nat
      OBVIOUS
    <2>4. Upto(u, k) \in Seq(Int) /\ Upto(u, k) # F!Absent
      BY <2>3, UptoIs
    <2> QED BY <1>2, <2>1, <2>2, <2>4
  <1> HIDE DEF f, len, next, new
  <1>7. /\ file \in Seq(Int) /\ Partial(u, file) /\ (file = F!Absent <=> i >= 6)
    <2>1. CASE i >= 6
      BY <2>1 DEF Partial, F!Absent
    <2>2. CASE i >= 3 /\ ~ (i >= 6)
      <3>1. file = new /\ i > 1
        BY <2>2
      <3> HIDE DEF file
      <3> QED BY <1>6, <2>2, <3>1 DEF Partial
    <2>3. CASE i = 2
      <3>1. file = Append(f, F!Torn) /\ F!Torn \in Int
        BY <2>3 DEF F!Torn
      <3> HIDE DEF file
      <3>2. file \in Seq(Int) /\ Len(file) = Len(f) + 1 /\ Len(f) \in Nat /\ file[Len(f) + 1] = F!Torn
        BY <1>3, <3>1
      <3>3. HasTorn(file)
        BY <3>2 DEF HasTorn
      <3>4. file # F!Absent
        BY <3>2 DEF F!Absent, F!Torn
      <3> QED BY <2>3, <3>2, <3>3, <3>4 DEF Partial
    <2>4. CASE i = 1
      <3>1. file = f
        BY <2>4
      <3> HIDE DEF file
      <3> QED BY <1>3, <2>4, <3>1
    <2> QED BY <2>1, <2>2, <2>3, <2>4
  <1>8. saved \in UploadRecord /\ saved.state = IF i = 7 THEN "complete" ELSE IF i >= 5 THEN "publishing"
                                                ELSE records[u].state
    <2>1. i >= 4 => Len(new) \in Nat
      BY <1>6
    <2> QED BY <1>4, <2>1 DEF UploadRecord
  <1> HIDE DEF file, saved
  <1>9. /\ staged' \in [Uploads -> Seq(Int)] /\ staged'[u] = file /\ \A v \in Uploads \ {u} : staged'[v] = staged[v]
        /\ records' \in [Uploads -> UploadRecord] /\ records'[u] = saved
        /\ \A v \in Uploads \ {u} : records'[v] = records[v]
    BY <1>1, <1>2, <1>7, <1>8 DEF UploadTypes
  <1>10. /\ published' \in [Uploads -> Seq(Seq(Int))] /\ \A v \in Uploads \ {u} : published'[v] = published[v]
         /\ published'[u] = IF i >= 6 THEN <<F!Whole(u)>> ELSE <<>>
    <2>1. CASE i >= 6
      <3>1. new \in Seq(Int) /\ new = F!Whole(u)
        BY <1>6, <2>1
      <3>2. Append(published[u], new) = <<new>> /\ <<new>> \in Seq(Seq(Int))
        BY <1>5, <3>1
      <3>3. published' = [published EXCEPT ![u] = <<new>>]
        BY <1>2, <2>1, <3>2
      <3> QED BY <1>1, <2>1, <3>1, <3>2, <3>3 DEF UploadTypes
    <2>2. CASE ~ (i >= 6)
      BY <1>1, <1>2, <1>5, <2>2 DEF UploadTypes
    <2> QED BY <2>1, <2>2
  <1>11. UploadTypes'
    BY <1>1, <1>2, <1>9, <1>10 DEF UploadTypes, UploadRow, UploadRecord, F!Paths, F!NoUpload
  <1>12. UploadFits(u)'
    <2>1. IsPut(u)' <=> i >= 6
      BY <1>4, <1>7, <1>8, <1>9 DEF IsPut, UploadRecord, F!Absent
    <2>2. Partial(u, staged[u])'
      BY <1>7, <1>9 DEF Partial, HasTorn, Upto, F!Piece, F!Absent, F!Torn
    <2>3. F!Whole(u)' = F!Whole(u)
      BY DEF F!Whole, F!Piece
    <2>4. u \in told' => i = 7
      BY <1>2, <1>5
    <2>5. upload'[u] # F!NoUpload' /\ upload'[u].pieces \in Nat
      BY <1>1 DEF F!NoUpload, F!Paths
    <2> QED BY <1>10, <2>1, <2>2, <2>3, <2>4, <2>5 DEF UploadFits
  <1>13. ASSUME NEW v \in Uploads \ {u}
         PROVE  UploadFits(v)'
    <2>1. UploadFits(v) /\ v \in Uploads
      BY DEF UploadsInv
    <2>2. v \in told' => v \in told
      BY <1>2
    <2>3. staged'[v] = staged[v] /\ records'[v] = records[v] /\ published'[v] = published[v]
      BY <1>9, <1>10
    <2> QED BY <2>1, <2>2, <2>3, UploadStays
  <1> QED BY <1>11, <1>12, <1>13 DEF UploadsInv

\* Any call for a chunk.
LEMMA UploadKeeps ==
  ASSUME UploadsInv, NEW u \in Uploads, NEW off, F!UploadFileChunk(u, off)
  PROVE  UploadsInv'
  <1>1. /\ upload' = upload /\ upload[u] # F!NoUpload /\ off \in 0..upload[u].pieces
        /\ \/ /\ records[u].state = "complete" /\ told' = told \cup {u}
              /\ UNCHANGED <<staged, records, published>>
           \/ /\ records[u].state = "publishing" /\ staged[u] = F!Absent /\ told' = told \cup {u}
              /\ records' = [records EXCEPT ![u].state = "complete"] /\ UNCHANGED <<staged, published>>
           \/ /\ records[u].state # "complete" /\ Begun(u) # F!Absent
              /\ \E i \in 1..7 : ChunkEnds(u, off, i)
    BY ChunkIs
  <1>2. UploadTypes /\ UploadFits(u) /\ \A v \in Uploads : UploadFits(v)
    BY DEF UploadsInv
  <1>3. ASSUME IsPut(u), told' = told \cup {u}, staged' = staged, published' = published,
               records' \in [Uploads -> UploadRecord], records'[u].state = "complete",
               \A v \in Uploads \ {u} : records'[v] = records[v]
        PROVE  UploadsInv'
    <2>1. UploadTypes'
      BY <1>1, <1>2, <1>3 DEF UploadTypes, UploadRow, UploadRecord, F!Paths, F!NoUpload
    <2>2. UploadFits(u)'
      <3>1. Partial(u, staged[u])'
        BY <1>1, <1>2, <1>3 DEF UploadFits, Partial, HasTorn, Upto, F!Piece
      <3>2. F!Whole(u)' = F!Whole(u)
        BY <1>1 DEF F!Whole, F!Piece
      <3>3. IsPut(u)'
        BY <1>3 DEF IsPut
      <3>4. upload'[u] # F!NoUpload' /\ upload'[u].pieces \in Nat
        BY <1>1, <1>2 DEF UploadFits, F!NoUpload, F!Paths
      <3> QED BY <1>2, <1>3, <3>1, <3>2, <3>3, <3>4 DEF UploadFits
    <2>3. ASSUME NEW v \in Uploads \ {u}
          PROVE  UploadFits(v)'
      BY <1>1, <1>2, <1>3, UploadStays
    <2> QED BY <2>1, <2>2, <2>3 DEF UploadsInv
  <1>4. CASE /\ records[u].state = "complete" /\ told' = told \cup {u}
             /\ UNCHANGED <<staged, records, published>>
    <2>1. IsPut(u)
      BY <1>4 DEF IsPut
    <2> QED BY <1>2, <1>3, <1>4, <2>1 DEF UploadTypes
  <1>5. CASE /\ records[u].state = "publishing" /\ staged[u] = F!Absent /\ told' = told \cup {u}
             /\ records' = [records EXCEPT ![u].state = "complete"] /\ UNCHANGED <<staged, published>>
    <2>1. IsPut(u)
      BY <1>5 DEF IsPut
    <2>2. /\ records' \in [Uploads -> UploadRecord] /\ records'[u].state = "complete"
          /\ \A v \in Uploads \ {u} : records'[v] = records[v]
      BY <1>2, <1>5 DEF UploadTypes, UploadRecord
    <2> QED BY <1>3, <1>5, <2>1, <2>2
  <1>6. CASE /\ records[u].state # "complete" /\ Begun(u) # F!Absent
             /\ \E i \in 1..7 : ChunkEnds(u, off, i)
    BY <1>1, <1>6, ChunkKeeps
  <1> QED BY <1>1, <1>4, <1>5, <1>6

\* A file is put in the browser's queue.
LEMMA QueueKeeps ==
  ASSUME UploadsInv, NEW u \in Uploads, NEW p \in F!Paths, NEW n \in 0..MaxPieces, NEW overwrite \in BOOLEAN,
         F!queueUpload(u, p, n, overwrite)
  PROVE  UploadsInv'
  <1> DEFINE new == [path |-> p, pieces |-> n, overwrite |-> overwrite]
  <1>1. /\ upload[u] = F!NoUpload /\ upload' = [upload EXCEPT ![u] = new]
        /\ staged' = staged /\ records' = records /\ published' = published /\ told' = told
    BY DEF F!queueUpload
  <1>2. UploadTypes /\ UploadFits(u) /\ \A v \in Uploads : UploadFits(v)
    BY DEF UploadsInv
  <1>3. n \in Nat /\ new \in UploadRow /\ new.pieces = n
    BY FilesAssumption DEF F!FilesAssumption, UploadRow
  <1> HIDE DEF new
  <1>4. upload' \in [Uploads -> UploadRow] /\ upload'[u] = new /\ \A v \in Uploads \ {u} : upload'[v] = upload[v]
    BY <1>1, <1>2, <1>3 DEF UploadTypes
  <1>5. UploadTypes'
    BY <1>1, <1>2, <1>4 DEF UploadTypes, UploadRow, UploadRecord, F!Paths, F!NoUpload
  <1>6. UploadFits(u)'
    <2>1. staged[u] = F!Absent /\ records[u].state = "active" /\ published[u] = <<>> /\ ~ IsPut(u) /\ u \notin told
      <3>1. staged[u] = F!Absent /\ records[u].state = "active" /\ published[u] = <<>>
        BY <1>1, <1>2 DEF UploadFits
      <3>2. ~ IsPut(u)
        BY <3>1 DEF IsPut
      <3> QED BY <1>2, <3>1, <3>2 DEF UploadFits
    <2>2. Partial(u, staged[u])'
      BY <1>1, <2>1 DEF Partial, F!Absent
    <2>3. ~ IsPut(u)'
      BY <1>1, <2>1 DEF IsPut
    <2>4. staged'[u] = F!Absent' /\ records'[u].state = "active" /\ published'[u] = <<>> /\ u \notin told'
      BY <1>1, <2>1 DEF F!Absent
    <2>5. upload'[u].pieces \in Nat
      BY <1>3, <1>4
    <2> QED BY <2>2, <2>3, <2>4, <2>5 DEF UploadFits
  <1>7. ASSUME NEW v \in Uploads \ {u}
        PROVE  UploadFits(v)'
    BY <1>1, <1>2, <1>4, UploadStays
  <1> QED BY <1>5, <1>6, <1>7 DEF UploadsInv

LEMMA FilesKeep ==
  ASSUME UploadsInv, [F!FilesNext]_F!fileVars
  PROVE  UploadsInv'
  <1>1. CASE \E u \in Uploads : \E p \in F!Paths, n \in 0..MaxPieces, overwrite \in BOOLEAN :
                F!queueUpload(u, p, n, overwrite)
    BY <1>1, QueueKeeps
  <1>2. CASE \E u \in Uploads : \E off \in 0..MaxPieces : F!UploadFileChunk(u, off)
    BY <1>2, UploadKeeps
  <1>3. ASSUME upload' = upload, staged' = staged, records' = records, published' = published, told' = told
        PROVE  UploadsInv'
    <2>1. UploadTypes /\ \A u \in Uploads : UploadFits(u)
      BY DEF UploadsInv
    <2>2. UploadTypes'
      BY <1>3, <2>1 DEF UploadTypes, UploadRow, UploadRecord, F!Paths, F!NoUpload
    <2>3. \A u \in Uploads : UploadFits(u)'
      BY <1>3, <2>1, UploadStays
    <2> QED BY <2>2, <2>3 DEF UploadsInv
  <1>4. CASE \E p \in F!Paths : \/ F!WriteFile(p) \/ F!CreateDirectory(p) \/ F!ArchiveFiles(p)
                                \/ \E name \in Names : F!RenameFile(p, name)
    BY <1>3, <1>4 DEF F!WriteFile, F!CreateDirectory, F!ArchiveFiles, F!RenameFile, F!uploadVars
  <1>5. CASE \E s \in F!Selections :
                \/ F!DeleteFiles(s)
                \/ \E p \in F!Paths : F!ExtractFile(p, s)
                \/ \E d \in Dirs, overwrite \in BOOLEAN : F!CopyFiles(s, d, overwrite) \/ F!MoveFiles(s, d, overwrite)
    BY <1>3, <1>5 DEF F!DeleteFiles, F!ExtractFile, F!CopyFiles, F!MoveFiles, F!Begin, F!uploadVars
  <1>6. CASE F!Selected \/ F!BrokerStops
    BY <1>3, <1>6 DEF F!Selected, F!BrokerStops, F!uploadVars
  <1>7. CASE UNCHANGED F!fileVars
    BY <1>3, <1>7 DEF F!fileVars
  <1> QED BY <1>1, <1>2, <1>4, <1>5, <1>6, <1>7 DEF F!FilesNext

LEMMA FilesStart ==
  ASSUME F!FilesInit
  PROVE  UploadsInv
  <1>1. /\ upload = [u \in Uploads |-> F!NoUpload] /\ staged = [u \in Uploads |-> F!Absent]
        /\ records = [u \in Uploads |-> F!NoRecord] /\ published = [u \in Uploads |-> <<>>] /\ told = {}
    BY DEF F!FilesInit
  <1>2. F!NoUpload \in UploadRow
    BY DEF UploadRow, F!NoUpload
  <1>3. F!Absent \in Seq(Int) /\ F!NoRecord \in UploadRecord /\ F!NoRecord.state = "active"
    BY DEF F!Absent, F!NoRecord, UploadRecord
  <1>4. UploadTypes
    BY <1>1, <1>2, <1>3 DEF UploadTypes
  <1>5. ASSUME NEW u \in Uploads
        PROVE  UploadFits(u)
    <2>1. /\ upload[u] = F!NoUpload /\ staged[u] = F!Absent /\ records[u].state = "active"
          /\ published[u] = <<>> /\ u \notin told
      BY <1>1, <1>3
    <2>2. ~ IsPut(u) /\ Partial(u, staged[u])
      BY <2>1 DEF IsPut, Partial
    <2> QED BY <2>1, <2>2 DEF UploadFits
  <1> QED BY <1>4, <1>5 DEF UploadsInv

\* However often its chunks are sent, and wherever a call breaks off, an upload
\* puts its file in place at most once, whole, and is answered as complete only
\* after that, whatever becomes of the place.
THEOREM UploadsStayExact == Spec => []UploadsAreExact
  <1>1. F!FilesInit => UploadsInv
    BY FilesStart
  <1>2. UploadsInv /\ [F!FilesNext]_F!fileVars => UploadsInv'
    BY FilesKeep
  <1>3. ASSUME UploadsInv
        PROVE  UploadsAreExact
    <2>1. ASSUME NEW u \in Uploads
          PROVE  published[u] \in {<<>>, <<F!Whole(u)>>} /\ (u \in told => published[u] # <<>>)
      <3>1. UploadFits(u)
        BY <1>3 DEF UploadsInv
      <3> QED BY <3>1 DEF UploadFits
    <2> QED BY <2>1 DEF UploadsAreExact, F!UploadsAreExact
  <1> QED BY <1>1, <1>2, <1>3, FilesAreRefined, PTL DEF F!FilesSpec

-----------------------------------------------------------------------------
\* A step of the work on sites is a step of their content, or leaves it alone.
LEMMA ContentStep ==
  ASSUME [Next]_vars
  PROVE  [C!ContentNext]_C!contentVars
  <1>1. CASE Content
    BY <1>1 DEF Content
  <1>2. CASE Files \/ Settings \/ Schedule \/ Record \/ UNCHANGED vars
    BY <1>2 DEF Files, Settings, Schedule, Record, vars, content, C!contentVars, C!panel, C!content, C!kept, C!broker
  <1> QED BY <1>1, <1>2 DEF Next

\* The specification of the work on sites implements that of their content.
THEOREM ContentIsRefined == Spec => C!ContentSpec
  <1>1. Init => C!ContentInit
    BY DEF Init
  <1>2. [Next]_vars => [C!ContentNext]_C!contentVars
    BY ContentStep
  <1> QED BY <1>1, <1>2, PTL DEF Spec, C!ContentSpec

-----------------------------------------------------------------------------
(***************************************************************************)
(* The queue of jobs, the calls waiting, and the call that has the lock,   *)
(* in terms of the steps it has left.                                      *)
(***************************************************************************)
Statuses == {"none", "queued", "running", "succeeded", "failed"}

JobRow == [kind : Kinds \cup {"none"}, status : Statuses, parts : SUBSET C!All, point : Nat, tries : Nat]

CallFields == {"job", "n", "todo", "found", "goal", "dump", "again", "made", "ok", "stuck", "sid", "retained"}

Requested(j) == j \in Jobs /\ jobs[j].status # "none"

\* Only a selective deployment names the parts it is about.
RowsFit ==
    \A j \in Jobs : jobs[j].status # "none" =>
        jobs[j].kind \in Kinds /\ jobs[j].parts # {} /\ (jobs[j].kind = "custom" \/ jobs[j].parts = C!All)

QueueTypes ==
    /\ jobs \in [Jobs -> JobRow] /\ points \subseteq Nat /\ RowsFit
    /\ \A c \in calls : Requested(c.job)

CallTypes ==
    /\ DOMAIN run = CallFields /\ run.sid \in Nat
    /\ IF run.job = 0 THEN run.todo = <<"wait">> ELSE Requested(run.job)

ContentTypes ==
    /\ QueueTypes /\ CallTypes
    /\ DOMAIN files = C!Sites /\ DOMAIN db = C!Sites
    /\ \A s \in snaps : s.id \in Nat
    /\ \A e \in journal : e.sid \in Nat

\* What was requested keeps what is to be done.
JobsGoOn ==
    \A j \in Jobs : Requested(j) => /\ jobs'[j].status # "none" /\ jobs'[j].kind = jobs[j].kind
                                    /\ jobs'[j].parts = jobs[j].parts

\* The steps of the call that has the lock, and those that only read the site.
CallStep ==
    \/ C!Refuse \/ C!backupSite \/ C!applyBackupRetention \/ C!downloadSnapshot
    \/ C!recoverInterruptedFileSwitch \/ C!prepareUpdateRollback \/ C!exportRestoreDatabase
    \/ C!buildTree \/ C!changeDatabase \/ C!preserveFiles \/ C!activateFiles \/ C!importRollback
    \/ C!switchBack \/ C!discardReplaced \/ C!recordResult
    \/ C!existingWordPressSearchReplace \/ C!markStarted \/ C!recordCompleted

Reading == {"snapshot", "forget", "download", "record", "journal", "mark", "complete"}

\* A step of the call goes on to the next one, or to the end, or takes back what was done.
CallGoesOn(step) ==
    /\ run.todo # <<>> /\ Head(run.todo) = step /\ step # "wait"
    /\ DOMAIN run' = CallFields /\ run'.job = run.job /\ run'.sid \in Nat
    /\ run'.again = run.again /\ run'.found = run.found
    /\ UNCHANGED <<jobs, points, calls, begun>>
    /\ \/ run'.todo \in {Tail(run.todo), <<>>}
       \/ run'.todo \in {<<"undo">>, <<"undo", "unswitch">>} /\ step \notin Reading
             /\ (step = "change" => C!Kind # "replace")
    /\ DOMAIN files' = C!Sites /\ DOMAIN db' = C!Sites
    /\ \A s \in C!Sites : s # C!Site \/ step \in Reading => files'[s] = files[s] /\ db'[s] = db[s]
    /\ snaps' = snaps \/ (step = "snapshot" /\ C!backupSite) \/ (step = "forget" /\ C!applyBackupRetention)
    /\ journal' = journal \/ (step = "mark" /\ C!markStarted) \/ (step = "complete" /\ C!recordCompleted)
    /\ step = "snapshot" => C!backupSite \/ run'.todo = <<>>
    /\ step = "mark" => C!markStarted \/ run'.todo = <<>>
    /\ step = "journal" => run'.todo = <<>> \/ \A e \in journal : e.job # run.job
    /\ IF step = "change" /\ C!Kind = "replace" THEN replaced' = [replaced EXCEPT ![run.job] = @ + 1]
       ELSE replaced' = replaced

\* What the broker adds to the repository, and under which number.
NewSnapshot(n) == [id |-> n, site |-> C!Site, key |-> run.job, files |-> files[C!Site],
                   db |-> db[C!Site], again |-> C!OfJob(run.job) # {}]

LEMMA SnapshotFields ==
  ASSUME NEW n
  PROVE  /\ NewSnapshot(n).id = n /\ NewSnapshot(n).site = C!Site /\ NewSnapshot(n).key = run.job
         /\ NewSnapshot(n).files = files[C!Site] /\ NewSnapshot(n).db = db[C!Site]
         /\ NewSnapshot(n).again = (C!OfJob(run.job) # {})
  BY DEF NewSnapshot

LEMMA SnapshotNumbers ==
  ASSUME \A s \in snaps : s.id \in Nat
  PROVE  {1} \cup {s.id + 1 : s \in snaps} \subseteq Nat
  OBVIOUS

LEMMA SnapshotTaken ==
  ASSUME C!backupSite, \A s \in snaps : s.id \in Nat
  PROVE  \/ snaps' = snaps /\ C!OfJob(run.job) # {}
         \/ \E n \in Nat : (\A s \in snaps : s.id < n) /\ snaps' = snaps \cup {NewSnapshot(n)}
  BY SnapshotNumbers, Zenon DEF C!backupSite, NewSnapshot, C!Job

LEMMA SnapshotAnswered ==
  ASSUME C!backupSite, \A s \in snaps : s.id \in Nat
  PROVE  C!Fail \/ \E n \in Nat : run' = [run EXCEPT !.todo = Tail(@), !.sid = n]
  BY SnapshotNumbers, Zenon DEF C!backupSite, C!OfJob

LEMMA CallsGoOn ==
  ASSUME ContentTypes, CallStep
  PROVE  \E step : CallGoesOn(step)
  <1> USE DEF C!Step, C!Advance, C!Fail, C!FailStuck, C!rollbackDatabase, C!RollBack, C!queue, C!content, C!kept
  <1>1. /\ DOMAIN run = CallFields /\ run.sid \in Nat /\ DOMAIN files = C!Sites /\ DOMAIN db = C!Sites
        /\ {"todo", "job", "sid", "again", "found"} \subseteq CallFields
    BY DEF ContentTypes, CallTypes, CallFields
  <1>2. CASE C!Refuse
    <2>1. /\ run.todo # <<>>
          /\ Head(run.todo) \in {"snapshot", "forget", "download", "dump", "mark", "build", "recover", "preserve",
                                "discard", "record"}
      BY <1>2 DEF C!Refuse
    <2>2. run' = [run EXCEPT !.todo = <<>>, !.ok = FALSE] /\ UNCHANGED <<C!queue, C!content, snaps, C!kept>>
      BY <1>2 DEF C!Refuse
    <2>3. CallGoesOn(Head(run.todo))
      BY <1>1, <2>1, <2>2 DEF CallGoesOn, Reading
    <2> QED BY <2>3
  <1>3. CASE C!backupSite
    <2>1. PICK n \in Nat : \/ run' = [run EXCEPT !.todo = Tail(@), !.sid = n]
                           \/ run' = [run EXCEPT !.todo = <<>>, !.ok = FALSE]
      <3>1. \A s \in snaps : s.id \in Nat
        BY DEF ContentTypes
      <3> HIDE DEF C!Fail
      <3>2. C!Fail \/ \E n \in Nat : run' = [run EXCEPT !.todo = Tail(@), !.sid = n]
        BY <1>3, <3>1, SnapshotAnswered
      <3>3. CASE C!Fail
        <4>1. run' = [run EXCEPT !.todo = <<>>, !.ok = FALSE] /\ 0 \in Nat
          BY <3>3 DEF C!Fail
        <4> QED BY <4>1, Zenon
      <3> QED BY <3>2, <3>3, Zenon
    <2>2. CallGoesOn("snapshot")
      BY <1>1, <1>3, <2>1 DEF CallGoesOn, Reading, C!backupSite
    <2> QED BY <2>2
  <1>4. CASE C!applyBackupRetention
    <2>1. CallGoesOn("forget")
      BY <1>1, <1>4 DEF CallGoesOn, Reading, C!applyBackupRetention
    <2> QED BY <2>1
  <1>5. CASE C!downloadSnapshot
    <2>1. CallGoesOn("download")
      BY <1>1, <1>5 DEF CallGoesOn, Reading, C!downloadSnapshot
    <2> QED BY <2>1
  <1>6. CASE C!recoverInterruptedFileSwitch
    <2>1. CallGoesOn("recover")
      BY <1>1, <1>6 DEF CallGoesOn, Reading, C!recoverInterruptedFileSwitch
    <2> QED BY <2>1
  <1>7. CASE C!prepareUpdateRollback
    <2>1. CallGoesOn("dump")
      BY <1>1, <1>7 DEF CallGoesOn, Reading, C!prepareUpdateRollback
    <2> QED BY <2>1
  <1>8. CASE C!exportRestoreDatabase
    <2>1. CallGoesOn("dump")
      BY <1>1, <1>8 DEF CallGoesOn, Reading, C!exportRestoreDatabase
    <2> QED BY <2>1
  <1>9. CASE C!buildTree
    <2>1. CallGoesOn("build")
      BY <1>1, <1>9 DEF CallGoesOn, Reading, C!buildTree
    <2> QED BY <2>1
  <1>10. CASE C!changeDatabase
    <2>1. CallGoesOn("change")
      BY <1>1, <1>10 DEF CallGoesOn, Reading, C!changeDatabase, C!Job
    <2> QED BY <2>1
  <1>11. CASE C!preserveFiles
    <2>1. CallGoesOn("preserve")
      BY <1>1, <1>11 DEF CallGoesOn, Reading, C!preserveFiles
    <2> QED BY <2>1
  <1>12. CASE C!activateFiles
    <2>1. CallGoesOn("activate")
      BY <1>1, <1>12 DEF CallGoesOn, Reading, C!activateFiles
    <2> QED BY <2>1
  <1>13. CASE C!importRollback
    <2>1. CallGoesOn("undo")
      BY <1>1, <1>13 DEF CallGoesOn, Reading, C!importRollback
    <2> QED BY <2>1
  <1>14. CASE C!switchBack
    <2>1. CallGoesOn("unswitch")
      BY <1>1, <1>14 DEF CallGoesOn, Reading, C!switchBack
    <2> QED BY <2>1
  <1>15. CASE C!discardReplaced
    <2>1. CallGoesOn("discard")
      BY <1>1, <1>15 DEF CallGoesOn, Reading, C!discardReplaced
    <2> QED BY <2>1
  <1>16. CASE C!recordResult
    <2>1. CallGoesOn("record")
      BY <1>1, <1>16 DEF CallGoesOn, Reading, C!recordResult
    <2> QED BY <2>1
  <1>17. CASE C!existingWordPressSearchReplace
    <2>1. CallGoesOn("journal")
      <3>1. \A e \in journal : e.sid \in Nat
        BY DEF ContentTypes
      <3> QED BY <1>1, <1>17, <3>1 DEF CallGoesOn, Reading, C!Job, C!existingWordPressSearchReplace
    <2> QED BY <2>1
  <1>18. CASE C!markStarted
    <2>1. CallGoesOn("mark")
      BY <1>1, <1>18 DEF CallGoesOn, Reading, C!markStarted
    <2> QED BY <2>1
  <1>19. CASE C!recordCompleted
    <2>1. CallGoesOn("complete")
      BY <1>1, <1>19 DEF CallGoesOn, Reading, C!recordCompleted
    <2> QED BY <2>1
  <1> QED BY <1>2, <1>3, <1>4, <1>5, <1>6, <1>7, <1>8, <1>9, <1>10, <1>11, <1>12, <1>13, <1>14, <1>15, <1>16,
             <1>17, <1>18, <1>19 DEF CallStep

\* Whatever becomes of the other settings of a job, the plan for it stays.
LEMMA PlanStays ==
  ASSUME NEW j \in Jobs, jobs'[j].kind = jobs[j].kind, jobs'[j].parts = jobs[j].parts
  PROVE  /\ C!StepsOf(j)' = C!StepsOf(j) /\ C!Target(j)' = C!Target(j)
  <1>1. C!StepsOf(j)' = C!StepsOf(j)
    BY DEF C!StepsOf, C!deploySelected, C!BackupSite, C!RestoreSite, C!TestRestore, C!UpdateWordPress,
           C!replaceEnvironment, C!DeployStaging, C!CreateStaging, C!SearchReplaceWordPress
  <1>2. C!Target(j)' = C!Target(j)
    BY DEF C!Target
  <1> QED BY <1>1, <1>2

\* What the panel and the queue do, and what a stop does: the site stays as it is.
PanelStep ==
    \/ C!Enqueue \/ C!ClaimNextJob \/ C!RequeueInterruptedJobs \/ C!BrokerStops \/ C!HostStops
    \/ \E j \in Jobs : C!LoseConnection(j)
    \/ \E c \in calls : C!AnswerSaved(c)
    \/ C!Answer

SiteStays ==
    /\ files' = files /\ db' = db /\ snaps' = snaps /\ journal' = journal /\ replaced' = replaced
    /\ previous' = previous /\ copies' = copies /\ begun' = begun
    /\ run' = run \/ run' = C!Idle

LEMMA RowsAre ==
  ASSUME NEW s \in Statuses
  PROVE  /\ \A r \in JobRow : LET w == [r EXCEPT !.status = s]
                              IN  w \in JobRow /\ w.kind = r.kind /\ w.parts = r.parts /\ w.status = s
         /\ \A k \in Kinds, parts \in SUBSET C!All, p \in Nat :
               [kind |-> k, status |-> s, parts |-> parts, point |-> p, tries |-> 0] \in JobRow
  <1>1. ASSUME NEW r \in JobRow
        PROVE  LET w == [r EXCEPT !.status = s]
               IN  w \in JobRow /\ w.kind = r.kind /\ w.parts = r.parts /\ w.status = s
    BY DEF JobRow
  <1>2. \A k \in Kinds, parts \in SUBSET C!All, p \in Nat :
           [kind |-> k, status |-> s, parts |-> parts, point |-> p, tries |-> 0] \in JobRow
    BY DEF JobRow
  <1> QED BY <1>1, <1>2

LEMMA JobsStay ==
  ASSUME ContentTypes, NEW j \in Jobs, NEW s \in Statuses \ {"none"}, NEW n \in Nat, Requested(j),
         \/ jobs' = [jobs EXCEPT ![j].status = s]
         \/ jobs' = [jobs EXCEPT ![j].status = s, ![j].tries = n]
  PROVE  /\ jobs' \in [Jobs -> JobRow] /\ JobsGoOn
         /\ RowsFit'
  <1>1. jobs \in [Jobs -> JobRow] /\ RowsFit
    BY DEF ContentTypes, QueueTypes
  <1>2. \E m \in Nat : jobs' = [jobs EXCEPT ![j] = [jobs[j] EXCEPT !.status = s, !.tries = m]]
    <2>1. CASE jobs' = [jobs EXCEPT ![j].status = s]
      <3> DEFINE r == jobs[j]
      <3>1. jobs' = [jobs EXCEPT ![j] = [r EXCEPT !.status = s]] /\ r \in JobRow
        BY <1>1, <2>1
      <3> HIDE DEF r
      <3>2. r.tries \in Nat /\ [r EXCEPT !.status = s] = [r EXCEPT !.status = s, !.tries = r.tries]
        BY <3>1 DEF JobRow
      <3>3. jobs' = [jobs EXCEPT ![j] = [r EXCEPT !.status = s, !.tries = r.tries]]
        BY <3>1, <3>2
      <3> QED BY <3>2, <3>3 DEF r
    <2>2. CASE jobs' = [jobs EXCEPT ![j].status = s, ![j].tries = n]
      <3>1. jobs' = [jobs EXCEPT ![j] = [jobs[j] EXCEPT !.status = s, !.tries = n]]
        BY <1>1, <2>2 DEF JobRow
      <3> QED BY <3>1
    <2> QED BY <2>1, <2>2
  <1>3. PICK m \in Nat : jobs' = [jobs EXCEPT ![j] = [jobs[j] EXCEPT !.status = s, !.tries = m]]
    BY <1>2
  <1> DEFINE new == [jobs[j] EXCEPT !.status = s, !.tries = m]
  <1>4. new \in JobRow /\ new.kind = jobs[j].kind /\ new.parts = jobs[j].parts /\ new.status = s
    BY <1>1 DEF JobRow
  <1> HIDE DEF new
  <1>5. jobs' = [jobs EXCEPT ![j] = new]
    BY <1>3 DEF new
  <1>6. jobs'[j] = new /\ \A i \in Jobs \ {j} : jobs'[i] = jobs[i]
    BY <1>1, <1>5
  <1>7. jobs' \in [Jobs -> JobRow]
    BY <1>1, <1>4, <1>5
  <1> QED BY <1>1, <1>4, <1>6, <1>7 DEF JobsGoOn, Requested, RowsFit

LEMMA RequeueStays ==
  ASSUME ContentTypes, jobs' = C!Requeued
  PROVE  /\ jobs' \in [Jobs -> JobRow] /\ JobsGoOn
         /\ RowsFit'
  <1>1. jobs \in [Jobs -> JobRow] /\ RowsFit
    BY DEF ContentTypes, QueueTypes
  <1>2. ASSUME NEW i \in Jobs
        PROVE  /\ jobs'[i] \in JobRow /\ jobs'[i].kind = jobs[i].kind /\ jobs'[i].parts = jobs[i].parts
               /\ jobs'[i].status # "none" <=> jobs[i].status # "none"
    <2>1. jobs'[i] = IF jobs[i].status = "running" THEN [jobs[i] EXCEPT !.status = "queued"] ELSE jobs[i]
      BY DEF C!Requeued
    <2>2. jobs[i] \in JobRow
      BY <1>1
    <2>3. CASE jobs[i].status = "running"
      <3> DEFINE r == jobs[i]
                 w == jobs'[i]
      <3>1. w = [r EXCEPT !.status = "queued"] /\ r \in JobRow
        BY <2>1, <2>2, <2>3
      <3> HIDE DEF r, w
      <3>2. w \in JobRow /\ w.kind = r.kind /\ w.parts = r.parts /\ w.status = "queued"
        <4> DEFINE v == [r EXCEPT !.status = "queued"]
        <4>1. v \in JobRow /\ v.kind = r.kind /\ v.parts = r.parts /\ v.status = "queued"
          <5>1. "queued" \in Statuses
            BY DEF Statuses
          <5> QED BY <3>1, <5>1, RowsAre
        <4> HIDE DEF v
        <4> QED BY <3>1, <4>1 DEF v
      <3> QED BY <2>3, <3>2 DEF r, w
    <2>4. CASE jobs[i].status # "running"
      BY <2>1, <2>2, <2>4
    <2> QED BY <2>3, <2>4
  <1>3. jobs' = [i \in Jobs |-> jobs'[i]]
    BY DEF C!Requeued
  <1> QED BY <1>1, <1>2, <1>3 DEF JobsGoOn, Requested, RowsFit

LEMMA RequestIs ==
  ASSUME ContentTypes, C!Enqueue
  PROVE  /\ jobs' \in [Jobs -> JobRow] /\ JobsGoOn
         /\ RowsFit'
         /\ SiteStays /\ run' = run /\ UNCHANGED <<points, calls>>
  <1>1. /\ jobs \in [Jobs -> JobRow] /\ points \subseteq Nat
        /\ RowsFit
    BY DEF ContentTypes, QueueTypes
  <1>2. PICK k : \E parts \in SUBSET C!All, p \in Nat :
                   parts # {} /\ (k = "custom" \/ parts = C!All) /\ C!InsertJob(k, parts, p)
    <2> DEFINE I(k, parts, p) == C!InsertJob(k, parts, p)
    <2>1. C!All \in SUBSET C!All /\ C!All # {} /\ 0 \in Nat /\ \A p \in points : p \in Nat
      <3>1. "db" \in C!All
        BY DEF C!All
      <3>2. C!All # {} /\ C!All \subseteq C!All
        BY <3>1
      <3> QED BY <1>1, <3>2
    <2>2. \/ \E p \in points : I("restore", C!All, p)
          \/ \E p \in points : I("test", C!All, p)
          \/ I("backup", C!All, 0) \/ I("update", C!All, 0) \/ I("sync", C!All, 0) \/ I("deploy", C!All, 0)
          \/ \E parts \in (SUBSET C!All) \ {{}} : I("custom", parts, 0)
          \/ I("replace", C!All, 0)
      BY Zenon DEF C!Enqueue, C!EnqueueSiteBackup, C!EnqueueSiteRestore, C!EnqueueRestoreTest,
           C!EnqueueWordPressUpdate, C!EnqueueStagingSync, C!EnqueueStagingDeploy, C!EnqueueWordPressSearchReplace
    <2> HIDE DEF I
    <2>3. \E k : \E parts \in SUBSET C!All, p \in Nat : parts # {} /\ (k = "custom" \/ parts = C!All) /\ I(k, parts, p)
      BY <2>1, <2>2, Zenon
    <2> QED BY <2>3 DEF I
  <1>3. PICK parts \in SUBSET C!All, p \in Nat :
           parts # {} /\ (k = "custom" \/ parts = C!All) /\ C!InsertJob(k, parts, p)
    BY <1>2
  <1>4. PICK j \in Jobs :
           /\ jobs[j].status = "none" /\ k \in Kinds
           /\ jobs' = [jobs EXCEPT ![j] = [kind |-> k, status |-> "queued", parts |-> parts, point |-> p,
                                           tries |-> 0]]
           /\ UNCHANGED <<points, C!content, snaps, C!kept, C!broker, stops>>
    BY <1>3 DEF C!InsertJob
  <1> DEFINE new == [kind |-> k, status |-> "queued", parts |-> parts, point |-> p, tries |-> 0]
  <1>5. new \in JobRow /\ new.kind \in Kinds /\ new.parts # {} /\ (new.kind = "custom" \/ new.parts = C!All)
    <2>1. "queued" \in Statuses
      BY DEF Statuses
    <2>2. new \in JobRow
      BY <1>4, <2>1, RowsAre
    <2>3. new.kind = k /\ new.parts = parts
      OBVIOUS
    <2> HIDE DEF new
    <2> QED BY <1>3, <1>4, <2>2, <2>3
  <1> HIDE DEF new
  <1>6. jobs' = [jobs EXCEPT ![j] = new]
    BY <1>4 DEF new
  <1>7. jobs'[j] = new /\ \A i \in Jobs \ {j} : jobs'[i] = jobs[i]
    BY <1>1, <1>6
  <1>8. jobs' \in [Jobs -> JobRow] /\ RowsFit'
    BY <1>1, <1>5, <1>6, <1>7 DEF RowsFit
  <1>9. JobsGoOn
    BY <1>4, <1>7 DEF JobsGoOn, Requested
  <1> QED BY <1>4, <1>8, <1>9 DEF SiteStays, C!content, C!kept, C!broker

\* The panel writes down an answer, or forgets the call.
LEMMA OutcomeStays ==
  ASSUME ContentTypes, NEW j \in Jobs, Requested(j),
         \/ C!AnswerLost(j) /\ points' = points
         \/ \E ok, retained : \E sid \in Nat : C!FinishJob(j, ok, sid, retained)
         \/ jobs' = jobs /\ points' = points
  PROVE  /\ jobs' \in [Jobs -> JobRow] /\ JobsGoOn /\ points' \subseteq Nat
         /\ RowsFit'
  <1>1. points \subseteq Nat /\ QueueTypes
    BY DEF ContentTypes, QueueTypes
  <1>2. CASE \E s \in Statuses \ {"none"} : jobs' = [jobs EXCEPT ![j].status = s]
    <2>1. PICK s \in Statuses \ {"none"} : jobs' = [jobs EXCEPT ![j].status = s]
      BY <1>2
    <2>2. 0 \in Nat
      OBVIOUS
    <2>3. /\ jobs' \in [Jobs -> JobRow] /\ JobsGoOn
          /\ RowsFit'
      BY <2>1, <2>2, JobsStay
    <2>4. points' \subseteq Nat
      BY <1>1, <1>2 DEF C!FinishJob
    <2> QED BY <2>3, <2>4
  <1>3. CASE jobs' = jobs /\ points' = points
    BY <1>1, <1>3 DEF JobsGoOn, QueueTypes, Requested, RowsFit
  <1>4. C!AnswerLost(j) => \E s \in Statuses \ {"none"} : jobs' = [jobs EXCEPT ![j].status = s]
    BY DEF C!AnswerLost, Statuses
  <1>5. ASSUME NEW ok, NEW sid, NEW retained, C!FinishJob(j, ok, sid, retained)
        PROVE  \E s \in Statuses \ {"none"} : jobs' = [jobs EXCEPT ![j].status = s]
    <2>1. jobs' = [jobs EXCEPT ![j].status = IF ok THEN "succeeded" ELSE "failed"]
      BY <1>5 DEF C!FinishJob
    <2>2. CASE ok
      BY <2>1, <2>2 DEF Statuses
    <2>3. CASE ~ ok
      BY <2>1, <2>3 DEF Statuses
    <2> QED BY <2>2, <2>3
  <1> QED BY <1>2, <1>3, <1>4, <1>5

LEMMA PanelStays ==
  ASSUME ContentTypes, PanelStep
  PROVE  /\ SiteStays /\ JobsGoOn /\ points' \subseteq Nat /\ jobs' \in [Jobs -> JobRow]
         /\ RowsFit'
         /\ \A c \in calls' : Requested(c.job)
  <1> DEFINE Queue == /\ jobs' \in [Jobs -> JobRow] /\ JobsGoOn /\ points' \subseteq Nat
                      /\ RowsFit'
  <1>1. /\ points \subseteq Nat /\ jobs \in [Jobs -> JobRow] /\ \A c \in calls : Requested(c.job)
        /\ IF run.job = 0 THEN run.todo = <<"wait">> ELSE Requested(run.job)
        /\ run.sid \in Nat
    BY DEF ContentTypes, QueueTypes, CallTypes
  <1>2. CASE C!Enqueue
    BY <1>1, <1>2, RequestIs
  <1>3. CASE C!ClaimNextJob
    <2>1. PICK j \in Jobs :
             /\ jobs[j].status = "queued"
             /\ jobs' = [jobs EXCEPT ![j].status = "running", ![j].tries = @ + 1]
             /\ calls' = calls \cup {[job |-> j, n |-> jobs[j].tries + 1,
                                       saved |-> jobs[j].kind \in {"restore", "test"} /\ j \in results]}
             /\ UNCHANGED <<points, C!content, snaps, C!kept, run, begun>>
      BY <1>3, Zenon DEF C!ClaimNextJob
    <2>2. Requested(j) /\ jobs[j].tries + 1 \in Nat
      BY <1>1, <2>1 DEF Requested, JobRow
    <2>3. jobs' = [jobs EXCEPT ![j].status = "running", ![j].tries = jobs[j].tries + 1]
      BY <1>1, <2>1
    <2>4. "running" \in Statuses \ {"none"}
      BY DEF Statuses
    <2>5. Queue
      BY <1>1, <2>1, <2>2, <2>3, <2>4, JobsStay
    <2> QED BY <1>1, <2>1, <2>2, <2>5 DEF SiteStays, C!content, C!kept
  <1>4. CASE C!RequeueInterruptedJobs \/ C!HostStops
    <2>1. Queue
      BY <1>1, <1>4, RequeueStays DEF C!RequeueInterruptedJobs, C!HostStops
    <2> QED BY <1>1, <1>4, <2>1 DEF SiteStays, C!RequeueInterruptedJobs, C!HostStops, C!content, C!kept, C!broker
  <1>5. CASE C!BrokerStops
    <2>1. Queue
      <3>1. CASE \E j \in Jobs : jobs[j].status = "running" /\ C!AnswerLost(j)
        <4>1. PICK j \in Jobs : jobs[j].status = "running" /\ C!AnswerLost(j)
          BY <3>1
        <4>2. Requested(j) /\ points' = points
          BY <1>5, <4>1 DEF Requested, C!BrokerStops
        <4> QED BY <4>1, <4>2, OutcomeStays
      <3>2. CASE jobs' = jobs
        <4>1. points' = points
          BY <1>5 DEF C!BrokerStops
        <4> QED BY <1>1, <3>2, <4>1 DEF JobsGoOn, Requested, ContentTypes, QueueTypes, RowsFit
      <3> QED BY <1>5, <3>1, <3>2 DEF C!BrokerStops
    <2> QED BY <1>1, <1>5, <2>1 DEF SiteStays, C!BrokerStops, C!content, C!kept
  <1>6. ASSUME NEW j \in Jobs, C!LoseConnection(j)
        PROVE  Queue /\ SiteStays /\ \A c \in calls' : Requested(c.job)
    <2>1. Requested(j) /\ C!AnswerLost(j) /\ points' = points
      BY <1>6 DEF C!LoseConnection, Requested
    <2>2. Queue
      BY <2>1, OutcomeStays
    <2> QED BY <1>1, <1>6, <2>2 DEF SiteStays, C!LoseConnection, C!content, C!kept
  <1>7. ASSUME NEW c \in calls, C!AnswerSaved(c)
        PROVE  Queue /\ SiteStays /\ \A d \in calls' : Requested(d.job)
    <2>1. Requested(c.job) /\ c.job \in Jobs
      BY <1>1 DEF Requested
    <2>2. C!FinishJob(c.job, TRUE, 0, {}) \/ (jobs' = jobs /\ points' = points)
      BY <1>7, Zenon DEF C!AnswerSaved, C!panel
    <2>3. Queue
      BY <2>1, <2>2, OutcomeStays
    <2> QED BY <1>1, <1>7, <2>3 DEF SiteStays, C!AnswerSaved, C!content, C!kept
  <1>8. CASE C!Answer
    <2>1. Requested(run.job) /\ run.job \in Jobs
      BY <1>1, <1>8 DEF Requested, C!Answer, C!Answering
    <2>2. C!FinishJob(run.job, run.ok, run.sid, run.retained) \/ (jobs' = jobs /\ points' = points)
      BY <1>8, Zenon DEF C!Answer, C!panel, C!Job
    <2>3. Queue
      BY <1>1, <2>1, <2>2, OutcomeStays
    <2> QED BY <1>1, <1>8, <2>3 DEF SiteStays, C!Answer, C!content
  <1> QED BY <1>2, <1>3, <1>4, <1>5, <1>6, <1>7, <1>8 DEF PanelStep

\* A call gets the lock.
LockTaken(c) ==
    /\ run.job = 0 /\ Requested(c.job) /\ run'.job = c.job /\ run'.todo = C!StepsOf(c.job)
    /\ files' = files /\ db' = db /\ snaps' = snaps /\ journal' = journal /\ replaced' = replaced
    /\ jobs' = jobs /\ points' = points /\ calls' \subseteq calls
    /\ previous' = previous /\ copies' = copies /\ begun' = begun \cup {c.job}
    /\ DOMAIN run' = CallFields /\ run'.sid \in Nat /\ run'.ok = TRUE /\ run'.again = (c.job \in begun)
    /\ run'.found = C!Content(C!Target(c.job)) /\ run'.goal = run'.found

LEMMA LocksAreTaken ==
  ASSUME ContentTypes, NEW c \in calls, C!TakeLock(c)
  PROVE  LockTaken(c)
  <1>1. Requested(c.job) /\ run = C!Idle
    BY DEF ContentTypes, QueueTypes, C!TakeLock
  <1>2. /\ run' = [C!Idle EXCEPT !.job = c.job, !.n = c.n, !.again = c.job \in begun, !.todo = C!StepsOf(c.job),
                           !.found = C!Content(C!Target(c.job)), !.goal = C!Content(C!Target(c.job))]
        /\ calls' = calls \ {c} /\ begun' = begun \cup {c.job} /\ UNCHANGED <<C!panel, C!content, snaps, C!kept>>
    BY DEF C!TakeLock
  <1>3. DOMAIN C!Idle = CallFields /\ C!Idle.sid = 0 /\ C!Idle.job = 0 /\ C!Idle.ok = TRUE
    BY DEF C!Idle, CallFields
  <1> DEFINE idle == C!Idle
  <1>4. /\ run'.job = c.job /\ run'.todo = C!StepsOf(c.job) /\ run'.sid = 0 /\ DOMAIN run' = CallFields
        /\ run'.ok = TRUE /\ run'.again = (c.job \in begun)
        /\ run'.found = C!Content(C!Target(c.job)) /\ run'.goal = C!Content(C!Target(c.job))
    <2>1. {"job", "todo", "sid", "ok", "again", "found", "goal"} \subseteq CallFields
      BY DEF CallFields
    <2> HIDE DEF idle
    <2> QED BY <1>2, <1>3, <2>1
  <1> QED BY <1>1, <1>2, <1>3, <1>4 DEF LockTaken, C!panel, C!content, C!kept

\* Every step is one of the panel, of a call that gets the lock, or of the one that has it.
LEMMA ContentSteps ==
  ASSUME ContentTypes, [C!ContentNext]_C!contentVars
  PROVE  \/ /\ SiteStays /\ JobsGoOn /\ points' \subseteq Nat /\ jobs' \in [Jobs -> JobRow]
            /\ RowsFit'
            /\ \A c \in calls' : Requested(c.job)
         \/ \E c \in calls : LockTaken(c)
         \/ CallStep
  <1>1. CASE UNCHANGED C!contentVars
    BY <1>1 DEF ContentTypes, QueueTypes, RowsFit, SiteStays, JobsGoOn, Requested, C!contentVars, C!panel, C!content, C!kept,
                C!broker
  <1>2. CASE PanelStep
    BY <1>2, PanelStays
  <1>3. CASE \E c \in calls : C!TakeLock(c)
    BY <1>3, LocksAreTaken
  <1> QED BY <1>1, <1>2, <1>3, Zenon DEF PanelStep, CallStep, C!ContentNext, C!Broker

LEMMA ContentKeepsTypes ==
  ASSUME ContentTypes, [C!ContentNext]_C!contentVars
  PROVE  ContentTypes'
  <1>1. QueueTypes /\ CallTypes /\ DOMAIN files = C!Sites /\ DOMAIN db = C!Sites
        /\ (\A s \in snaps : s.id \in Nat) /\ \A e \in journal : e.sid \in Nat
    BY DEF ContentTypes
  <1>2. CASE /\ SiteStays /\ JobsGoOn /\ points' \subseteq Nat /\ jobs' \in [Jobs -> JobRow]
             /\ RowsFit'
             /\ \A c \in calls' : Requested(c.job)
    <2>1. QueueTypes'
      BY <1>2 DEF QueueTypes, JobRow, Statuses, Requested, JobsGoOn, C!All
    <2>2. CallTypes'
      <3>1. CASE run' = run
        BY <1>1, <1>2, <3>1 DEF CallTypes, Requested, JobsGoOn, CallFields
      <3>2. CASE run' = C!Idle
        BY <3>2 DEF CallTypes, CallFields, C!Idle
      <3> QED BY <1>2, <3>1, <3>2 DEF SiteStays
    <2> QED BY <1>1, <1>2, <2>1, <2>2 DEF ContentTypes, SiteStays, C!Sites
  <1>3. CASE \E c \in calls : LockTaken(c)
    <2>1. PICK c \in calls : LockTaken(c)
      BY <1>3
    <2>2. QueueTypes'
      BY <1>1, <2>1 DEF LockTaken, QueueTypes, RowsFit, JobRow, Statuses, Requested, C!All
    <2>3. CallTypes'
      <3>1. run'.job # 0
        BY <2>1, ContentAssumption DEF LockTaken, Requested, C!ContentAssumption
      <3> QED BY <1>1, <2>1, <3>1 DEF LockTaken, CallTypes, CallFields, Requested
    <2> QED BY <1>1, <2>1, <2>2, <2>3 DEF LockTaken, ContentTypes, C!Sites
  <1>4. CASE CallStep
    <2>1. PICK step : CallGoesOn(step)
      BY <1>4, CallsGoOn
    <2>2. QueueTypes'
      BY <1>1, <2>1 DEF CallGoesOn, QueueTypes, RowsFit, JobRow, Statuses, Requested, C!All
    <2>3. run.job # 0
      BY <1>1, <2>1 DEF CallGoesOn, CallTypes
    <2>4. CallTypes'
      BY <1>1, <2>1, <2>3 DEF CallGoesOn, CallTypes, CallFields, Requested
    <2>5. \A s \in snaps' : s.id \in Nat
      <3>1. CASE snaps' \subseteq snaps
        BY <1>1, <3>1
      <3>2. CASE C!backupSite
        <4>1. CASE \E n \in Nat : snaps' = snaps \cup {NewSnapshot(n)}
          BY <1>1, <4>1, SnapshotFields
        <4> QED BY <1>1, <3>1, <3>2, <4>1, SnapshotTaken
      <3>3. C!applyBackupRetention => snaps' \subseteq snaps
        BY DEF C!applyBackupRetention
      <3> QED BY <2>1, <3>1, <3>2, <3>3 DEF CallGoesOn
    <2>6. \A e \in journal' : e.sid \in Nat
      <3> DEFINE started == [job |-> C!Job, sid |-> run.sid, status |-> "started"]
                 completed == [job |-> C!Job, sid |-> run.sid, status |-> "completed"]
      <3>1. started.sid \in Nat /\ completed.sid \in Nat
        BY <1>1 DEF CallTypes
      <3>2. journal' \subseteq journal \cup {started, completed}
        BY <2>1 DEF CallGoesOn, C!markStarted, C!recordCompleted
      <3> HIDE DEF started, completed
      <3> QED BY <1>1, <3>1, <3>2
    <2> QED BY <2>1, <2>2, <2>4, <2>5, <2>6 DEF ContentTypes, CallGoesOn, C!Sites
  <1> QED BY <1>2, <1>3, <1>4, ContentSteps

LEMMA ContentStarts ==
  ASSUME C!ContentInit
  PROVE  ContentTypes
  <1>1. /\ jobs = [j \in Jobs |-> C!NoJob] /\ DOMAIN files = C!Sites /\ DOMAIN db = C!Sites
        /\ points \subseteq {1} /\ calls = {} /\ journal = {} /\ run = C!Idle
    BY DEF C!ContentInit
  <1>2. C!NoJob \in JobRow /\ C!NoJob.status = "none"
    BY DEF C!NoJob, JobRow, Statuses
  <1>3. QueueTypes
    BY <1>1, <1>2 DEF QueueTypes, RowsFit
  <1>4. CallTypes
    BY <1>1 DEF CallTypes, C!Idle, CallFields
  <1>5. \A s \in snaps : s.id \in Nat
    <2> DEFINE s == [id |-> 1, site |-> "production", key |-> 0, files |-> 1, db |-> 1, again |-> FALSE]
    <2>1. snaps = {} \/ snaps = {s}
      BY DEF C!ContentInit
    <2>2. s.id \in Nat
      OBVIOUS
    <2> HIDE DEF s
    <2> QED BY <2>1, <2>2
  <1> QED BY <1>1, <1>3, <1>4, <1>5 DEF ContentTypes

-----------------------------------------------------------------------------
(***************************************************************************)
(* Search and replace.  The journal is asked first and written before the  *)
(* database is changed, by the same call under the same lock; an entry is  *)
(* never lost, so a later call of the job ends at the first step.          *)
(***************************************************************************)
Journaled(j) == \E e \in journal : e.job = j

Replacing == run.job \in Jobs /\ C!Kind = "replace"

ReplaceInv ==
    /\ ContentTypes
    /\ replaced \in [Jobs -> 0..1]
    /\ \A j \in Jobs : replaced[j] = 1 => Journaled(j)
    /\ Replacing =>
         \/ run.todo = <<"journal", "snapshot", "mark", "change", "complete">>
         \/ run.todo \in {<<"snapshot", "mark", "change", "complete">>, <<"mark", "change", "complete">>}
               /\ ~ Journaled(run.job)
         \/ run.todo = <<"change", "complete">> /\ Journaled(run.job) /\ replaced[run.job] = 0
         \/ run.todo \in {<<"complete">>, <<>>}

LEMMA ReplaceKeeps ==
  ASSUME ReplaceInv, [C!ContentNext]_C!contentVars
  PROVE  ReplaceInv'
  <1>1. ContentTypes /\ ContentTypes' /\ replaced \in [Jobs -> 0..1]
        /\ (\A j \in Jobs : replaced[j] = 1 => Journaled(j))
        /\ CallTypes /\ jobs \in [Jobs -> JobRow]
    BY ContentKeepsTypes DEF ReplaceInv, ContentTypes, QueueTypes
  <1>2. CASE SiteStays /\ JobsGoOn
    <2>1. CASE run' = run
      <3>1. Replacing' => Replacing
        BY <1>1, <1>2, <2>1, ContentAssumption
           DEF Replacing, JobsGoOn, CallTypes, Requested, C!Kind, C!ContentAssumption
      <3> QED BY <1>1, <1>2, <2>1, <3>1 DEF ReplaceInv, SiteStays, Journaled
    <2>2. CASE run' = C!Idle
      <3>1. ~ Replacing'
        BY <2>2, ContentAssumption DEF Replacing, C!Idle, C!ContentAssumption
      <3> QED BY <1>1, <1>2, <3>1 DEF ReplaceInv, SiteStays, Journaled
    <2> QED BY <1>2, <2>1, <2>2 DEF SiteStays
  <1>3. CASE \E c \in calls : LockTaken(c)
    <2>1. PICK c \in calls : LockTaken(c)
      BY <1>3
    <2>2. Replacing' => run'.todo = <<"journal", "snapshot", "mark", "change", "complete">>
      BY <2>1 DEF Replacing, LockTaken, C!Kind, C!StepsOf, C!SearchReplaceWordPress
    <2> QED BY <1>1, <2>1, <2>2 DEF ReplaceInv, LockTaken, Journaled
  <1>4. CASE CallStep
    <2>1. PICK step : CallGoesOn(step)
      BY <1>1, <1>4, CallsGoOn
    <2>2. /\ run'.job = run.job /\ jobs' = jobs /\ (Replacing' <=> Replacing)
          /\ run.todo # <<>> /\ Head(run.todo) = step
      BY <2>1 DEF CallGoesOn, Replacing, C!Kind
    <2>3. ASSUME NEW j \in Jobs, Journaled(j)
          PROVE  Journaled(j)'
      <3>1. CASE journal' = journal
        BY <2>3, <3>1 DEF Journaled
      <3>2. CASE C!markStarted
        BY <2>3, <3>2 DEF Journaled, C!markStarted
      <3>3. CASE C!recordCompleted
        <4>1. CASE journal' = journal
          BY <2>3, <4>1 DEF Journaled
        <4>2. CASE journal' # journal
          <5> DEFINE new == [job |-> C!Job, sid |-> run.sid, status |-> "completed"]
          <5>1. journal' = {e \in journal : e.job # C!Job} \cup {new} /\ new.job = C!Job
            BY <3>3, <4>2 DEF C!recordCompleted
          <5> HIDE DEF new
          <5> QED BY <2>3, <5>1 DEF Journaled
        <4> QED BY <4>1, <4>2
      <3> QED BY <2>1, <3>1, <3>2, <3>3 DEF CallGoesOn
    <2>4. CASE Replacing
      <3>1. /\ run.job \in Jobs /\ run.todo # <<>>
            /\ \/ run.todo = <<"journal", "snapshot", "mark", "change", "complete">>
               \/ run.todo \in {<<"snapshot", "mark", "change", "complete">>, <<"mark", "change", "complete">>}
                     /\ ~ Journaled(run.job)
               \/ run.todo = <<"change", "complete">> /\ Journaled(run.job) /\ replaced[run.job] = 0
               \/ run.todo = <<"complete">>
        BY <2>2, <2>4 DEF ReplaceInv, Replacing
      <3>2. run'.todo \in {Tail(run.todo), <<>>}
        BY <2>1, <2>2, <2>4, <3>1 DEF CallGoesOn, Reading, Replacing
      <3>3. CASE run.todo = <<"journal", "snapshot", "mark", "change", "complete">>
        <4>1. step = "journal" /\ Tail(run.todo) = <<"snapshot", "mark", "change", "complete">>
          BY <2>2, <3>3
        <4>2. journal' = journal /\ replaced' = replaced
          BY <2>1, <4>1 DEF CallGoesOn
        <4>3. run'.todo = <<>> \/ (run'.todo = Tail(run.todo) /\ ~ Journaled(run.job))
          BY <2>1, <3>2, <4>1 DEF CallGoesOn, Journaled
        <4>4. ~ Journaled(run.job) => ~ Journaled(run.job)'
          BY <2>2, <4>2 DEF Journaled
        <4> QED BY <1>1, <2>2, <2>3, <4>1, <4>2, <4>3, <4>4 DEF ReplaceInv
      <3>4. CASE run.todo = <<"snapshot", "mark", "change", "complete">>
        <4>1. step = "snapshot" /\ Tail(run.todo) = <<"mark", "change", "complete">>
          BY <2>2, <3>4
        <4>2. journal' = journal /\ replaced' = replaced
          BY <2>1, <4>1 DEF CallGoesOn
        <4>3. ~ Journaled(run.job)'
          BY <2>2, <3>1, <3>4, <4>2 DEF Journaled
        <4> QED BY <1>1, <2>2, <2>3, <3>2, <4>1, <4>2, <4>3 DEF ReplaceInv
      <3>5. CASE run.todo = <<"mark", "change", "complete">>
        <4>1. step = "mark" /\ Tail(run.todo) = <<"change", "complete">>
          BY <2>2, <3>5
        <4>2. replaced' = replaced /\ (C!markStarted \/ run'.todo = <<>>)
          BY <2>1, <4>1 DEF CallGoesOn
        <4>3. replaced[run.job] = 0
          BY <1>1, <3>1, <3>5
        <4>4. C!markStarted => Journaled(run.job)'
          <5> DEFINE new == [job |-> C!Job, sid |-> run.sid, status |-> "started"]
          <5>1. C!markStarted => new \in journal' /\ new.job = run.job
            BY DEF C!markStarted, C!Job
          <5> HIDE DEF new
          <5> QED BY <2>2, <5>1 DEF Journaled
        <4> QED BY <1>1, <2>2, <2>3, <3>2, <4>1, <4>2, <4>3, <4>4 DEF ReplaceInv
      <3>6. CASE run.todo = <<"change", "complete">>
        <4>1. step = "change" /\ Tail(run.todo) = <<"complete">>
          BY <2>2, <3>6
        <4>2. replaced' = [replaced EXCEPT ![run.job] = @ + 1]
          BY <2>1, <2>4, <4>1 DEF CallGoesOn, Replacing
        <4>3. replaced[run.job] = 0
          BY <3>1, <3>6
        <4>4. replaced' = [replaced EXCEPT ![run.job] = 1]
          BY <1>1, <3>1, <4>2, <4>3
        <4>5. replaced' \in [Jobs -> 0..1] /\ \A j \in Jobs \ {run.job} : replaced'[j] = replaced[j]
          BY <1>1, <3>1, <4>4
        <4>6. Journaled(run.job)
          BY <3>1, <3>6
        <4> QED BY <1>1, <2>2, <2>3, <3>1, <3>2, <4>1, <4>5, <4>6 DEF ReplaceInv
      <3>7. CASE run.todo = <<"complete">>
        <4>1. step = "complete" /\ Tail(run.todo) = <<>>
          BY <2>2, <3>7
        <4>2. replaced' = replaced
          BY <2>1, <4>1 DEF CallGoesOn
        <4> QED BY <1>1, <2>2, <2>3, <3>2, <4>1, <4>2 DEF ReplaceInv
      <3> QED BY <3>1, <3>3, <3>4, <3>5, <3>6, <3>7
    <2>5. CASE ~ Replacing
      <3>1. run.job \in Jobs
        <4>1. run.job # 0
          BY <1>1, <2>1, <2>2 DEF CallGoesOn, CallTypes
        <4> QED BY <1>1, <4>1 DEF CallTypes, Requested
      <3>2. replaced' = replaced
        BY <2>1, <2>5, <3>1 DEF CallGoesOn, Replacing
      <3> QED BY <1>1, <2>2, <2>3, <2>5, <3>2 DEF ReplaceInv
    <2> QED BY <2>4, <2>5
  <1> QED BY <1>1, <1>2, <1>3, <1>4, ContentSteps

\* However often a job is called and wherever its calls break off, its search and
\* replace is run over the database once at most.
THEOREM SearchReplaceStaysOnce == Spec => []SearchReplaceOnce
  <1>1. ASSUME C!ContentInit
        PROVE  ReplaceInv
    <2>1. ContentTypes /\ replaced = [j \in Jobs |-> 0] /\ run.job = 0
      BY <1>1, ContentStarts DEF C!ContentInit, C!Idle
    <2>2. ~ Replacing
      BY <2>1, ContentAssumption DEF Replacing, C!ContentAssumption
    <2>3. replaced \in [Jobs -> 0..1] /\ \A j \in Jobs : replaced[j] = 0
      BY <2>1
    <2> QED BY <2>1, <2>2, <2>3 DEF ReplaceInv
  <1>2. ReplaceInv /\ [C!ContentNext]_C!contentVars => ReplaceInv'
    BY ReplaceKeeps
  <1>3. ReplaceInv => SearchReplaceOnce
    BY DEF ReplaceInv, SearchReplaceOnce, C!SearchReplaceOnce
  <1> QED BY <1>1, <1>2, <1>3, ContentIsRefined, PTL DEF C!ContentSpec

-----------------------------------------------------------------------------
(***************************************************************************)
(* Recovery.  The first snapshot of production is taken while it is whole, *)
(* by a call that has only read it till then; and one is forgotten only    *)
(* for a later one of the same job, which that job has taken again.        *)
(***************************************************************************)
Counts(s) == C!Whole(s) \/ s.again

Safe == \E s \in snaps : s.site = "production" /\ Counts(s)

\* The call has not yet taken its snapshot, or has ended, or takes none.
Untouched ==
    \/ run.todo \in {<<>>, C!StepsOf(run.job)}
    \/ C!Kind = "replace" /\ run.todo = Tail(C!StepsOf(run.job))
    \/ C!Kind = "test" /\ run.todo = <<"record">>

RecoverInv ==
    /\ ContentTypes
    /\ \A s \in snaps : s.key = 0 \/ (Requested(s.key) /\ s.site = C!Target(s.key))
    /\ \A r, s \in snaps : r.key = s.key /\ r.id > s.id => r.again
    /\ \/ Safe
       \/ /\ C!Whole(C!Content("production")) /\ \A s \in snaps : s.site # "production"
          /\ run.job # 0 /\ C!Site = "production" => Untouched

\* What replaces the content of production takes a snapshot first.
LEMMA PlansStart ==
  ASSUME NEW j \in Jobs, jobs[j].kind \in Kinds, C!Target(j) = "production"
  PROVE  /\ jobs[j].kind = "test" => C!StepsOf(j) = <<"download", "record">>
         /\ jobs[j].kind = "replace" => C!StepsOf(j) = <<"journal", "snapshot", "mark", "change", "complete">>
         /\ jobs[j].kind \notin {"test", "replace"} => Head(C!StepsOf(j)) = "snapshot"
  <1>1. jobs[j].kind \in {"backup", "restore", "test", "update", "deploy", "custom", "replace"}
    BY ContentAssumption DEF C!ContentAssumption, C!Target
  <1>2. CASE jobs[j].kind = "custom"
    <2> DEFINE W(p, t) == IF p \in jobs[j].parts THEN t ELSE <<>>
               a == W("db", <<"dump">>)
               b == W("files", <<"build">>)
               c == W("db", <<"change">>)
               d == W("files", <<"recover", "preserve", "activate">>)
               Words == {"snapshot", "dump", "build", "change", "recover", "preserve", "activate"}
    <2>1. a \in Seq(Words) /\ b \in Seq(Words) /\ c \in Seq(Words) /\ d \in Seq(Words) /\ "snapshot" \in Words
      <3>1. <<>> \in Seq(Words) /\ <<"dump">> \in Seq(Words) /\ <<"build">> \in Seq(Words)
        OBVIOUS
      <3>2. <<"change">> \in Seq(Words) /\ "snapshot" \in Words
        OBVIOUS
      <3>3. <<"recover", "preserve", "activate">> \in Seq(Words)
        OBVIOUS
      <3> QED BY <3>1, <3>2, <3>3
    <2>2. C!StepsOf(j) = <<"snapshot">> \o a \o b \o c \o d
      BY <1>2 DEF C!StepsOf, C!deploySelected
    <2> HIDE DEF a, b, c, d, Words
    <2>3. Head(<<"snapshot">> \o a \o b \o c \o d) = "snapshot"
      BY <2>1
    <2> QED BY <1>2, <2>2, <2>3
  <1>3. CASE jobs[j].kind = "deploy"
    BY <1>3 DEF C!StepsOf, C!DeployStaging, C!replaceEnvironment
  <1>4. CASE jobs[j].kind \in {"backup", "restore", "test", "update", "replace"}
    BY <1>4 DEF C!StepsOf, C!BackupSite, C!RestoreSite, C!TestRestore, C!UpdateWordPress, C!SearchReplaceWordPress
  <1> QED BY <1>1, <1>2, <1>3, <1>4

\* What is forgotten gives way to one that counts, and what is new is of the site
\* as it is.
LEMMA SnapshotsCount ==
  ASSUME RecoverInv, NEW step, CallGoesOn(step)
  PROVE  /\ Safe => Safe'
         /\ \A s \in snaps' : s.key = 0 \/ (Requested(s.key) /\ s.site = C!Target(s.key))
         /\ \A r, s \in snaps' : r.key = s.key /\ r.id > s.id => r.again
         /\ \A s \in snaps' \ snaps : s.site = C!Site /\ s.files = files[C!Site] /\ s.db = db[C!Site]
         /\ step = "snapshot" => run'.todo = <<>> \/ \E s \in snaps' : s.site = C!Site
  <1>1. /\ ContentTypes /\ \A s \in snaps : s.key = 0 \/ (Requested(s.key) /\ s.site = C!Target(s.key))
        /\ \A r, s \in snaps : r.key = s.key /\ r.id > s.id => r.again
        /\ \A s \in snaps : s.id \in Nat
    BY DEF RecoverInv, ContentTypes
  <1>2. Requested(run.job) /\ run.job # 0
    <2>1. run.todo # <<>> /\ Head(run.todo) = step /\ step # "wait"
      BY DEF CallGoesOn
    <2> QED BY <1>1, <2>1 DEF ContentTypes, CallTypes
  <1>3. CASE C!backupSite
    <2>1. CASE snaps' = snaps /\ C!OfJob(run.job) # {}
      BY <1>1, <1>2, <2>1 DEF C!OfJob, C!Site, Safe
    <2>2. CASE \E n \in Nat : (\A s \in snaps : s.id < n) /\ snaps' = snaps \cup {NewSnapshot(n)}
      <3>1. PICK n \in Nat : (\A s \in snaps : s.id < n) /\ snaps' = snaps \cup {NewSnapshot(n)}
        BY <2>2
      <3> DEFINE new == NewSnapshot(n)
      <3>2. /\ new.id = n /\ new.site = C!Site /\ new.key = run.job
            /\ new.files = files[C!Site] /\ new.db = db[C!Site] /\ new.again = (C!OfJob(run.job) # {})
        BY SnapshotFields
      <3> HIDE DEF new
      <3>3. ASSUME NEW r \in snaps', NEW s \in snaps', r.key = s.key, r.id > s.id
            PROVE  r.again
        <4>1. s \in snaps
          <5>1. CASE r = new
            BY <1>1, <3>1, <3>2, <3>3, <5>1
          <5>2. CASE r \in snaps /\ s = new
            BY <1>1, <3>1, <3>2, <3>3, <5>2
          <5> QED BY <3>1, <3>3, <5>1, <5>2 DEF new
        <4>2. CASE r \in snaps
          BY <1>1, <3>3, <4>1, <4>2
        <4>3. CASE r = new
          BY <3>2, <3>3, <4>1, <4>3 DEF C!OfJob
        <4> QED BY <3>1, <3>3, <4>2, <4>3 DEF new
      <3>4. snaps' = snaps \cup {new}
        BY <3>1 DEF new
      <3>5. Safe => Safe'
        BY <3>4 DEF Safe
      <3>6. ASSUME NEW s \in snaps'
            PROVE  s.key = 0 \/ (Requested(s.key) /\ s.site = C!Target(s.key))
        <4>1. new.site = C!Target(new.key)
          BY <3>2 DEF C!Site
        <4> QED BY <1>1, <1>2, <3>2, <3>4, <3>6, <4>1
      <3>7. ASSUME NEW s \in snaps' \ snaps
            PROVE  s.site = C!Site /\ s.files = files[C!Site] /\ s.db = db[C!Site]
        BY <3>2, <3>4
      <3>8. \E s \in snaps' : s.site = C!Site
        BY <3>2, <3>4
      <3> QED BY <3>3, <3>5, <3>6, <3>7, <3>8
    <2> QED BY <1>1, <1>3, <2>1, <2>2, SnapshotTaken
  <1>4. CASE step = "forget" /\ C!applyBackupRetention
    <2>1. snaps' \subseteq snaps
      BY <1>4 DEF C!applyBackupRetention
    <2>2. ASSUME NEW s \in snaps, s \notin snaps'
          PROVE  \E r \in snaps' : r.site = s.site /\ r.again
      <3>1. \E r \in snaps' : r.site = s.site /\ r.key = s.key /\ r.id > s.id
        BY <1>4, <2>2 DEF C!applyBackupRetention, C!Superseded
      <3> QED BY <1>1, <2>1, <3>1
    <2>3. Safe => Safe'
      BY <2>2 DEF Safe, Counts
    <2> QED BY <1>1, <1>4, <2>1, <2>3
  <1>5. CASE snaps' = snaps
    <2>1. Safe => Safe'
      BY <1>5 DEF Safe
    <2>2. step = "snapshot" => C!backupSite \/ run'.todo = <<>>
      BY DEF CallGoesOn
    <2> QED BY <1>1, <1>3, <1>5, <2>1, <2>2
  <1> QED BY <1>3, <1>4, <1>5 DEF CallGoesOn

LEMMA RecoverKeeps ==
  ASSUME RecoverInv, [C!ContentNext]_C!contentVars
  PROVE  RecoverInv'
  <1>1. /\ ContentTypes /\ ContentTypes' /\ CallTypes /\ QueueTypes
        /\ \A s \in snaps : s.key = 0 \/ (Requested(s.key) /\ s.site = C!Target(s.key))
        /\ \A r, s \in snaps : r.key = s.key /\ r.id > s.id => r.again
    BY ContentKeepsTypes DEF RecoverInv, ContentTypes
  <1>2. ASSUME snaps' = snaps, JobsGoOn
        PROVE  /\ \A s \in snaps' : s.key = 0 \/ (Requested(s.key) /\ s.site = C!Target(s.key))'
               /\ \A r, s \in snaps' : r.key = s.key /\ r.id > s.id => r.again
    <2>1. ASSUME NEW s \in snaps, s.key # 0
          PROVE  (Requested(s.key) /\ s.site = C!Target(s.key))'
      <3>1. Requested(s.key) /\ s.site = C!Target(s.key)
        BY <1>1, <2>1
      <3>2. s.key \in Jobs /\ jobs'[s.key].status # "none" /\ C!Target(s.key)' = C!Target(s.key)
        BY <1>2, <3>1, PlanStays DEF JobsGoOn, Requested
      <3> QED BY <3>1, <3>2 DEF Requested
    <2> QED BY <1>1, <1>2, <2>1
  <1>3. ASSUME files' = files, db' = db
        PROVE  C!Whole(C!Content("production"))' = C!Whole(C!Content("production"))
    BY <1>3 DEF C!Whole, C!Content
  <1>4. Safe /\ snaps' = snaps => Safe'
    BY DEF Safe, Counts, C!Whole
  <1>5. CASE SiteStays /\ JobsGoOn
    <2>1. snaps' = snaps /\ files' = files /\ db' = db
      BY <1>5 DEF SiteStays
    <2>2. ASSUME run.job # 0 /\ C!Site = "production" => Untouched
          PROVE  (run.job # 0 /\ C!Site = "production" => Untouched)'
      <3>1. CASE run' = run /\ run.job # 0
        <4>1. Requested(run.job)
          BY <1>1, <3>1 DEF CallTypes
        <4>2. /\ run.job \in Jobs /\ C!StepsOf(run.job)' = C!StepsOf(run.job)
              /\ C!Target(run.job)' = C!Target(run.job) /\ jobs'[run.job].kind = jobs[run.job].kind
          BY <1>5, <3>1, <4>1, PlanStays DEF JobsGoOn, Requested
        <4> QED BY <2>2, <3>1, <4>2 DEF Untouched, C!Site, C!Kind
      <3>2. CASE run'.job = 0
        BY <3>2
      <3> QED BY <1>5, <3>1, <3>2 DEF SiteStays, C!Idle
    <2> QED BY <1>1, <1>2, <1>3, <1>4, <1>5, <2>1, <2>2 DEF RecoverInv
  <1>6. CASE \E c \in calls : LockTaken(c)
    <2>1. PICK c \in calls : LockTaken(c)
      BY <1>6
    <2>2. snaps' = snaps /\ files' = files /\ db' = db /\ jobs' = jobs
      BY <2>1 DEF LockTaken
    <2>3. JobsGoOn
      BY <2>2 DEF JobsGoOn, Requested
    <2>4. Untouched'
      <3>1. c.job \in Jobs /\ run'.job = c.job /\ run'.todo = C!StepsOf(c.job)
        BY <2>1 DEF LockTaken, Requested
      <3>2. C!StepsOf(c.job)' = C!StepsOf(c.job)
        BY <2>2, <3>1, PlanStays
      <3> QED BY <3>1, <3>2 DEF Untouched
    <2> QED BY <1>1, <1>2, <1>3, <1>4, <2>2, <2>3, <2>4 DEF RecoverInv
  <1>7. CASE CallStep
    <2>1. PICK step : CallGoesOn(step)
      BY <1>1, <1>7, CallsGoOn
    <2>2. /\ jobs' = jobs /\ run'.job = run.job /\ run.todo # <<>> /\ Head(run.todo) = step /\ step # "wait"
      BY <2>1 DEF CallGoesOn
    <2>3. Requested(run.job) /\ run.job # 0 /\ run.job \in Jobs /\ C!Kind \in Kinds
      <3>1. Requested(run.job) /\ run.job # 0
        BY <1>1, <2>2 DEF CallTypes
      <3> QED BY <1>1, <3>1 DEF Requested, QueueTypes, RowsFit, C!Kind
    <2>4. /\ Safe => Safe'
          /\ \A s \in snaps' : s.key = 0 \/ (Requested(s.key) /\ s.site = C!Target(s.key))
          /\ \A r, s \in snaps' : r.key = s.key /\ r.id > s.id => r.again
          /\ \A s \in snaps' \ snaps : s.site = C!Site /\ s.files = files[C!Site] /\ s.db = db[C!Site]
          /\ step = "snapshot" => run'.todo = <<>> \/ \E s \in snaps' : s.site = C!Site
      BY <2>1, SnapshotsCount
    <2>5. /\ \A s \in snaps' : s.key = 0 \/ (Requested(s.key) /\ s.site = C!Target(s.key))'
      BY <2>2, <2>4 DEF Requested, C!Target
    <2>6. CASE Safe
      BY <1>1, <2>4, <2>5, <2>6 DEF RecoverInv
    <2>7. CASE /\ C!Whole(C!Content("production")) /\ \A s \in snaps : s.site # "production"
               /\ run.job # 0 /\ C!Site = "production" => Untouched
      <3>1. ASSUME NEW s \in snaps', s.site = "production"
            PROVE  Safe'
        <4>1. C!Site = "production" /\ s.files = files["production"] /\ s.db = db["production"]
          BY <2>4, <2>7, <3>1
        <4> QED BY <2>7, <3>1, <4>1 DEF Safe, Counts, C!Whole, C!Content
      <3>2. ASSUME \A s \in snaps' : s.site # "production"
            PROVE  /\ C!Whole(C!Content("production"))'
                   /\ (run.job # 0 /\ C!Site = "production" => Untouched)'
        <4>1. CASE C!Site # "production"
          <5>1. files'["production"] = files["production"] /\ db'["production"] = db["production"]
            BY <2>1, <4>1 DEF CallGoesOn, C!Sites
          <5>2. C!Site' = C!Site
            BY <2>2 DEF C!Site, C!Target
          <5> QED BY <2>7, <4>1, <5>1, <5>2 DEF C!Whole, C!Content
        <4>2. CASE C!Site = "production"
          <5>1. Untouched
            BY <2>3, <2>7, <4>2
          <5>2. /\ C!Kind = "test" => C!StepsOf(run.job) = <<"download", "record">>
                /\ C!Kind = "replace" => C!StepsOf(run.job) = <<"journal", "snapshot", "mark", "change", "complete">>
                /\ C!Kind \notin {"test", "replace"} => Head(C!StepsOf(run.job)) = "snapshot"
            BY <2>3, <4>2, PlansStart DEF C!Kind, C!Site
          <5>3. step \in {"snapshot", "journal", "download", "record"}
            BY <2>2, <5>1, <5>2 DEF Untouched
          <5>4. files'["production"] = files["production"] /\ db'["production"] = db["production"]
                /\ run'.todo \in {Tail(run.todo), <<>>}
            BY <2>1, <5>3 DEF CallGoesOn, C!Sites, Reading
          <5>5. run'.todo = <<>> \/ (C!Kind = "replace" /\ run'.todo = Tail(C!StepsOf(run.job)))
                \/ (C!Kind = "test" /\ run'.todo = <<"record">>)
            <6>1. step = "snapshot" => run'.todo = <<>>
              BY <2>4, <3>2, <4>2
            <6>2. CASE C!Kind = "test"
              <7>1. run.todo = <<"download", "record">> \/ run.todo = <<"record">>
                BY <2>2, <5>1, <5>2, <6>2 DEF Untouched
              <7>2. CASE run.todo = <<"download", "record">>
                <8>1. Tail(run.todo) = <<"record">>
                  BY <7>2
                <8> QED BY <5>4, <6>2, <8>1
              <7>3. CASE run.todo = <<"record">>
                <8>1. Tail(run.todo) = <<>>
                  BY <7>3
                <8> QED BY <5>4, <8>1
              <7> QED BY <7>1, <7>2, <7>3
            <6>3. CASE C!Kind = "replace"
              <7>1. CASE run.todo = C!StepsOf(run.job)
                BY <5>4, <6>3, <7>1
              <7>2. CASE run.todo = Tail(C!StepsOf(run.job))
                <8>1. run.todo = Tail(<<"journal", "snapshot", "mark", "change", "complete">>)
                  BY <5>2, <6>3, <7>2
                <8>2. step = "snapshot"
                  BY <2>2, <8>1
                <8> QED BY <6>1, <8>2
              <7> QED BY <2>2, <5>1, <6>3, <7>1, <7>2 DEF Untouched
            <6>4. CASE C!Kind \notin {"test", "replace"}
              <7>1. step = "snapshot"
                BY <2>2, <5>1, <5>2, <6>4 DEF Untouched
              <7> QED BY <6>1, <7>1
            <6> QED BY <6>2, <6>3, <6>4
          <5>6. C!StepsOf(run.job)' = C!StepsOf(run.job) /\ C!Kind' = C!Kind
            BY <2>2, <2>3, PlanStays DEF C!Kind
          <5>7. Untouched'
            BY <2>2, <5>5, <5>6 DEF Untouched
          <5> QED BY <2>7, <5>4, <5>7 DEF C!Whole, C!Content
        <4> QED BY <4>1, <4>2
      <3> QED BY <1>1, <2>4, <2>5, <3>1, <3>2 DEF RecoverInv
    <2> QED BY <2>6, <2>7 DEF RecoverInv
  <1> QED BY <1>1, <1>5, <1>6, <1>7, ContentSteps

\* Whatever has failed or stopped, as long as production has lost its tree or has a
\* torn database there is a whole snapshot of it, which no retention forgets: unless a
\* job called again has not found its own and has taken one of the site half changed.
THEOREM ContentStaysRecoverable == Spec => []Recoverable
  <1>1. ASSUME C!ContentInit
        PROVE  RecoverInv
    <2>1. ContentTypes /\ run.job = 0
      BY <1>1, ContentStarts DEF C!ContentInit, C!Idle
    <2>2. C!Whole(C!Content("production"))
      BY <1>1 DEF C!ContentInit, C!Whole, C!Content, C!Sites
    <2>3. CASE snaps = {}
      BY <2>1, <2>2, <2>3 DEF RecoverInv
    <2>4. CASE snaps # {}
      <3> DEFINE s == [id |-> 1, site |-> "production", key |-> 0, files |-> 1, db |-> 1, again |-> FALSE]
      <3>1. snaps = {s}
        BY <1>1, <2>4 DEF C!ContentInit
      <3>2. s.site = "production" /\ s.key = 0 /\ C!Whole(s)
        BY DEF C!Whole
      <3> HIDE DEF s
      <3>3. Safe
        BY <3>1, <3>2 DEF Safe, Counts
      <3>4. \A r \in snaps : r.key = 0
        BY <3>1, <3>2
      <3>5. \A r, t \in snaps : ~ r.id > t.id
        <4>1. s.id = 1
          BY DEF s
        <4> QED BY <3>1, <4>1
      <3> QED BY <2>1, <3>3, <3>4, <3>5 DEF RecoverInv
    <2> QED BY <2>3, <2>4
  <1>2. RecoverInv /\ [C!ContentNext]_C!contentVars => RecoverInv'
    BY RecoverKeeps
  <1>3. RecoverInv => Recoverable
    BY DEF RecoverInv, Safe, Counts, Recoverable, C!Recoverable, C!TakenOfHalfChanged
  <1> QED BY <1>1, <1>2, <1>3, ContentIsRefined, PTL DEF C!ContentSpec

-----------------------------------------------------------------------------
(***************************************************************************)
(* Answers.  What the call that has the lock has found, put in place and   *)
(* kept to take it back, by the steps it has left.  What is said of what   *)
(* it found is said of calls that are not repeated; a success is one       *)
(* whether the call is a repetition or not.                                *)
(***************************************************************************)
At(c) == files[C!Site] = c.files /\ db[C!Site] = c.db

Parts  == jobs[run.job].parts
Copies == {"deploy", "sync", "custom"}

FilesFound == run.again \/ files[C!Site] = run.found.files
DbFound    == run.again \/ db[C!Site] = run.found.db
DumpFound  == run.again \/ run.dump = run.found.db
TreeFound  == run.again \/ run.found.files # 0

\* The trees of this call that were moved aside.
Aside      == {p \in previous : p.of = C!Mine}
AsideFound == run.again \/ \A p \in Aside : p.files = run.found.files

\* A database that was changed can be put back; one that was not need not.
DbKept == IF "db" \in Parts THEN DumpFound ELSE DbFound

\* Backups and restore tests, and a search and replace up to its entry, only read.
Reads ==
    /\ run.ok /\ At(run.found) /\ run.goal = run.found
    /\ \/ C!Kind = "backup"  /\ run.todo \in {<<"snapshot", "forget">>, <<"forget">>}
       \/ C!Kind = "test"    /\ run.todo \in {<<"download", "record">>, <<"record">>}
       \/ C!Kind = "replace" /\ run.todo \in {<<"journal", "snapshot", "mark", "change", "complete">>,
                                              <<"snapshot", "mark", "change", "complete">>,
                                              <<"mark", "change", "complete">>}

Replaces ==
    /\ run.ok /\ C!Kind = "replace"
    /\ \/ run.todo = <<"change", "complete">> /\ files[C!Site] = run.goal.files
       \/ run.todo = <<"complete">> /\ At(run.goal)

Restores ==
    /\ run.ok /\ C!Kind = "restore"
    /\ \/ /\ run.todo \in {<<"snapshot", "download", "dump", "preserve", "activate", "change", "discard", "record">>,
                           <<"download", "dump", "preserve", "activate", "change", "discard", "record">>,
                           <<"dump", "preserve", "activate", "change", "discard", "record">>}
          /\ FilesFound /\ DbFound
       \/ /\ run.todo = <<"preserve", "activate", "change", "discard", "record">>
          /\ FilesFound /\ DbFound /\ DumpFound /\ Aside = {}
       \/ /\ run.todo = <<"activate", "change", "discard", "record">>
          /\ AsideFound /\ DbFound /\ DumpFound
       \/ /\ run.todo = <<"change", "discard", "record">>
          /\ files[C!Site] = run.goal.files /\ AsideFound /\ DumpFound
       \/ run.todo \in {<<"discard", "record">>, <<"record">>} /\ At(run.goal)

\* An update or a copy before its dump (of the files only: before its tree is built).
Prepares ==
    /\ run.ok /\ FilesFound /\ DbFound
    /\ \/ /\ C!Kind = "update" /\ (run.again \/ (Aside = {} /\ \A c \in copies : c.job # run.job))
          /\ \/ run.todo \in {<<"snapshot", "recover", "dump", "build", "change", "preserve", "activate">>,
                              <<"recover", "dump", "build", "change", "preserve", "activate">>}
             \/ run.todo = <<"dump", "build", "change", "preserve", "activate">> /\ Aside = {}
       \/ /\ C!Kind \in Copies /\ Parts = {"files", "db"}
          /\ run.todo \in {<<"snapshot", "dump", "build", "change", "recover", "preserve", "activate">>,
                           <<"dump", "build", "change", "recover", "preserve", "activate">>}
       \/ /\ C!Kind = "custom" /\ Parts = {"db"}
          /\ run.todo \in {<<"snapshot", "dump", "change">>, <<"dump", "change">>}
       \/ /\ C!Kind = "custom" /\ Parts = {"files"}
          /\ \/ /\ run.todo = <<"snapshot", "build", "recover", "preserve", "activate">>
                /\ run.again \/ \A s \in snaps : s.key # run.job
             \/ run.todo = <<"build", "recover", "preserve", "activate">> /\ TreeFound

\* After the dump nothing has been changed yet.
Dumped ==
    /\ run.ok /\ FilesFound /\ DbFound /\ DumpFound /\ TreeFound
    /\ \/ /\ C!Kind = "update" /\ Aside = {}
          /\ run.todo \in {<<"build", "change", "preserve", "activate">>, <<"change", "preserve", "activate">>}
       \/ /\ C!Kind \in Copies /\ Parts = {"files", "db"}
          /\ run.todo \in {<<"build", "change", "recover", "preserve", "activate">>,
                           <<"change", "recover", "preserve", "activate">>}
       \/ /\ C!Kind = "custom" /\ Parts = {"db"} /\ run.todo = <<"change">>
          /\ files[C!Site] = run.goal.files

\* The database is done, the tree is still to be exchanged.
Changed ==
    /\ run.ok /\ C!Kind \in Copies \cup {"update"} /\ "files" \in Parts
    /\ db[C!Site] = run.goal.db /\ FilesFound /\ DbKept /\ TreeFound
    /\ \/ run.todo = <<"recover", "preserve", "activate">> /\ C!Kind # "update"
       \/ run.todo = <<"preserve", "activate">> /\ Aside = {}

Moved ==
    /\ run.ok /\ C!Kind \in Copies \cup {"update"} /\ "files" \in Parts
    /\ db[C!Site] = run.goal.db /\ AsideFound /\ DbKept
    /\ run.todo = <<"activate">>

\* What was done is being taken back.
TakesBack ==
    /\ ~ run.ok
    /\ \/ /\ C!Kind \in Copies \cup {"update"} /\ run.todo = <<"undo">>
          /\ run.stuck \/ (FilesFound /\ DumpFound)
       \/ /\ C!Kind = "restore" /\ AsideFound
          /\ \/ run.todo = <<"undo", "unswitch">> /\ DumpFound
             \/ run.todo = <<"unswitch">> /\ (run.stuck \/ DbFound)

Ended ==
    /\ run.todo = <<>>
    /\ IF run.ok THEN At(run.goal)
       ELSE \/ run.again \/ run.stuck \/ At(run.found)
            \/ C!Kind = "restore" /\ At(run.goal)

CallTells == Reads \/ Replaces \/ Restores \/ Prepares \/ Dumped \/ Changed \/ Moved \/ TakesBack \/ Ended

IsContent(c) == c = [files |-> c.files, db |-> c.db]

\* What is left of a job is left by one that has been carried out; of trees moved
\* aside no two are one owner's.
LeftInv ==
    /\ \A p, q \in previous : p.of = q.of => p = q
    /\ \A p \in previous : p.of.job = 0 \/ p.of.job \in begun
    /\ \A c \in copies : c.job \in begun
    /\ \A s \in snaps : s.key = 0 \/ s.key \in begun

AnswersInv ==
    /\ ContentTypes /\ LeftInv
    /\ run.job # 0 => /\ run.job \in begun /\ IsContent(run.found) /\ IsContent(run.goal)
                      /\ CallTells

\* The call's job, site and directories stay, and what it has found.
Frame ==
    /\ C!Kind' = C!Kind /\ Parts' = Parts /\ C!Site' = C!Site /\ C!Mine' = C!Mine
    /\ run'.job = run.job /\ run'.again = run.again /\ run'.found = run.found

LEMMA CallsKeepFrame ==
  ASSUME ContentTypes, CallStep
  PROVE  /\ Frame /\ run.job # 0 /\ run.todo # <<>> /\ run.job \in Jobs
         /\ Parts # {} /\ Parts \subseteq {"files", "db"} /\ (C!Kind = "custom" \/ Parts = {"files", "db"})
         /\ C!Site \in C!Sites /\ C!Kind \in Kinds /\ UNCHANGED <<jobs, begun>>
  <1>1. PICK step : CallGoesOn(step)
    BY CallsGoOn
  <1>2. /\ jobs' = jobs /\ begun' = begun /\ run'.job = run.job /\ run.todo # <<>> /\ Head(run.todo) = step
        /\ step # "wait" /\ run'.again = run.again /\ run'.found = run.found
    BY <1>1 DEF CallGoesOn
  <1>3. Requested(run.job) /\ run.job # 0
    BY <1>2 DEF ContentTypes, CallTypes
  <1>4. Frame
    BY <1>2 DEF Frame, Parts, C!Kind, C!Site, C!Mine, C!Owner, C!Target
  <1>5. /\ Parts # {} /\ Parts \subseteq {"files", "db"} /\ (C!Kind = "custom" \/ Parts = {"files", "db"})
        /\ C!Kind \in Kinds
    BY <1>3 DEF ContentTypes, QueueTypes, RowsFit, JobRow, Requested, Parts, C!Kind, C!All
  <1> QED BY <1>2, <1>3, <1>4, <1>5 DEF Requested, C!Site, C!Sites, C!Target

\* How a step may end.
EndsWith(t, ok, stuck) ==
    run'.todo = t /\ run'.ok = ok /\ run'.stuck = stuck /\ run'.goal = run.goal /\ run'.dump = run.dump

LEMMA Outcomes ==
  ASSUME ContentTypes
  PROVE  /\ C!Advance => EndsWith(Tail(run.todo), run.ok, run.stuck)
         /\ C!Fail => EndsWith(<<>>, FALSE, run.stuck)
         /\ C!FailStuck => EndsWith(<<>>, FALSE, TRUE)
         /\ \A stuck \in BOOLEAN : C!RollBack(stuck) =>
               EndsWith(IF C!Kind = "restore" THEN <<"undo", "unswitch">>
                        ELSE IF "db" \in Parts THEN <<"undo">> ELSE <<>>, FALSE, stuck)
         /\ C!rollbackDatabase = C!RollBack(FALSE)
  <1>1. DOMAIN run = CallFields /\ {"todo", "ok", "stuck", "goal", "dump"} \subseteq CallFields
    BY DEF ContentTypes, CallTypes, CallFields
  <1>2. C!Advance => EndsWith(Tail(run.todo), run.ok, run.stuck)
    BY <1>1 DEF C!Advance, EndsWith
  <1>3. C!Fail => EndsWith(<<>>, FALSE, run.stuck)
    BY <1>1 DEF C!Fail, EndsWith
  <1>4. C!FailStuck => EndsWith(<<>>, FALSE, TRUE)
    BY <1>1 DEF C!FailStuck, EndsWith
  <1>5. ASSUME NEW stuck \in BOOLEAN, C!RollBack(stuck)
        PROVE  EndsWith(IF C!Kind = "restore" THEN <<"undo", "unswitch">>
                        ELSE IF "db" \in Parts THEN <<"undo">> ELSE <<>>, FALSE, stuck)
    BY <1>1, <1>5 DEF C!RollBack, EndsWith, Parts, C!Job
  <1> QED BY <1>2, <1>3, <1>4, <1>5 DEF C!rollbackDatabase

\* A tree or database that was not touched still has what was found.
LEMMA FoundStays ==
  ASSUME Frame
  PROVE  /\ files'[C!Site] = files[C!Site] => FilesFound' = FilesFound
         /\ db'[C!Site] = db[C!Site] => DbFound' = DbFound
         /\ run'.dump = run.dump => DumpFound' = DumpFound
         /\ TreeFound' = TreeFound
         /\ previous' = previous => Aside' = Aside /\ AsideFound' = AsideFound
         /\ db'[C!Site] = db[C!Site] /\ run'.dump = run.dump => DbKept' = DbKept
         /\ \A c : files'[C!Site] = files[C!Site] /\ db'[C!Site] = db[C!Site] => At(c)' = At(c)
  BY DEF Frame, FilesFound, DbFound, DumpFound, TreeFound, Aside, AsideFound, DbKept, At

\* What a call that has these steps left does first, and what it has left then.
Begins(t, step, rest) == t # <<>> /\ Head(t) = step /\ Tail(t) = rest

LEMMA StepsLeft ==
  /\ Begins(<<"snapshot", "forget">>, "snapshot", <<"forget">>)
  /\ Begins(<<"forget">>, "forget", <<>>)
  /\ Begins(<<"download", "record">>, "download", <<"record">>)
  /\ Begins(<<"record">>, "record", <<>>)
  /\ Begins(<<"journal", "snapshot", "mark", "change", "complete">>, "journal",
            <<"snapshot", "mark", "change", "complete">>)
  /\ Begins(<<"snapshot", "mark", "change", "complete">>, "snapshot",
            <<"mark", "change", "complete">>)
  /\ Begins(<<"mark", "change", "complete">>, "mark", <<"change", "complete">>)
  /\ Begins(<<"change", "complete">>, "change", <<"complete">>)
  /\ Begins(<<"complete">>, "complete", <<>>)
  /\ Begins(<<"snapshot", "download", "dump", "preserve", "activate", "change", "discard", "record">>, "snapshot",
                  <<"download", "dump", "preserve", "activate", "change", "discard", "record">>)
  /\ Begins(<<"download", "dump", "preserve", "activate", "change", "discard", "record">>, "download",
            <<"dump", "preserve", "activate", "change", "discard", "record">>)
  /\ Begins(<<"dump", "preserve", "activate", "change", "discard", "record">>, "dump",
            <<"preserve", "activate", "change", "discard", "record">>)
  /\ Begins(<<"preserve", "activate", "change", "discard", "record">>, "preserve",
            <<"activate", "change", "discard", "record">>)
  /\ Begins(<<"activate", "change", "discard", "record">>, "activate",
            <<"change", "discard", "record">>)
  /\ Begins(<<"change", "discard", "record">>, "change", <<"discard", "record">>)
  /\ Begins(<<"discard", "record">>, "discard", <<"record">>)
  /\ Begins(<<"snapshot", "recover", "dump", "build", "change", "preserve", "activate">>, "snapshot",
            <<"recover", "dump", "build", "change", "preserve", "activate">>)
  /\ Begins(<<"recover", "dump", "build", "change", "preserve", "activate">>, "recover",
            <<"dump", "build", "change", "preserve", "activate">>)
  /\ Begins(<<"dump", "build", "change", "preserve", "activate">>, "dump",
            <<"build", "change", "preserve", "activate">>)
  /\ Begins(<<"build", "change", "preserve", "activate">>, "build",
            <<"change", "preserve", "activate">>)
  /\ Begins(<<"change", "preserve", "activate">>, "change", <<"preserve", "activate">>)
  /\ Begins(<<"preserve", "activate">>, "preserve", <<"activate">>)
  /\ Begins(<<"activate">>, "activate", <<>>)
  /\ Begins(<<"snapshot", "dump", "build", "change", "recover", "preserve", "activate">>, "snapshot",
                  <<"dump", "build", "change", "recover", "preserve", "activate">>)
  /\ Begins(<<"dump", "build", "change", "recover", "preserve", "activate">>, "dump",
            <<"build", "change", "recover", "preserve", "activate">>)
  /\ Begins(<<"build", "change", "recover", "preserve", "activate">>, "build",
            <<"change", "recover", "preserve", "activate">>)
  /\ Begins(<<"change", "recover", "preserve", "activate">>, "change",
            <<"recover", "preserve", "activate">>)
  /\ Begins(<<"recover", "preserve", "activate">>, "recover", <<"preserve", "activate">>)
  /\ Begins(<<"snapshot", "dump", "change">>, "snapshot", <<"dump", "change">>)
  /\ Begins(<<"dump", "change">>, "dump", <<"change">>)
  /\ Begins(<<"change">>, "change", <<>>)
  /\ Begins(<<"snapshot", "build", "recover", "preserve", "activate">>, "snapshot",
            <<"build", "recover", "preserve", "activate">>)
  /\ Begins(<<"build", "recover", "preserve", "activate">>, "build",
            <<"recover", "preserve", "activate">>)
  /\ Begins(<<"undo", "unswitch">>, "undo", <<"unswitch">>)
  /\ Begins(<<"unswitch">>, "unswitch", <<>>)
  /\ Begins(<<"undo">>, "undo", <<>>)
                   BY DEF Begins

\* What a call does next tells how far it has got.
LEMMA CallsPlace ==
  ASSUME run.todo # <<>>
  PROVE  /\ Reads => Head(run.todo) \in {"snapshot", "forget", "download", "record", "journal", "mark"}
         /\ Replaces => Head(run.todo) \in {"change", "complete"}
         /\ Restores => Head(run.todo) \in {"snapshot", "download", "dump", "preserve", "activate", "change",
                                            "discard", "record"}
         /\ Prepares => Head(run.todo) \in {"snapshot", "recover", "dump", "build"}
         /\ Dumped => Head(run.todo) \in {"build", "change"}
         /\ Changed => Head(run.todo) \in {"recover", "preserve"}
         /\ Moved => Head(run.todo) = "activate"
         /\ TakesBack => Head(run.todo) \in {"undo", "unswitch"}
         /\ ~ Ended
  <1>1. Reads => Head(run.todo) \in {"snapshot", "forget", "download", "record", "journal", "mark"}
    BY StepsLeft DEF Begins, Reads
  <1>2. Replaces => Head(run.todo) \in {"change", "complete"}
    BY StepsLeft DEF Begins, Replaces
  <1>3. Restores => Head(run.todo) \in {"snapshot", "download", "dump", "preserve", "activate", "change",
                                        "discard", "record"}
    BY StepsLeft DEF Begins, Restores
  <1>4. Prepares => Head(run.todo) \in {"snapshot", "recover", "dump", "build"}
    BY StepsLeft DEF Begins, Prepares
  <1>5. Dumped => Head(run.todo) \in {"build", "change"}
    BY StepsLeft DEF Begins, Dumped
  <1>6. Changed => Head(run.todo) \in {"recover", "preserve"}
    BY StepsLeft DEF Begins, Changed
  <1>7. Moved => Head(run.todo) = "activate"
    BY StepsLeft DEF Begins, Moved
  <1>8. TakesBack => Head(run.todo) \in {"undo", "unswitch"}
    BY StepsLeft DEF Begins, TakesBack
  <1> QED BY <1>1, <1>2, <1>3, <1>4, <1>5, <1>6, <1>7, <1>8 DEF Ended

\* A call that ends with a failure, and one that takes back what it did.
LEMMA FailureTells ==
  ASSUME Frame, run'.todo = <<>>, ~ run'.ok,
         run.again \/ run'.stuck \/ At(run.found)' \/ (C!Kind = "restore" /\ At(run.goal)')
  PROVE  CallTells'
  <1>1. Ended'
    BY DEF Ended, Frame
  <1> QED BY <1>1 DEF CallTells

LEMMA RollBackTells ==
  ASSUME ContentTypes, Frame, NEW stuck \in BOOLEAN, C!RollBack(stuck),
         IF C!Kind = "restore" THEN AsideFound' /\ DumpFound'
         ELSE /\ C!Kind \in Copies \cup {"update"}
              /\ stuck \/ IF "db" \in Parts THEN FilesFound' /\ DumpFound' ELSE FilesFound' /\ DbFound'
  PROVE  CallTells'
  <1>1. EndsWith(IF C!Kind = "restore" THEN <<"undo", "unswitch">>
                 ELSE IF "db" \in Parts THEN <<"undo">> ELSE <<>>, FALSE, stuck)
    BY Outcomes
  <1>2. CASE C!Kind = "restore"
    <2>1. TakesBack'
      BY <1>1, <1>2 DEF TakesBack, EndsWith, Frame
    <2> QED BY <2>1 DEF CallTells
  <1>3. CASE C!Kind # "restore" /\ "db" \in Parts
    <2>1. TakesBack'
      BY <1>1, <1>3 DEF TakesBack, EndsWith, Frame
    <2> QED BY <2>1 DEF CallTells
  <1>4. CASE C!Kind # "restore" /\ "db" \notin Parts
    <2>1. run'.todo = <<>> /\ ~ run'.ok /\ run'.stuck = stuck
      BY <1>1, <1>4 DEF EndsWith
    <2>2. run.again \/ stuck \/ At(run.found)'
      BY <1>4 DEF FilesFound, DbFound, At, Frame
    <2> QED BY <2>1, <2>2, FailureTells
  <1> QED BY <1>2, <1>3, <1>4

\* The call fails before it has changed anything.
LEMMA RefuseTells ==
  ASSUME ContentTypes, Frame, CallTells, C!Refuse
  PROVE  CallTells'
  <1>1. EndsWith(<<>>, FALSE, run.stuck) /\ files' = files /\ db' = db
    BY Outcomes DEF C!Refuse, C!content
  <1>2. run.todo # <<>> /\ ~ Replaces /\ ~ Moved /\ ~ TakesBack /\ ~ Ended
    BY CallsPlace DEF C!Refuse, C!Step
  <1>3. run.again \/ At(run.found) \/ (C!Kind = "restore" /\ At(run.goal))
    <2>1. CASE Reads
      BY <2>1 DEF Reads
    <2>2. CASE Restores
      <3>1. Head(run.todo) \notin {"activate", "change"}
        BY <2>2 DEF C!Refuse, C!Step
      <3> QED BY <2>2, <3>1, StepsLeft DEF Restores, Begins, FilesFound, DbFound, At
    <2>3. CASE Prepares \/ Dumped
      BY <2>3 DEF Prepares, Dumped, FilesFound, DbFound, At
    <2>4. CASE Changed
      <3>1. Head(run.todo) \in {"recover", "preserve"} /\ C!Kind # "restore"
        BY <1>2, <2>4, CallsPlace DEF Changed, Copies
      <3>2. Head(run.todo) = "recover" /\ C!Kind = "update"
        BY <3>1 DEF C!Refuse, C!Step
      <3> QED BY <2>4, <3>2, StepsLeft DEF Changed, Begins
    <2> QED BY <1>2, <2>1, <2>2, <2>3, <2>4 DEF CallTells
  <1>4. run'.todo = <<>> /\ ~ run'.ok
        /\ (run.again \/ At(run.found)' \/ (C!Kind = "restore" /\ At(run.goal)'))
    BY <1>1, <1>3 DEF EndsWith, Frame, At
  <1> QED BY <1>4, FailureTells

\* A snapshot, reused or new: a new one is of a tree that is there.
LEMMA SnapshotTells ==
  ASSUME ContentTypes, Frame, CallTells, C!backupSite
  PROVE  CallTells'
  <1>1. /\ files' = files /\ db' = db /\ previous' = previous /\ copies' = copies
        /\ EndsWith(Tail(run.todo), run.ok, run.stuck) \/ EndsWith(<<>>, FALSE, run.stuck)
        /\ C!OfJob(run.job) # {} \/ files[C!Site] # 0
    BY Outcomes DEF ContentTypes, CallTypes, CallFields, C!backupSite, C!content, C!kept, C!Job, EndsWith, C!OfJob
  <1>2. run.todo # <<>> /\ Head(run.todo) = "snapshot" /\ (Reads \/ Restores \/ Prepares)
    BY CallsPlace DEF CallTells, C!backupSite, C!Step
  <1>3. run.ok /\ FilesFound /\ DbFound
    BY <1>2, StepsLeft DEF Begins, Reads, Restores, Prepares, At, FilesFound, DbFound
  <1>4. CASE EndsWith(<<>>, FALSE, run.stuck)
    BY <1>1, <1>3, <1>4, FailureTells DEF Frame, FilesFound, DbFound, At, EndsWith
  <1>5. CASE EndsWith(Tail(run.todo), run.ok, run.stuck)
    <2>1. CASE Reads
      <3>1. \/ C!Kind = "backup" /\ Tail(run.todo) = <<"forget">>
            \/ C!Kind = "replace" /\ Tail(run.todo) = <<"mark", "change", "complete">>
        BY <1>2, <2>1, StepsLeft DEF Begins, Reads
      <3>2. Reads'
        BY <1>1, <1>5, <2>1, <3>1 DEF Reads, Frame, EndsWith, At
      <3> QED BY <3>2 DEF CallTells
    <2>2. CASE Restores
      <3>1. Restores'
        BY <1>1, <1>2, <1>3, <1>5, <2>2, StepsLeft, FoundStays DEF Begins, Restores, Frame, EndsWith
      <3> QED BY <3>1 DEF CallTells
    <2>3. CASE Prepares
      <3>1. /\ Aside' = Aside /\ FilesFound' /\ DbFound'
        BY <1>1, <1>3, FoundStays
      <3>2. CASE C!Kind = "update"
        <4>1. /\ Tail(run.todo) = <<"recover", "dump", "build", "change", "preserve", "activate">>
              /\ run.again \/ (Aside = {} /\ \A c \in copies : c.job # run.job)
          BY <1>2, <2>3, <3>2, StepsLeft DEF Begins, Prepares, Copies
        <4>2. Prepares'
          BY <1>1, <1>3, <1>5, <3>1, <3>2, <4>1 DEF Prepares, Frame, EndsWith
        <4> QED BY <4>2 DEF CallTells
      <3>3. CASE C!Kind \in Copies /\ Parts = {"files"}
        <4>1. run.todo = <<"snapshot", "build", "recover", "preserve", "activate">>
              /\ (run.again \/ \A s \in snaps : s.key # run.job) /\ C!Kind = "custom"
          BY <1>2, <2>3, <3>3, StepsLeft DEF Begins, Prepares, Copies
        <4>2. TreeFound'
          BY <1>1, <1>3, <4>1 DEF C!OfJob, TreeFound, FilesFound, Frame
        <4>3. Tail(run.todo) = <<"build", "recover", "preserve", "activate">>
          BY <4>1, StepsLeft DEF Begins
        <4>4. Prepares'
          BY <1>1, <1>3, <1>5, <3>1, <3>3, <4>1, <4>2, <4>3 DEF Prepares, Frame, EndsWith
        <4> QED BY <4>4 DEF CallTells
      <3>4. CASE C!Kind \in Copies /\ Parts # {"files"}
        <4>1. \/ /\ Parts = {"files", "db"}
                 /\ Tail(run.todo) = <<"dump", "build", "change", "recover", "preserve", "activate">>
              \/ C!Kind = "custom" /\ Parts = {"db"} /\ Tail(run.todo) = <<"dump", "change">>
          BY <1>2, <2>3, <3>4, StepsLeft DEF Begins, Prepares, Copies
        <4>2. Prepares'
          BY <1>1, <1>3, <1>5, <3>1, <3>4, <4>1 DEF Prepares, Frame, EndsWith
        <4> QED BY <4>2 DEF CallTells
      <3> QED BY <2>3, <3>2, <3>3, <3>4 DEF Prepares, Copies
    <2> QED BY <1>2, <2>1, <2>2, <2>3
  <1> QED BY <1>1, <1>4, <1>5

LEMMA RetentionTells ==
  ASSUME ContentTypes, Frame, CallTells, C!applyBackupRetention
  PROVE  CallTells'
  <1>1. /\ files' = files /\ db' = db
        /\ EndsWith(Tail(run.todo), run.ok, run.stuck) \/ EndsWith(<<>>, FALSE, run.stuck)
    BY Outcomes DEF ContentTypes, CallTypes, CallFields, C!applyBackupRetention, C!content, EndsWith
  <1>2. run.todo # <<>> /\ Head(run.todo) = "forget" /\ Reads
    BY CallsPlace DEF CallTells, C!applyBackupRetention, C!Step
  <1>3. Tail(run.todo) = <<>> /\ run.ok /\ At(run.goal) /\ At(run.found)
    BY <1>2, StepsLeft DEF Begins, Reads
  <1>4. CASE EndsWith(<<>>, FALSE, run.stuck)
    BY <1>1, <1>3, <1>4, FailureTells DEF Frame, At, EndsWith
  <1>5. CASE EndsWith(Tail(run.todo), run.ok, run.stuck)
    <2>1. Ended'
      BY <1>1, <1>3, <1>5 DEF Ended, Frame, EndsWith, At
    <2> QED BY <2>1 DEF CallTells
  <1> QED BY <1>1, <1>4, <1>5

LEMMA DownloadTells ==
  ASSUME ContentTypes, Frame, CallTells, C!downloadSnapshot
  PROVE  CallTells'
  <1>1. /\ files' = files /\ db' = db /\ run'.todo = Tail(run.todo) /\ run'.ok = run.ok
        /\ C!Kind # "restore" => run'.goal = run.goal
    BY DEF ContentTypes, CallTypes, CallFields, C!downloadSnapshot, C!content
  <1>2. run.todo # <<>> /\ Head(run.todo) = "download" /\ (Reads \/ Restores)
    BY CallsPlace DEF CallTells, C!downloadSnapshot, C!Step
  <1>3. CASE Reads
    <2>1. C!Kind = "test" /\ Tail(run.todo) = <<"record">>
      BY <1>2, <1>3, StepsLeft DEF Begins, Reads
    <2>2. Reads'
      BY <1>1, <1>3, <2>1 DEF Reads, Frame, At
    <2> QED BY <2>2 DEF CallTells
  <1>4. CASE Restores
    <2>1. /\ Tail(run.todo) = <<"dump", "preserve", "activate", "change", "discard", "record">>
          /\ FilesFound /\ DbFound
      BY <1>2, <1>4, StepsLeft DEF Begins, Restores
    <2>2. Restores'
      BY <1>1, <1>4, <2>1, FoundStays DEF Restores, Frame
    <2> QED BY <2>2 DEF CallTells
  <1> QED BY <1>2, <1>3, <1>4

\* What is found moved aside is what this call has found, or the call is a repetition.
LEMMA SwitchTells ==
  ASSUME ContentTypes, LeftInv, Frame, CallTells, C!recoverInterruptedFileSwitch, C!Site \in C!Sites,
         Parts \subseteq {"files", "db"}, C!Kind = "custom" \/ Parts = {"files", "db"}
  PROVE  CallTells'
  <1>1. /\ db' = db /\ copies' = copies
        /\ \/ EndsWith(Tail(run.todo), run.ok, run.stuck) /\ files' = files /\ previous' = previous /\ Aside = {}
           \/ \E p \in Aside :
                 /\ EndsWith(Tail(run.todo), run.ok, run.stuck) /\ previous' = previous \ {p}
                 /\ files[C!Site] # 0 => files'[C!Site] = files[C!Site]
           \/ C!Kind # "update" /\ C!RollBack(FALSE) /\ files' = files /\ previous' = previous
    BY Outcomes DEF C!recoverInterruptedFileSwitch, Aside, ContentTypes
  <1>2. run.todo # <<>> /\ Head(run.todo) = "recover" /\ (Prepares \/ Changed)
    BY CallsPlace DEF CallTells, C!recoverInterruptedFileSwitch, C!Step
  <1>3. CASE Aside = {} /\ EndsWith(Tail(run.todo), run.ok, run.stuck) /\ files' = files /\ previous' = previous
    <2>1. /\ FilesFound' = FilesFound /\ DbFound' = DbFound /\ DumpFound' = DumpFound /\ TreeFound' = TreeFound
          /\ DbKept' = DbKept /\ Aside' = {}
      BY <1>1, <1>3, FoundStays DEF EndsWith
    <2>2. CASE Prepares
      <3>1. C!Kind = "update" /\ Tail(run.todo) = <<"dump", "build", "change", "preserve", "activate">>
        BY <1>2, <2>2, StepsLeft DEF Begins, Prepares
      <3>2. Prepares'
        BY <1>1, <1>3, <2>1, <2>2, <3>1 DEF Prepares, EndsWith, Frame, Copies
      <3> QED BY <3>2 DEF CallTells
    <2>3. CASE Changed
      <3>1. Tail(run.todo) = <<"preserve", "activate">>
        BY <1>2, <2>3, StepsLeft DEF Begins, Changed
      <3>2. Changed'
        BY <1>1, <1>3, <2>1, <2>3, <3>1 DEF Changed, EndsWith, Frame
      <3> QED BY <3>2 DEF CallTells
    <2> QED BY <1>2, <2>2, <2>3
  <1>4. ASSUME NEW p \in Aside, EndsWith(Tail(run.todo), run.ok, run.stuck), previous' = previous \ {p},
               files[C!Site] # 0 => files'[C!Site] = files[C!Site]
        PROVE  CallTells'
    <2>1. /\ DbFound' = DbFound /\ DumpFound' = DumpFound /\ TreeFound' = TreeFound /\ DbKept' = DbKept
      BY <1>1, <1>4, FoundStays DEF EndsWith
    <2>2. Aside' = {}
      BY <1>4 DEF LeftInv, Aside, Frame
    <2>3. CASE Prepares
      <3>1. C!Kind = "update" /\ Tail(run.todo) = <<"dump", "build", "change", "preserve", "activate">>
            /\ run.again
        BY <1>2, <1>4, <2>3, StepsLeft DEF Begins, Prepares
      <3>2. FilesFound'
        BY <3>1 DEF FilesFound, Frame
      <3>3. Prepares'
        BY <1>1, <1>4, <2>1, <2>2, <2>3, <3>1, <3>2 DEF Prepares, EndsWith, Frame, Copies
      <3> QED BY <3>3 DEF CallTells
    <2>4. CASE Changed
      <3>1. Tail(run.todo) = <<"preserve", "activate">>
        BY <1>2, <2>4, StepsLeft DEF Begins, Changed
      <3>2. FilesFound'
        <4>1. run.again \/ (files[C!Site] = run.found.files /\ run.found.files # 0)
          BY <2>4 DEF Changed, FilesFound, TreeFound
        <4> QED BY <1>4, <4>1 DEF FilesFound, Frame
      <3>3. Changed'
        BY <1>1, <1>4, <2>1, <2>2, <2>4, <3>1, <3>2 DEF Changed, EndsWith, Frame
      <3> QED BY <3>3 DEF CallTells
    <2> QED BY <1>2, <2>3, <2>4
  <1>5. CASE C!Kind # "update" /\ C!RollBack(FALSE) /\ files' = files
    <2>1. Changed
      BY <1>2, <1>5, StepsLeft DEF Begins, Prepares
    <2>2. /\ C!Kind # "restore" /\ C!Kind \in Copies \cup {"update"}
          /\ IF "db" \in Parts THEN FilesFound /\ DumpFound ELSE FilesFound /\ DbFound
      BY <2>1 DEF Changed, Copies, DbKept
    <2>3. run'.dump = run.dump
      BY <1>5, Outcomes DEF EndsWith
    <2>4. FilesFound' = FilesFound /\ DbFound' = DbFound /\ DumpFound' = DumpFound
      BY <1>1, <1>5, <2>3, FoundStays
    <2> QED BY <1>5, <2>2, <2>4, RollBackTells
  <1>6. CASE \E p \in Aside :
                /\ EndsWith(Tail(run.todo), run.ok, run.stuck) /\ previous' = previous \ {p}
                /\ files[C!Site] # 0 => files'[C!Site] = files[C!Site]
    BY <1>4, <1>6
  <1> QED BY <1>1, <1>3, <1>5, <1>6

\* The copy of the database is made; a repetition finds one or makes another.
LEMMA UpdateTells ==
  ASSUME ContentTypes, Frame, CallTells, C!prepareUpdateRollback
  PROVE  CallTells'
  <1>1. /\ files' = files /\ previous' = previous /\ files[C!Site] # 0 /\ C!Kind = "update"
        /\ \/ /\ EndsWith(<<>>, FALSE, run.stuck)
              /\ db' = db \/ \E c \in copies : c.job = run.job
           \/ /\ run'.todo = Tail(run.todo) /\ run'.ok = run.ok
              /\ (db' = db /\ run'.dump = db[C!Site]) \/ \E c \in copies : c.job = run.job
    BY Outcomes DEF ContentTypes, CallTypes, CallFields, C!prepareUpdateRollback, C!Job, EndsWith
  <1>2. run.todo # <<>> /\ Head(run.todo) = "dump" /\ (Restores \/ Prepares)
    BY CallsPlace DEF CallTells, C!prepareUpdateRollback, C!Step
  <1>3. Prepares
    BY <1>1, <1>2 DEF Restores
  <1>4. /\ Tail(run.todo) = <<"build", "change", "preserve", "activate">>
        /\ Aside = {} /\ (run.again \/ \A c \in copies : c.job # run.job)
    BY <1>1, <1>2, <1>3, StepsLeft DEF Begins, Prepares, Copies
  <1>5. run.ok /\ FilesFound /\ DbFound
    BY <1>3 DEF Prepares
  <1>6. run.again \/ db' = db
    BY <1>1, <1>4
  <1>7. CASE EndsWith(<<>>, FALSE, run.stuck)
    BY <1>1, <1>5, <1>6, <1>7, FailureTells DEF Frame, FilesFound, DbFound, At, EndsWith
  <1>8. CASE run'.todo = Tail(run.todo) /\ run'.ok = run.ok /\ (run.again \/ run'.dump = db[C!Site])
    <2>1. FilesFound' /\ DbFound' /\ DumpFound' /\ TreeFound' /\ Aside' = {}
      BY <1>1, <1>4, <1>5, <1>6, <1>8, FoundStays DEF FilesFound, DbFound, DumpFound, TreeFound, Frame
    <2>2. Dumped'
      BY <1>1, <1>4, <1>5, <1>8, <2>1 DEF Dumped, Frame
    <2> QED BY <2>2 DEF CallTells
  <1> QED BY <1>1, <1>4, <1>7, <1>8

LEMMA ExportTells ==
  ASSUME ContentTypes, Frame, CallTells, C!exportRestoreDatabase
  PROVE  CallTells'
  <1>1. /\ files' = files /\ db' = db /\ previous' = previous /\ files[C!Site] # 0 /\ C!Kind # "update"
        /\ C!Kind = "restore" => Aside = {}
        /\ \/ EndsWith(<<>>, FALSE, run.stuck)
           \/ /\ run'.todo = Tail(run.todo) /\ run'.ok = run.ok /\ run'.dump = db[C!Site]
              /\ run'.goal = IF C!Kind = "restore" THEN run.goal ELSE C!DeployGoal
    BY Outcomes DEF ContentTypes, CallTypes, CallFields, C!exportRestoreDatabase, C!Job, C!content, EndsWith, Aside
  <1>2. run.todo # <<>> /\ Head(run.todo) = "dump" /\ (Restores \/ Prepares)
    BY CallsPlace DEF CallTells, C!exportRestoreDatabase, C!Step
  <1>3. run.ok /\ FilesFound /\ DbFound
    BY <1>2, StepsLeft DEF Begins, Restores, Prepares
  <1>4. CASE EndsWith(<<>>, FALSE, run.stuck)
    BY <1>1, <1>3, <1>4, FailureTells DEF Frame, FilesFound, DbFound, At, EndsWith
  <1>5. CASE /\ run'.todo = Tail(run.todo) /\ run'.ok = run.ok /\ run'.dump = db[C!Site]
             /\ run'.goal = IF C!Kind = "restore" THEN run.goal ELSE C!DeployGoal
    <2>1. /\ FilesFound' /\ DbFound' /\ DumpFound' /\ TreeFound' /\ Aside' = Aside
      BY <1>1, <1>3, <1>5, FoundStays DEF FilesFound, DbFound, DumpFound, TreeFound, Frame
    <2>2. CASE Restores
      <3>1. Tail(run.todo) = <<"preserve", "activate", "change", "discard", "record">>
        BY <1>2, <2>2, StepsLeft DEF Begins, Restores
      <3>2. Restores'
        BY <1>1, <1>5, <2>1, <2>2, <3>1 DEF Restores, Frame
      <3> QED BY <3>2 DEF CallTells
    <2>3. CASE Prepares
      <3>1. \/ /\ C!Kind \in Copies /\ Parts = {"files", "db"}
               /\ Tail(run.todo) = <<"build", "change", "recover", "preserve", "activate">>
            \/ C!Kind = "custom" /\ Parts = {"db"} /\ Tail(run.todo) = <<"change">>
        BY <1>1, <1>2, <2>3, StepsLeft DEF Begins, Prepares
      <3>2. Parts = {"db"} => files'[C!Site] = run'.goal.files
        <4>1. Parts = {"db"} => C!Kind = "custom" /\ "files" \notin Parts
          BY <3>1
        <4>2. Parts = {"db"} => C!DeployGoal.files = files[C!Site]
          BY <4>1 DEF C!DeployGoal, Parts, C!Job
        <4> QED BY <1>1, <1>5, <4>1, <4>2
      <3>3. Dumped'
        BY <1>3, <1>5, <2>1, <3>1, <3>2 DEF Dumped, Frame, Copies
      <3> QED BY <3>3 DEF CallTells
    <2> QED BY <1>2, <2>2, <2>3
  <1> QED BY <1>1, <1>4, <1>5

\* The tree is built beside the site's.
LEMMA BuildTells ==
  ASSUME ContentTypes, Frame, CallTells, C!buildTree, C!Kind = "custom" \/ Parts = {"files", "db"}
  PROVE  CallTells'
  <1>1. /\ files' = files /\ db' = db /\ previous' = previous /\ run'.dump = run.dump
        /\ \/ /\ run'.todo = Tail(run.todo) /\ run'.ok = run.ok
              /\ run'.goal = IF C!Kind = "custom" THEN C!DeployGoal ELSE run.goal
           \/ C!Kind = "update" /\ C!RollBack(FALSE)
    BY Outcomes DEF ContentTypes, CallTypes, CallFields, C!buildTree, C!content, C!kept, EndsWith
  <1>2. run.todo # <<>> /\ Head(run.todo) = "build" /\ (Prepares \/ Dumped)
    BY CallsPlace DEF CallTells, C!buildTree, C!Step
  <1>3. /\ FilesFound' = FilesFound /\ DbFound' = DbFound /\ DumpFound' = DumpFound /\ TreeFound' = TreeFound
        /\ DbKept' = DbKept /\ Aside' = Aside
    BY <1>1, FoundStays
  <1>4. CASE /\ run'.todo = Tail(run.todo) /\ run'.ok = run.ok
             /\ run'.goal = IF C!Kind = "custom" THEN C!DeployGoal ELSE run.goal
    <2>1. CASE Prepares
      <3>1. /\ C!Kind = "custom" /\ Parts = {"files"} /\ TreeFound
            /\ Tail(run.todo) = <<"recover", "preserve", "activate">>
        BY <1>2, <2>1, StepsLeft DEF Begins, Prepares
      <3>2. db'[C!Site] = run'.goal.db
        BY <1>1, <1>4, <3>1 DEF C!DeployGoal, Parts, C!Job
      <3>3. Changed'
        BY <1>3, <1>4, <2>1, <3>1, <3>2 DEF Changed, Prepares, Frame, Copies, DbKept
      <3> QED BY <3>3 DEF CallTells
    <2>2. CASE Dumped
      <3>1. \/ C!Kind = "update" /\ Aside = {} /\ Tail(run.todo) = <<"change", "preserve", "activate">>
            \/ /\ C!Kind \in Copies /\ Parts = {"files", "db"}
               /\ Tail(run.todo) = <<"change", "recover", "preserve", "activate">>
        BY <1>2, <2>2, StepsLeft DEF Begins, Dumped
      <3>2. Dumped'
        BY <1>3, <1>4, <2>2, <3>1 DEF Dumped, Frame
      <3> QED BY <3>2 DEF CallTells
    <2> QED BY <1>2, <2>1, <2>2
  <1>5. CASE C!Kind = "update" /\ C!RollBack(FALSE)
    <2>1. FilesFound /\ DumpFound /\ Parts = {"files", "db"}
      BY <1>2, <1>5, StepsLeft DEF Begins, Prepares, Dumped, Copies
    <2> QED BY <1>3, <1>5, <2>1, RollBackTells
  <1> QED BY <1>1, <1>4, <1>5

\* The database of the site is changed, all of it, a part of it or nothing.
LEMMA ChangeTells ==
  ASSUME ContentTypes, Frame, CallTells, C!changeDatabase, C!Site \in C!Sites,
         C!Kind = "custom" \/ Parts = {"files", "db"}
  PROVE  CallTells'
  <1>1. /\ files' = files /\ previous' = previous
        /\ \/ EndsWith(Tail(run.todo), run.ok, run.stuck) /\ db'[C!Site] = run.goal.db
           \/ IF C!Kind = "replace" THEN EndsWith(<<>>, FALSE, TRUE)
              ELSE C!RollBack(FALSE) /\ run'.dump = run.dump
    <2>1. files' = files /\ previous' = previous
      BY DEF C!changeDatabase
    <2>2. C!RollBack(FALSE) => run'.dump = run.dump
      BY Outcomes DEF EndsWith
    <2> QED BY <2>1, <2>2, Outcomes DEF C!changeDatabase, ContentTypes
  <1>2. run.todo # <<>> /\ Head(run.todo) = "change" /\ (Replaces \/ Restores \/ Dumped)
    BY CallsPlace DEF CallTells, C!changeDatabase, C!Step
  <1>3. /\ Replaces => C!Kind = "replace" /\ Tail(run.todo) = <<"complete">> /\ files[C!Site] = run.goal.files
    BY <1>2, StepsLeft DEF Begins, Replaces
  <1>4. Restores => /\ C!Kind = "restore" /\ Tail(run.todo) = <<"discard", "record">>
                    /\ files[C!Site] = run.goal.files /\ AsideFound /\ DumpFound
    BY <1>2, StepsLeft DEF Begins, Restores
  <1>5. Dumped => /\ FilesFound /\ DumpFound /\ TreeFound /\ "db" \in Parts /\ C!Kind \in Copies \cup {"update"}
                  /\ \/ C!Kind = "update" /\ Aside = {} /\ Tail(run.todo) = <<"preserve", "activate">>
                     \/ /\ C!Kind \in Copies /\ Parts = {"files", "db"}
                        /\ Tail(run.todo) = <<"recover", "preserve", "activate">>
                     \/ C!Kind = "custom" /\ Tail(run.todo) = <<>> /\ files[C!Site] = run.goal.files
    BY <1>2, StepsLeft DEF Begins, Dumped, Copies
  <1>6. CASE EndsWith(Tail(run.todo), run.ok, run.stuck) /\ db'[C!Site] = run.goal.db
    <2>1. FilesFound' = FilesFound /\ DumpFound' = DumpFound /\ TreeFound' = TreeFound /\ Aside' = Aside
          /\ AsideFound' = AsideFound
      BY <1>1, <1>6, FoundStays DEF EndsWith
    <2>2. CASE Replaces
      <3>1. Replaces'
        BY <1>1, <1>3, <1>6, <2>2 DEF Replaces, EndsWith, Frame, At
      <3> QED BY <3>1 DEF CallTells
    <2>3. CASE Restores
      <3>1. Restores'
        BY <1>1, <1>4, <1>6, <2>3 DEF Restores, EndsWith, Frame, At
      <3> QED BY <3>1 DEF CallTells
    <2>4. CASE Dumped
      <3>1. CASE C!Kind = "custom" /\ Tail(run.todo) = <<>> /\ files[C!Site] = run.goal.files
        <4>1. Ended'
          BY <1>1, <1>6, <2>4, <3>1 DEF Dumped, Ended, EndsWith, Frame, At
        <4> QED BY <4>1 DEF CallTells
      <3>2. CASE \/ C!Kind = "update" /\ Aside = {} /\ Tail(run.todo) = <<"preserve", "activate">>
                 \/ /\ C!Kind \in Copies /\ Parts = {"files", "db"}
                    /\ Tail(run.todo) = <<"recover", "preserve", "activate">>
        <4>1. DbKept' /\ FilesFound' /\ TreeFound' /\ "files" \in Parts
          BY <1>5, <2>1, <2>4, <3>2 DEF DbKept, Frame
        <4>2. Changed'
          BY <1>6, <2>1, <2>4, <3>2, <4>1 DEF Changed, Dumped, EndsWith, Frame, Copies
        <4> QED BY <4>2 DEF CallTells
      <3> QED BY <1>5, <2>4, <3>1, <3>2
    <2> QED BY <1>2, <2>2, <2>3, <2>4
  <1>7. CASE C!Kind = "replace" /\ EndsWith(<<>>, FALSE, TRUE)
    BY <1>7, FailureTells DEF EndsWith
  <1>8. CASE C!Kind # "replace" /\ C!RollBack(FALSE) /\ run'.dump = run.dump
    <2>1. FilesFound' = FilesFound /\ DumpFound' = DumpFound /\ AsideFound' = AsideFound
      BY <1>1, <1>8, FoundStays
    <2>2. IF C!Kind = "restore" THEN AsideFound' /\ DumpFound'
          ELSE C!Kind \in Copies \cup {"update"} /\ "db" \in Parts /\ FilesFound' /\ DumpFound'
      BY <1>2, <1>3, <1>4, <1>5, <1>8, <2>1 DEF Copies
    <2> QED BY <1>8, <2>2, RollBackTells
  <1> QED BY <1>1, <1>6, <1>7, <1>8

\* The tree of the site is moved aside: it is what the call has found.
LEMMA PreserveTells ==
  ASSUME ContentTypes, Frame, CallTells, C!preserveFiles, C!Site \in C!Sites
  PROVE  CallTells'
  <1> DEFINE moved == [of |-> C!Mine, files |-> files[C!Site]]
  <1>1. /\ db' = db
        /\ \/ EndsWith(Tail(run.todo), run.ok, run.stuck) /\ previous' = previous \cup {moved}
           \/ /\ C!Kind # "restore" /\ C!RollBack(FALSE) /\ files' = files /\ previous' = previous
              /\ run'.dump = run.dump
    <2>1. C!RollBack(FALSE) => run'.dump = run.dump
      BY Outcomes DEF EndsWith
    <2> QED BY <2>1, Outcomes DEF C!preserveFiles
  <1>2. run.todo # <<>> /\ Head(run.todo) = "preserve" /\ (Restores \/ Changed)
    BY CallsPlace DEF CallTells, C!preserveFiles, C!Step
  <1>3. Restores => /\ C!Kind = "restore" /\ Tail(run.todo) = <<"activate", "change", "discard", "record">>
                    /\ FilesFound /\ DbFound /\ DumpFound /\ Aside = {}
    BY <1>2, StepsLeft DEF Begins, Restores
  <1>4. Changed => Tail(run.todo) = <<"activate">> /\ Aside = {}
    BY <1>2, StepsLeft DEF Begins, Changed
  <1>5. CASE EndsWith(Tail(run.todo), run.ok, run.stuck) /\ previous' = previous \cup {moved}
    <2>1. DbFound' = DbFound /\ DumpFound' = DumpFound /\ DbKept' = DbKept
      BY <1>1, <1>5, FoundStays DEF EndsWith
    <2>2. FilesFound => AsideFound'
      <3>1. Aside = {}
        BY <1>2, <1>3, <1>4
      <3>2. Aside' = {moved}
        BY <1>5, <3>1 DEF Aside, Frame
      <3> QED BY <3>2 DEF AsideFound, FilesFound, Frame
    <2> HIDE DEF moved
    <2>3. CASE Restores
      <3>1. Restores'
        BY <1>3, <1>5, <2>1, <2>2, <2>3 DEF Restores, EndsWith, Frame
      <3> QED BY <3>1 DEF CallTells
    <2>4. CASE Changed
      <3>1. Moved'
        BY <1>1, <1>4, <1>5, <2>1, <2>2, <2>4 DEF Changed, Moved, EndsWith, Frame
      <3> QED BY <3>1 DEF CallTells
    <2> QED BY <1>2, <2>3, <2>4
  <1>6. CASE C!Kind # "restore" /\ C!RollBack(FALSE) /\ files' = files /\ run'.dump = run.dump
    <2>1. FilesFound' = FilesFound /\ DumpFound' = DumpFound /\ DbFound' = DbFound
      BY <1>1, <1>6, FoundStays
    <2>2. Changed
      BY <1>2, <1>3, <1>6
    <2>3. /\ C!Kind \in Copies \cup {"update"}
          /\ IF "db" \in Parts THEN FilesFound' /\ DumpFound' ELSE FilesFound' /\ DbFound'
      BY <2>1, <2>2 DEF Changed, DbKept
    <2> QED BY <1>6, <2>3, RollBackTells
  <1> QED BY <1>1, <1>5, <1>6

\* The tree takes its place, or the one that was moved aside comes back.
LEMMA ActivateTells ==
  ASSUME ContentTypes, Frame, CallTells, C!activateFiles, C!Site \in C!Sites
  PROVE  CallTells'
  <1>1. PICK p \in Aside :
           /\ db' = db
           /\ \/ /\ EndsWith(Tail(run.todo), run.ok, run.stuck) /\ files'[C!Site] = run.goal.files
                 /\ C!Kind = "restore" => previous' = previous
              \/ /\ files'[C!Site] = p.files
                 /\ IF C!Kind = "restore" THEN EndsWith(<<>>, FALSE, run.stuck) ELSE C!RollBack(FALSE)
              \/ IF C!Kind = "restore" THEN EndsWith(<<>>, FALSE, TRUE) ELSE C!RollBack(TRUE)
    BY Outcomes DEF C!activateFiles, ContentTypes, Aside
  <1>2. run.todo # <<>> /\ Head(run.todo) = "activate" /\ (Restores \/ Moved)
    BY CallsPlace DEF CallTells, C!activateFiles, C!Step
  <1>3. Restores => /\ C!Kind = "restore" /\ Tail(run.todo) = <<"change", "discard", "record">>
                    /\ AsideFound /\ DbFound /\ DumpFound
    BY <1>2, StepsLeft DEF Begins, Restores
  <1>4. Moved => Tail(run.todo) = <<>> /\ AsideFound /\ C!Kind # "restore"
    BY <1>2, StepsLeft DEF Begins, Moved, Copies
  <1>5. /\ DbFound' = DbFound
        /\ run'.dump = run.dump => DumpFound' = DumpFound /\ DbKept' = DbKept
    BY <1>1, FoundStays
  <1>6. CASE /\ EndsWith(Tail(run.todo), run.ok, run.stuck) /\ files'[C!Site] = run.goal.files
             /\ C!Kind = "restore" => previous' = previous
    <2>1. CASE Restores
      <3>1. AsideFound' = AsideFound
        BY <1>3, <1>6, <2>1, FoundStays
      <3>2. Restores'
        BY <1>3, <1>5, <1>6, <2>1, <3>1 DEF Restores, EndsWith, Frame
      <3> QED BY <3>2 DEF CallTells
    <2>2. CASE Moved
      <3>1. Ended'
        BY <1>1, <1>4, <1>6, <2>2 DEF Moved, Ended, EndsWith, Frame, At
      <3> QED BY <3>1 DEF CallTells
    <2> QED BY <1>2, <2>1, <2>2
  <1>7. CASE /\ files'[C!Site] = p.files
             /\ IF C!Kind = "restore" THEN EndsWith(<<>>, FALSE, run.stuck) ELSE C!RollBack(FALSE)
    <2>1. FilesFound'
      BY <1>2, <1>3, <1>4, <1>7 DEF AsideFound, FilesFound, Frame
    <2>2. CASE Restores
      <3>1. run'.todo = <<>> /\ ~ run'.ok
        BY <1>3, <1>7, <2>2 DEF EndsWith
      <3>2. run.again \/ At(run.found)'
        BY <1>3, <1>5, <2>1, <2>2 DEF FilesFound, DbFound, At, Frame
      <3> QED BY <3>1, <3>2, FailureTells
    <2>3. CASE Moved
      <3>1. C!RollBack(FALSE) /\ run'.dump = run.dump
        BY <1>4, <1>7, <2>3, Outcomes DEF EndsWith
      <3>2. C!Kind \in Copies \cup {"update"} /\ DbKept'
        BY <1>5, <2>3, <3>1 DEF Moved
      <3>3. IF "db" \in Parts THEN FilesFound' /\ DumpFound' ELSE FilesFound' /\ DbFound'
        BY <2>1, <3>2 DEF DbKept, Frame
      <3> QED BY <1>4, <2>3, <3>1, <3>2, <3>3, RollBackTells
    <2> QED BY <1>2, <2>2, <2>3
  <1>8. CASE IF C!Kind = "restore" THEN EndsWith(<<>>, FALSE, TRUE) ELSE C!RollBack(TRUE)
    <2>1. CASE Restores
      BY <1>3, <1>8, <2>1, FailureTells DEF EndsWith
    <2>2. CASE Moved
      BY <1>4, <1>8, <2>2, RollBackTells DEF Moved
    <2> QED BY <1>2, <2>1, <2>2
  <1> QED BY <1>1, <1>6, <1>7, <1>8

\* What was done is taken back.
LEMMA UndoTells ==
  ASSUME ContentTypes, Frame, CallTells, C!importRollback, C!Site \in C!Sites
  PROVE  CallTells'
  <1>1. /\ files' = files /\ previous' = previous /\ run'.todo = Tail(run.todo) /\ run'.ok = run.ok
        /\ \/ db'[C!Site] = run.dump /\ run'.stuck = run.stuck
           \/ run'.stuck
    BY DEF C!importRollback, C!Advance, ContentTypes, CallTypes, CallFields, C!kept
  <1>2. run.todo # <<>> /\ Head(run.todo) = "undo" /\ TakesBack
    BY CallsPlace DEF CallTells, C!importRollback, C!Step
  <1>3. \/ /\ C!Kind \in Copies \cup {"update"} /\ Tail(run.todo) = <<>>
           /\ run.stuck \/ (FilesFound /\ DumpFound)
        \/ C!Kind = "restore" /\ AsideFound /\ DumpFound /\ Tail(run.todo) = <<"unswitch">>
    BY <1>2, StepsLeft DEF Begins, TakesBack
  <1>4. db'[C!Site] = run.dump /\ DumpFound => DbFound'
    BY DEF DumpFound, DbFound, Frame
  <1>5. FilesFound' = FilesFound /\ AsideFound' = AsideFound
    BY <1>1, FoundStays
  <1>6. ~ run'.ok
    BY <1>1, <1>2 DEF TakesBack
  <1>7. CASE C!Kind \in Copies \cup {"update"} /\ Tail(run.todo) = <<>> /\ (run.stuck \/ (FilesFound /\ DumpFound))
    <2>1. run'.todo = <<>> /\ (run.again \/ run'.stuck \/ At(run.found)')
      BY <1>1, <1>4, <1>5, <1>7 DEF FilesFound, DbFound, At, Frame
    <2> QED BY <1>6, <2>1, FailureTells
  <1>8. CASE C!Kind = "restore" /\ AsideFound /\ DumpFound /\ Tail(run.todo) = <<"unswitch">>
    <2>1. TakesBack'
      BY <1>1, <1>4, <1>5, <1>6, <1>8 DEF TakesBack, Frame
    <2> QED BY <2>1 DEF CallTells
  <1> QED BY <1>3, <1>7, <1>8

LEMMA UnswitchTells ==
  ASSUME ContentTypes, Frame, CallTells, C!switchBack, C!Site \in C!Sites
  PROVE  CallTells'
  <1>1. PICK p \in Aside :
           /\ db' = db
           /\ \/ files'[C!Site] = p.files /\ EndsWith(Tail(run.todo), run.ok, run.stuck)
              \/ EndsWith(<<>>, FALSE, TRUE)
    BY Outcomes DEF C!switchBack, ContentTypes, Aside
  <1>2. run.todo # <<>> /\ Head(run.todo) = "unswitch" /\ TakesBack
    BY CallsPlace DEF CallTells, C!switchBack, C!Step
  <1>3. AsideFound /\ Tail(run.todo) = <<>> /\ (run.stuck \/ DbFound) /\ ~ run.ok
    BY <1>2, StepsLeft DEF Begins, TakesBack
  <1>4. CASE files'[C!Site] = p.files /\ EndsWith(Tail(run.todo), run.ok, run.stuck)
    <2>1. run'.todo = <<>> /\ ~ run'.ok /\ (run.again \/ run'.stuck \/ At(run.found)')
      BY <1>1, <1>3, <1>4 DEF AsideFound, DbFound, At, Frame, EndsWith
    <2> QED BY <2>1, FailureTells
  <1>5. CASE EndsWith(<<>>, FALSE, TRUE)
    BY <1>5, FailureTells DEF EndsWith
  <1> QED BY <1>1, <1>4, <1>5

LEMMA DiscardTells ==
  ASSUME ContentTypes, Frame, CallTells, C!discardReplaced
  PROVE  CallTells'
  <1>1. files' = files /\ db' = db /\ EndsWith(Tail(run.todo), run.ok, run.stuck)
    BY Outcomes DEF C!discardReplaced, C!content
  <1>2. run.todo # <<>> /\ Head(run.todo) = "discard" /\ Restores
    BY CallsPlace DEF CallTells, C!discardReplaced, C!Step
  <1>3. At(run.goal) /\ Tail(run.todo) = <<"record">>
    BY <1>2, StepsLeft DEF Begins, Restores
  <1>4. Restores'
    BY <1>1, <1>2, <1>3 DEF Restores, EndsWith, Frame, At
  <1> QED BY <1>4 DEF CallTells

LEMMA RecordTells ==
  ASSUME ContentTypes, Frame, CallTells, C!recordResult
  PROVE  CallTells'
  <1>1. files' = files /\ db' = db /\ EndsWith(Tail(run.todo), run.ok, run.stuck)
    BY Outcomes DEF C!recordResult, C!content
  <1>2. run.todo # <<>> /\ Head(run.todo) = "record" /\ (Reads \/ Restores)
    BY CallsPlace DEF CallTells, C!recordResult, C!Step
  <1>3. run.ok /\ At(run.goal) /\ Tail(run.todo) = <<>>
    BY <1>2, StepsLeft DEF Begins, Reads, Restores
  <1>4. Ended'
    BY <1>1, <1>3 DEF Ended, EndsWith, Frame, At
  <1> QED BY <1>4 DEF CallTells

\* A search and replace answers what its journal says: nothing is changed then.
LEMMA JournalTells ==
  ASSUME ContentTypes, Frame, CallTells, C!existingWordPressSearchReplace
  PROVE  CallTells'
  <1>1. /\ files' = files /\ db' = db /\ run'.goal = run.goal
        /\ run'.todo = <<>> \/ (run'.todo = Tail(run.todo) /\ run'.ok = run.ok)
    BY DEF C!existingWordPressSearchReplace, C!Advance, C!content, ContentTypes, CallTypes, CallFields
  <1>2. run.todo # <<>> /\ Head(run.todo) = "journal" /\ Reads
    BY CallsPlace DEF CallTells, C!existingWordPressSearchReplace, C!Step
  <1>3. C!Kind = "replace" /\ Tail(run.todo) = <<"snapshot", "mark", "change", "complete">>
    BY <1>2, StepsLeft DEF Begins, Reads
  <1>4. At(run.goal)' /\ At(run.found)'
    BY <1>1, <1>2 DEF Reads, At, Frame
  <1>5. CASE run'.todo = <<>>
    <2>1. Ended'
      BY <1>4, <1>5 DEF Ended
    <2> QED BY <2>1 DEF CallTells
  <1>6. CASE run'.todo = Tail(run.todo) /\ run'.ok = run.ok
    <2>1. Reads'
      BY <1>1, <1>2, <1>3, <1>4, <1>6 DEF Reads, Frame
    <2> QED BY <2>1 DEF CallTells
  <1> QED BY <1>1, <1>5, <1>6

LEMMA MarkTells ==
  ASSUME ContentTypes, Frame, CallTells, C!markStarted
  PROVE  CallTells'
  <1>1. /\ files' = files /\ run'.todo = Tail(run.todo) /\ run'.ok = run.ok /\ run'.goal.files = files[C!Site]
    BY DEF C!markStarted, C!content, ContentTypes, CallTypes, CallFields
  <1>2. run.todo # <<>> /\ Head(run.todo) = "mark" /\ Reads
    BY CallsPlace DEF CallTells, C!markStarted, C!Step
  <1>3. C!Kind = "replace" /\ Tail(run.todo) = <<"change", "complete">>
    BY <1>2, StepsLeft DEF Begins, Reads
  <1>4. Replaces'
    BY <1>1, <1>2, <1>3 DEF Reads, Replaces, Frame
  <1> QED BY <1>4 DEF CallTells

LEMMA CompleteTells ==
  ASSUME ContentTypes, Frame, CallTells, C!recordCompleted
  PROVE  CallTells'
  <1>1. /\ files' = files /\ db' = db
        /\ EndsWith(Tail(run.todo), run.ok, run.stuck) \/ EndsWith(<<>>, FALSE, TRUE)
    BY Outcomes DEF C!recordCompleted, C!content
  <1>2. run.todo # <<>> /\ Head(run.todo) = "complete" /\ Replaces
    BY CallsPlace DEF CallTells, C!recordCompleted, C!Step
  <1>3. At(run.goal) /\ Tail(run.todo) = <<>> /\ run.ok
    BY <1>2, StepsLeft DEF Begins, Replaces
  <1>4. CASE EndsWith(Tail(run.todo), run.ok, run.stuck)
    <2>1. Ended'
      BY <1>1, <1>3, <1>4 DEF Ended, EndsWith, Frame, At
    <2> QED BY <2>1 DEF CallTells
  <1>5. CASE EndsWith(<<>>, FALSE, TRUE)
    BY <1>5, FailureTells DEF EndsWith
  <1> QED BY <1>1, <1>4, <1>5

\* Of the steps of a call, only one moves a tree aside, and what is left is its own.
LEMMA LeavesOwn ==
  ASSUME ContentTypes, CallStep
  PROVE  /\ previous' \subseteq previous \/ C!preserveFiles
         /\ \A c \in copies' : c \in copies \/ c.job = run.job
         /\ \A s \in snaps' : s \in snaps \/ s.key = run.job
  <1>1. CASE C!backupSite
    <2>1. snaps' = snaps \/ \E n : snaps' = snaps \cup {NewSnapshot(n)}
      <3>1. \A s \in snaps : s.id \in Nat
        BY DEF ContentTypes
      <3> QED BY <1>1, <3>1, SnapshotTaken, Zenon
    <2>2. previous' = previous /\ copies' = copies
      BY <1>1 DEF C!backupSite, C!kept
    <2> QED BY <2>1, <2>2, SnapshotFields
  <1>2. CASE C!applyBackupRetention
    BY <1>2 DEF C!applyBackupRetention, C!kept
  <1>3. CASE C!recoverInterruptedFileSwitch \/ C!activateFiles \/ C!switchBack \/ C!discardReplaced
    BY <1>3 DEF C!recoverInterruptedFileSwitch, C!activateFiles, C!switchBack, C!discardReplaced
  <1>4. CASE C!prepareUpdateRollback
    <2>1. previous' = previous /\ snaps' = snaps
      BY <1>4 DEF C!prepareUpdateRollback
    <2>2. \A c \in copies' : c \in copies \/ c.job = run.job
      <3> DEFINE Made(d) == [job |-> run.job, db |-> d]
      <3>1. \/ copies' = copies
            \/ copies' = copies \cup {Made(db[C!Site])}
            \/ copies' = copies \cup {Made(C!Cut)}
        BY <1>4, Zenon DEF C!prepareUpdateRollback, C!Job
      <3>2. \A d : Made(d).job = run.job
        OBVIOUS
      <3> HIDE DEF Made
      <3> QED BY <3>1, <3>2
    <2> QED BY <2>1, <2>2
  <1>5. CASE C!preserveFiles
    BY <1>5 DEF C!preserveFiles
  <1>6. CASE \/ C!Refuse \/ C!downloadSnapshot \/ C!exportRestoreDatabase \/ C!buildTree \/ C!changeDatabase
             \/ C!importRollback \/ C!recordResult \/ C!existingWordPressSearchReplace \/ C!markStarted
             \/ C!recordCompleted
    <2>1. previous' = previous /\ copies' = copies /\ snaps' = snaps
      BY <1>6 DEF C!Refuse, C!downloadSnapshot, C!exportRestoreDatabase, C!buildTree, C!changeDatabase,
         C!importRollback, C!recordResult, C!existingWordPressSearchReplace, C!markStarted, C!recordCompleted, C!kept
    <2> QED BY <2>1
  <1> QED BY <1>1, <1>2, <1>3, <1>4, <1>5, <1>6 DEF CallStep

LEMMA LeftKeeps ==
  ASSUME ContentTypes, LeftInv, CallTells, CallStep, run.job \in begun
  PROVE  LeftInv'
  <1>1. begun' = begun /\ run.todo # <<>>
    BY CallsKeepFrame
  <1>2. /\ previous' \subseteq previous \/ C!preserveFiles
        /\ \A c \in copies' : c \in copies \/ c.job = run.job
        /\ \A s \in snaps' : s \in snaps \/ s.key = run.job
    BY LeavesOwn
  <1>3. CASE previous' \subseteq previous
    BY <1>1, <1>2, <1>3 DEF LeftInv
  <1>4. CASE C!preserveFiles
    <2> DEFINE moved == [of |-> C!Mine, files |-> files[C!Site]]
    <2>1. previous' = previous \/ previous' = previous \cup {moved}
      BY <1>4 DEF C!preserveFiles
    <2>2. moved.of = C!Mine /\ (moved.of.job = 0 \/ moved.of.job = run.job)
      <3>1. C!Mine.job = 0 \/ C!Mine.job = run.job
        BY DEF C!Mine, C!Owner
      <3> QED BY <3>1
    <2> HIDE DEF moved
    <2>3. Aside = {}
      <3>1. Head(run.todo) = "preserve" /\ (Restores \/ Changed)
        BY <1>1, <1>4, CallsPlace DEF CallTells, C!preserveFiles, C!Step
      <3> QED BY <1>1, <3>1, StepsLeft DEF Begins, Restores, Changed
    <2>4. \A p \in previous : p.of # moved.of
      BY <2>2, <2>3 DEF Aside
    <2>5. /\ \A p, q \in previous' : p.of = q.of => p = q
          /\ \A p \in previous' : p.of.job = 0 \/ p.of.job \in begun
      BY <2>1, <2>2, <2>4 DEF LeftInv
    <2> QED BY <1>1, <1>2, <2>5 DEF LeftInv
  <1> QED BY <1>2, <1>3, <1>4

\* What is to be reached is content, tree and database.
LEMMA GoalsAreContent ==
  ASSUME ContentTypes, CallStep, IsContent(run.goal)
  PROVE  IsContent(run'.goal)
  <1>1. /\ DOMAIN run = CallFields /\ "goal" \in CallFields
        /\ \A a, b : IsContent([files |-> a, db |-> b])
    BY DEF ContentTypes, CallTypes, CallFields, IsContent
  <1>2. IsContent(C!DeployGoal)
    BY <1>1 DEF C!DeployGoal, C!Content
  <1>3. CASE C!downloadSnapshot \/ C!prepareUpdateRollback \/ C!markStarted
    <2>1. \/ run'.goal = run.goal
          \/ \E a, b : run'.goal = [files |-> a, db |-> b]
      BY <1>1, <1>3 DEF C!downloadSnapshot, C!prepareUpdateRollback, C!markStarted, C!Fail
    <2> QED BY <1>1, <2>1
  <1>4. CASE C!exportRestoreDatabase \/ C!buildTree
    <2>1. run'.goal \in {run.goal, C!DeployGoal}
      BY <1>1, <1>4, Outcomes DEF C!exportRestoreDatabase, C!buildTree, EndsWith
    <2> QED BY <1>2, <2>1
  <1>5. CASE C!backupSite \/ C!applyBackupRetention \/ C!importRollback \/ C!existingWordPressSearchReplace
    <2>1. run'.goal = run.goal
      BY <1>1, <1>5, Outcomes DEF C!backupSite, C!applyBackupRetention, C!importRollback,
         C!existingWordPressSearchReplace, EndsWith
    <2> QED BY <2>1
  <1>6. CASE \/ C!Refuse \/ C!recoverInterruptedFileSwitch \/ C!changeDatabase \/ C!preserveFiles
             \/ C!activateFiles \/ C!switchBack \/ C!discardReplaced \/ C!recordResult \/ C!recordCompleted
    <2>1. \/ C!Advance \/ C!Fail \/ C!FailStuck \/ C!RollBack(FALSE) \/ C!RollBack(TRUE)
      BY <1>6, Outcomes DEF C!Refuse, C!recoverInterruptedFileSwitch, C!changeDatabase, C!preserveFiles,
         C!activateFiles, C!switchBack, C!discardReplaced, C!recordResult, C!recordCompleted
    <2>2. run'.goal = run.goal
      BY <2>1, Outcomes DEF EndsWith
    <2> QED BY <2>2
  <1> QED BY <1>3, <1>4, <1>5, <1>6 DEF CallStep

\* Two sequences joined: the one, then the other.
LEMMA Joined ==
  ASSUME NEW Steps, NEW s \in Seq(Steps), NEW t \in Seq(Steps), NEW u \in Seq(Steps), Len(u) = Len(s) + Len(t),
         \A i \in 1 .. Len(s) : u[i] = s[i],
         \A i \in 1 .. Len(t) : u[Len(s) + i] = t[i]
  PROVE  s \o t = u
  <1>1. /\ s \o t \in Seq(Steps) /\ Len(s \o t) = Len(s) + Len(t)
        /\ \A i \in 1 .. Len(s) + Len(t) : (s \o t)[i] = IF i <= Len(s) THEN s[i] ELSE t[i - Len(s)]
    BY ConcatProperties
  <1>2. ASSUME NEW i \in 1 .. Len(s) + Len(t)
        PROVE  (s \o t)[i] = u[i]
    <2>1. Len(s) \in Nat /\ Len(t) \in Nat
      OBVIOUS
    <2>2. CASE i <= Len(s)
      BY <1>1, <2>1, <2>2
    <2>3. CASE ~ (i <= Len(s))
      <3>1. i - Len(s) \in 1 .. Len(t) /\ i = Len(s) + (i - Len(s))
        BY <2>1, <2>3
      <3> QED BY <1>1, <2>3, <3>1
    <2> QED BY <2>2, <2>3
  <1> QED BY <1>1, <1>2, SeqEqual

\* The steps that the parts of a plan are made of, and what the parts amount to.
PlanSteps == {"snapshot", "dump", "build", "change", "recover", "preserve", "activate"}

LEMMA PlansAreJoined ==
  /\ \A t \in Seq(PlanSteps) : t \o <<>> = t
  /\ \A a, b \in PlanSteps : <<a>> \o <<b>> = <<a, b>>
  /\ \A a, b, c \in PlanSteps : <<a, b>> \o <<c>> = <<a, b, c>>
  /\ \A a, b, c, d \in PlanSteps : <<a, b, c>> \o <<d>> = <<a, b, c, d>>
  /\ \A a, b, c, d, e, f, g \in PlanSteps : <<a, b, c, d>> \o <<e, f, g>> = <<a, b, c, d, e, f, g>>
  /\ \A a, b, c, d, e \in PlanSteps : <<a, b>> \o <<c, d, e>> = <<a, b, c, d, e>>
  /\ \A a, b, c, d, e, f, g \in PlanSteps : <<a>> \o <<b, c, d, e, f, g>> = <<a, b, c, d, e, f, g>>
  <1>1. ASSUME NEW a \in PlanSteps, NEW b \in PlanSteps
        PROVE  <<a>> \o <<b>> = <<a, b>>
    <2> DEFINE s == <<a>>
               t == <<b>>
               u == <<a, b>>
    <2>1. s \in Seq(PlanSteps) /\ t \in Seq(PlanSteps) /\ u \in Seq(PlanSteps)
      OBVIOUS
    <2>2. Len(s) = 1 /\ Len(t) = 1 /\ Len(u) = 2
      OBVIOUS
    <2>3. /\ \A i \in 1..1 : u[i] = s[i]
          /\ \A i \in 1..1 : u[1 + i] = t[i]
      OBVIOUS
    <2> HIDE DEF s, t, u
    <2>4. /\ Len(u) = Len(s) + Len(t) /\ \A i \in 1 .. Len(s) : u[i] = s[i]
          /\ \A i \in 1 .. Len(t) : u[Len(s) + i] = t[i]
      BY <2>2, <2>3
    <2>5. s \o t = u
      BY <2>1, <2>4, Joined
    <2> QED BY <2>5 DEF s, t, u
  <1>2. ASSUME NEW a \in PlanSteps, NEW b \in PlanSteps, NEW c \in PlanSteps
        PROVE  <<a, b>> \o <<c>> = <<a, b, c>>
    <2> DEFINE s == <<a, b>>
               t == <<c>>
               u == <<a, b, c>>
    <2>1. s \in Seq(PlanSteps) /\ t \in Seq(PlanSteps) /\ u \in Seq(PlanSteps)
      OBVIOUS
    <2>2. Len(s) = 2 /\ Len(t) = 1 /\ Len(u) = 3
      OBVIOUS
    <2>3. /\ \A i \in 1..2 : u[i] = s[i]
          /\ \A i \in 1..1 : u[2 + i] = t[i]
      OBVIOUS
    <2> HIDE DEF s, t, u
    <2>4. /\ Len(u) = Len(s) + Len(t) /\ \A i \in 1 .. Len(s) : u[i] = s[i]
          /\ \A i \in 1 .. Len(t) : u[Len(s) + i] = t[i]
      BY <2>2, <2>3
    <2>5. s \o t = u
      BY <2>1, <2>4, Joined
    <2> QED BY <2>5 DEF s, t, u
  <1>3. ASSUME NEW a \in PlanSteps, NEW b \in PlanSteps, NEW c \in PlanSteps, NEW d \in PlanSteps
        PROVE  <<a, b, c>> \o <<d>> = <<a, b, c, d>>
    <2> DEFINE s == <<a, b, c>>
               t == <<d>>
               u == <<a, b, c, d>>
    <2>1. s \in Seq(PlanSteps) /\ t \in Seq(PlanSteps) /\ u \in Seq(PlanSteps)
      OBVIOUS
    <2>2. Len(s) = 3 /\ Len(t) = 1 /\ Len(u) = 4
      OBVIOUS
    <2>3. /\ \A i \in 1..3 : u[i] = s[i]
          /\ \A i \in 1..1 : u[3 + i] = t[i]
      OBVIOUS
    <2> HIDE DEF s, t, u
    <2>4. /\ Len(u) = Len(s) + Len(t) /\ \A i \in 1 .. Len(s) : u[i] = s[i]
          /\ \A i \in 1 .. Len(t) : u[Len(s) + i] = t[i]
      BY <2>2, <2>3
    <2>5. s \o t = u
      BY <2>1, <2>4, Joined
    <2> QED BY <2>5 DEF s, t, u
  <1>4. ASSUME NEW a \in PlanSteps, NEW b \in PlanSteps, NEW c \in PlanSteps, NEW d \in PlanSteps,
               NEW e \in PlanSteps, NEW f \in PlanSteps, NEW g \in PlanSteps
        PROVE  <<a, b, c, d>> \o <<e, f, g>> = <<a, b, c, d, e, f, g>>
    <2> DEFINE s == <<a, b, c, d>>
               t == <<e, f, g>>
               u == <<a, b, c, d, e, f, g>>
    <2>1. s \in Seq(PlanSteps) /\ t \in Seq(PlanSteps) /\ u \in Seq(PlanSteps)
      OBVIOUS
    <2>2. Len(s) = 4 /\ Len(t) = 3 /\ Len(u) = 7
      OBVIOUS
    <2>3. /\ \A i \in 1..4 : u[i] = s[i]
          /\ \A i \in 1..3 : u[4 + i] = t[i]
      OBVIOUS
    <2> HIDE DEF s, t, u
    <2>4. /\ Len(u) = Len(s) + Len(t) /\ \A i \in 1 .. Len(s) : u[i] = s[i]
          /\ \A i \in 1 .. Len(t) : u[Len(s) + i] = t[i]
      BY <2>2, <2>3
    <2>5. s \o t = u
      BY <2>1, <2>4, Joined
    <2> QED BY <2>5 DEF s, t, u
  <1>5. ASSUME NEW a \in PlanSteps, NEW b \in PlanSteps, NEW c \in PlanSteps, NEW d \in PlanSteps, NEW e \in PlanSteps
        PROVE  <<a, b>> \o <<c, d, e>> = <<a, b, c, d, e>>
    <2> DEFINE s == <<a, b>>
               t == <<c, d, e>>
               u == <<a, b, c, d, e>>
    <2>1. s \in Seq(PlanSteps) /\ t \in Seq(PlanSteps) /\ u \in Seq(PlanSteps)
      OBVIOUS
    <2>2. Len(s) = 2 /\ Len(t) = 3 /\ Len(u) = 5
      OBVIOUS
    <2>3. /\ \A i \in 1..2 : u[i] = s[i]
          /\ \A i \in 1..3 : u[2 + i] = t[i]
      OBVIOUS
    <2> HIDE DEF s, t, u
    <2>4. /\ Len(u) = Len(s) + Len(t) /\ \A i \in 1 .. Len(s) : u[i] = s[i]
          /\ \A i \in 1 .. Len(t) : u[Len(s) + i] = t[i]
      BY <2>2, <2>3
    <2>5. s \o t = u
      BY <2>1, <2>4, Joined
    <2> QED BY <2>5 DEF s, t, u
  <1>6. ASSUME NEW a \in PlanSteps, NEW b \in PlanSteps, NEW c \in PlanSteps, NEW d \in PlanSteps,
               NEW e \in PlanSteps, NEW f \in PlanSteps, NEW g \in PlanSteps
        PROVE  <<a>> \o <<b, c, d, e, f, g>> = <<a, b, c, d, e, f, g>>
    <2> DEFINE s == <<a>>
               t == <<b, c, d, e, f, g>>
               u == <<a, b, c, d, e, f, g>>
    <2>1. s \in Seq(PlanSteps) /\ t \in Seq(PlanSteps) /\ u \in Seq(PlanSteps)
      OBVIOUS
    <2>2. Len(s) = 1 /\ Len(t) = 6 /\ Len(u) = 7
      OBVIOUS
    <2>3. /\ \A i \in 1..1 : u[i] = s[i]
          /\ \A i \in 1..6 : u[1 + i] = t[i]
      OBVIOUS
    <2> HIDE DEF s, t, u
    <2>4. /\ Len(u) = Len(s) + Len(t) /\ \A i \in 1 .. Len(s) : u[i] = s[i]
          /\ \A i \in 1 .. Len(t) : u[Len(s) + i] = t[i]
      BY <2>2, <2>3
    <2>5. s \o t = u
      BY <2>1, <2>4, Joined
    <2> QED BY <2>5 DEF s, t, u
  <1>7. \A t \in Seq(PlanSteps) : t \o <<>> = t
    BY ConcatEmptySeq
  <1> QED BY <1>1, <1>2, <1>3, <1>4, <1>5, <1>6, <1>7

\* A job's plan, step by step.
LEMMA PlansAre ==
  ASSUME ContentTypes, NEW j \in Jobs, Requested(j)
  PROVE  \/ jobs[j].kind = "backup" /\ C!StepsOf(j) = <<"snapshot", "forget">>
         \/ jobs[j].kind = "test" /\ C!StepsOf(j) = <<"download", "record">>
         \/ jobs[j].kind = "replace" /\ C!StepsOf(j) = <<"journal", "snapshot", "mark", "change", "complete">>
         \/ /\ jobs[j].kind = "restore"
            /\ C!StepsOf(j) = <<"snapshot", "download", "dump", "preserve", "activate", "change", "discard", "record">>
         \/ /\ jobs[j].kind = "update"
            /\ C!StepsOf(j) = <<"snapshot", "recover", "dump", "build", "change", "preserve", "activate">>
         \/ /\ jobs[j].kind \in Copies /\ jobs[j].parts = {"files", "db"}
            /\ C!StepsOf(j) \in {<<"snapshot", "dump", "build", "change", "recover", "preserve", "activate">>,
                                 <<"dump", "build", "change", "recover", "preserve", "activate">>}
         \/ /\ jobs[j].kind = "custom" /\ jobs[j].parts = {"db"}
            /\ C!StepsOf(j) = <<"snapshot", "dump", "change">>
         \/ /\ jobs[j].kind = "custom" /\ jobs[j].parts = {"files"}
            /\ C!StepsOf(j) = <<"snapshot", "build", "recover", "preserve", "activate">>
  <1>1. /\ jobs[j].kind \in Kinds /\ jobs[j].parts # {} /\ jobs[j].parts \subseteq {"files", "db"}
        /\ jobs[j].kind = "custom" \/ jobs[j].parts = {"files", "db"}
    BY DEF ContentTypes, QueueTypes, RowsFit, Requested, JobRow, C!All
  <1>2. jobs[j].kind \in {"backup", "restore", "test", "update", "deploy", "sync", "custom", "replace"}
    BY <1>1, ContentAssumption DEF C!ContentAssumption
  <1>3. /\ "snapshot" \in PlanSteps /\ "dump" \in PlanSteps /\ "build" \in PlanSteps /\ "change" \in PlanSteps
        /\ "recover" \in PlanSteps /\ "preserve" \in PlanSteps /\ "activate" \in PlanSteps
    BY DEF PlanSteps
  <1>4. CASE jobs[j].kind \in {"backup", "restore", "test", "update", "replace"}
    BY <1>4 DEF C!StepsOf, C!BackupSite, C!RestoreSite, C!TestRestore, C!UpdateWordPress, C!SearchReplaceWordPress
  <1>5. CASE jobs[j].kind = "sync"
    BY <1>1, <1>5 DEF C!StepsOf, C!CreateStaging, C!replaceEnvironment, Copies
  <1>6. CASE jobs[j].kind = "deploy"
    <2>1. C!StepsOf(j) = <<"snapshot">> \o <<"dump", "build", "change", "recover", "preserve", "activate">>
      BY <1>6 DEF C!StepsOf, C!DeployStaging, C!replaceEnvironment
    <2>2. <<"snapshot">> \o <<"dump", "build", "change", "recover", "preserve", "activate">>
             = <<"snapshot", "dump", "build", "change", "recover", "preserve", "activate">>
      BY <1>3, PlansAreJoined
    <2> QED BY <1>1, <1>6, <2>1, <2>2 DEF Copies
  <1>7. CASE jobs[j].kind = "custom"
    <2> DEFINE parts == jobs[j].parts
    <2>1. C!StepsOf(j) = <<"snapshot">> \o (IF "db" \in parts THEN <<"dump">> ELSE <<>>)
                            \o (IF "files" \in parts THEN <<"build">> ELSE <<>>)
                            \o (IF "db" \in parts THEN <<"change">> ELSE <<>>)
                            \o (IF "files" \in parts THEN <<"recover", "preserve", "activate">> ELSE <<>>)
      BY <1>7 DEF C!StepsOf, C!deploySelected
    <2>2. parts = {"files", "db"} \/ parts = {"db"} \/ parts = {"files"}
      BY <1>1
    <2> HIDE DEF parts
    <2>3. CASE parts = {"files", "db"}
      <3>1. C!StepsOf(j) = <<"snapshot">> \o <<"dump">> \o <<"build">> \o <<"change">>
                              \o <<"recover", "preserve", "activate">>
        BY <2>1, <2>3
      <3>2. C!StepsOf(j) = <<"snapshot", "dump", "build", "change", "recover", "preserve", "activate">>
        <4>1. <<"snapshot">> \o <<"dump">> = <<"snapshot", "dump">>
          BY <1>3, PlansAreJoined
        <4>2. <<"snapshot", "dump">> \o <<"build">> = <<"snapshot", "dump", "build">>
          BY <1>3, PlansAreJoined
        <4>3. <<"snapshot", "dump", "build">> \o <<"change">> = <<"snapshot", "dump", "build", "change">>
          BY <1>3, PlansAreJoined
        <4>4. <<"snapshot", "dump", "build", "change">> \o <<"recover", "preserve", "activate">>
                 = <<"snapshot", "dump", "build", "change", "recover", "preserve", "activate">>
          BY <1>3, PlansAreJoined
        <4> QED BY <3>1, <4>1, <4>2, <4>3, <4>4
      <3> QED BY <1>7, <2>3, <3>2 DEF Copies, parts
    <2>4. CASE parts = {"db"}
      <3>1. C!StepsOf(j) = <<"snapshot">> \o <<"dump">> \o <<>> \o <<"change">> \o <<>>
        BY <2>1, <2>4
      <3>2. C!StepsOf(j) = <<"snapshot", "dump", "change">>
        <4>1. <<"snapshot">> \o <<"dump">> = <<"snapshot", "dump">>
          BY <1>3, PlansAreJoined
        <4>2. <<"snapshot", "dump">> \o <<>> = <<"snapshot", "dump">>
          <5>1. <<"snapshot", "dump">> \in Seq(PlanSteps)
            BY <1>3
          <5> QED BY <5>1, PlansAreJoined
        <4>3. <<"snapshot", "dump">> \o <<"change">> = <<"snapshot", "dump", "change">>
          BY <1>3, PlansAreJoined
        <4>4. <<"snapshot", "dump", "change">> \o <<>> = <<"snapshot", "dump", "change">>
          <5>1. <<"snapshot", "dump", "change">> \in Seq(PlanSteps)
            BY <1>3
          <5> QED BY <5>1, PlansAreJoined
        <4> QED BY <3>1, <4>1, <4>2, <4>3, <4>4
      <3> QED BY <1>7, <2>4, <3>2 DEF parts
    <2>5. CASE parts = {"files"}
      <3>1. C!StepsOf(j) = <<"snapshot">> \o <<>> \o <<"build">> \o <<>> \o <<"recover", "preserve", "activate">>
        BY <2>1, <2>5
      <3>2. C!StepsOf(j) = <<"snapshot", "build", "recover", "preserve", "activate">>
        <4>1. <<"snapshot">> \o <<>> = <<"snapshot">>
          <5>1. <<"snapshot">> \in Seq(PlanSteps)
            BY <1>3
          <5> QED BY <5>1, PlansAreJoined
        <4>2. <<"snapshot">> \o <<"build">> = <<"snapshot", "build">>
          BY <1>3, PlansAreJoined
        <4>3. <<"snapshot", "build">> \o <<>> = <<"snapshot", "build">>
          <5>1. <<"snapshot", "build">> \in Seq(PlanSteps)
            BY <1>3
          <5> QED BY <5>1, PlansAreJoined
        <4>4. <<"snapshot", "build">> \o <<"recover", "preserve", "activate">>
                 = <<"snapshot", "build", "recover", "preserve", "activate">>
          BY <1>3, PlansAreJoined
        <4> QED BY <3>1, <4>1, <4>2, <4>3, <4>4
      <3> QED BY <1>7, <2>5, <3>2 DEF parts
    <2> QED BY <2>2, <2>3, <2>4, <2>5
  <1> QED BY <1>2, <1>4, <1>5, <1>6, <1>7

\* A call that gets the lock has found what is there, and of a job that was not
\* carried out before nothing is left.
LEMMA LockTells ==
  ASSUME ContentTypes, LeftInv, NEW c \in calls, LockTaken(c)
  PROVE  LeftInv' /\ CallTells' /\ IsContent(run'.found) /\ IsContent(run'.goal) /\ run'.job \in begun'
  <1> DEFINE j == c.job
  <1>1. /\ Requested(j) /\ run'.job = j /\ run'.todo = C!StepsOf(j) /\ run'.ok
        /\ files' = files /\ db' = db /\ snaps' = snaps /\ previous' = previous /\ copies' = copies /\ jobs' = jobs
        /\ begun' = begun \cup {j} /\ (run'.again <=> j \in begun)
        /\ run'.found = C!Content(C!Target(j)) /\ run'.goal = run'.found
    BY DEF LockTaken
  <1>2. j \in Jobs /\ j # 0
    BY <1>1, ContentAssumption DEF Requested, C!ContentAssumption
  <1> HIDE DEF j
  <1>3. C!Kind' = jobs[j].kind /\ Parts' = jobs[j].parts /\ C!Site' = C!Target(j)
        /\ (C!Mine' = [kind |-> jobs[j].kind, job |-> IF jobs[j].kind \in C!Copies THEN 0 ELSE j,
                      tables |-> "db" \in jobs[j].parts])
    BY <1>1 DEF C!Kind, Parts, C!Site, C!Mine, C!Owner, C!Target
  <1>4. IsContent(run'.found) /\ IsContent(run'.goal) /\ At(run.found)' /\ run'.goal = run'.found
    BY <1>1, <1>3 DEF C!Content, IsContent, At
  <1>5. FilesFound' /\ DbFound'
    BY <1>4 DEF FilesFound, DbFound, At
  <1>6. LeftInv'
    BY <1>1 DEF LeftInv
  <1>7. run'.again \/ ((\A d \in copies' : d.job # run'.job) /\ \A s \in snaps' : s.key # run'.job)
    BY <1>1, <1>2 DEF LeftInv
  <1>8. CASE jobs[j].kind = "backup" /\ C!StepsOf(j) = <<"snapshot", "forget">>
    <2>1. Reads'
      BY <1>1, <1>3, <1>4, <1>8 DEF Reads
    <2> QED BY <1>1, <1>4, <1>6, <2>1 DEF CallTells
  <1>9. CASE jobs[j].kind = "test" /\ C!StepsOf(j) = <<"download", "record">>
    <2>1. Reads'
      BY <1>1, <1>3, <1>4, <1>9 DEF Reads
    <2> QED BY <1>1, <1>4, <1>6, <2>1 DEF CallTells
  <1>10. CASE /\ jobs[j].kind = "replace"
              /\ C!StepsOf(j) = <<"journal", "snapshot", "mark", "change", "complete">>
    <2>1. Reads'
      BY <1>1, <1>3, <1>4, <1>10 DEF Reads
    <2> QED BY <1>1, <1>4, <1>6, <2>1 DEF CallTells
  <1>11. CASE /\ jobs[j].kind = "restore"
              /\ C!StepsOf(j) = <<"snapshot", "download", "dump", "preserve", "activate", "change", "discard", "record">>
    <2>1. Restores'
      BY <1>1, <1>3, <1>5, <1>11 DEF Restores
    <2> QED BY <1>1, <1>4, <1>6, <2>1 DEF CallTells
  <1>12. CASE /\ jobs[j].kind = "update"
              /\ C!StepsOf(j) = <<"snapshot", "recover", "dump", "build", "change", "preserve", "activate">>
    <2>1. C!Mine'.job = j
      BY <1>3, <1>12 DEF C!Copies
    <2>2. run'.again \/ Aside' = {}
      BY <1>1, <1>2, <2>1 DEF LeftInv, Aside
    <2>3. Prepares'
      BY <1>1, <1>3, <1>5, <1>7, <1>12, <2>2 DEF Prepares
    <2> QED BY <1>1, <1>4, <1>6, <2>3 DEF CallTells
  <1>13. CASE /\ jobs[j].kind \in Copies /\ jobs[j].parts = {"files", "db"}
              /\ C!StepsOf(j) \in {<<"snapshot", "dump", "build", "change", "recover", "preserve", "activate">>,
                                   <<"dump", "build", "change", "recover", "preserve", "activate">>}
    <2>1. Prepares'
      BY <1>1, <1>3, <1>5, <1>13 DEF Prepares
    <2> QED BY <1>1, <1>4, <1>6, <2>1 DEF CallTells
  <1>14. CASE jobs[j].kind = "custom" /\ jobs[j].parts = {"db"} /\ C!StepsOf(j) = <<"snapshot", "dump", "change">>
    <2>1. Prepares'
      BY <1>1, <1>3, <1>5, <1>14 DEF Prepares
    <2> QED BY <1>1, <1>4, <1>6, <2>1 DEF CallTells
  <1>15. CASE /\ jobs[j].kind = "custom" /\ jobs[j].parts = {"files"}
              /\ C!StepsOf(j) = <<"snapshot", "build", "recover", "preserve", "activate">>
    <2>1. Prepares'
      BY <1>1, <1>3, <1>5, <1>7, <1>15 DEF Prepares
    <2> QED BY <1>1, <1>4, <1>6, <2>1 DEF CallTells
  <1> QED BY <1>1, <1>2, <1>8, <1>9, <1>10, <1>11, <1>12, <1>13, <1>14, <1>15, PlansAre

\* While the site and the call stay, so does what the call tells.
LEMMA CallTellsOn ==
  ASSUME Frame, run' = run, files' = files, db' = db, snaps' = snaps, previous' = previous, copies' = copies, CallTells
  PROVE  CallTells'
  <1>1. /\ At(run.found)' = At(run.found) /\ At(run.goal)' = At(run.goal)
        /\ FilesFound' = FilesFound /\ DbFound' = DbFound /\ DumpFound' = DumpFound /\ TreeFound' = TreeFound
        /\ Aside' = Aside /\ AsideFound' = AsideFound /\ DbKept' = DbKept
        /\ C!Kind' = C!Kind /\ Parts' = Parts /\ C!Site' = C!Site
    BY FoundStays DEF Frame, At
  <1>2. Reads => Reads'
    BY <1>1 DEF Reads
  <1>3. Replaces => Replaces'
    BY <1>1 DEF Replaces
  <1>4. Restores => Restores'
    BY <1>1 DEF Restores
  <1>5. Prepares => Prepares'
    BY <1>1 DEF Prepares
  <1>6. Dumped => Dumped'
    BY <1>1 DEF Dumped
  <1>7. Changed => Changed'
    BY <1>1 DEF Changed
  <1>8. Moved => Moved'
    BY <1>1 DEF Moved
  <1>9. TakesBack => TakesBack'
    BY <1>1 DEF TakesBack
  <1>10. Ended => Ended'
    BY <1>1 DEF Ended
  <1> QED BY <1>2, <1>3, <1>4, <1>5, <1>6, <1>7, <1>8, <1>9, <1>10 DEF CallTells

\* Every step of a call tells what it has come to.
LEMMA CallsTell ==
  ASSUME ContentTypes, LeftInv, CallTells, CallStep
  PROVE  CallTells'
  <1>1. /\ Frame /\ Parts \subseteq {"files", "db"} /\ (C!Kind = "custom" \/ Parts = {"files", "db"})
        /\ C!Site \in C!Sites
    BY CallsKeepFrame
  <1> QED BY <1>1, RefuseTells, SnapshotTells, RetentionTells, DownloadTells, SwitchTells, UpdateTells, ExportTells,
             BuildTells, ChangeTells, PreserveTells, ActivateTells, UndoTells, UnswitchTells, DiscardTells, RecordTells,
             JournalTells, MarkTells, CompleteTells DEF CallStep

LEMMA AnswersKeep ==
  ASSUME AnswersInv, [C!ContentNext]_C!contentVars
  PROVE  AnswersInv'
  <1>1. /\ ContentTypes /\ ContentTypes' /\ LeftInv
        /\ run.job # 0 => /\ run.job \in begun /\ IsContent(run.found) /\ IsContent(run.goal) /\ CallTells
    BY ContentKeepsTypes DEF AnswersInv
  <1>2. CASE SiteStays /\ JobsGoOn
    <2>1. LeftInv'
      BY <1>1, <1>2 DEF SiteStays, LeftInv
    <2>2. CASE run' = run /\ run.job # 0
      <3>1. Requested(run.job)
        BY <1>1, <2>2 DEF ContentTypes, CallTypes
      <3>2. Frame
        BY <1>2, <2>2, <3>1 DEF JobsGoOn, Requested, Frame, C!Kind, Parts, C!Site, C!Target, C!Mine, C!Owner
      <3>3. CallTells'
        BY <1>1, <1>2, <2>2, <3>2, CallTellsOn DEF SiteStays
      <3> QED BY <1>1, <1>2, <2>1, <2>2, <3>3 DEF SiteStays, AnswersInv
    <2>3. CASE run'.job = 0
      BY <1>1, <2>1, <2>3 DEF AnswersInv
    <2> QED BY <1>2, <2>2, <2>3 DEF SiteStays, C!Idle
  <1>3. CASE \E c \in calls : LockTaken(c)
    BY <1>1, <1>3, LockTells DEF AnswersInv
  <1>4. CASE CallStep
    <2>1. Frame /\ run.job # 0 /\ begun' = begun
      BY <1>1, <1>4, CallsKeepFrame
    <2>2. LeftInv' /\ CallTells' /\ IsContent(run'.goal)
      BY <1>1, <1>4, <2>1, LeftKeeps, CallsTell, GoalsAreContent
    <2>3. run'.job \in begun' /\ IsContent(run'.found)
      BY <1>1, <2>1 DEF Frame
    <2> QED BY <1>1, <2>2, <2>3 DEF AnswersInv
  <1> QED BY <1>1, <1>2, <1>3, <1>4, ContentSteps

\* What a call answers is what it has done: a success is content that was asked for,
\* tree and database, and a failure of a job carried out for the first time leaves the
\* site as it was found, unless putting it back has failed as well.
THEOREM AnswersStayTrue == Spec => []AnswersAreTrue
  <1>1. ASSUME C!ContentInit
        PROVE  AnswersInv
    <2>1. ContentTypes /\ run.job = 0 /\ previous = {} /\ copies = {} /\ \A s \in snaps : s.key = 0
      BY <1>1, ContentStarts DEF C!ContentInit, C!Idle
    <2> QED BY <2>1 DEF AnswersInv, LeftInv
  <1>2. AnswersInv /\ [C!ContentNext]_C!contentVars => AnswersInv'
    BY AnswersKeep
  <1>3. ASSUME AnswersInv, C!Answering
        PROVE  IF run.ok THEN C!Content(C!Site) = run.goal
               ELSE ~ run.again /\ ~ run.stuck =>
                       \/ C!Content(C!Site) = run.found
                       \/ C!Kind = "restore" /\ C!Content(C!Site) = run.goal
    <2>1. run.todo = <<>> /\ run.job # 0
      BY <1>3 DEF AnswersInv, ContentTypes, CallTypes, C!Answering
    <2>2. CallTells /\ IsContent(run.found) /\ IsContent(run.goal)
      BY <1>3, <2>1 DEF AnswersInv
    <2>3. Ended
      <3>1. ~ Reads /\ ~ Replaces /\ ~ Restores
        BY <2>1, StepsLeft DEF Begins, Reads, Replaces, Restores
      <3>2. ~ Prepares /\ ~ Dumped
        BY <2>1, StepsLeft DEF Begins, Prepares, Dumped
      <3>3. ~ Changed /\ ~ Moved /\ ~ TakesBack
        BY <2>1, StepsLeft DEF Begins, Changed, Moved, TakesBack
      <3> QED BY <2>2, <3>1, <3>2, <3>3 DEF CallTells
    <2>4. \A c : At(c) /\ IsContent(c) => C!Content(C!Site) = c
      BY DEF At, IsContent, C!Content
    <2> QED BY <2>2, <2>3, <2>4 DEF Ended
  <1>4. AnswersInv => AnswersAreTrue
    BY <1>3 DEF AnswersAreTrue, C!AnswersAreTrue
  <1> QED BY <1>1, <1>2, <1>4, ContentIsRefined, PTL DEF C!ContentSpec
=============================================================================
