--------------------------- MODULE MaterialProofs ---------------------------
(***************************************************************************)
(* What holds of the files of a classroom and of the one that is presented,*)
(* for any number of requests, files, pages and renders.                   *)
(***************************************************************************)
EXTENDS Files, Slides, FiniteSetTheorems, TLAPS

-----------------------------------------------------------------------------
(* The table: how far uploads that overlap can exceed MAX_FILES_PER_CLASSROOM,*)
(* conversions that write a deleted row again included.                    *)

\* The upload has written its row, and will not write another one.
Placed(r) == r.op = "upload" /\ r.step \in {"stored", "done"}

\* The upload may still add a row: it has passed the check of the cap, or its row was
\* deleted while the conversion runs.
Claims(r, there) ==
  r.op = "upload" /\ (r.step = "checked" \/ (r.step = "stored" /\ r.file \notin there))

Claimants == {q \in FileReqs : Claims(fileReq[q], files)}

RequestsOK ==
  /\ fileReq \in [FileReqs -> FileRequest]
  /\ files \subseteq used /\ used \subseteq FileIds
  /\ IsFiniteSet(files)

OwnFile ==
  /\ \A q \in FileReqs : Placed(fileReq[q]) => fileReq[q].file \in used
  /\ \A q, u \in FileReqs :
       q # u /\ Placed(fileReq[q]) /\ Placed(fileReq[u]) => fileReq[q].file # fileReq[u].file

\* The check that lets the last claimant in found a place for it alone.
Claimed ==
  Cardinality(files) + Cardinality(Claimants) < MAX_FILES_PER_CLASSROOM + Cardinality(FileReqs)

FilesInv == RequestsOK /\ OwnFile /\ Claimed

-----------------------------------------------------------------------------
LEMMA Numbers ==
  ASSUME NEW S \in SUBSET FileReqs
  PROVE  /\ IsFiniteSet(S) /\ Cardinality(S) \in Nat
         /\ Cardinality(FileReqs) \in Nat
         /\ Cardinality(S) <= Cardinality(FileReqs)
  BY FileAssumption, FS_Subset, FS_CardinalityType

LEMMA IdleFile ==
  /\ FileIdle \in FileRequest /\ FileIdle.op = "idle" /\ FileIdle.step = "begin"
  /\ FileIdle.file = 0 /\ FileIdle.shown = FALSE
<1>1. PICK p \in FilePages : TRUE
  BY FileAssumption
<1> DEFINE q == [op |-> "idle", step |-> "begin", page |-> p, file |-> 0, shown |-> FALSE]
<1>2. q \in FileRequest /\ q.op = "idle" /\ q.step = "begin" /\ q.file = 0 /\ ~q.shown
  BY <1>1 DEF FileRequest, FileId0
<1>3. FileIdle \in FileRequest /\ FileIdle.op = "idle" /\ FileIdle.step = "begin"
      /\ FileIdle.file = 0 /\ ~FileIdle.shown
  BY <1>2 DEF FileIdle
<1> QED BY <1>3 DEF FileRequest

LEMMA FilesInvInit == FileInit => FilesInv
<1> SUFFICES ASSUME FileInit PROVE FilesInv
  OBVIOUS
<1>1. /\ files = {} /\ used = {}
      /\ fileReq \in [FileReqs -> FileRequest]
      /\ \A q \in FileReqs : fileReq[q].op = "idle"
  BY IdleFile DEF FileInit
<1>2. Claimants = {}
  BY <1>1 DEF Claimants, Claims
<1>3. Cardinality(FileReqs) \in Nat \ {0}
  BY FileAssumption, FS_EmptySet, FS_CardinalityType
<1>4. Claimed
  BY <1>1, <1>2, <1>3, FS_EmptySet, FileAssumption DEF Claimed
<1> QED BY <1>1, <1>4, FS_EmptySet DEF FilesInv, RequestsOK, OwnFile, Placed

\* A request that neither writes rows nor gains a claim.
LEMMA Harmless ==
  ASSUME FilesInv, UNCHANGED <<files, used>>, NEW q \in FileReqs, NEW new \in FileRequest,
         fileReq' = [fileReq EXCEPT ![q] = new],
         Claims(new, files) => Claims(fileReq[q], files),
         Placed(new) => Placed(fileReq[q]) /\ new.file = fileReq[q].file
  PROVE  FilesInv'
<1>1. /\ fileReq' \in [FileReqs -> FileRequest]
      /\ fileReq'[q] = new
      /\ \A u \in FileReqs : u # q => fileReq'[u] = fileReq[u]
  BY DEF FilesInv, RequestsOK
<1>2. RequestsOK' /\ OwnFile'
  BY <1>1 DEF FilesInv, RequestsOK, OwnFile
<1>3. Claimants' \subseteq Claimants /\ Claimants \subseteq FileReqs
  BY <1>1 DEF Claimants
<1>4. Cardinality(Claimants') <= Cardinality(Claimants)
  BY <1>3, Numbers, FS_Subset
<1>5. Claimed'
  <2>1. /\ Cardinality(files) \in Nat /\ Cardinality(Claimants) \in Nat
        /\ Cardinality(Claimants') \in Nat /\ Cardinality(FileReqs) \in Nat
    BY <1>3, Numbers, FS_CardinalityType DEF FilesInv, RequestsOK
  <2> QED BY <1>4, <2>1, FileAssumption DEF FilesInv, Claimed
<1> QED BY <1>2, <1>5 DEF FilesInv

LEMMA CountInv ==
  ASSUME FilesInv, NEW q \in FileReqs, UploadCount(q)
  PROVE  FilesInv'
<1>1. CASE Cardinality(files) >= MAX_FILES_PER_CLASSROOM
  <2>1. fileReq' = [fileReq EXCEPT ![q] = FileIdle] /\ UNCHANGED <<files, used>>
    BY <1>1 DEF UploadCount
  <2> QED BY <2>1, IdleFile, Harmless DEF Claims, Placed
<1>2. CASE ~(Cardinality(files) >= MAX_FILES_PER_CLASSROOM)
  <2> DEFINE new == [fileReq[q] EXCEPT !.step = "checked"]
  <2>1. /\ fileReq' = [fileReq EXCEPT ![q] = new] /\ UNCHANGED <<files, used>>
        /\ fileReq[q] \in FileRequest
    BY <1>2 DEF UploadCount, FilesInv, RequestsOK
  <2>2. new \in FileRequest /\ ~Placed(new)
    BY <2>1 DEF FileRequest, Placed
  <2> HIDE DEF new
  <2>3. /\ fileReq' \in [FileReqs -> FileRequest]
        /\ fileReq'[q] = new
        /\ \A u \in FileReqs : u # q => fileReq'[u] = fileReq[u]
    BY <2>1, <2>2 DEF FilesInv, RequestsOK
  <2>4. RequestsOK' /\ OwnFile'
    BY <2>1, <2>2, <2>3 DEF FilesInv, RequestsOK, OwnFile
  <2>5. Claimants' \subseteq FileReqs
    BY DEF Claimants
  <2>6. /\ Cardinality(files) \in Nat /\ Cardinality(Claimants') \in Nat
        /\ Cardinality(FileReqs) \in Nat /\ Cardinality(Claimants') <= Cardinality(FileReqs)
    BY <2>5, Numbers, FS_CardinalityType DEF FilesInv, RequestsOK
  <2> QED BY <1>2, <2>1, <2>4, <2>6, FileAssumption DEF FilesInv, Claimed
<1> QED BY <1>1, <1>2

LEMMA CreateInv ==
  ASSUME FilesInv, NEW q \in FileReqs, UploadCreate(q)
  PROVE  FilesInv'
<1>1. PICK f \in FileIds \ used :
        /\ used' = used \cup {f} /\ files' = files \cup {f}
        /\ fileReq' = [fileReq EXCEPT ![q].step = "stored", ![q].file = f]
  BY DEF UploadCreate
<1> DEFINE new == [fileReq[q] EXCEPT !.step = "stored", !.file = f]
<1>2. /\ fileReq[q] \in FileRequest /\ fileReq[q].op = "upload" /\ fileReq[q].step = "checked"
      /\ fileReq' = [fileReq EXCEPT ![q] = new]
  BY <1>1 DEF UploadCreate, FilesInv, RequestsOK
<1>3. new \in FileRequest /\ new.file = f /\ new.step = "stored"
  BY <1>2 DEF FileRequest, FileId0
<1> HIDE DEF new
<1>4. /\ fileReq' \in [FileReqs -> FileRequest]
      /\ fileReq'[q] = new
      /\ \A u \in FileReqs : u # q => fileReq'[u] = fileReq[u]
  BY <1>2, <1>3 DEF FilesInv, RequestsOK
<1>5. f \notin files /\ IsFiniteSet(files') /\ Cardinality(files') = Cardinality(files) + 1
  BY <1>1, FS_AddElement DEF FilesInv, RequestsOK
<1>6. RequestsOK'
  BY <1>1, <1>4, <1>5 DEF FilesInv, RequestsOK
<1>7. OwnFile'
  BY <1>1, <1>3, <1>4 DEF FilesInv, OwnFile
<1>8. q \in Claimants /\ Claimants' \subseteq Claimants \ {q}
  BY <1>1, <1>2, <1>3, <1>4 DEF Claimants, Claims
<1>9. Cardinality(Claimants') <= Cardinality(Claimants) - 1
  <2>1. Claimants \in SUBSET FileReqs
    BY DEF Claimants
  <2>2. Cardinality(Claimants \ {q}) = Cardinality(Claimants) - 1 /\ IsFiniteSet(Claimants \ {q})
    BY <1>8, <2>1, Numbers, FS_RemoveElement
  <2> QED BY <1>8, <2>2, FS_Subset
<1>10. Claimed'
  <2>1. Claimants \in SUBSET FileReqs /\ Claimants' \in SUBSET FileReqs
    BY DEF Claimants
  <2>2. /\ Cardinality(files) \in Nat /\ Cardinality(Claimants) \in Nat
        /\ Cardinality(Claimants') \in Nat /\ Cardinality(FileReqs) \in Nat
    BY <2>1, Numbers, FS_CardinalityType DEF FilesInv, RequestsOK
  <2> QED BY <1>5, <1>9, <2>2, FileAssumption DEF FilesInv, Claimed
<1> QED BY <1>6, <1>7, <1>10 DEF FilesInv
\* The conversion gives the claim back, or uses it.
LEMMA ConvertInv ==
  ASSUME FilesInv, NEW q \in FileReqs, convert_to_pdf(q)
  PROVE  FilesInv'
<1> DEFINE new == [fileReq[q] EXCEPT !.step = "done"]
           f   == fileReq[q].file
<1>1. /\ fileReq[q] \in FileRequest /\ fileReq[q].op = "upload" /\ fileReq[q].step = "stored"
      /\ fileReq' = [fileReq EXCEPT ![q] = new]
      /\ files' = files \/ files' = files \cup {f}
      /\ UNCHANGED used
      /\ f \in used
  BY DEF convert_to_pdf, FilesInv, RequestsOK, OwnFile, Placed
<1>2. new \in FileRequest /\ new.file = f /\ new.step = "done" /\ new.op = "upload"
  BY <1>1 DEF FileRequest
<1> HIDE DEF new, f
<1>3. /\ fileReq' \in [FileReqs -> FileRequest]
      /\ fileReq'[q] = new
      /\ \A u \in FileReqs : u # q => fileReq'[u] = fileReq[u]
  BY <1>1, <1>2 DEF FilesInv, RequestsOK
<1>4. RequestsOK'
  BY <1>1, <1>3, FS_AddElement DEF FilesInv, RequestsOK
<1>5. OwnFile'
  BY <1>1, <1>2, <1>3 DEF FilesInv, OwnFile, Placed, f
<1>6. Claimants' \subseteq Claimants \ {q} /\ Claimants \in SUBSET FileReqs
      /\ Claimants' \in SUBSET FileReqs
  BY <1>1, <1>2, <1>3 DEF Claimants, Claims
<1>7. /\ Cardinality(files) \in Nat /\ Cardinality(Claimants) \in Nat
      /\ Cardinality(Claimants') \in Nat /\ Cardinality(FileReqs) \in Nat
  BY <1>6, Numbers, FS_CardinalityType DEF FilesInv, RequestsOK
<1>8. Claimed'
  <2>1. CASE files' = files
    <3>1. Cardinality(Claimants') <= Cardinality(Claimants)
      BY <1>6, Numbers, FS_Subset
    <3> QED BY <1>7, <2>1, <3>1, FileAssumption DEF FilesInv, Claimed
  <2>2. CASE files' = files \cup {f} /\ f \notin files
    <3>1. q \in Claimants
      BY <1>1, <2>2 DEF Claimants, Claims, f
    <3>2. Cardinality(Claimants \ {q}) = Cardinality(Claimants) - 1 /\ IsFiniteSet(Claimants \ {q})
      BY <1>6, <3>1, Numbers, FS_RemoveElement
    <3>3. Cardinality(Claimants') <= Cardinality(Claimants) - 1
      BY <1>6, <3>2, FS_Subset
    <3>4. Cardinality(files') = Cardinality(files) + 1
      BY <2>2, FS_AddElement DEF FilesInv, RequestsOK
    <3> QED BY <1>7, <3>3, <3>4, FileAssumption DEF FilesInv, Claimed
  <2> QED BY <1>1, <2>1, <2>2
<1> QED BY <1>4, <1>5, <1>8 DEF FilesInv

\* A deletion makes room for one row, and gives a claim to one upload at most: its own.
LEMMA DeleteInv ==
  ASSUME FilesInv, NEW q \in FileReqs, delete_shared_file(q)
  PROVE  FilesInv'
<1> DEFINE new == [fileReq[q] EXCEPT !.step = "stored"]
           f   == fileReq[q].file
           Own == {u \in FileReqs : Placed(fileReq[u]) /\ fileReq[u].file = f}
<1>1. /\ fileReq[q] \in FileRequest /\ fileReq[q].op = "delete"
      /\ fileReq' = [fileReq EXCEPT ![q] = new]
      /\ files' = files \ {f}
      /\ UNCHANGED used
  BY DEF delete_shared_file, FilesInv, RequestsOK
<1>2. new \in FileRequest /\ new.op = "delete"
  BY <1>1 DEF FileRequest
<1> HIDE DEF new, f
<1>3. /\ fileReq' \in [FileReqs -> FileRequest]
      /\ fileReq'[q] = new
      /\ \A u \in FileReqs : u # q => fileReq'[u] = fileReq[u]
  BY <1>1, <1>2 DEF FilesInv, RequestsOK
<1>4. IsFiniteSet(files') /\ (f \in files => Cardinality(files') = Cardinality(files) - 1)
  BY <1>1, FS_RemoveElement DEF FilesInv, RequestsOK
<1>5. RequestsOK' /\ OwnFile'
  BY <1>1, <1>2, <1>3, <1>4 DEF FilesInv, RequestsOK, OwnFile, Placed
<1>6. Claimants \in SUBSET FileReqs /\ Claimants' \in SUBSET FileReqs
  BY DEF Claimants
<1>7. Claimants' \subseteq Claimants \cup Own
  BY <1>1, <1>2, <1>3 DEF Claimants, Claims, Placed
<1>8. /\ Cardinality(files) \in Nat /\ Cardinality(files') \in Nat
      /\ Cardinality(Claimants) \in Nat /\ Cardinality(Claimants') \in Nat
      /\ Cardinality(FileReqs) \in Nat
  BY <1>4, <1>6, Numbers, FS_CardinalityType DEF FilesInv, RequestsOK
<1>9. Cardinality(Claimants') <= Cardinality(Claimants) + 1
  <2>1. \A u, v \in Own : u = v
    BY DEF FilesInv, OwnFile
  <2> HIDE DEF Own
  <2>2. CASE Own = {}
    <3>1. Claimants' \subseteq Claimants
      BY <1>7, <2>2
    <3> QED BY <1>6, <1>8, <3>1, Numbers, FS_Subset
  <2>3. CASE Own # {}
    <3>1. PICK u \in Own : TRUE
      BY <2>3
    <3>2. Claimants' \subseteq Claimants \cup {u}
      BY <1>7, <2>1
    <3>3. IsFiniteSet(Claimants \cup {u}) /\ Cardinality(Claimants \cup {u}) <= Cardinality(Claimants) + 1
      BY <1>6, <1>8, Numbers, FS_AddElement
    <3>4. Cardinality(Claimants') <= Cardinality(Claimants \cup {u})
      BY <3>2, <3>3, FS_Subset
    <3>5. Cardinality(Claimants \cup {u}) \in Nat
      BY <3>3, FS_CardinalityType
    <3> QED BY <1>8, <3>3, <3>4, <3>5
  <2> QED BY <2>2, <2>3
<1>10. Claimed'
  <2>1. CASE f \in files
    BY <1>4, <1>8, <1>9, <2>1, FileAssumption DEF FilesInv, Claimed
  <2>2. CASE f \notin files
    <3>1. files' = files
      BY <1>1, <2>2
    <3>2. Claimants' \subseteq Claimants
      BY <1>1, <1>2, <1>3, <3>1 DEF Claimants, Claims
    <3>3. Cardinality(Claimants') <= Cardinality(Claimants)
      BY <1>6, <3>2, Numbers, FS_Subset
    <3> QED BY <1>8, <3>1, <3>3, FileAssumption DEF FilesInv, Claimed
  <2> QED BY <2>1, <2>2
<1> QED BY <1>5, <1>10 DEF FilesInv

\* A request begins: it is no upload that has claimed or placed anything.
LEMMA BeginInv ==
  ASSUME FilesInv, NEW q \in FileReqs, NEW p \in FilePages,
         UploadBegins(q, p) \/ PresentBegins(q, p) \/ DeleteBegins(q, p)
  PROVE  FilesInv'
<1>1. CASE UploadBegins(q, p)
  <2> DEFINE new == [FileIdle EXCEPT !.op = "upload", !.page = p]
  <2>1. new \in FileRequest /\ new.step = "begin"
    BY IdleFile DEF FileRequest
  <2>2. fileReq' = [fileReq EXCEPT ![q] = new] /\ UNCHANGED <<files, used>>
    BY <1>1 DEF UploadBegins
  <2> HIDE DEF new
  <2> QED BY <2>1, <2>2, Harmless DEF Claims, Placed
<1>2. CASE PresentBegins(q, p)
  <2>1. PICK f \in (ToSet(filePage[p].list) \cap files) \cup {0} :
          fileReq' = [fileReq EXCEPT ![q] = [FileIdle EXCEPT !.op = "present", !.page = p, !.file = f]]
    BY <1>2 DEF PresentBegins
  <2>2. f \in FileId0
    BY DEF FilesInv, RequestsOK, FileId0
  <2> DEFINE new == [FileIdle EXCEPT !.op = "present", !.page = p, !.file = f]
  <2>3. new \in FileRequest /\ new.op = "present"
    BY <2>2, IdleFile DEF FileRequest
  <2>4. fileReq' = [fileReq EXCEPT ![q] = new] /\ UNCHANGED <<files, used>>
    BY <1>2, <2>1 DEF PresentBegins
  <2> HIDE DEF new
  <2> QED BY <2>3, <2>4, Harmless DEF Claims, Placed
<1>3. CASE DeleteBegins(q, p)
  <2>1. PICK f \in ToSet(filePage[p].list) \cap files :
          fileReq' = [fileReq EXCEPT ![q] =
            [FileIdle EXCEPT !.op = "delete", !.page = p, !.file = f, !.shown = (current = f)]]
    BY <1>3 DEF DeleteBegins
  <2>2. f \in FileId0
    BY DEF FilesInv, RequestsOK, FileId0
  <2> DEFINE new == [FileIdle EXCEPT !.op = "delete", !.page = p, !.file = f, !.shown = (current = f)]
  <2>3. new \in FileRequest /\ new.op = "delete"
    BY <2>2, IdleFile DEF FileRequest
  <2>4. fileReq' = [fileReq EXCEPT ![q] = new] /\ UNCHANGED <<files, used>>
    BY <1>3, <2>1 DEF DeleteBegins
  <2> HIDE DEF new
  <2> QED BY <2>3, <2>4, Harmless DEF Claims, Placed
<1> QED BY <1>1, <1>2, <1>3

\* A request goes on with telling, saving the presentation, or answering.
LEMMA TellInv ==
  ASSUME FilesInv, NEW q \in FileReqs,
         UploadAnnounce(q) \/ set_presentation(q) \/ PresentAnnounce(q) \/ DeleteAnnounce(q)
           \/ FileReply(q)
  PROVE  FilesInv'
<1>1. fileReq[q] \in FileRequest
  BY DEF FilesInv, RequestsOK
<1>2. CASE UploadAnnounce(q)
  <2> DEFINE new == [fileReq[q] EXCEPT !.shown = TRUE]
  <2>1. new \in FileRequest /\ new.op = fileReq[q].op /\ new.step = fileReq[q].step
        /\ new.file = fileReq[q].file
    BY <1>1 DEF FileRequest
  <2>2. fileReq' = [fileReq EXCEPT ![q] = new] /\ UNCHANGED <<files, used>>
    BY <1>2 DEF UploadAnnounce
  <2> HIDE DEF new
  <2> QED BY <2>1, <2>2, Harmless DEF Claims, Placed
<1>3. CASE fileReq' = [fileReq EXCEPT ![q] = FileIdle] /\ UNCHANGED <<files, used>>
  BY <1>3, IdleFile, Harmless DEF Claims, Placed
<1>4. CASE /\ fileReq' = [fileReq EXCEPT ![q].step = "done"] /\ UNCHANGED <<files, used>>
           /\ fileReq[q].op \in {"present", "delete"}
  <2> DEFINE new == [fileReq[q] EXCEPT !.step = "done"]
  <2>1. new \in FileRequest /\ new.op \in {"present", "delete"}
    BY <1>1, <1>4 DEF FileRequest
  <2>2. fileReq' = [fileReq EXCEPT ![q] = new] /\ UNCHANGED <<files, used>>
    BY <1>4
  <2> HIDE DEF new
  <2> QED BY <2>1, <2>2, Harmless DEF Claims, Placed
<1> QED BY <1>2, <1>3, <1>4 DEF set_presentation, PresentAnnounce, DeleteAnnounce, FileReply

LEMMA FilesInvNext == FilesInv /\ [FileNext]_fileVars => FilesInv'
<1> SUFFICES ASSUME FilesInv, [FileNext]_fileVars PROVE FilesInv'
  OBVIOUS
<1>1. ASSUME UNCHANGED <<files, used, fileReq>> PROVE FilesInv'
  BY <1>1 DEF FilesInv, RequestsOK, OwnFile, Claimed, Claimants
<1>2. CASE UNCHANGED fileVars
  BY <1>1, <1>2 DEF fileVars
<1>3. CASE \E p \in FilePages :
             PageLoads(p) \/ PageJoins(p) \/ PageSnapshot(p) \/ PageLosesSocket(p) \/ PageHears(p)
  BY <1>1, <1>3 DEF PageLoads, PageJoins, PageSnapshot, PageLosesSocket, PageHears
<1> QED BY <1>2, <1>3, CountInv, CreateInv, ConvertInv, DeleteInv, BeginInv, TellInv DEF FileNext

\* At most as many rows as the cap, and one more for each further request that counts at
\* the same time: the claims of the inductive invariant.
THEOREM FilesInductive == FileSpec => []FilesInv
  BY FilesInvInit, FilesInvNext, PTL DEF FileSpec

\* MAX_FILES_PER_CLASSROOM bounds the files of a classroom up to the number of requests
\* less one, for any cap and any number of requests, although file_upload_view checks
\* before it stores and convert_to_pdf may write a deleted row again.
THEOREM StorageIsBounded == FileSpec => []FilesBounded
<1>1. FilesInv => FilesBounded
  <2> SUFFICES ASSUME FilesInv PROVE FilesBounded
    OBVIOUS
  <2>1. Claimants \in SUBSET FileReqs
    BY DEF Claimants
  <2>2. /\ Cardinality(files) \in Nat /\ Cardinality(Claimants) \in Nat
        /\ Cardinality(FileReqs) \in Nat
    BY <2>1, Numbers, FS_CardinalityType DEF FilesInv, RequestsOK
  <2> QED BY <2>2, FileAssumption DEF FilesInv, Claimed, FilesBounded
<1> QED BY <1>1, FilesInductive, PTL

-----------------------------------------------------------------------------
(* The pages: every one ends up with the list of the files that are there  *)
(* and with what is presented.                                             *)

\* An upload whose row is there and has not been announced, and a deletion that has yet
\* to tell the pages.
Unannounced(f) == \E q \in FileReqs : Placed(fileReq[q]) /\ fileReq[q].file = f /\ ~fileReq[q].shown
Vanishing(f) == \E q \in FileReqs :
  fileReq[q].op = "delete" /\ fileReq[q].step = "stored" /\ fileReq[q].file = f

\* A request that has changed what is presented and has yet to tell the pages.
Turning == \E q \in FileReqs :
  \/ fileReq[q].op = "present" /\ fileReq[q].step = "done"
  \/ fileReq[q].op = "delete" /\ fileReq[q].step = "stored" /\ fileReq[q].shown

Uploaded(f) == Event("file_uploaded", f)
Deleted(f)  == Event("file_deleted", f)
Turns(e)    == e.type = "presentation_changed"

InBox(P, e) == \E k \in 1..Len(P.inbox) : P.inbox[k] = e

\* Rows and events are about files that have been written.
KnownFiles(P) ==
  /\ \A k \in 1..Len(P.list) : P.list[k] \in used
  /\ \A k \in 1..Len(P.inbox) : ~Turns(P.inbox[k]) => P.inbox[k].file \in used

\* The row of a file that is there is shown or announced; the row of one that has gone is
\* going to be removed, after everything that could add it.
HasRow(P, f) == (\E k \in 1..Len(P.list) : P.list[k] = f) \/ InBox(P, Uploaded(f)) \/ Unannounced(f)

LosesRow(P, f) ==
  /\ (\E k \in 1..Len(P.list) : P.list[k] = f) => InBox(P, Deleted(f)) \/ Vanishing(f)
  /\ \A k \in 1..Len(P.inbox) : P.inbox[k] = Uploaded(f) =>
       (\E j \in (k + 1)..Len(P.inbox) : P.inbox[j] = Deleted(f)) \/ Vanishing(f)

\* The last event about the presentation is right; without one the page is, or its
\* snapshot will make it right.
ShowsCurrent(P) ==
  /\ \A k \in 1..Len(P.inbox) :
       Turns(P.inbox[k]) /\ (\A j \in (k + 1)..Len(P.inbox) : ~Turns(P.inbox[j])) =>
         P.inbox[k].file = current
  /\ (\A k \in 1..Len(P.inbox) : ~Turns(P.inbox[k])) =>
       P.present = current \/ (P.conn # "on" /\ current # 0)

Follows(P) ==
  P.conn # "closed" /\ ~P.missed =>
    /\ \A f \in files \ early : HasRow(P, f)
    /\ \A f \in used \ (files \cup early) : LosesRow(P, f)
    /\ ~overlap /\ ~Turning => ShowsCurrent(P)

PageRight(P) ==
  /\ IsInjective(P.list) /\ KnownFiles(P)
  /\ P.conn = "closed" => P.inbox = <<>> /\ P.present = 0
  /\ \A k \in 1..Len(P.inbox) : P.inbox[k].type = "file_deleted" => P.inbox[k].file \notin files \ early
  /\ Follows(P)

\* Rows that were deleted stay away unless their upload was still going on.
RequestsRight ==
  /\ \A q \in FileReqs :
       /\ Placed(fileReq[q]) => fileReq[q].file \in files \cup early
       /\ fileReq[q].op = "delete" => fileReq[q].file \in used
       /\ fileReq[q].op = "delete" /\ fileReq[q].step # "begin" => fileReq[q].file \notin files \ early
       /\ fileReq[q].op = "upload" /\ fileReq[q].step = "checked" => ~fileReq[q].shown
       /\ fileReq[q].op = "upload" /\ fileReq[q].step = "begin" => ~fileReq[q].shown
  \* one request at a time presents or deletes, and knows what is presented
  /\ ~overlap =>
       /\ \A q, u \in Presenting : q = u
       /\ \A q \in FileReqs :
            /\ fileReq[q].op = "present" /\ fileReq[q].step = "done" => current = fileReq[q].file
            /\ fileReq[q].op = "delete" /\ fileReq[q].step = "begin" =>
                 (fileReq[q].shown <=> current = fileReq[q].file)
            /\ fileReq[q].op = "delete" /\ fileReq[q].step = "stored" /\ fileReq[q].shown => current = 0

FollowInv == FileTypeOK /\ RequestsRight /\ overlap \in BOOLEAN /\ \A p \in FilePages : PageRight(filePage[p])

-----------------------------------------------------------------------------
LEMMA FollowInit == FileInit => FollowInv
<1> SUFFICES ASSUME FileInit PROVE FollowInv
  OBVIOUS
<1> DEFINE P0 == [conn |-> "closed", inbox |-> <<>>, list |-> <<>>, present |-> 0, missed |-> FALSE]
<1>1. /\ <<>> \in Seq(FileEvent) /\ <<>> \in Seq(FileIds) /\ Len(<<>>) = 0 /\ DOMAIN <<>> = 1..0
  OBVIOUS
<1>2. P0 \in RoomPage /\ \A p \in FilePages : filePage[p] = P0
  BY <1>1 DEF FileInit, RoomPage, FileId0
<1>3. P0.conn = "closed" /\ P0.inbox = <<>> /\ P0.list = <<>> /\ P0.present = 0 /\ ~P0.missed
  OBVIOUS
<1> HIDE DEF P0
<1>4. PageRight(P0)
  BY <1>1, <1>3 DEF PageRight, KnownFiles, Follows, IsInjective
<1>5. FileTypeOK
  <2>1. filePage \in [FilePages -> RoomPage]
    BY <1>2 DEF FileInit, P0
  <2> QED BY <2>1, IdleFile DEF FileTypeOK, FileInit
<1>6. RequestsRight
  BY IdleFile DEF FileInit, RequestsRight, Placed, Presenting
<1> QED BY <1>2, <1>4, <1>5, <1>6 DEF FollowInv, FileInit

\* The pages stay as they are: what is wanted of them may only change in ways they need
\* not know yet.
LEMMA PagesKeep ==
  ASSUME FollowInv, UNCHANGED filePage, used \subseteq used',
         \A f \in files' \ early' :
           Unannounced(f)' \/ (f \in files \ early /\ ~Unannounced(f)),
         \A f \in used' \ (files' \cup early') :
           Vanishing(f)' \/ (f \in used \ (files \cup early) /\ ~Vanishing(f)),
         \A f \in used : f \notin files \ early => f \notin files' \ early',
         ~overlap' /\ ~Turning' => ~overlap /\ ~Turning /\ current' = current
  PROVE  \A p \in FilePages : PageRight(filePage[p])'
<1> SUFFICES ASSUME NEW p \in FilePages PROVE PageRight(filePage[p])'
  OBVIOUS
<1> DEFINE P == filePage[p]
<1>1. PageRight(P) /\ P' = P
  BY DEF FollowInv
<1>2. KnownFiles(P)'
  BY <1>1 DEF PageRight, KnownFiles
<1>3. \A k \in 1..Len(P.inbox) : P.inbox[k].type = "file_deleted" => P.inbox[k].file \notin files' \ early'
  BY <1>1 DEF PageRight, KnownFiles, Turns
<1>4. Follows(P)'
  <2> SUFFICES ASSUME P.conn # "closed", ~P.missed
               PROVE  /\ \A f \in files' \ early' : HasRow(P, f)'
                      /\ \A f \in used' \ (files' \cup early') : LosesRow(P, f)'
                      /\ ~overlap' /\ ~Turning' => ShowsCurrent(P)'
    BY <1>1 DEF Follows
  <2>0. Follows(P) /\ P' = P
    BY <1>1 DEF PageRight
  <2> HIDE DEF P
  <2>1. ASSUME NEW f \in files' \ early' PROVE HasRow(P, f)'
    <3>1. CASE Unannounced(f)'
      BY <3>1 DEF HasRow
    <3>2. CASE f \in files \ early /\ ~Unannounced(f)
      BY <2>0, <3>2 DEF HasRow, Follows, InBox
    <3> QED BY <2>1, <3>1, <3>2
  <2>2. ASSUME NEW f \in used' \ (files' \cup early') PROVE LosesRow(P, f)'
    <3>1. CASE Vanishing(f)'
      BY <3>1 DEF LosesRow
    <3>2. CASE f \in used \ (files \cup early) /\ ~Vanishing(f)
      BY <2>0, <3>2 DEF LosesRow, Follows, InBox
    <3> QED BY <2>2, <3>1, <3>2
  <2>3. ASSUME ~overlap', ~Turning' PROVE ShowsCurrent(P)'
    BY <2>0, <2>3 DEF ShowsCurrent, Follows
  <2> QED BY <2>1, <2>2, <2>3
<1> HIDE DEF P
<1>5. IsInjective(P.list)' /\ (P'.conn = "closed" => P'.inbox = <<>> /\ P'.present = 0)
  BY <1>1 DEF PageRight
<1>6. PageRight(P)'
  BY <1>1, <1>2, <1>3, <1>4, <1>5 DEF PageRight
<1> QED BY <1>6 DEF P

\* A request that has not come as far as to change rows or the presentation.
LEMMA ReqFacts ==
  ASSUME FollowInv, NEW q \in FileReqs, NEW new \in FileRequest,
         fileReq' = [fileReq EXCEPT ![q] = new]
  PROVE  /\ fileReq' \in [FileReqs -> FileRequest]
         /\ fileReq'[q] = new
         /\ \A u \in FileReqs : u # q => fileReq'[u] = fileReq[u]
  BY DEF FollowInv, FileTypeOK

LEMMA BeginFollows ==
  ASSUME FollowInv, NEW q \in FileReqs, NEW new \in FileRequest,
         fileReq' = [fileReq EXCEPT ![q] = new], fileReq[q].op = "idle",
         new.step = "begin",
         UNCHANGED <<files, used, current, filePage, early>>,
         \/ new.op = "upload" /\ ~new.shown /\ UNCHANGED overlap
         \/ /\ \/ new.op = "present"
               \/ new.op = "delete" /\ new.file \in used /\ new.shown = (current = new.file)
            /\ overlap' = (overlap \/ Presenting # {})
  PROVE  FollowInv'
<1>1. /\ fileReq' \in [FileReqs -> FileRequest]
      /\ fileReq'[q] = new
      /\ \A u \in FileReqs : u # q => fileReq'[u] = fileReq[u]
  BY ReqFacts
<1>2. FileTypeOK'
  BY <1>1 DEF FollowInv, FileTypeOK
<1>3. overlap' \in BOOLEAN /\ (~overlap' => ~overlap)
  BY DEF FollowInv
<1>4. RequestsRight'
  <2>1. \A u \in FileReqs :
       /\ Placed(fileReq'[u]) => fileReq'[u].file \in files \cup early
       /\ fileReq'[u].op = "delete" => fileReq'[u].file \in used
       /\ fileReq'[u].op = "delete" /\ fileReq'[u].step # "begin" => fileReq'[u].file \notin files \ early
       /\ fileReq'[u].op = "upload" /\ fileReq'[u].step = "checked" => ~fileReq'[u].shown
       /\ fileReq'[u].op = "upload" /\ fileReq'[u].step = "begin" => ~fileReq'[u].shown
    BY <1>1 DEF FollowInv, RequestsRight, Placed
  <2>2. ASSUME ~overlap'
        PROVE  /\ \A u, v \in Presenting' : u = v
               /\ \A u \in FileReqs :
                    /\ fileReq'[u].op = "present" /\ fileReq'[u].step = "done" => current = fileReq'[u].file
                    /\ fileReq'[u].op = "delete" /\ fileReq'[u].step = "begin" =>
                         (fileReq'[u].shown <=> current = fileReq'[u].file)
                    /\ fileReq'[u].op = "delete" /\ fileReq'[u].step = "stored" /\ fileReq'[u].shown => current = 0
    <3>1. \A u, v \in Presenting' : u = v
      BY <1>1, <1>3, <2>2 DEF FollowInv, RequestsRight, Presenting
    <3>2. \A u \in FileReqs :
                    /\ fileReq'[u].op = "present" /\ fileReq'[u].step = "done" => current = fileReq'[u].file
                    /\ fileReq'[u].op = "delete" /\ fileReq'[u].step = "begin" =>
                         (fileReq'[u].shown <=> current = fileReq'[u].file)
                    /\ fileReq'[u].op = "delete" /\ fileReq'[u].step = "stored" /\ fileReq'[u].shown => current = 0
      BY <1>1, <1>3, <2>2 DEF FollowInv, RequestsRight
    <3> QED BY <3>1, <3>2
  <2> QED BY <2>1, <2>2 DEF RequestsRight
<1>5. /\ \A f : Unannounced(f)' <=> Unannounced(f)
      /\ \A f : Vanishing(f)' <=> Vanishing(f)
      /\ Turning' <=> Turning
  BY <1>1 DEF Unannounced, Vanishing, Turning, Placed
<1>6. \A p \in FilePages : PageRight(filePage[p])'
  BY <1>3, <1>5, PagesKeep
<1> QED BY <1>2, <1>3, <1>4, <1>6 DEF FollowInv

\* What a request has to know to go on.
Knows(r) ==
  /\ r.op = "present" /\ r.step = "done" => current = r.file
  /\ r.op = "delete" /\ r.step = "begin" => (r.shown <=> current = r.file)
  /\ r.op = "delete" /\ r.step = "stored" /\ r.shown => current = 0

Sound(r) ==
  /\ Placed(r) => r.file \in files \cup early
  /\ r.op = "delete" => r.file \in used
  /\ r.op = "delete" /\ r.step # "begin" => r.file \notin files \ early
  /\ r.op = "upload" /\ r.step \in {"begin", "checked"} => ~r.shown

LEMMA RightRequests ==
  ASSUME fileReq \in [FileReqs -> FileRequest]
  PROVE  RequestsRight <=> /\ \A q \in FileReqs : Sound(fileReq[q])
                           /\ ~overlap => /\ \A q, u \in Presenting : q = u
                                          /\ \A q \in FileReqs : Knows(fileReq[q])
  BY DEF RequestsRight, Sound, Knows

LEMMA GoesOn ==
  ASSUME FollowInv, NEW q \in FileReqs, NEW new \in FileRequest,
         fileReq' = [fileReq EXCEPT ![q] = new],
         UNCHANGED overlap, used \subseteq used', files \cup early \subseteq files' \cup early',
         \A f \in used : f \notin files \ early => f \notin files' \ early',
         Placed(new) => new.file \in files' \cup early',
         new.op = "delete" => new.file \in used' /\ (new.step # "begin" => new.file \notin files' \ early'),
         new.op = "upload" /\ new.step \in {"begin", "checked"} => ~new.shown,
         new.op \in {"delete", "present"} => fileReq[q].op = new.op,
         current' # current => q \in Presenting,
         ~overlap =>
           /\ new.op = "present" /\ new.step = "done" => current' = new.file
           /\ new.op = "delete" /\ new.step = "begin" => (new.shown <=> current' = new.file)
           /\ new.op = "delete" /\ new.step = "stored" /\ new.shown => current' = 0
  PROVE  RequestsRight'
<1>1. /\ fileReq' \in [FileReqs -> FileRequest]
      /\ fileReq'[q] = new
      /\ \A u \in FileReqs : u # q => fileReq'[u] = fileReq[u]
  BY ReqFacts
<1>2. /\ \A u \in FileReqs : Sound(fileReq[u])
      /\ ~overlap => /\ \A u, v \in Presenting : u = v
                     /\ \A u \in FileReqs : Knows(fileReq[u])
  BY RightRequests DEF FollowInv, FileTypeOK
<1>3. \A u \in FileReqs : Sound(fileReq[u])'
  <2> TAKE u \in FileReqs
  <2>1. CASE u = q
    BY <1>1, <2>1 DEF Sound, Placed
  <2>2. CASE u # q
    <3>1. fileReq'[u] = fileReq[u] /\ Sound(fileReq[u])
      BY <1>1, <1>2, <2>2
    <3> QED BY <3>1 DEF Sound, Placed
  <2> QED BY <2>1, <2>2
<1>4. ASSUME ~overlap PROVE \A u, v \in Presenting' : u = v
  BY <1>1, <1>2, <1>4 DEF Presenting
<1>5. ASSUME ~overlap PROVE \A u \in FileReqs : Knows(fileReq[u])'
  <2> TAKE u \in FileReqs
  <2>1. CASE u = q
    BY <1>1, <1>5, <2>1 DEF Knows
  <2>2. CASE u # q
    <3>1. fileReq'[u] = fileReq[u] /\ Knows(fileReq[u])
      BY <1>1, <1>2, <1>5, <2>2
    <3>2. CASE current' = current
      BY <3>1, <3>2 DEF Knows
    <3>3. CASE q \in Presenting
      <4>1. u \notin Presenting
        BY <1>2, <1>5, <2>2, <3>3
      <4> QED BY <3>1, <4>1 DEF Knows, Presenting
    <3> QED BY <3>2, <3>3
  <2> QED BY <2>1, <2>2
<1>6. RequestsRight' <=> /\ \A u \in FileReqs : Sound(fileReq[u])'
                         /\ ~overlap' => /\ \A u, v \in Presenting' : u = v
                                         /\ \A u \in FileReqs : Knows(fileReq[u])'
  BY <1>1 DEF RequestsRight, Sound, Knows, Placed
<1> QED BY <1>3, <1>4, <1>5, <1>6

LEMMA CountFollows ==
  ASSUME FollowInv, NEW q \in FileReqs, UploadCount(q)
  PROVE  FollowInv'
<1>1. fileReq[q] \in FileRequest /\ fileReq[q].op = "upload" /\ fileReq[q].step = "begin"
      /\ ~fileReq[q].shown
  BY DEF UploadCount, FollowInv, FileTypeOK, RequestsRight
<1>2. ASSUME NEW new \in FileRequest, fileReq' = [fileReq EXCEPT ![q] = new],
             new.op = "idle" \/ (new.op = "upload" /\ new.step = "checked" /\ ~new.shown)
      PROVE  FollowInv'
  <2>1. /\ fileReq' \in [FileReqs -> FileRequest]
        /\ fileReq'[q] = new
        /\ \A u \in FileReqs : u # q => fileReq'[u] = fileReq[u]
    BY <1>2, ReqFacts
  <2>2. UNCHANGED <<files, used, current, filePage, overlap, early>>
    BY DEF UploadCount
  <2>3. RequestsRight'
    BY <1>2, <2>2, GoesOn DEF Placed
  <2>4. /\ \A f : Unannounced(f)' <=> Unannounced(f)
        /\ \A f : Vanishing(f)' <=> Vanishing(f)
        /\ Turning' <=> Turning
    BY <1>1, <1>2, <2>1 DEF Unannounced, Vanishing, Turning, Placed
  <2>5. \A p \in FilePages : PageRight(filePage[p])'
    BY <2>2, <2>4, PagesKeep
  <2>6. FileTypeOK'
    BY <2>1, <2>2 DEF FollowInv, FileTypeOK
  <2> QED BY <2>2, <2>3, <2>5, <2>6 DEF FollowInv
<1>3. CASE fileReq' = [fileReq EXCEPT ![q] = FileIdle]
  BY <1>2, <1>3, IdleFile
<1>4. CASE fileReq' = [fileReq EXCEPT ![q] = [@ EXCEPT !.step = "checked"]]
  <2> DEFINE new == [fileReq[q] EXCEPT !.step = "checked"]
  <2>1. new \in FileRequest /\ new.op = "upload" /\ new.step = "checked" /\ ~new.shown
    BY <1>1 DEF FileRequest
  <2>2. fileReq' = [fileReq EXCEPT ![q] = new]
    BY <1>4
  <2> HIDE DEF new
  <2> QED BY <1>2, <2>1, <2>2
<1> QED BY <1>3, <1>4 DEF UploadCount

LEMMA CreateFollows ==
  ASSUME FilesInv, FollowInv, NEW q \in FileReqs, UploadCreate(q)
  PROVE  FollowInv'
<1>1. PICK f \in FileIds \ used :
        /\ used' = used \cup {f} /\ files' = files \cup {f}
        /\ fileReq' = [fileReq EXCEPT ![q].step = "stored", ![q].file = f]
  BY DEF UploadCreate
<1> DEFINE new == [fileReq[q] EXCEPT !.step = "stored", !.file = f]
<1>2. /\ fileReq[q] \in FileRequest /\ fileReq[q].op = "upload" /\ fileReq[q].step = "checked"
      /\ ~fileReq[q].shown
      /\ fileReq' = [fileReq EXCEPT ![q] = new]
      /\ UNCHANGED <<current, filePage, overlap, early>>
  BY <1>1 DEF UploadCreate, FollowInv, FileTypeOK, RequestsRight
<1>3. new \in FileRequest /\ new.file = f /\ new.step = "stored" /\ new.op = "upload" /\ ~new.shown
  BY <1>2 DEF FileRequest, FileId0
<1> HIDE DEF new
<1>4. /\ fileReq' \in [FileReqs -> FileRequest]
      /\ fileReq'[q] = new
      /\ \A u \in FileReqs : u # q => fileReq'[u] = fileReq[u]
  BY <1>2, <1>3, ReqFacts
<1>5. RequestsRight'
  BY <1>1, <1>2, <1>3, GoesOn DEF Placed
<1>6. FileTypeOK'
  BY <1>1, <1>2, <1>4 DEF FollowInv, FileTypeOK
<1>7. /\ Unannounced(f)'
      /\ \A g : g # f => (Unannounced(g)' <=> Unannounced(g))
      /\ \A g : Vanishing(g)' <=> Vanishing(g)
      /\ Turning' <=> Turning
  BY <1>2, <1>3, <1>4 DEF Unannounced, Vanishing, Turning, Placed
<1>8. \A p \in FilePages : PageRight(filePage[p])'
  BY <1>1, <1>2, <1>7, PagesKeep
<1> QED BY <1>2, <1>5, <1>6, <1>8 DEF FollowInv

\* The row that comes back is one that was deleted too early.
LEMMA ConvertFollows ==
  ASSUME FilesInv, FollowInv, NEW q \in FileReqs, convert_to_pdf(q)
  PROVE  FollowInv'
<1> DEFINE new == [fileReq[q] EXCEPT !.step = "done"]
           f   == fileReq[q].file
<1>1. /\ fileReq[q] \in FileRequest /\ fileReq[q].op = "upload" /\ fileReq[q].step = "stored"
      /\ fileReq' = [fileReq EXCEPT ![q] = new]
      /\ files' = files \/ files' = files \cup {f}
      /\ UNCHANGED <<used, current, filePage, overlap, early>>
      /\ f \in used /\ f \in files \cup early
  BY DEF convert_to_pdf, FilesInv, OwnFile, FollowInv, FileTypeOK, RequestsRight, Placed
<1>2. /\ new \in FileRequest /\ new.file = f /\ new.step = "done" /\ new.op = "upload"
      /\ new.shown = fileReq[q].shown
  BY <1>1 DEF FileRequest
<1> HIDE DEF new
<1>3. /\ fileReq' \in [FileReqs -> FileRequest]
      /\ fileReq'[q] = new
      /\ \A u \in FileReqs : u # q => fileReq'[u] = fileReq[u]
  BY <1>1, <1>2, ReqFacts
<1>4. RequestsRight'
  BY <1>1, <1>2, GoesOn DEF Placed
<1>5. FileTypeOK'
  BY <1>1, <1>3 DEF FollowInv, FileTypeOK
<1>6. /\ \A g : Unannounced(g)' <=> Unannounced(g)
      /\ \A g : Vanishing(g)' <=> Vanishing(g)
      /\ Turning' <=> Turning
  BY <1>1, <1>2, <1>3 DEF Unannounced, Vanishing, Turning, Placed
<1> HIDE DEF f
<1>7. \A p \in FilePages : PageRight(filePage[p])'
  BY <1>1, <1>6, PagesKeep
<1> QED BY <1>1, <1>4, <1>5, <1>7 DEF FollowInv

LEMMA PresentFollows ==
  ASSUME FollowInv, NEW q \in FileReqs, set_presentation(q)
  PROVE  FollowInv'
<1>1. /\ fileReq[q] \in FileRequest /\ fileReq[q].op = "present" /\ fileReq[q].step = "begin"
      /\ UNCHANGED <<files, used, filePage, overlap, early>>
      /\ q \in Presenting
  BY DEF set_presentation, FollowInv, FileTypeOK, Presenting
<1>2. CASE fileReq[q].file \in files \cup {0}
  <2> DEFINE new == [fileReq[q] EXCEPT !.step = "done"]
  <2>1. new \in FileRequest /\ new.op = "present" /\ new.step = "done" /\ new.file = fileReq[q].file
    BY <1>1 DEF FileRequest
  <2>2. fileReq' = [fileReq EXCEPT ![q] = new] /\ current' = fileReq[q].file
    BY <1>2 DEF set_presentation
  <2> HIDE DEF new
  <2>3. /\ fileReq' \in [FileReqs -> FileRequest]
        /\ fileReq'[q] = new
        /\ \A u \in FileReqs : u # q => fileReq'[u] = fileReq[u]
    BY <2>1, <2>2, ReqFacts
  <2>4. RequestsRight'
    BY <1>1, <2>1, <2>2, GoesOn DEF Placed
  <2>5. FileTypeOK'
    BY <1>1, <1>2, <2>2, <2>3 DEF FollowInv, FileTypeOK
  <2>6. /\ \A g : Unannounced(g)' <=> Unannounced(g)
        /\ \A g : Vanishing(g)' <=> Vanishing(g)
        /\ Turning'
    BY <1>1, <2>1, <2>3 DEF Unannounced, Vanishing, Turning, Placed
  <2>7. \A p \in FilePages : PageRight(filePage[p])'
    BY <1>1, <2>6, PagesKeep
  <2> QED BY <1>1, <2>4, <2>5, <2>7 DEF FollowInv
<1>3. CASE fileReq[q].file \notin files \cup {0}
  <2>1. fileReq' = [fileReq EXCEPT ![q] = FileIdle] /\ UNCHANGED current
    BY <1>3 DEF set_presentation
  <2>2. /\ fileReq' \in [FileReqs -> FileRequest]
        /\ fileReq'[q] = FileIdle
        /\ \A u \in FileReqs : u # q => fileReq'[u] = fileReq[u]
    BY <2>1, IdleFile, ReqFacts
  <2>3. RequestsRight'
    BY <1>1, <2>1, IdleFile, GoesOn DEF Placed
  <2>4. FileTypeOK'
    BY <1>1, <2>1, <2>2 DEF FollowInv, FileTypeOK
  <2>5. /\ \A g : Unannounced(g)' <=> Unannounced(g)
        /\ \A g : Vanishing(g)' <=> Vanishing(g)
        /\ Turning' <=> Turning
    BY <1>1, <2>2, IdleFile DEF Unannounced, Vanishing, Turning, Placed
  <2>6. \A p \in FilePages : PageRight(filePage[p])'
    BY <1>1, <2>1, <2>5, PagesKeep
  <2> QED BY <1>1, <2>3, <2>4, <2>6 DEF FollowInv
<1> QED BY <1>2, <1>3

LEMMA DeleteFollows ==
  ASSUME FollowInv, NEW q \in FileReqs, delete_shared_file(q)
  PROVE  FollowInv'
<1> DEFINE new == [fileReq[q] EXCEPT !.step = "stored"]
           f   == fileReq[q].file
<1>1. /\ fileReq[q] \in FileRequest /\ fileReq[q].op = "delete" /\ fileReq[q].step = "begin"
      /\ fileReq' = [fileReq EXCEPT ![q] = new]
      /\ files' = files \ {f}
      /\ current' = IF current = f THEN 0 ELSE current
      /\ UNCHANGED <<used, filePage, overlap>>
      /\ f \in used /\ q \in Presenting
  BY DEF delete_shared_file, FollowInv, FileTypeOK, RequestsRight, Presenting
<1>2. /\ new \in FileRequest /\ new.op = "delete" /\ new.step = "stored" /\ new.file = f
      /\ new.shown = fileReq[q].shown
  BY <1>1 DEF FileRequest
<1>3. /\ early' = early \/ early' = early \cup {f}
      /\ \A u \in FileReqs : fileReq[u].op = "upload" /\ fileReq[u].file = f => f \in early'
  BY DEF delete_shared_file
<1> HIDE DEF new
<1>4. /\ fileReq' \in [FileReqs -> FileRequest]
      /\ fileReq'[q] = new
      /\ \A u \in FileReqs : u # q => fileReq'[u] = fileReq[u]
  BY <1>1, <1>2, ReqFacts
<1>5. /\ \A u \in FileReqs : Sound(fileReq[u])
      /\ ~overlap => /\ \A u, v \in Presenting : u = v
                     /\ \A u \in FileReqs : Knows(fileReq[u])
  BY RightRequests DEF FollowInv, FileTypeOK
<1>6. RequestsRight'
  <2>1. \A u \in FileReqs : Sound(fileReq[u])'
    <3> TAKE u \in FileReqs
    <3>1. CASE u = q
      BY <1>1, <1>2, <1>4, <3>1 DEF Sound, Placed
    <3>2. CASE u # q
      <4>1. fileReq'[u] = fileReq[u] /\ Sound(fileReq[u])
        BY <1>4, <1>5, <3>2
      <4>2. Placed(fileReq[u]) => fileReq[u].file \in files' \cup early'
        BY <1>1, <1>3, <4>1 DEF Sound, Placed
      <4> QED BY <1>1, <1>3, <4>1, <4>2 DEF Sound, Placed
    <3> QED BY <3>1, <3>2
  <2>2. ASSUME ~overlap PROVE \A u, v \in Presenting' : u = v
    BY <1>1, <1>2, <1>4, <1>5, <2>2 DEF Presenting
  <2>3. ASSUME ~overlap PROVE \A u \in FileReqs : Knows(fileReq[u])'
    <3> TAKE u \in FileReqs
    <3>1. CASE u = q
      BY <1>1, <1>2, <1>4, <1>5, <2>3, <3>1 DEF Knows
    <3>2. CASE u # q
      <4>1. u \notin Presenting /\ fileReq'[u] = fileReq[u]
        BY <1>1, <1>4, <1>5, <2>3, <3>2
      <4> QED BY <4>1 DEF Knows, Presenting
    <3> QED BY <3>1, <3>2
  <2>4. RequestsRight' <=> /\ \A u \in FileReqs : Sound(fileReq[u])'
                           /\ ~overlap' => /\ \A u, v \in Presenting' : u = v
                                           /\ \A u \in FileReqs : Knows(fileReq[u])'
    BY <1>4 DEF RequestsRight, Sound, Knows, Placed
  <2> QED BY <1>1, <2>1, <2>2, <2>3, <2>4
<1>7. FileTypeOK'
  BY <1>1, <1>4 DEF FollowInv, FileTypeOK
<1>8. /\ \A g : Unannounced(g)' <=> Unannounced(g)
      /\ \A g : g = f => Vanishing(g)'
      /\ \A g : Vanishing(g) => Vanishing(g)'
      /\ \A g : g # f /\ Vanishing(g)' => Vanishing(g)
  BY <1>1, <1>2, <1>4 DEF Unannounced, Vanishing, Placed
<1>9. ASSUME ~overlap, ~Turning' PROVE ~Turning /\ current' = current
  <2>1. ~fileReq[q].shown
    BY <1>2, <1>4, <1>9 DEF Turning
  <2>2. Knows(fileReq[q])
    BY <1>5, <1>9
  <2>3. current # f
    BY <1>1, <2>1, <2>2 DEF Knows
  <2>4. ~Turning
    BY <1>1, <1>4, <1>9 DEF Turning
  <2> QED BY <1>1, <2>3, <2>4
<1>10. \A g \in files' \ early' : Unannounced(g)' \/ (g \in files \ early /\ ~Unannounced(g))
  <2>1. files' \ early' \subseteq files \ early
    BY <1>1, <1>3
  <2> QED BY <1>8, <2>1
<1>11. \A g \in used' \ (files' \cup early') :
           Vanishing(g)' \/ (g \in used \ (files \cup early) /\ ~Vanishing(g))
  <2> TAKE g \in used' \ (files' \cup early')
  <2>1. CASE g = f
    BY <1>8, <2>1
  <2>2. CASE g # f
    <3>1. g \in used \ (files \cup early)
      BY <1>1, <1>3, <2>2
    <3> QED BY <1>8, <3>1
  <2> QED BY <2>1, <2>2
<1> HIDE DEF f
<1>12. \A p \in FilePages : PageRight(filePage[p])'
  BY <1>1, <1>3, <1>9, <1>10, <1>11, PagesKeep
<1> QED BY <1>1, <1>6, <1>7, <1>12 DEF FollowInv

LEMMA ReqBeginFollows ==
  ASSUME FilesInv, FollowInv, NEW q \in FileReqs, NEW p \in FilePages,
         UploadBegins(q, p) \/ PresentBegins(q, p) \/ DeleteBegins(q, p)
  PROVE  FollowInv'
<1>1. CASE UploadBegins(q, p)
  <2> DEFINE new == [FileIdle EXCEPT !.op = "upload", !.page = p]
  <2>1. new \in FileRequest /\ new.step = "begin" /\ new.op = "upload" /\ ~new.shown
    BY IdleFile DEF FileRequest
  <2>2. fileReq' = [fileReq EXCEPT ![q] = new] /\ fileReq[q].op = "idle"
        /\ UNCHANGED <<files, used, current, filePage, overlap, early>>
    BY <1>1 DEF UploadBegins
  <2> HIDE DEF new
  <2> QED BY <2>1, <2>2, BeginFollows
<1>2. CASE PresentBegins(q, p)
  <2>1. PICK f \in (ToSet(filePage[p].list) \cap files) \cup {0} :
          fileReq' = [fileReq EXCEPT ![q] = [FileIdle EXCEPT !.op = "present", !.page = p, !.file = f]]
    BY <1>2 DEF PresentBegins
  <2>2. f \in FileId0
    BY DEF FilesInv, RequestsOK, FileId0
  <2> DEFINE new == [FileIdle EXCEPT !.op = "present", !.page = p, !.file = f]
  <2>3. new \in FileRequest /\ new.op = "present" /\ new.step = "begin"
    BY <2>2, IdleFile DEF FileRequest
  <2>4. fileReq' = [fileReq EXCEPT ![q] = new] /\ fileReq[q].op = "idle"
        /\ UNCHANGED <<files, used, current, filePage, early>>
        /\ overlap' = (overlap \/ Presenting # {})
    BY <1>2, <2>1 DEF PresentBegins
  <2> HIDE DEF new
  <2> QED BY <2>3, <2>4, BeginFollows
<1>3. CASE DeleteBegins(q, p)
  <2>1. PICK f \in ToSet(filePage[p].list) \cap files :
          fileReq' = [fileReq EXCEPT ![q] =
            [FileIdle EXCEPT !.op = "delete", !.page = p, !.file = f, !.shown = (current = f)]]
    BY <1>3 DEF DeleteBegins
  <2>2. f \in FileId0 /\ f \in used
    BY DEF FilesInv, RequestsOK, FileId0
  <2> DEFINE new == [FileIdle EXCEPT !.op = "delete", !.page = p, !.file = f, !.shown = (current = f)]
  <2>3. new \in FileRequest /\ new.op = "delete" /\ new.step = "begin" /\ new.file = f
        /\ new.shown = (current = f)
    BY <2>2, IdleFile DEF FileRequest
  <2>4. fileReq' = [fileReq EXCEPT ![q] = new] /\ fileReq[q].op = "idle"
        /\ UNCHANGED <<files, used, current, filePage, early>>
        /\ overlap' = (overlap \/ Presenting # {})
    BY <1>3, <2>1 DEF DeleteBegins
  <2> HIDE DEF new
  <2> QED BY <2>2, <2>3, <2>4, BeginFollows
<1> QED BY <1>1, <1>2, <1>3

-----------------------------------------------------------------------------
(* Telling the pages.                                                      *)

LEMMA Concat ==
  ASSUME NEW S, NEW seq \in Seq(S), NEW more \in Seq(S)
  PROVE  /\ seq \o more \in Seq(S)
         /\ Len(seq) \in Nat /\ Len(more) \in Nat /\ Len(seq \o more) = Len(seq) + Len(more)
         /\ \A k \in 1..Len(seq) : (seq \o more)[k] = seq[k]
         /\ \A k \in 1..Len(more) : (seq \o more)[Len(seq) + k] = more[k]
         /\ \A k \in 1..Len(seq \o more) :
              k \in 1..Len(seq) \/ (k - Len(seq) \in 1..Len(more) /\ (seq \o more)[k] = more[k - Len(seq)])
  OBVIOUS

\* Concat for an inbox, in the terms of the invariant.
LEMMA Longer ==
  ASSUME NEW old \in Seq(FileEvent), NEW events \in Seq(FileEvent), NEW new, new = old \o events
  PROVE  /\ new \in Seq(FileEvent)
         /\ Len(old) \in Nat /\ Len(events) \in Nat /\ Len(new) \in Nat
         /\ \A k \in 1..Len(old) : k \in 1..Len(new) /\ new[k] = old[k]
         /\ \A k \in 1..Len(events) : Len(old) + k \in 1..Len(new) /\ new[Len(old) + k] = events[k]
         /\ \A k \in 1..Len(new) :
              (k \in 1..Len(old) /\ new[k] = old[k]) \/ \E j \in 1..Len(events) : new[k] = events[j]
<1>1. /\ new \in Seq(FileEvent)
      /\ Len(old) \in Nat /\ Len(events) \in Nat /\ Len(new) = Len(old) + Len(events)
      /\ \A k \in 1..Len(old) : new[k] = old[k]
      /\ \A k \in 1..Len(events) : new[Len(old) + k] = events[k]
      /\ \A k \in 1..Len(new) :
           k \in 1..Len(old) \/ (k - Len(old) \in 1..Len(events) /\ new[k] = events[k - Len(old)])
  BY Concat
<1>2. ASSUME NEW k \in 1..Len(events)
      PROVE  Len(old) + k \in 1..Len(new) /\ new[Len(old) + k] = events[k]
  BY <1>1
<1>3. ASSUME NEW k \in 1..Len(old) PROVE k \in 1..Len(new)
  BY <1>1
<1>4. ASSUME NEW k \in 1..Len(new)
      PROVE  (k \in 1..Len(old) /\ new[k] = old[k]) \/ \E j \in 1..Len(events) : new[k] = events[j]
  BY <1>1
<1>5. Len(new) \in Nat
  BY <1>1
<1> QED BY <1>1, <1>2, <1>3, <1>4, <1>5

\* What a broadcast has to tell: the last of what its request knows.
Tells(events) ==
  /\ \A k \in 1..Len(events) :
       /\ ~Turns(events[k]) => events[k].file \in used
       /\ events[k].type = "file_deleted" => events[k].file \notin files \ early
       /\ events[k].type = "file_uploaded" => events[k].file \in files \cup early
  /\ \A f \in files \ early :
       Unannounced(f) => Unannounced(f)' \/ \E k \in 1..Len(events) : events[k] = Uploaded(f)
  /\ \A f \in used \ (files \cup early) :
       Vanishing(f) => Vanishing(f)' \/ \E k \in 1..Len(events) : events[k] = Deleted(f)
  /\ ~overlap /\ ~Turning' =>
       \/ ~Turning /\ UNCHANGED current /\ \A k \in 1..Len(events) : ~Turns(events[k])
       \/ /\ \E k \in 1..Len(events) : Turns(events[k])
          /\ \A k \in 1..Len(events) : Turns(events[k]) => events[k].file = current'

LEMMA ToldPage ==
  ASSUME NEW P \in RoomPage, NEW Q \in RoomPage, NEW events \in Seq(FileEvent), PageRight(P),
         Q.conn = P.conn, Q.list = P.list, Q.present = P.present, Q.missed = P.missed, P.conn # "closed",
         Q.inbox = P.inbox \o events, UNCHANGED <<files, used, early, overlap>>, Tells(events)
  PROVE  PageRight(Q)'
<1> DEFINE old == P.inbox
           new == Q.inbox
<1>0. old = P.inbox /\ new = Q.inbox
  OBVIOUS
<1>1. old \in Seq(FileEvent) /\ new = old \o events
  BY DEF RoomPage
<1> HIDE DEF old, new
<1>2. new \in Seq(FileEvent) /\ Len(old) \in Nat /\ Len(events) \in Nat /\ Len(new) \in Nat
  BY <1>1, Longer
<1>3. /\ \A k \in 1..Len(old) : k \in 1..Len(new) /\ new[k] = old[k]
      /\ \A k \in 1..Len(events) : \E j \in 1..Len(new) : j > Len(old) /\ new[j] = events[k]
      /\ \A k \in 1..Len(new) :
              (k \in 1..Len(old) /\ new[k] = old[k]) \/ \E j \in 1..Len(events) : new[k] = events[j]
  <2>1. \A k \in 1..Len(old) : k \in 1..Len(new) /\ new[k] = old[k]
    BY <1>1, Longer
  <2>2. ASSUME NEW k \in 1..Len(events)
        PROVE  \E j \in 1..Len(new) : j > Len(old) /\ new[j] = events[k]
    <3>1. Len(old) + k \in 1..Len(new) /\ new[Len(old) + k] = events[k]
      BY <1>1, Longer
    <3>2. Len(old) + k > Len(old)
      BY <1>2
    <3> QED BY <3>1, <3>2
  <2>3. \A k \in 1..Len(new) :
              (k \in 1..Len(old) /\ new[k] = old[k]) \/ \E j \in 1..Len(events) : new[k] = events[j]
    BY <1>1, Longer
  <2> QED BY <2>1, <2>2, <2>3
<1>4. \A f : InBox(P, f) => InBox(Q, f)
  BY <1>0, <1>3 DEF InBox
<1>5. \A e : (\E k \in 1..Len(events) : events[k] = e) => InBox(Q, e)
  <2> SUFFICES ASSUME NEW k \in 1..Len(events) PROVE InBox(Q, events[k])
    OBVIOUS
  <2>1. PICK j \in 1..Len(new) : new[j] = events[k]
    BY <1>3
  <2> QED BY <1>0, <2>1 DEF InBox
<1>6. KnownFiles(Q)'
  BY <1>0, <1>3, ZenonT(30) DEF PageRight, KnownFiles, Tells
<1>7. ASSUME NEW k \in 1..Len(new), new[k].type = "file_deleted" PROVE new[k].file \notin files \ early
  <2>1. CASE k \in 1..Len(old) /\ new[k] = old[k]
    BY <1>0, <1>7, <2>1 DEF PageRight
  <2>2. ASSUME NEW j \in 1..Len(events), new[k] = events[j] PROVE new[k].file \notin files \ early
    BY <1>7, <2>2 DEF Tells
  <2> QED BY <1>3, <2>1, <2>2
<1>8. ASSUME ~P.missed PROVE Follows(Q)'
  <2>0. Follows(P)
    BY DEF PageRight
  <2>1. ASSUME NEW f \in files \ early PROVE HasRow(Q, f)'
    <3>1. HasRow(P, f)
      BY <1>8, <2>0, <2>1 DEF Follows
    <3>2. InBox(Q, Uploaded(f))' <=> InBox(Q, Uploaded(f))
      BY DEF InBox, Uploaded, Event
    <3> QED BY <1>4, <1>5, <3>1, <3>2 DEF HasRow, Tells
  <2>2. ASSUME NEW f \in used \ (files \cup early) PROVE LosesRow(Q, f)'
    <3>1. LosesRow(P, f)
      BY <1>8, <2>0, <2>2 DEF Follows
    <3>2. ASSUME \E k \in 1..Len(Q.list) : Q.list[k] = f
          PROVE  InBox(Q, Deleted(f)) \/ Vanishing(f)'
      BY <1>4, <1>5, <2>2, <3>1, <3>2 DEF LosesRow, Tells
    <3>3. ASSUME NEW k \in 1..Len(new), new[k] = Uploaded(f)
          PROVE  (\E j \in (k + 1)..Len(new) : new[j] = Deleted(f)) \/ Vanishing(f)'
      <4>1. k \in 1..Len(old) /\ old[k] = Uploaded(f)
        <5>1. ASSUME NEW j \in 1..Len(events), new[k] = events[j] PROVE FALSE
          <6>1. events[j].type = "file_uploaded" /\ events[j].file = f
            BY <3>3, <5>1 DEF Uploaded, Event
          <6> QED BY <2>2, <6>1 DEF Tells
        <5> QED BY <1>3, <3>3, <5>1
      <4>2. CASE \E j \in (k + 1)..Len(old) : old[j] = Deleted(f)
        BY <1>2, <1>3, <4>1, <4>2
      <4>3. CASE Vanishing(f)
        <5>1. CASE \E i \in 1..Len(events) : events[i] = Deleted(f)
          <6>1. PICK j \in 1..Len(new) : j > Len(old) /\ new[j] = Deleted(f)
            BY <1>3, <5>1
          <6>2. j \in (k + 1)..Len(new)
            BY <1>2, <4>1, <6>1
          <6> QED BY <6>1, <6>2
        <5> QED BY <2>2, <4>3, <5>1 DEF Tells
      <4> QED BY <1>0, <3>1, <4>1, <4>2, <4>3 DEF LosesRow
    <3>4. InBox(Q, Deleted(f))' <=> InBox(Q, Deleted(f))
      BY DEF InBox, Deleted, Event
    <3>5. Uploaded(f)' = Uploaded(f) /\ Deleted(f)' = Deleted(f)
      BY DEF Uploaded, Deleted, Event
    <3> QED BY <1>0, <3>2, <3>3, <3>4, <3>5 DEF LosesRow
  <2>3. ASSUME ~overlap, ~Turning' PROVE ShowsCurrent(Q)'
    <3>1. CASE ~Turning /\ UNCHANGED current /\ \A k \in 1..Len(events) : ~Turns(events[k])
      <4>1. ShowsCurrent(P)
        BY <1>8, <2>0, <2>3, <3>1 DEF Follows
      <4>2. ASSUME NEW k \in 1..Len(new), Turns(new[k]), \A j \in (k + 1)..Len(new) : ~Turns(new[j])
            PROVE  new[k].file = current
        <5>1. k \in 1..Len(old) /\ Turns(old[k]) /\ old[k] = new[k]
          BY <1>3, <3>1, <4>2
        <5>2. \A j \in (k + 1)..Len(old) : ~Turns(old[j])
          BY <1>2, <1>3, <4>2, <5>1
        <5> QED BY <1>0, <4>1, <5>1, <5>2 DEF ShowsCurrent
      <4>3. ASSUME \A k \in 1..Len(new) : ~Turns(new[k])
            PROVE  Q.present = current \/ (Q.conn # "on" /\ current # 0)
        <5>1. \A k \in 1..Len(old) : ~Turns(old[k])
          BY <1>3, <4>3
        <5> QED BY <1>0, <4>1, <5>1 DEF ShowsCurrent
      <4> QED BY <1>0, <3>1, <4>2, <4>3 DEF ShowsCurrent, Turns
    <3>2. CASE /\ \E k \in 1..Len(events) : Turns(events[k])
               /\ \A k \in 1..Len(events) : Turns(events[k]) => events[k].file = current'
      <4>1. PICK j \in 1..Len(new) : j > Len(old) /\ Turns(new[j])
        BY <1>3, <3>2
      <4>2. ASSUME NEW k \in 1..Len(new), Turns(new[k]), \A i \in (k + 1)..Len(new) : ~Turns(new[i])
            PROVE  new[k].file = current'
        <5>1. ~(k \in 1..Len(old))
          BY <1>2, <4>1, <4>2
        <5>2. PICK i \in 1..Len(events) : new[k] = events[i]
          BY <1>3, <5>1
        <5> QED BY <3>2, <4>2, <5>2
      <4> QED BY <1>0, <4>1, <4>2 DEF ShowsCurrent, Turns
    <3> QED BY <2>3, <3>1, <3>2 DEF Tells
  <2> QED BY <2>1, <2>2, <2>3 DEF Follows
<1>9. Follows(Q)'
  BY <1>8 DEF Follows
<1>10. IsInjective(Q.list)' /\ Q.conn # "closed"
  BY DEF PageRight
<1> QED BY <1>0, <1>6, <1>7, <1>9, <1>10 DEF PageRight

LEMMA BroadcastFollows ==
  ASSUME FollowInv, NEW events \in Seq(FileEvent), FileBroadcast(events),
         UNCHANGED <<files, used, early, overlap>>, Tells(events)
  PROVE  /\ filePage' \in [FilePages -> RoomPage]
         /\ \A p \in FilePages : PageRight(filePage[p])'
<1>1. \A p \in FilePages : filePage[p] \in RoomPage /\ PageRight(filePage[p])
  BY DEF FollowInv, FileTypeOK
<1>2. ASSUME NEW p \in FilePages PROVE filePage'[p] \in RoomPage /\ PageRight(filePage[p])'
  <2>1. CASE filePage[p].conn \in {"joining", "on"}
    <3> DEFINE P == filePage[p]
               Q == [P EXCEPT !.inbox = @ \o events]
    <3>1. filePage'[p] = Q
      BY <2>1 DEF FileBroadcast
    <3>2. P \in RoomPage /\ PageRight(P) /\ P.conn # "closed" /\ P.inbox \in Seq(FileEvent)
      BY <1>1, <2>1 DEF RoomPage
    <3>3. P.inbox \o events \in Seq(FileEvent)
      BY <3>2, Concat
    <3>4. /\ Q \in RoomPage /\ Q.conn = P.conn /\ Q.list = P.list /\ Q.present = P.present
          /\ Q.missed = P.missed /\ Q.inbox = P.inbox \o events
      BY <3>2, <3>3 DEF RoomPage
    <3> HIDE DEF P, Q
    <3>5. \A R \in RoomPage : R = Q => PageRight(R)'
      BY <3>2, <3>4, ToldPage
    <3> QED BY <3>1, <3>4, <3>5
  <2>2. CASE filePage[p].conn \notin {"joining", "on"}
    <3> DEFINE P == filePage[p]
               Q == [P EXCEPT !.missed = TRUE]
    <3>1. P \in RoomPage /\ PageRight(P)
      BY <1>1
    <3>2. (filePage'[p] = P /\ P.conn = "closed") \/ (filePage'[p] = Q /\ P.conn = "loaded")
      BY <1>1, <2>2 DEF FileBroadcast, RoomPage
    <3>3. /\ Q \in RoomPage /\ Q.conn = P.conn /\ Q.list = P.list /\ Q.present = P.present
          /\ Q.missed /\ Q.inbox = P.inbox
      BY <3>1 DEF RoomPage
    <3> HIDE DEF P, Q
    <3>4. ASSUME NEW R \in RoomPage, R.conn = P.conn, R.list = P.list, R.present = P.present,
                 R.inbox = P.inbox, R.missed \/ R.conn = "closed"
          PROVE  PageRight(R)'
      <4>1. Follows(R)'
        BY <3>4 DEF Follows
      <4>2. KnownFiles(R)'
        BY <3>1, <3>4 DEF PageRight, KnownFiles
      <4> QED BY <3>1, <3>4, <4>1, <4>2 DEF PageRight
    <3> QED BY <3>1, <3>2, <3>3, <3>4
  <2> QED BY <2>1, <2>2
<1>3. filePage' \in [FilePages -> RoomPage]
  BY <1>2 DEF FileBroadcast
<1> QED BY <1>2, <1>3

-----------------------------------------------------------------------------
(* The file list.                                                          *)

Lists(list, f) == \E k \in 1..Len(list) : list[k] = f

LEMMA ListOfSet ==
  ASSUME NEW S, IsFiniteSet(S)
  PROVE  /\ SetToSeq(S) \in Seq(S) /\ IsInjective(SetToSeq(S))
         /\ \A x \in S : Lists(SetToSeq(S), x)
<1> DEFINE n == Cardinality(S)
           list == SetToSeq(S)
<1>1. n \in Nat /\ ExistsBijection(1..n, S)
  BY FS_CardinalityType
<1>2. \E g \in [1..n -> S] : IsInjective(g)
  BY <1>1 DEF ExistsBijection, Bijection, Injection
<1>3. list \in [1..n -> S] /\ IsInjective(list)
  BY <1>2 DEF SetToSeq
<1> HIDE DEF list
<1>4. IsFiniteSet(1..n) /\ Cardinality(1..n) = n
  <2>1. 1 \in Int /\ n \in Int
    BY <1>1
  <2> QED BY <1>1, <2>1, FS_Interval
<1>5. list \in Injection(1..n, S)
  BY <1>3 DEF Injection
<1>6. list \in Surjection(1..n, S)
  BY <1>4, <1>5, FS_Injection
<1> HIDE DEF n
<1>7. list \in Seq(S) /\ Len(list) = n
  BY <1>1, <1>3
<1>8. \A x \in S : Lists(list, x)
  BY <1>6, <1>7 DEF Surjection, Lists
<1> QED BY <1>3, <1>7, <1>8 DEF list

LEMMA InList ==
  ASSUME NEW S, NEW list \in Seq(S), NEW f
  PROVE  /\ f \in ToSet(list) <=> Lists(list, f)
         /\ DOMAIN list = 1..Len(list) /\ Len(list) \in Nat
  BY DEF ToSet, Lists

LEMMA Adds ==
  ASSUME NEW list \in Seq(FileIds), IsInjective(list), NEW f \in FileIds
  PROVE  /\ addFileItem(list, f) \in Seq(FileIds) /\ IsInjective(addFileItem(list, f))
         /\ \A g : Lists(addFileItem(list, f), g) <=> g = f \/ Lists(list, g)
<1>1. CASE Lists(list, f)
  BY <1>1, InList DEF addFileItem, Lists
<1>2. CASE ~Lists(list, f)
  <2> DEFINE new == <<f>> \o list
  <2>1. addFileItem(list, f) = new
    BY <1>2, InList DEF addFileItem
  <2>2. /\ Len(list) \in Nat /\ list \in [1..Len(list) -> FileIds]
        /\ <<f>> \in Seq(FileIds) /\ Len(<<f>>) = 1 /\ <<f>>[1] = f
    OBVIOUS
  <2>3. /\ new \in Seq(FileIds) /\ Len(new) = 1 + Len(list)
        /\ \A k \in 1..1 : new[k] = <<f>>[k]
        /\ \A k \in 1..Len(list) : new[1 + k] = list[k]
    BY <2>2, Concat
  <2> HIDE DEF new
  <2>4. new[1] = f /\ \A k \in 2..Len(new) : k - 1 \in 1..Len(list) /\ new[k] = list[k - 1]
    <3>1. new[1] = f
      BY <2>2, <2>3
    <3>2. ASSUME NEW k \in 2..Len(new) PROVE k - 1 \in 1..Len(list) /\ new[k] = list[k - 1]
      <4>1. k - 1 \in 1..Len(list) /\ 1 + (k - 1) = k
        BY <2>2, <2>3
      <4> QED BY <2>3, <4>1
    <3> QED BY <3>1, <3>2
  <2>5. DOMAIN new = 1..Len(new) /\ 1 \in 1..Len(new)
    BY <2>2, <2>3
  <2>6. ASSUME NEW a \in 1..Len(new), NEW b \in 1..Len(new), new[a] = new[b] PROVE a = b
    <3>1. CASE a = 1 /\ b = 1
      BY <3>1
    <3>2. CASE a # 1 /\ b # 1
      <4>1. a \in 2..Len(new) /\ b \in 2..Len(new)
        BY <2>2, <2>3, <3>2
      <4>2. a - 1 \in DOMAIN list /\ b - 1 \in DOMAIN list /\ list[a - 1] = list[b - 1]
        BY <2>2, <2>4, <2>6, <4>1
      <4>3. a - 1 = b - 1
        BY <4>2 DEF IsInjective
      <4> QED BY <4>1, <4>3
    <3>3. CASE a = 1 /\ b # 1
      <4>1. b \in 2..Len(new)
        BY <2>2, <2>3, <3>3
      <4> QED BY <1>2, <2>4, <2>6, <3>3, <4>1 DEF Lists
    <3>4. CASE a # 1 /\ b = 1
      <4>1. a \in 2..Len(new)
        BY <2>2, <2>3, <3>4
      <4> QED BY <1>2, <2>4, <2>6, <3>4, <4>1 DEF Lists
    <3> QED BY <3>1, <3>2, <3>3, <3>4
  <2>7. IsInjective(new)
    BY <2>5, <2>6 DEF IsInjective
  <2>8. ASSUME NEW g PROVE Lists(new, g) <=> g = f \/ Lists(list, g)
    <3>1. Lists(new, g) => g = f \/ Lists(list, g)
      <4> SUFFICES ASSUME NEW k \in 1..Len(new), new[k] = g, g # f PROVE Lists(list, g)
        BY DEF Lists
      <4>1. k \in 2..Len(new)
        BY <2>2, <2>3, <2>4
      <4> QED BY <2>4, <4>1 DEF Lists
    <3>2. g = f => Lists(new, g)
      BY <2>4, <2>5 DEF Lists
    <3>3. Lists(list, g) => Lists(new, g)
      <4> SUFFICES ASSUME NEW k \in 1..Len(list), list[k] = g PROVE Lists(new, g)
        BY DEF Lists
      <4>1. 1 + k \in 1..Len(new) /\ new[1 + k] = g
        BY <2>2, <2>3
      <4> QED BY <4>1 DEF Lists
    <3> QED BY <3>1, <3>2, <3>3
  <2> QED BY <2>1, <2>3, <2>7, <2>8
<1> QED BY <1>1, <1>2

\* No file is listed twice: removing the first row of one removes it.
LEMMA Removes ==
  ASSUME NEW list \in Seq(FileIds), IsInjective(list), NEW f
  PROVE  /\ removeFileItem(list, f) \in Seq(FileIds) /\ IsInjective(removeFileItem(list, f))
         /\ \A g : Lists(removeFileItem(list, f), g) <=> g # f /\ Lists(list, g)
<1>1. CASE ~Lists(list, f)
  <2>1. removeFileItem(list, f) = list
    BY <1>1 DEF removeFileItem, RemoveFirst, Lists
  <2> QED BY <1>1, <2>1 DEF Lists
<1>2. CASE Lists(list, f)
  <2>1. PICK at \in 1..Len(list) : list[at] = f
    BY <1>2 DEF Lists
  <2> DEFINE I == {k \in 1..Len(list) : list[k] = f}
             left == SubSeq(list, 1, at - 1)
             right == SubSeq(list, at + 1, Len(list))
             new == left \o right
  <2>2. Len(list) \in Nat /\ DOMAIN list = 1..Len(list) /\ at \in Nat
    OBVIOUS
  <2>3. I = {at}
    BY <2>1, <2>2 DEF IsInjective
  <2>4. SelectInSeq(list, LAMBDA v : v = f) = at
    <3>1. (CHOOSE x \in I : \A y \in I : x =< y) = at
      BY <2>2, <2>3
    <3> QED BY <2>3, <3>1 DEF SelectInSeq, Min
  <2>5. removeFileItem(list, f) = new
    BY <1>2, <2>4 DEF removeFileItem, RemoveFirst, RemoveAt, Lists
  <2>6. /\ left \in Seq(FileIds) /\ Len(left) = at - 1
        /\ \A k \in 1..(at - 1) : left[k] = list[k]
    BY <2>1, <2>2
  <2>7. /\ right \in Seq(FileIds) /\ Len(right) = Len(list) - at
        /\ \A k \in 1..(Len(list) - at) : right[k] = list[at + k]
    <3>1. right \in Seq(FileIds) /\ Len(right) = Len(list) - at
      <4>1. \A i \in (at + 1)..Len(list) : list[i] \in FileIds
        BY <2>2
      <4>2. right \in Seq(FileIds)
        BY <2>2, <4>1
      <4>3. Len(right) = IF at + 1 <= Len(list) THEN Len(list) - (at + 1) + 1 ELSE 0
        BY <2>2
      <4> HIDE DEF right
      <4>4. at <= Len(list)
        BY <2>2
      <4>5. CASE at + 1 <= Len(list)
        BY <2>2, <4>2, <4>3, <4>5
      <4>6. CASE ~(at + 1 <= Len(list))
        <5>1. Len(list) - at = 0
          <6>1. Len(list) \in Nat /\ at \in Nat /\ at <= Len(list) /\ ~(at + 1 <= Len(list))
            BY <2>2, <4>4, <4>6
          <6> QED BY <6>1
        <5>2. Len(right) = 0
          BY <4>3, <4>6
        <5> QED BY <4>2, <5>1, <5>2
      <4> QED BY <4>5, <4>6
    <3>2. ASSUME NEW k \in 1..(Len(list) - at) PROVE right[k] = list[at + k]
      <4>1. k \in 1..(Len(list) - (at + 1) + 1) /\ (at + 1) + k - 1 = at + k
        BY <2>2
      <4>2. right[k] = list[(at + 1) + k - 1]
        BY <2>1, <2>2, <4>1
      <4> QED BY <4>1, <4>2
    <3> QED BY <3>1, <3>2
  <2> HIDE DEF left, right
  <2>8. /\ new \in Seq(FileIds) /\ Len(new) = Len(left) + Len(right)
        /\ \A k \in 1..Len(left) : new[k] = left[k]
        /\ \A k \in 1..Len(right) : new[Len(left) + k] = right[k]
    <3>1. left \in Seq(FileIds) /\ right \in Seq(FileIds)
      BY <2>6, <2>7
    <3> QED BY <3>1, Concat
  <2> HIDE DEF new, I
  <2>9. ASSUME NEW k \in 1..Len(new)
        PROVE  /\ k < at => new[k] = list[k] /\ k \in 1..Len(list)
               /\ k >= at => new[k] = list[k + 1] /\ k + 1 \in 1..Len(list)
    <3>1. CASE k < at
      BY <2>1, <2>2, <2>6, <2>7, <2>8, <3>1
    <3>2. CASE k >= at
      <4>1. k - Len(left) \in 1..Len(right) /\ Len(left) + (k - Len(left)) = k
            /\ at + (k - Len(left)) = k + 1
        BY <2>1, <2>2, <2>6, <2>7, <2>8, <3>2
      <4>2. new[k] = right[k - Len(left)]
        BY <2>8, <4>1
      <4>3. k - Len(left) \in 1..(Len(list) - at)
        BY <2>7, <4>1
      <4>4. right[k - Len(left)] = list[k + 1]
        BY <2>7, <4>1, <4>3
      <4>5. k + 1 \in 1..Len(list)
        BY <2>2, <2>6, <2>7, <2>8, <3>2
      <4> QED BY <3>2, <4>2, <4>4, <4>5
    <3> QED BY <2>2, <3>1, <3>2
  <2>10. DOMAIN new = 1..Len(new) /\ Len(new) \in Nat
    BY <2>8
  <2>11. ASSUME NEW a \in 1..Len(new), NEW b \in 1..Len(new), new[a] = new[b] PROVE a = b
    <3> DEFINE from(k) == IF k < at THEN k ELSE k + 1
    <3>1. \A k \in 1..Len(new) : from(k) \in DOMAIN list /\ new[k] = list[from(k)]
      BY <2>2, <2>9, <2>10
    <3>2. from(a) = from(b)
      <4> HIDE DEF from
      <4> QED BY <2>11, <3>1 DEF IsInjective
    <3> QED BY <2>2, <2>10, <3>2
  <2>12. IsInjective(new)
    BY <2>10, <2>11 DEF IsInjective
  <2>13. ASSUME NEW g PROVE Lists(new, g) <=> g # f /\ Lists(list, g)
    <3>1. ASSUME NEW k \in 1..Len(new), new[k] = g PROVE g # f /\ Lists(list, g)
      <4>1. PICK j \in 1..Len(list) : j # at /\ list[j] = g
        <5>1. CASE k < at
          BY <2>2, <2>9, <3>1, <5>1
        <5>2. CASE k >= at
          BY <2>2, <2>9, <3>1, <5>2
        <5> QED BY <2>2, <5>1, <5>2
      <4> QED BY <2>1, <2>2, <4>1 DEF Lists, IsInjective
    <3>2. ASSUME NEW j \in 1..Len(list), list[j] = g, g # f PROVE Lists(new, g)
      <4>1. CASE j < at
        <5>1. j \in 1..Len(new) /\ j \in 1..Len(left) /\ j \in 1..(at - 1)
          BY <2>1, <2>2, <2>6, <2>7, <2>8, <4>1
        <5> QED BY <2>6, <2>8, <3>2, <5>1 DEF Lists
      <4>2. CASE j > at
        <5>1. j - 1 \in 1..Len(new) /\ j - 1 >= at /\ (j - 1) + 1 = j
          BY <2>1, <2>2, <2>6, <2>7, <2>8, <4>2
        <5>2. new[j - 1] = list[(j - 1) + 1]
          BY <2>9, <5>1
        <5> QED BY <3>2, <5>1, <5>2 DEF Lists
      <4> QED BY <2>1, <2>2, <3>2, <4>1, <4>2
    <3> QED BY <3>1, <3>2 DEF Lists
  <2> QED BY <2>5, <2>8, <2>12, <2>13
<1> QED BY <1>1, <1>2

-----------------------------------------------------------------------------
(* Announcements.                                                          *)

LEMMA OneEvent ==
  ASSUME NEW e \in FileEvent
  PROVE  /\ <<e>> \in Seq(FileEvent) /\ Len(<<e>>) = 1 /\ <<e>>[1] = e
         /\ \A k \in 1..Len(<<e>>) : k = 1 /\ <<e>>[k] = e
  OBVIOUS

LEMMA TwoEvents ==
  ASSUME NEW t \in FileEvent, NEW e \in FileEvent
  PROVE  /\ <<t>> \o <<e>> \in Seq(FileEvent) /\ Len(<<t>> \o <<e>>) = 2
         /\ (<<t>> \o <<e>>)[1] = t /\ (<<t>> \o <<e>>)[2] = e
<1> DEFINE seq == <<t>>
           more == <<e>>
<1>1. /\ seq \in Seq(FileEvent) /\ Len(seq) = 1 /\ seq[1] = t
      /\ more \in Seq(FileEvent) /\ Len(more) = 1 /\ more[1] = e
  OBVIOUS
<1> HIDE DEF seq, more
<1>2. /\ seq \o more \in Seq(FileEvent) /\ Len(seq \o more) = Len(seq) + Len(more)
      /\ \A k \in 1..Len(seq) : (seq \o more)[k] = seq[k]
      /\ \A k \in 1..Len(more) : (seq \o more)[Len(seq) + k] = more[k]
  BY <1>1, Concat
<1>3. 1 \in 1..Len(seq) /\ 1 \in 1..Len(more) /\ Len(seq) + 1 = 2
  BY <1>1
<1>4. (seq \o more)[Len(seq) + 1] = more[1]
  BY <1>2, <1>3
<1> QED BY <1>1, <1>2, <1>3, <1>4 DEF seq, more

LEMMA UploadAnnounceFollows ==
  ASSUME FilesInv, FollowInv, NEW q \in FileReqs, UploadAnnounce(q)
  PROVE  FollowInv'
<1> DEFINE new == [fileReq[q] EXCEPT !.shown = TRUE]
           f   == fileReq[q].file
           e   == Event("file_uploaded", f)
           events == <<e>>
<1>1. /\ fileReq[q] \in FileRequest /\ fileReq[q].op = "upload" /\ fileReq[q].step = "done"
      /\ fileReq' = [fileReq EXCEPT ![q] = new]
      /\ FileBroadcast(events)
      /\ UNCHANGED <<files, used, current, overlap, early>>
      /\ f \in used /\ f \in files \cup early /\ f \in FileIds
  BY DEF UploadAnnounce, FilesInv, OwnFile, FollowInv, FileTypeOK, RequestsRight, Placed
<1>2. /\ new \in FileRequest /\ new.file = f /\ new.step = "done" /\ new.op = "upload" /\ new.shown
  BY <1>1 DEF FileRequest
<1> HIDE DEF new
<1>3. /\ fileReq' \in [FileReqs -> FileRequest]
      /\ fileReq'[q] = new
      /\ \A u \in FileReqs : u # q => fileReq'[u] = fileReq[u]
  BY <1>1, <1>2, ReqFacts
<1>4. RequestsRight'
  BY <1>1, <1>2, GoesOn DEF Placed
<1>5. e \in FileEvent /\ e.type = "file_uploaded" /\ e.file = f /\ e = Uploaded(f)
  BY <1>1 DEF Event, Uploaded, FileEvent, FileId0
<1>6. /\ \A g : g # f => (Unannounced(g)' <=> Unannounced(g))
      /\ \A g : Vanishing(g)' <=> Vanishing(g)
      /\ Turning' <=> Turning
  BY <1>1, <1>2, <1>3 DEF Unannounced, Vanishing, Turning, Placed
<1> HIDE DEF f, e
<1>7. events \in Seq(FileEvent) /\ Len(events) = 1 /\ \A k \in 1..Len(events) : k = 1 /\ events[k] = e
  BY <1>5, OneEvent
<1> HIDE DEF events
<1>8. Tells(events)
  <2>1. \A k \in 1..Len(events) : ~Turns(events[k])
    BY <1>5, <1>7 DEF Turns
  <2>2. ASSUME NEW g \in files \ early, Unannounced(g)
        PROVE  Unannounced(g)' \/ \E k \in 1..Len(events) : events[k] = Uploaded(g)
    <3>1. CASE g = f
      <4>1. 1 \in 1..Len(events) /\ events[1] = Uploaded(g)
        BY <1>5, <1>7, <3>1
      <4> QED BY <4>1
    <3> QED BY <1>6, <2>2, <3>1
  <2>3. \A k \in 1..Len(events) :
          /\ ~Turns(events[k]) => events[k].file \in used
          /\ events[k].type = "file_deleted" => events[k].file \notin files \ early
          /\ events[k].type = "file_uploaded" => events[k].file \in files \cup early
    BY <1>1, <1>5, <1>7
  <2> QED BY <1>1, <1>6, <2>1, <2>2, <2>3 DEF Tells
<1>9. filePage' \in [FilePages -> RoomPage] /\ \A p \in FilePages : PageRight(filePage[p])'
  BY <1>1, <1>7, <1>8, BroadcastFollows
<1>10. FileTypeOK'
  BY <1>1, <1>3, <1>9 DEF FollowInv, FileTypeOK
<1> QED BY <1>1, <1>4, <1>9, <1>10 DEF FollowInv

LEMMA PresentAnnounceFollows ==
  ASSUME FollowInv, NEW q \in FileReqs, PresentAnnounce(q)
  PROVE  FollowInv'
<1> DEFINE f == fileReq[q].file
           e == Event("presentation_changed", f)
           events == <<e>>
<1>1. /\ fileReq[q] \in FileRequest /\ fileReq[q].op = "present" /\ fileReq[q].step = "done"
      /\ fileReq' = [fileReq EXCEPT ![q] = FileIdle]
      /\ FileBroadcast(events)
      /\ UNCHANGED <<files, used, current, overlap, early>>
      /\ ~overlap => current = f
  BY DEF PresentAnnounce, FollowInv, FileTypeOK, RequestsRight
<1>2. /\ fileReq' \in [FileReqs -> FileRequest]
      /\ fileReq'[q] = FileIdle
      /\ \A u \in FileReqs : u # q => fileReq'[u] = fileReq[u]
  BY <1>1, IdleFile, ReqFacts
<1>3. RequestsRight'
  BY <1>1, IdleFile, GoesOn DEF Placed
<1>4. e \in FileEvent /\ e.type = "presentation_changed" /\ e.file = f
  BY <1>1 DEF Event, FileEvent, FileRequest
<1>5. /\ \A g : Unannounced(g)' <=> Unannounced(g)
      /\ \A g : Vanishing(g)' <=> Vanishing(g)
  BY <1>1, <1>2, IdleFile DEF Unannounced, Vanishing, Placed
<1> HIDE DEF f, e
<1>6. events \in Seq(FileEvent) /\ Len(events) = 1 /\ \A k \in 1..Len(events) : k = 1 /\ events[k] = e
  BY <1>4, OneEvent
<1> HIDE DEF events
<1>7. Tells(events)
  <2>1. /\ 1 \in 1..Len(events) /\ Turns(events[1])
        /\ \A k \in 1..Len(events) : Turns(events[k]) /\ events[k].file = f
        /\ \A k \in 1..Len(events) : events[k].type = "presentation_changed"
    BY <1>4, <1>6 DEF Turns
  <2>2. ~overlap => current' = f
    BY <1>1
  <2> QED BY <1>5, <2>1, <2>2 DEF Tells
<1>8. filePage' \in [FilePages -> RoomPage] /\ \A p \in FilePages : PageRight(filePage[p])'
  BY <1>1, <1>6, <1>7, BroadcastFollows
<1>9. FileTypeOK'
  BY <1>1, <1>2, <1>8 DEF FollowInv, FileTypeOK
<1> QED BY <1>1, <1>3, <1>8, <1>9 DEF FollowInv

LEMMA DeleteAnnounceFollows ==
  ASSUME FollowInv, NEW q \in FileReqs, DeleteAnnounce(q)
  PROVE  FollowInv'
<1> DEFINE new == [fileReq[q] EXCEPT !.step = "done"]
           f   == fileReq[q].file
           e   == Event("file_deleted", f)
           t   == Event("presentation_changed", 0)
           events == (IF fileReq[q].shown THEN <<t>> ELSE <<>>) \o <<e>>
<1>1. /\ fileReq[q] \in FileRequest /\ fileReq[q].op = "delete" /\ fileReq[q].step = "stored"
      /\ fileReq' = [fileReq EXCEPT ![q] = new]
      /\ current' = IF fileReq[q].shown THEN 0 ELSE current
      /\ FileBroadcast(events)
      /\ UNCHANGED <<files, used, overlap, early>>
      /\ f \in used /\ f \notin files \ early /\ f \in FileIds
      /\ q \in Presenting
  BY DEF DeleteAnnounce, FollowInv, FileTypeOK, RequestsRight, Presenting
<1>2. /\ new \in FileRequest /\ new.file = f /\ new.step = "done" /\ new.op = "delete"
  BY <1>1 DEF FileRequest
<1> HIDE DEF new
<1>3. /\ fileReq' \in [FileReqs -> FileRequest]
      /\ fileReq'[q] = new
      /\ \A u \in FileReqs : u # q => fileReq'[u] = fileReq[u]
  BY <1>1, <1>2, ReqFacts
<1>4. RequestsRight'
  BY <1>1, <1>2, GoesOn DEF Placed
<1>5. /\ e \in FileEvent /\ e.type = "file_deleted" /\ e.file = f /\ e = Deleted(f)
      /\ t \in FileEvent /\ t.type = "presentation_changed" /\ t.file = 0
  BY <1>1 DEF Event, Deleted, FileEvent, FileId0
<1>6. /\ \A g : Unannounced(g)' <=> Unannounced(g)
      /\ \A g : g # f => (Vanishing(g)' <=> Vanishing(g))
      /\ ~fileReq[q].shown => (Turning' <=> Turning)
  BY <1>1, <1>2, <1>3 DEF Unannounced, Vanishing, Turning, Placed
<1> HIDE DEF f, e, t
<1>7. /\ events \in Seq(FileEvent) /\ Len(events) \in Nat
      /\ \E k \in 1..Len(events) : events[k] = e
      /\ \A k \in 1..Len(events) : events[k] = e \/ (fileReq[q].shown /\ events[k] = t)
      /\ fileReq[q].shown => \E k \in 1..Len(events) : events[k] = t
  <2>1. /\ <<e>> \in Seq(FileEvent) /\ Len(<<e>>) = 1 /\ <<e>>[1] = e
        /\ <<t>> \in Seq(FileEvent) /\ Len(<<t>>) = 1 /\ <<t>>[1] = t
        /\ <<>> \in Seq(FileEvent) /\ Len(<<>>) = 0
    BY <1>5
  <2>2. CASE fileReq[q].shown
    <3>1. events = <<t>> \o <<e>>
      BY <2>2
    <3> HIDE DEF events
    <3>2. events \in Seq(FileEvent)
      BY <1>5, <3>1, TwoEvents
    <3>3. events[1] = t /\ events[2] = e /\ Len(events) = 2
      BY <1>5, <3>1, TwoEvents
    <3>4. 1 \in 1..Len(events) /\ 2 \in 1..Len(events) /\ \A k \in 1..Len(events) : k = 1 \/ k = 2
      BY <3>3
    <3> QED BY <2>2, <3>2, <3>3, <3>4
  <2>3. CASE ~fileReq[q].shown
    <3>1. events = <<e>>
      BY <2>1, <2>3
    <3> HIDE DEF events
    <3> QED BY <1>5, <2>3, <3>1, OneEvent
  <2> QED BY <2>2, <2>3
<1> HIDE DEF events
<1>8. Tells(events)
  <2>1. ASSUME NEW g \in used \ (files \cup early), Vanishing(g)
        PROVE  Vanishing(g)' \/ \E k \in 1..Len(events) : events[k] = Deleted(g)
    <3>1. CASE g = f
      BY <1>5, <1>7, <3>1
    <3> QED BY <1>6, <2>1, <3>1
  <2>2. \A k \in 1..Len(events) :
          /\ ~Turns(events[k]) => events[k].file \in used
          /\ events[k].type = "file_deleted" => events[k].file \notin files \ early
          /\ events[k].type = "file_uploaded" => events[k].file \in files \cup early
    BY <1>1, <1>5, <1>7 DEF Turns
  <2>3. ASSUME ~overlap, ~Turning'
        PROVE  \/ ~Turning /\ UNCHANGED current /\ \A k \in 1..Len(events) : ~Turns(events[k])
               \/ /\ \E k \in 1..Len(events) : Turns(events[k])
                  /\ \A k \in 1..Len(events) : Turns(events[k]) => events[k].file = current'
    <3>1. CASE fileReq[q].shown
      <4>1. current' = 0
        BY <1>1, <3>1
      <4>2. \E k \in 1..Len(events) : Turns(events[k])
        BY <1>5, <1>7, <3>1 DEF Turns
      <4>3. \A k \in 1..Len(events) : Turns(events[k]) => events[k].file = 0
        BY <1>5, <1>7 DEF Turns
      <4> QED BY <4>1, <4>2, <4>3
    <3>2. CASE ~fileReq[q].shown
      <4>1. \A k \in 1..Len(events) : ~Turns(events[k])
        BY <1>5, <1>7, <3>2 DEF Turns
      <4> QED BY <1>1, <1>6, <2>3, <3>2, <4>1
    <3> QED BY <3>1, <3>2
  <2> QED BY <1>1, <1>6, <2>1, <2>2, <2>3 DEF Tells
<1>9. filePage' \in [FilePages -> RoomPage] /\ \A p \in FilePages : PageRight(filePage[p])'
  BY <1>1, <1>7, <1>8, BroadcastFollows
<1>10. FileTypeOK'
  BY <1>1, <1>3, <1>9 DEF FollowInv, FileTypeOK
<1> QED BY <1>1, <1>4, <1>9, <1>10 DEF FollowInv

-----------------------------------------------------------------------------
(* One page moves on.                                                      *)

LEMMA SameWorld ==
  ASSUME NEW P, UNCHANGED <<files, used, current, overlap, early>>,
         \A f : Unannounced(f)' <=> Unannounced(f), \A f : Vanishing(f)' <=> Vanishing(f),
         Turning' <=> Turning, PageRight(P)
  PROVE  PageRight(P)'
<1>1. \A f : HasRow(P, f)' <=> HasRow(P, f)
  BY DEF HasRow, InBox, Uploaded, Event
<1>2. \A f : LosesRow(P, f)' <=> LosesRow(P, f)
  BY DEF LosesRow, InBox, Uploaded, Deleted, Event
<1>3. ShowsCurrent(P)' <=> ShowsCurrent(P)
  BY DEF ShowsCurrent, Turns
<1>4. Follows(P)' <=> Follows(P)
  BY <1>1, <1>2, <1>3 DEF Follows
<1>5. KnownFiles(P)' <=> KnownFiles(P)
  BY DEF KnownFiles, Turns
<1> QED BY <1>4, <1>5 DEF PageRight

LEMMA OnePage ==
  ASSUME FollowInv, NEW p \in FilePages, NEW new \in RoomPage,
         filePage' = [filePage EXCEPT ![p] = new],
         UNCHANGED <<files, used, current, overlap, early>>,
         fileReq' \in [FileReqs -> FileRequest], RequestsRight',
         \A f : Unannounced(f)' <=> Unannounced(f), \A f : Vanishing(f)' <=> Vanishing(f),
         Turning' <=> Turning, PageRight(new)
  PROVE  FollowInv'
<1>1. /\ filePage' \in [FilePages -> RoomPage]
      /\ \A o \in FilePages : filePage'[o] = IF o = p THEN new ELSE filePage[o]
  BY DEF FollowInv, FileTypeOK
<1>2. ASSUME NEW o \in FilePages PROVE PageRight(filePage[o])'
  <2>1. \A P : PageRight(P) => PageRight(P)'
    BY SameWorld
  <2>2. CASE o = p
    BY <1>1, <2>1, <2>2
  <2>3. CASE o # p
    <3>1. PageRight(filePage[o]) /\ filePage'[o] = filePage[o]
      BY <1>1, <2>3 DEF FollowInv
    <3> QED BY <2>1, <3>1
  <2> QED BY <2>2, <2>3
<1> QED BY <1>1, <1>2 DEF FollowInv, FileTypeOK

\* Only the page changes.
LEMMA PageAlone ==
  ASSUME FollowInv, NEW p \in FilePages, NEW new \in RoomPage,
         filePage' = [filePage EXCEPT ![p] = new],
         UNCHANGED <<files, used, current, fileReq, overlap, early>>, PageRight(new)
  PROVE  FollowInv'
<1>1. /\ \A f : Unannounced(f)' <=> Unannounced(f)
      /\ \A f : Vanishing(f)' <=> Vanishing(f)
      /\ Turning' <=> Turning
  BY DEF Unannounced, Vanishing, Turning
<1>2. RequestsRight'
  BY DEF FollowInv, RequestsRight, Presenting
<1>3. fileReq' \in [FileReqs -> FileRequest]
  BY DEF FollowInv, FileTypeOK
<1> QED BY <1>1, <1>2, <1>3, OnePage

LEMMA LoadsFollows ==
  ASSUME FilesInv, FollowInv, NEW p \in FilePages, PageLoads(p)
  PROVE  FollowInv'
<1> DEFINE P == filePage[p]
           new == [P EXCEPT !.conn = "loaded", !.list = SetToSeq(files)]
<1>1. P \in RoomPage /\ PageRight(P) /\ P.conn = "closed" /\ files \subseteq used /\ used \subseteq FileIds
      /\ IsFiniteSet(files) /\ current \in files \cup {0}
  BY DEF PageLoads, FollowInv, FileTypeOK, FilesInv, RequestsOK
<1>2. /\ SetToSeq(files) \in Seq(files) /\ IsInjective(SetToSeq(files))
      /\ \A x \in files : Lists(SetToSeq(files), x)
  BY <1>1, ListOfSet
<1>3. SetToSeq(files) \in Seq(FileIds) /\ \A k \in 1..Len(SetToSeq(files)) : SetToSeq(files)[k] \in files
  BY <1>1, <1>2
<1>4. /\ new \in RoomPage /\ new.conn = "loaded" /\ new.list = SetToSeq(files)
      /\ new.inbox = P.inbox /\ new.present = P.present
  BY <1>1, <1>3 DEF RoomPage
<1>5. filePage' = [filePage EXCEPT ![p] = new] /\ UNCHANGED <<files, used, current, fileReq, overlap, early>>
  BY DEF PageLoads
<1> HIDE DEF P, new
<1>6. Len(new.inbox) = 0 /\ new.inbox = <<>> /\ new.present = 0
  <2>1. Len(<<>>) = 0
    OBVIOUS
  <2> QED BY <1>1, <1>4, <2>1 DEF PageRight
<1>7. PageRight(new)
  <2>1. KnownFiles(new)
    BY <1>1, <1>3, <1>4, <1>6 DEF KnownFiles
  <2>2. \A f \in files : HasRow(new, f)
    BY <1>2, <1>4 DEF HasRow, Lists
  <2>3. \A f \in used \ files : LosesRow(new, f)
    BY <1>3, <1>4, <1>6 DEF LosesRow
  <2>4. ShowsCurrent(new)
    BY <1>4, <1>6 DEF ShowsCurrent
  <2>5. Follows(new)
    BY <2>2, <2>3, <2>4 DEF Follows
  <2> QED BY <1>2, <1>4, <1>6, <2>1, <2>5 DEF PageRight
<1> QED BY <1>4, <1>5, <1>7, PageAlone

LEMMA JoinFollows ==
  ASSUME FollowInv, NEW p \in FilePages, PageJoins(p) \/ PageSnapshot(p) \/ PageLosesSocket(p)
  PROVE  FollowInv'
<1> DEFINE P == filePage[p]
<1>1. P \in RoomPage /\ PageRight(P) /\ current \in FileId0
  BY DEF FollowInv, FileTypeOK, FileId0
<1>2. CASE PageJoins(p)
  <2> DEFINE new == [P EXCEPT !.conn = "joining"]
  <2>1. /\ new \in RoomPage /\ new.conn = "joining" /\ new.list = P.list /\ new.inbox = P.inbox
        /\ new.present = P.present /\ new.missed = P.missed /\ P.conn = "loaded"
    BY <1>1, <1>2 DEF RoomPage, PageJoins
  <2>2. filePage' = [filePage EXCEPT ![p] = new] /\ UNCHANGED <<files, used, current, fileReq, overlap, early>>
    BY <1>2 DEF PageJoins
  <2> HIDE DEF new
  <2>3. Follows(new)
    BY <1>1, <2>1 DEF PageRight, Follows, HasRow, LosesRow, InBox, ShowsCurrent
  <2>4. PageRight(new)
    BY <1>1, <2>1, <2>3 DEF PageRight, KnownFiles
  <2> QED BY <2>1, <2>2, <2>4, PageAlone
<1>3. CASE PageSnapshot(p)
  <2> DEFINE new == [P EXCEPT !.conn = "on", !.present = IF current # 0 THEN current ELSE @]
  <2>1. /\ new \in RoomPage /\ new.conn = "on" /\ new.list = P.list /\ new.inbox = P.inbox
        /\ new.present = (IF current # 0 THEN current ELSE P.present)
        /\ new.missed = P.missed /\ P.conn = "joining"
    BY <1>1, <1>3 DEF RoomPage, PageSnapshot
  <2>2. filePage' = [filePage EXCEPT ![p] = new] /\ UNCHANGED <<files, used, current, fileReq, overlap, early>>
    BY <1>3 DEF PageSnapshot
  <2> HIDE DEF new
  <2>3. ShowsCurrent(P) => ShowsCurrent(new)
    BY <2>1 DEF ShowsCurrent
  <2>4. Follows(new)
    BY <1>1, <2>1, <2>3 DEF PageRight, Follows, HasRow, LosesRow, InBox
  <2>5. PageRight(new)
    BY <1>1, <2>1, <2>4 DEF PageRight, KnownFiles
  <2> QED BY <2>1, <2>2, <2>5, PageAlone
<1>4. CASE PageLosesSocket(p)
  <2> DEFINE new == [P EXCEPT !.conn = "loaded", !.missed = @ \/ P.inbox # <<>>, !.inbox = <<>>]
  <2>1. <<>> \in Seq(FileEvent) /\ Len(<<>>) = 0
    OBVIOUS
  <2>2. /\ new \in RoomPage /\ new.conn = "loaded" /\ new.list = P.list /\ new.inbox = <<>>
        /\ new.present = P.present /\ new.missed = (P.missed \/ P.inbox # <<>>) /\ P.conn = "on"
    BY <1>1, <1>4, <2>1 DEF RoomPage, PageLosesSocket
  <2>3. filePage' = [filePage EXCEPT ![p] = new] /\ UNCHANGED <<files, used, current, fileReq, overlap, early>>
    BY <1>4 DEF PageLosesSocket
  <2> HIDE DEF new
  <2>4. ASSUME ~new.missed PROVE new.inbox = P.inbox /\ ~P.missed
    BY <2>2, <2>4
  <2>5. P.inbox = <<>> /\ ShowsCurrent(P) => ShowsCurrent(new)
    BY <2>1, <2>2 DEF ShowsCurrent
  <2>6. Follows(new)
    BY <1>1, <2>2, <2>4, <2>5 DEF PageRight, Follows, HasRow, LosesRow, InBox
  <2>7. PageRight(new)
    BY <1>1, <2>1, <2>2, <2>6 DEF PageRight, KnownFiles
  <2> QED BY <2>2, <2>3, <2>7, PageAlone
<1> QED BY <1>2, <1>3, <1>4

LEMMA TakeEvent ==
  ASSUME NEW seq \in Seq(FileEvent), seq # <<>>
  PROVE  /\ Head(seq) \in FileEvent /\ Tail(seq) \in Seq(FileEvent)
         /\ Head(seq) = seq[1] /\ Len(seq) \in Nat /\ Len(seq) >= 1 /\ Len(Tail(seq)) = Len(seq) - 1
         /\ \A j \in 1..Len(Tail(seq)) : j + 1 \in 2..Len(seq) /\ Tail(seq)[j] = seq[j + 1]
         /\ \A k \in 2..Len(seq) : k - 1 \in 1..Len(Tail(seq)) /\ Tail(seq)[k - 1] = seq[k]
<1>1. /\ Head(seq) \in FileEvent /\ Tail(seq) \in Seq(FileEvent)
      /\ Head(seq) = seq[1] /\ Len(seq) \in Nat /\ Len(seq) >= 1 /\ Len(Tail(seq)) = Len(seq) - 1
      /\ \A j \in 1..Len(Tail(seq)) : Tail(seq)[j] = seq[j + 1]
  OBVIOUS
<1>2. ASSUME NEW k \in 2..Len(seq) PROVE k - 1 \in 1..Len(Tail(seq)) /\ Tail(seq)[k - 1] = seq[k]
  <2>1. k - 1 \in 1..Len(Tail(seq)) /\ (k - 1) + 1 = k
    BY <1>1
  <2>2. Tail(seq)[k - 1] = seq[(k - 1) + 1]
    BY <1>1, <2>1
  <2> QED BY <2>1, <2>2
<1>3. \A j \in 1..Len(Tail(seq)) : j + 1 \in 2..Len(seq)
  BY <1>1
<1> QED BY <1>1, <1>2, <1>3

LEMMA HeardPage ==
  ASSUME NEW P \in RoomPage, NEW new \in RoomPage, PageRight(P), P.conn = "on", P.inbox # <<>>,
         new.inbox = Tail(P.inbox), new.conn = P.conn, new.missed = P.missed, IsInjective(new.list),
         NEW e, e = Head(P.inbox),
         \/ /\ e.type = "file_uploaded" /\ new.present = P.present
            /\ \A g : Lists(new.list, g) <=> g = e.file \/ Lists(P.list, g)
         \/ /\ e.type = "file_deleted" /\ new.present = P.present
            /\ \A g : Lists(new.list, g) <=> g # e.file /\ Lists(P.list, g)
         \/ /\ e.type = "presentation_changed" /\ new.present = e.file
            /\ \A g : Lists(new.list, g) <=> Lists(P.list, g)
  PROVE  PageRight(new)
<1> DEFINE seq == P.inbox
           rest == new.inbox
<1>0. seq = P.inbox /\ rest = new.inbox /\ rest = Tail(seq) /\ seq \in Seq(FileEvent)
  BY DEF RoomPage
<1> HIDE DEF seq, rest
<1>1. /\ e \in FileEvent /\ e = seq[1] /\ Len(seq) \in Nat /\ Len(seq) >= 1 /\ Len(rest) = Len(seq) - 1
      /\ \A j \in 1..Len(rest) : j + 1 \in 2..Len(seq) /\ rest[j] = seq[j + 1]
      /\ \A k \in 2..Len(seq) : k - 1 \in 1..Len(rest) /\ rest[k - 1] = seq[k]
  BY <1>0, TakeEvent
<1>2. 1 \in 1..Len(seq) /\ \A k \in 2..Len(seq) : k \in 1..Len(seq)
  BY <1>1
<1>3. KnownFiles(new)
  <2>1. \A g : Lists(P.list, g) => g \in used
    BY DEF PageRight, KnownFiles, Lists
  <2>2. ~Turns(e) => e.file \in used
    BY <1>0, <1>1, <1>2 DEF PageRight, KnownFiles
  <2>3. \A g : Lists(new.list, g) => g \in used
    BY <2>1, <2>2 DEF Turns
  <2>4. \A k \in 1..Len(new.list) : new.list[k] \in used
    BY <2>3 DEF Lists
  <2>5. ASSUME NEW k \in 1..Len(rest), ~Turns(rest[k]) PROVE rest[k].file \in used
    BY <1>0, <1>1, <1>2, <2>5 DEF PageRight, KnownFiles
  <2> QED BY <1>0, <2>4, <2>5 DEF KnownFiles
<1>4. ASSUME NEW k \in 1..Len(rest), rest[k].type = "file_deleted" PROVE rest[k].file \notin files \ early
  BY <1>0, <1>1, <1>2, <1>4 DEF PageRight
<1>5. \A x : InBox(P, x) => x = e \/ InBox(new, x)
  <2> SUFFICES ASSUME NEW k \in 1..Len(seq), seq[k] # e PROVE InBox(new, seq[k])
    BY <1>0 DEF InBox
  <2>1. k \in 2..Len(seq)
    BY <1>1
  <2>2. k - 1 \in 1..Len(rest) /\ rest[k - 1] = seq[k]
    BY <1>1, <2>1
  <2> QED BY <1>0, <2>2 DEF InBox
<1>6. ASSUME ~new.missed PROVE Follows(new)
  <2>0. /\ \A f \in files \ early : HasRow(P, f)
        /\ \A f \in used \ (files \cup early) : LosesRow(P, f)
        /\ ~overlap /\ ~Turning => ShowsCurrent(P)
    BY <1>6 DEF PageRight, Follows
  <2>1. ASSUME NEW f \in files \ early PROVE HasRow(new, f)
    <3>1. Lists(P.list, f) \/ InBox(P, Uploaded(f)) \/ Unannounced(f)
      BY <2>0, <2>1 DEF HasRow, Lists
    <3>2. ~(e.type = "file_deleted" /\ e.file = f)
      BY <1>0, <1>1, <1>2, <2>1 DEF PageRight
    <3>3. Lists(P.list, f) => Lists(new.list, f)
      BY <3>2
    <3>4. e = Uploaded(f) => Lists(new.list, f)
      <4>1. Uploaded(f).type = "file_uploaded" /\ Uploaded(f).file = f
        BY DEF Uploaded, Event
      <4> QED BY <4>1
    <3>5. Lists(new.list, f) \/ InBox(new, Uploaded(f)) \/ Unannounced(f)
      BY <1>5, <3>1, <3>3, <3>4
    <3> QED BY <3>5 DEF HasRow, Lists
  <2>2. ASSUME NEW f \in used \ (files \cup early) PROVE LosesRow(new, f)
    <3>0. /\ Uploaded(f).type = "file_uploaded" /\ Uploaded(f).file = f
          /\ Deleted(f).type = "file_deleted" /\ Deleted(f).file = f
      BY DEF Uploaded, Deleted, Event
    <3>1. /\ Lists(P.list, f) => InBox(P, Deleted(f)) \/ Vanishing(f)
          /\ \A k \in 1..Len(seq) : seq[k] = Uploaded(f) =>
               (\E j \in (k + 1)..Len(seq) : seq[j] = Deleted(f)) \/ Vanishing(f)
      BY <1>0, <2>0, <2>2 DEF LosesRow, Lists
    <3>2. ASSUME Lists(new.list, f) PROVE InBox(new, Deleted(f)) \/ Vanishing(f)
      <4>1. CASE Lists(P.list, f)
        <5>1. e # Deleted(f)
          BY <3>0, <3>2
        <5> QED BY <1>5, <3>1, <4>1, <5>1
      <4>2. CASE ~Lists(P.list, f)
        <5>1. e.type = "file_uploaded" /\ e.file = f
          BY <3>2, <4>2
        <5>2. seq[1] = Uploaded(f)
          BY <1>1, <5>1 DEF FileEvent, Uploaded, Event
        <5>3. (\E j \in 2..Len(seq) : seq[j] = Deleted(f)) \/ Vanishing(f)
          BY <1>2, <3>1, <5>2
        <5> QED BY <1>0, <1>1, <5>3, SMTT(30) DEF InBox
      <4> QED BY <4>1, <4>2
    <3>3. ASSUME NEW k \in 1..Len(rest), rest[k] = Uploaded(f)
          PROVE  (\E j \in (k + 1)..Len(rest) : rest[j] = Deleted(f)) \/ Vanishing(f)
      <4>1. k + 1 \in 1..Len(seq) /\ seq[k + 1] = Uploaded(f)
        BY <1>1, <1>2, <3>3
      <4>2. CASE \E j \in ((k + 1) + 1)..Len(seq) : seq[j] = Deleted(f)
        <5>1. PICK j \in ((k + 1) + 1)..Len(seq) : seq[j] = Deleted(f)
          BY <4>2
        <5>2. j \in 2..Len(seq) /\ j - 1 \in (k + 1)..Len(rest)
          BY <1>1, <5>1
        <5> QED BY <1>1, <5>1, <5>2
      <4> QED BY <3>1, <4>1, <4>2
    <3> QED BY <1>0, <3>2, <3>3 DEF LosesRow, Lists
  <2>3. ASSUME ~overlap, ~Turning PROVE ShowsCurrent(new)
    <3>1. ShowsCurrent(P)
      BY <2>0, <2>3
    <3>2. ASSUME NEW k \in 1..Len(rest), Turns(rest[k]), \A j \in (k + 1)..Len(rest) : ~Turns(rest[j])
          PROVE  rest[k].file = current
      <4>1. k + 1 \in 1..Len(seq) /\ seq[k + 1] = rest[k]
        BY <1>1, <1>2, <3>2
      <4>2. ASSUME NEW j \in ((k + 1) + 1)..Len(seq) PROVE ~Turns(seq[j])
        <5>1. j \in 2..Len(seq) /\ j - 1 \in (k + 1)..Len(rest)
          BY <1>1, <4>2
        <5> QED BY <1>1, <3>2, <5>1
      <4> QED BY <1>0, <3>1, <3>2, <4>1, <4>2 DEF ShowsCurrent
    <3>3. ASSUME \A k \in 1..Len(rest) : ~Turns(rest[k]) PROVE new.present = current
      <4>1. \A k \in 2..Len(seq) : ~Turns(seq[k])
        BY <1>1, <3>3
      <4>2. CASE Turns(e)
        <5>1. seq[1].file = current
          BY <1>0, <1>1, <1>2, <3>1, <4>1, <4>2 DEF ShowsCurrent
        <5> QED BY <1>1, <4>2, <5>1 DEF Turns
      <4>3. CASE ~Turns(e)
        <5>1. \A k \in 1..Len(seq) : ~Turns(seq[k])
          BY <1>1, <4>1, <4>3
        <5>2. P.present = current
          BY <1>0, <3>1, <5>1 DEF ShowsCurrent
        <5> QED BY <4>3, <5>2 DEF Turns
      <4> QED BY <4>2, <4>3
    <3> QED BY <1>0, <3>2, <3>3 DEF ShowsCurrent
  <2> QED BY <2>1, <2>2, <2>3 DEF Follows
<1>7. Follows(new)
  BY <1>6 DEF Follows
<1> QED BY <1>0, <1>3, <1>4, <1>7 DEF PageRight

LEMMA HearsFollows ==
  ASSUME FollowInv, NEW p \in FilePages, PageHears(p)
  PROVE  FollowInv'
<1> DEFINE P == filePage[p]
           e == Head(P.inbox)
           list == CASE e.type = "file_uploaded" -> addFileItem(P.list, e.file)
                     [] e.type = "file_deleted" -> removeFileItem(P.list, e.file)
                     [] OTHER -> P.list
           present == IF Turns(e) THEN e.file ELSE P.present
           new == [P EXCEPT !.inbox = Tail(@), !.list = list, !.present = present]
<1>1. /\ P \in RoomPage /\ PageRight(P) /\ P.conn = "on" /\ P.inbox # <<>>
      /\ P.inbox \in Seq(FileEvent) /\ P.list \in Seq(FileIds) /\ IsInjective(P.list)
      /\ used \subseteq FileIds
      /\ UNCHANGED <<files, used, current, fileReq, overlap, early>>
  BY DEF PageHears, FollowInv, FileTypeOK, RoomPage, PageRight
<1>2. e \in FileEvent /\ Tail(P.inbox) \in Seq(FileEvent) /\ e = P.inbox[1] /\ 1 \in 1..Len(P.inbox)
  BY <1>1, TakeEvent
<1>3. ~Turns(e) => e.file \in FileIds
  BY <1>1, <1>2 DEF PageRight, KnownFiles
<1>4. /\ list \in Seq(FileIds) /\ IsInjective(list)
      /\ e.type = "file_uploaded" => \A g : Lists(list, g) <=> g = e.file \/ Lists(P.list, g)
      /\ e.type = "file_deleted" => \A g : Lists(list, g) <=> g # e.file /\ Lists(P.list, g)
      /\ Turns(e) => list = P.list
  <2>1. CASE e.type = "file_uploaded"
    <3>1. list = addFileItem(P.list, e.file) /\ ~Turns(e)
      BY <2>1 DEF Turns
    <3> HIDE DEF list
    <3> QED BY <1>1, <1>3, <2>1, <3>1, Adds
  <2>2. CASE e.type = "file_deleted"
    <3>1. list = removeFileItem(P.list, e.file) /\ ~Turns(e)
      BY <2>2 DEF Turns
    <3> HIDE DEF list
    <3> QED BY <1>1, <2>2, <3>1, Removes
  <2>3. CASE e.type = "presentation_changed"
    BY <1>1, <2>3 DEF Turns
  <2> QED BY <1>2, <2>1, <2>2, <2>3 DEF FileEvent
<1>5. present \in FileId0
  BY <1>1, <1>2 DEF RoomPage, FileEvent
<1>6. filePage' = [filePage EXCEPT ![p] = new]
  <2> DEFINE next == CASE e.type = "file_uploaded" ->
                            [P EXCEPT !.inbox = Tail(@), !.list = addFileItem(@, e.file)]
                       [] e.type = "file_deleted" ->
                            [P EXCEPT !.inbox = Tail(@), !.list = removeFileItem(@, e.file)]
                       [] OTHER -> [P EXCEPT !.inbox = Tail(@), !.present = e.file]
  <2>1. filePage' = [filePage EXCEPT ![p] = next]
    BY DEF PageHears
  <2>2. CASE e.type = "file_uploaded"
    <3>1. list = addFileItem(P.list, e.file) /\ present = P.present
      BY <2>2 DEF Turns
    <3> HIDE DEF list, present
    <3>2. next = new
      BY <1>1, <2>2, <3>1 DEF RoomPage
    <3> QED BY <2>1, <3>2
  <2>3. CASE e.type = "file_deleted"
    <3>1. list = removeFileItem(P.list, e.file) /\ present = P.present
      BY <2>3 DEF Turns
    <3> HIDE DEF list, present
    <3>2. next = new
      BY <1>1, <2>3, <3>1 DEF RoomPage
    <3> QED BY <2>1, <3>2
  <2>4. CASE e.type = "presentation_changed"
    <3>1. list = P.list /\ present = e.file
      BY <2>4 DEF Turns
    <3> HIDE DEF list, present
    <3>2. next = new
      BY <1>1, <2>4, <3>1 DEF RoomPage
    <3> QED BY <2>1, <3>2
  <2> QED BY <1>2, <2>2, <2>3, <2>4 DEF FileEvent
<1>7. Turns(e) => present = e.file
  OBVIOUS
<1>8. ~Turns(e) => present = P.present
  OBVIOUS
<1> HIDE DEF list, present
<1>9. /\ new \in RoomPage /\ new.inbox = Tail(P.inbox) /\ new.list = list /\ new.present = present
      /\ new.conn = P.conn /\ new.missed = P.missed
  BY <1>1, <1>2, <1>4, <1>5 DEF RoomPage
<1> HIDE DEF new
<1>10. PageRight(new)
  <2>1. e.type \in {"file_uploaded", "file_deleted", "presentation_changed"}
    BY <1>2 DEF FileEvent
  <2> HIDE DEF P, e
  <2>2. e = Head(P.inbox)
    BY DEF e
  <2>3. CASE e.type = "file_uploaded"
    BY <1>1, <1>4, <1>8, <1>9, <2>2, <2>3, HeardPage DEF Turns
  <2>4. CASE e.type = "file_deleted"
    BY <1>1, <1>4, <1>8, <1>9, <2>2, <2>4, HeardPage DEF Turns
  <2>5. CASE e.type = "presentation_changed"
    BY <1>1, <1>4, <1>7, <1>9, <2>2, <2>5, HeardPage DEF Turns
  <2> QED BY <2>1, <2>3, <2>4, <2>5
<1> HIDE DEF P
<1> QED BY <1>1, <1>6, <1>9, <1>10, PageAlone

LEMMA ReplyFollows ==
  ASSUME FilesInv, FollowInv, NEW q \in FileReqs, FileReply(q)
  PROVE  FollowInv'
<1> DEFINE f == fileReq[q].file
           p == fileReq[q].page
           P == filePage[p]
           add == fileReq[q].op = "upload"
           list == IF add THEN addFileItem(P.list, f) ELSE removeFileItem(P.list, f)
           new == [P EXCEPT !.list = list]
<1>1. /\ fileReq[q] \in FileRequest /\ fileReq[q].op \in {"upload", "delete"} /\ fileReq[q].step = "done"
      /\ add => fileReq[q].shown
      /\ p \in FilePages /\ P \in RoomPage /\ PageRight(P)
      /\ P.list \in Seq(FileIds) /\ IsInjective(P.list)
      /\ fileReq' = [fileReq EXCEPT ![q] = FileIdle]
      /\ UNCHANGED <<files, used, current, overlap, early>>
  BY DEF FileReply, FollowInv, FileTypeOK, FileRequest, RoomPage, PageRight
<1>2. /\ add => f \in files \cup early
      /\ ~add => f \notin files \ early
      /\ f \in used /\ f \in FileIds
  BY <1>1 DEF FilesInv, OwnFile, FollowInv, RequestsRight, FileTypeOK, Placed
<1>3. filePage' = [filePage EXCEPT ![p] = new]
  <2>1. filePage' = [filePage EXCEPT ![p].list =
          IF add THEN addFileItem(filePage[p].list, f) ELSE removeFileItem(filePage[p].list, f)]
    BY DEF FileReply
  <2> QED BY <2>1
<1>4. /\ fileReq' \in [FileReqs -> FileRequest]
      /\ fileReq'[q] = FileIdle
      /\ \A u \in FileReqs : u # q => fileReq'[u] = fileReq[u]
  BY <1>1, IdleFile, ReqFacts
<1>5. RequestsRight'
  BY <1>1, IdleFile, GoesOn DEF Placed
<1>6. /\ \A g : Unannounced(g)' <=> Unannounced(g)
      /\ \A g : Vanishing(g)' <=> Vanishing(g)
      /\ Turning' <=> Turning
  BY <1>1, <1>4, IdleFile DEF Unannounced, Vanishing, Turning, Placed
<1>7. /\ list \in Seq(FileIds) /\ IsInjective(list)
      /\ add => \A g : Lists(list, g) <=> g = f \/ Lists(P.list, g)
      /\ ~add => \A g : Lists(list, g) <=> g # f /\ Lists(P.list, g)
  <2>1. CASE add
    <3>1. list = addFileItem(P.list, f)
      BY <2>1
    <3> HIDE DEF list, add, f, P
    <3> QED BY <1>1, <1>2, <2>1, <3>1, Adds
  <2>2. CASE ~add
    <3>1. list = removeFileItem(P.list, f)
      BY <2>2
    <3> HIDE DEF list, add, f, P
    <3> QED BY <1>1, <2>2, <3>1, Removes
  <2> QED BY <2>1, <2>2
<1> HIDE DEF list, add
<1>8. /\ new \in RoomPage /\ new.list = list /\ new.inbox = P.inbox /\ new.present = P.present
      /\ new.conn = P.conn /\ new.missed = P.missed
  BY <1>1, <1>7 DEF RoomPage
<1> HIDE DEF new, P, f, p
<1>9. KnownFiles(new)
  <2>1. KnownFiles(P)
    BY <1>1 DEF PageRight
  <2>2. \A g : Lists(P.list, g) => g \in used
    BY <2>1 DEF KnownFiles, Lists
  <2>3. \A g : Lists(list, g) => g \in used
    BY <1>2, <1>7, <2>2
  <2>4. \A k \in 1..Len(new.list) : new.list[k] \in used
    BY <1>8, <2>3 DEF Lists
  <2> QED BY <1>8, <2>1, <2>4 DEF KnownFiles
<1>10. Follows(new)
  <2> SUFFICES ASSUME P.conn # "closed", ~P.missed
               PROVE  /\ \A g \in files \ early : HasRow(new, g)
                      /\ \A g \in used \ (files \cup early) : LosesRow(new, g)
                      /\ ~overlap /\ ~Turning => ShowsCurrent(new)
    BY <1>8 DEF Follows
  <2>0. Follows(P)
    BY <1>1 DEF PageRight
  <2>1. ASSUME NEW g \in files \ early PROVE HasRow(new, g)
    <3>1. HasRow(P, g)
      BY <2>0, <2>1 DEF Follows
    <3>2. Lists(P.list, g) => Lists(list, g)
      BY <1>2, <1>7, <2>1
    <3> QED BY <1>8, <3>1, <3>2 DEF HasRow, InBox, Lists
  <2>2. ASSUME NEW g \in used \ (files \cup early) PROVE LosesRow(new, g)
    <3>1. LosesRow(P, g)
      BY <2>0, <2>2 DEF Follows
    <3>2. Lists(list, g) => Lists(P.list, g)
      BY <1>2, <1>7, <2>2
    <3> QED BY <1>8, <3>1, <3>2 DEF LosesRow, InBox, Lists
  <2>3. ShowsCurrent(P) => ShowsCurrent(new)
    BY <1>8 DEF ShowsCurrent
  <2> QED BY <2>0, <2>1, <2>2, <2>3 DEF Follows
<1>11. PageRight(new)
  BY <1>1, <1>7, <1>8, <1>9, <1>10 DEF PageRight
<1> QED BY <1>1, <1>3, <1>4, <1>5, <1>6, <1>8, <1>11, OnePage

-----------------------------------------------------------------------------
LEMMA FollowNext == FilesInv /\ FollowInv /\ [FileNext]_fileVars => FollowInv'
<1> SUFFICES ASSUME FilesInv, FollowInv, [FileNext]_fileVars PROVE FollowInv'
  OBVIOUS
<1>1. CASE UNCHANGED fileVars
  <2>1. \A p \in FilePages : PageRight(filePage[p])'
    <3>1. /\ \A f : Unannounced(f)' <=> Unannounced(f)
          /\ \A f : Vanishing(f)' <=> Vanishing(f)
          /\ Turning' <=> Turning
      BY <1>1 DEF fileVars, Unannounced, Vanishing, Turning
    <3>2. UNCHANGED <<files, used, current, fileReq, filePage, overlap, early>>
      BY <1>1 DEF fileVars
    <3> QED BY <3>1, <3>2, PagesKeep
  <2>2. RequestsRight' /\ FileTypeOK' /\ overlap' \in BOOLEAN
    BY <1>1 DEF fileVars, FollowInv, RequestsRight, FileTypeOK, Presenting
  <2> QED BY <2>1, <2>2 DEF FollowInv
<1>2. CASE FileNext
  BY <1>2, CountFollows, CreateFollows, ConvertFollows, UploadAnnounceFollows, PresentFollows,
     PresentAnnounceFollows, DeleteFollows, DeleteAnnounceFollows, ReplyFollows, ReqBeginFollows,
     LoadsFollows, JoinFollows, HearsFollows DEF FileNext
<1> QED BY <1>1, <1>2

\* What the pages still have to hear makes up for what their list and their presentation
\* lack: the inductive invariant of the two theorems below.
THEOREM FollowInductive == FileSpec => [](FilesInv /\ FollowInv)
  BY FilesInvInit, FilesInvNext, FollowInit, FollowNext, PTL DEF FileSpec

\* Rows, requests and pages are well formed, and what the classroom presents is a file
\* that is there (SET_NULL).
THEOREM FilesTypeCorrect == FileSpec => []FileTypeOK
<1>1. FollowInv => FileTypeOK
  BY DEF FollowInv
<1> QED BY <1>1, FollowInductive, PTL

\* addFileItem, removeFileItem and presentation_changed keep every page right: one that
\* missed nothing and has heard everything lists each file once and no other (deleted
\* before the answer to their upload excepted), and presents what the classroom presents
\* unless two requests changed that at once.
THEOREM PagesListTheFiles == FileSpec => []PageFollowsFiles
<1>1. FilesInv /\ FollowInv => PageFollowsFiles
  <2> SUFFICES ASSUME FollowInv, NEW p \in FilePages, filePage[p].conn = "on", filePage[p].inbox = <<>>,
                      ~filePage[p].missed, \A q \in FileReqs : fileReq[q].op = "idle"
               PROVE  /\ IsInjective(filePage[p].list)
                      /\ ToSet(filePage[p].list) \ early = files \ early
                      /\ ~overlap => filePage[p].present = current
    BY DEF PageFollowsFiles
  <2> DEFINE P == filePage[p]
  <2>1. /\ P \in RoomPage /\ PageRight(P) /\ P.list \in Seq(FileIds) /\ files \subseteq used
        /\ P.conn = "on" /\ ~P.missed /\ Len(P.inbox) = 0
    <3>1. Len(<<>>) = 0
      OBVIOUS
    <3> QED BY <3>1 DEF FollowInv, FileTypeOK, RoomPage
  <2>2. (\A f : ~Unannounced(f) /\ ~Vanishing(f)) /\ ~Turning
    BY DEF Unannounced, Vanishing, Turning, Placed
  <2> HIDE DEF P
  <2>3. Follows(P) /\ KnownFiles(P) /\ IsInjective(P.list)
    BY <2>1 DEF PageRight
  <2>4. \A f : f \in ToSet(P.list) <=> Lists(P.list, f)
    BY <2>1, InList
  <2>5. ~overlap => P.present = current
    BY <2>1, <2>2, <2>3 DEF Follows, ShowsCurrent
  <2>6. ASSUME NEW f \in files \ early PROVE Lists(P.list, f)
    BY <2>1, <2>2, <2>3, <2>6 DEF Follows, HasRow, InBox, Lists
  <2>7. ASSUME NEW f, Lists(P.list, f), f \notin early PROVE f \in files
    <3>1. f \in used
      BY <2>3, <2>7 DEF KnownFiles, Lists
    <3>2. f \notin files => LosesRow(P, f)
      BY <2>1, <2>3, <2>7, <3>1 DEF Follows
    <3> QED BY <2>1, <2>2, <2>7, <3>2 DEF LosesRow, InBox, Lists
  <2>8. ToSet(P.list) \ early = files \ early
    BY <2>4, <2>6, <2>7
  <2> QED BY <2>3, <2>5, <2>8 DEF P
<1> QED BY <1>1, FollowInductive, PTL

-----------------------------------------------------------------------------
(* The viewer: it ends up with the page it was told to show, or with the   *)
(* panel it should get, for any files, documents and number of renders.    *)

Fresh(r) == r.gen = renderGen

\* One render to a generation, and one at most that paints.
RendersApart ==
  /\ \A r \in renders : r.gen <= renderGen
  /\ \A r, o \in renders : r.gen = o.gen => r = o
  /\ \A r, o \in renders : r.at = "paint" /\ o.at = "paint" => r = o

\* The render of this generation works on what is shown.
FreshOnSlide ==
  \A r \in renders : Fresh(r) /\ slide.file # "none" =>
    /\ r.file = slide.file
    /\ r.at \in {"getPage", "paint"} => r.page = slide.page
    /\ r.at = "decode" => slide.page = 1

\* The document a render works with is of its file; if it has failed, it did so since; if
\* it was destroyed, that was by the load of another file, in flight when the render began.
OwnDoc(r) ==
  /\ r.doc \in DOMAIN docs /\ docs[r.doc].file = r.file
  /\ docs[r.doc].state = "failed" => r.file \in failed
  /\ docs[r.doc].state = "destroyed" => "load" \in amid
  /\ "load" \notin amid => ~LoadsOther(r.file)

\* What can stop the render of this generation.
FreshFounded ==
  \A r \in renders : Fresh(r) =>
    /\ FileKind[r.file] # "other"
    /\ r.at # "decode" => OwnDoc(r)
    /\ "paint" \notin amid => \A o \in renders : o.at = "paint" => Fresh(o)

\* The panel that is up has its reason.
Justified ==
  slide.file # "none" =>
    /\ panel = "download" <=> FileKind[slide.file] = "other"
    /\ panel = "failed" => slide.file \in failed
    /\ panel = "destroyed" => "load" \in amid
    /\ panel = "refused" \/ overdrawn => "paint" \in amid

\* When it has ended, what is shown is drawn, or a panel is, and nobody paints over it.
Drawn ==
  slide.file # "none" /\ panel = "none" /\ ~overdrawn /\ (\A r \in renders : ~Fresh(r)) =>
    canvas = slide /\ \A r \in renders : r.at # "paint"

SlideInv ==
  /\ SlideTypeOK
  /\ renderGen \in Nat /\ overdrawn \in BOOLEAN
  /\ pdfLoading # 0 => docs[pdfLoading].state = "loading"
  /\ RendersApart /\ FreshOnSlide /\ FreshFounded /\ Justified /\ Drawn

-----------------------------------------------------------------------------
LEMMA SlideInvInit == SlideInit => SlideInv
<1> SUFFICES ASSUME SlideInit PROVE SlideInv
  OBVIOUS
<1>1. <<>> \in Seq(Doc) /\ Len(<<>>) = 0
  OBVIOUS
<1>2. Nothing \in Drawing /\ Nothing.file = "none"
  BY DEF Nothing, Drawing
<1>3. SlideTypeOK
  BY <1>1, <1>2 DEF SlideInit, SlideTypeOK, Panel
<1> QED BY <1>2, <1>3
    DEF SlideInit, SlideInv, RendersApart, FreshOnSlide, FreshFounded, Justified, Drawn

\* The documents, when a load begins.
LEMMA AsksFor ==
  ASSUME SlideTypeOK, NEW f \in SlideFiles, docs' = Append(docs, [file |-> f, state |-> "loading"])
  PROVE  /\ docs' \in Seq(Doc) /\ Len(docs') = Len(docs) + 1 /\ Len(docs) \in Nat
         /\ pdfCache # 0 => docs'[pdfCache] = docs[pdfCache]
         /\ docs'[Len(docs) + 1] = [file |-> f, state |-> "loading"]
         /\ \A n \in 1..Len(docs) : docs'[n] = docs[n]
<1> DEFINE d == [file |-> f, state |-> "loading"]
<1>1. d \in Doc /\ docs \in Seq(Doc) /\ docs' = Append(docs, d) /\ pdfCache \in 0..Len(docs)
  BY DEF Doc, SlideTypeOK
<1> HIDE DEF d
<1>2. /\ docs' \in Seq(Doc) /\ Len(docs') = Len(docs) + 1 /\ Len(docs) \in Nat
      /\ docs'[Len(docs) + 1] = d
      /\ \A n \in 1..Len(docs) : docs'[n] = docs[n]
  BY <1>1
<1> QED BY <1>1, <1>2 DEF d

LEMMA StartInv ==
  ASSUME SlideInv, NEW f \in SlideFiles, NEW p \in Nat \ {0},
         renderCurrent(f), slide' = [file |-> f, page |-> PageOf(f, p)]
  PROVE  SlideInv'
<1>1. /\ renderGen' = renderGen + 1 /\ renderGen \in Nat
      /\ overdrawn' = FALSE /\ failed' = {}
      /\ panel' = IF FileKind[f] = "other" THEN "download" ELSE "none"
      /\ UNCHANGED <<pdfCache, canvas>>
      /\ SlideTypeOK
  BY DEF renderCurrent, SlideInv
<1>a. /\ amid' \subseteq {"paint", "load"}
      /\ "paint" \notin amid' => ~Painting
      /\ "load" \notin amid' => ~LoadsOther(f)
  BY DEF renderCurrent
<1>d. renderGen' \in Nat
  BY <1>1
<1>f. overdrawn' \in BOOLEAN
  BY <1>1, Zenon
<1>e. panel' \in Panel
  <2>1. panel' = "download" \/ panel' = "none"
    BY <1>1
  <2> QED BY <2>1 DEF Panel
<1>0. renderGen' \in Nat /\ panel' \in Panel /\ overdrawn' \in BOOLEAN
  BY <1>d, <1>e, <1>f
<1>2. /\ slide' \in Drawing /\ slide'.file = f
      /\ FileKind[f] = "image" => slide'.page = 1
  BY DEF Drawing, PageOf
<1>b. Justified'
  BY <1>1, <1>2 DEF Justified
<1>c. renders \subseteq Render /\ \A o \in renders : o.gen \in Nat /\ o.gen <= renderGen /\ o.gen # renderGen + 1
  BY <1>1 DEF SlideInv, SlideTypeOK, RendersApart, Render
<1>3. ASSUME NEW n \in Nat, NEW at \in {"load", "decode"}, Starts(f, n, at),
             at = "decode" => FileKind[f] = "image", FileKind[f] # "other",
             at = "load" => /\ n \in DOMAIN docs' /\ docs'[n].file = f
                            /\ docs'[n].state \in {"ready", "loading"},
             LoadsOther(f)' => LoadsOther(f)
      PROVE  renders' \subseteq Render /\ RendersApart' /\ FreshOnSlide' /\ FreshFounded' /\ Drawn'
  <2>0. [gen |-> renderGen + 1, file |-> f, doc |-> n, page |-> 1, at |-> at] \in Render
    BY <1>1, <1>3 DEF Render
  <2>1. PICK r \in Render : /\ r.gen = renderGen + 1 /\ r.file = f /\ r.at = at /\ r.doc = n
                            /\ renders' = renders \cup {r}
    BY <2>0, <1>3 DEF Starts
  <2>2. r.at \notin {"paint", "getPage"}
    BY <2>1, <1>3
  <2>3. RendersApart'
    BY <1>1, <1>c, <2>1, <2>2 DEF SlideInv, RendersApart
  <2>4. FreshOnSlide'
    BY <1>1, <1>2, <1>3, <1>c, <2>1, <2>2 DEF FreshOnSlide, Fresh
  <2>5. Drawn'
    BY <1>1, <2>1, <2>2 DEF Drawn, Fresh
  <2>6. \A o \in renders' : Fresh(o)' => o = r
    BY <1>1, <1>c, <2>1, <2>2 DEF Fresh
  <2>7. ASSUME r.at # "decode" PROVE OwnDoc(r)'
    <3>1. at = "load"
      BY <1>3, <2>1, <2>7
    <3>2. r.doc \in DOMAIN docs' /\ docs'[r.doc].file = r.file
      BY <1>3, <2>1, <3>1
    <3>3. docs'[r.doc].state # "failed" /\ docs'[r.doc].state # "destroyed"
      BY <1>3, <2>1, <3>1
    <3>4. "load" \notin amid' => ~LoadsOther(r.file)'
      BY <1>3, <1>a, <2>1
    <3> QED BY <3>2, <3>3, <3>4 DEF OwnDoc
  <2>8. "paint" \notin amid' => \A o \in renders' : o.at # "paint"
    BY <1>a, <2>1, <2>2 DEF Painting
  <2>9. FreshFounded'
    <3> SUFFICES ASSUME NEW o \in renders', Fresh(o)'
                 PROVE  /\ FileKind[o.file] # "other"
                        /\ o.at # "decode" => OwnDoc(o)'
                        /\ "paint" \notin amid' => \A q \in renders' : q.at = "paint" => Fresh(q)'
      BY DEF FreshFounded
    <3>1. o = r
      BY <2>6
    <3>2. FileKind[o.file] # "other"
      BY <1>3, <2>1, <3>1
    <3>3. o.at # "decode" => OwnDoc(o)'
      BY <2>7, <3>1
    <3> QED BY <2>8, <3>2, <3>3
  <2> QED BY <1>c, <2>1, <2>3, <2>4, <2>5, <2>9
<1>4. CASE FileKind[f] = "other" /\ UNCHANGED <<renders, docs, pdfLoading>>
  <2>2. RendersApart' /\ FreshOnSlide' /\ FreshFounded' /\ Drawn'
    BY <1>1, <1>4, <1>c DEF SlideInv, RendersApart, FreshOnSlide, FreshFounded, Drawn, Fresh
  <2>3. SlideTypeOK'
    BY <1>0, <1>1, <1>2, <1>4, <1>a DEF SlideTypeOK
  <2> QED BY <1>0, <1>4, <1>b, <2>2, <2>3 DEF SlideInv
<1>5. CASE FileKind[f] = "image" /\ Starts(f, 0, "decode") /\ UNCHANGED <<docs, pdfLoading>>
  <2>0. LoadsOther(f)' => LoadsOther(f)
    BY <1>5 DEF LoadsOther
  <2>1. renders' \subseteq Render /\ RendersApart' /\ FreshOnSlide' /\ FreshFounded' /\ Drawn'
    BY <1>3, <1>5, <2>0
  <2>2. SlideTypeOK'
    BY <1>0, <1>1, <1>2, <1>5, <1>a, <2>1 DEF SlideTypeOK
  <2> QED BY <1>0, <1>5, <1>b, <2>1, <2>2 DEF SlideInv
<1>6. CASE FileKind[f] = "pdf" /\ _loadPdfDoc(f)
  <2>1. CASE \E n \in DocFor(f) : Starts(f, n, "load") /\ UNCHANGED <<docs, pdfLoading>>
    <3>1. PICK n \in DocFor(f) : Starts(f, n, "load") /\ UNCHANGED <<docs, pdfLoading>>
      BY <2>1
    <3>2. /\ n \in DOMAIN docs' /\ docs'[n].file = f /\ docs'[n].state \in {"ready", "loading"}
          /\ n \in Nat
      BY <1>1, <3>1 DEF DocFor, SlideTypeOK, SlideInv
    <3>0. LoadsOther(f)' => LoadsOther(f)
      BY <3>1 DEF LoadsOther
    <3>3. renders' \subseteq Render /\ RendersApart' /\ FreshOnSlide' /\ FreshFounded' /\ Drawn'
      BY <1>3, <1>6, <3>0, <3>1, <3>2
    <3>4. SlideTypeOK'
      BY <1>0, <1>1, <1>2, <1>a, <3>1, <3>3 DEF SlideTypeOK
    <3> QED BY <1>0, <1>b, <3>1, <3>3, <3>4 DEF SlideInv
  <2>2. CASE /\ docs' = Append(docs, [file |-> f, state |-> "loading"])
             /\ pdfLoading' = Len(docs')
             /\ Starts(f, Len(docs) + 1, "load")
    <3>1. /\ docs' \in Seq(Doc) /\ Len(docs') = Len(docs) + 1 /\ Len(docs) \in Nat
          /\ pdfCache # 0 => docs'[pdfCache] = docs[pdfCache]
          /\ docs'[Len(docs) + 1] = [file |-> f, state |-> "loading"]
          /\ \A n \in 1..Len(docs) : docs'[n] = docs[n]
      BY <1>1, <2>2, AsksFor
    <3>2. /\ DOMAIN docs' = 1..(Len(docs) + 1) /\ DOMAIN docs = 1..Len(docs)
          /\ docs'[Len(docs) + 1].file = f /\ docs'[Len(docs) + 1].state = "loading"
          /\ Len(docs) + 1 \in Nat /\ Len(docs) + 1 \in 1..(Len(docs) + 1)
          /\ \A n \in 1..(Len(docs) + 1) : n = Len(docs) + 1 \/ n \in 1..Len(docs)
      BY <1>1, <3>1 DEF SlideTypeOK
    <3>0. LoadsOther(f)' => LoadsOther(f)
      <4> SUFFICES ASSUME NEW n \in DOMAIN docs', docs'[n].state = "loading", docs'[n].file # f
                   PROVE  LoadsOther(f)
        BY DEF LoadsOther
      <4>1. n \in DOMAIN docs /\ docs'[n] = docs[n]
        BY <3>1, <3>2
      <4> QED BY <4>1 DEF LoadsOther
    <3>3. renders' \subseteq Render /\ RendersApart' /\ FreshOnSlide' /\ FreshFounded' /\ Drawn'
      BY <1>3, <1>6, <2>2, <3>0, <3>2
    <3>4. SlideTypeOK'
      BY <1>0, <1>1, <1>2, <1>a, <2>2, <3>1, <3>3 DEF SlideTypeOK
    <3>5. pdfLoading' = Len(docs) + 1
      BY <2>2, <3>1
    <3> QED BY <1>0, <1>b, <3>2, <3>3, <3>4, <3>5 DEF SlideInv
  <2> QED BY <1>6, <2>1, <2>2 DEF _loadPdfDoc
<1> QED BY <1>4, <1>5, <1>6 DEF renderCurrent

\* Documents come and go: renders look at them only when they go on.
LEMMA DocsInv ==
  ASSUME SlideInv, NEW n \in DOMAIN docs, LoadReady(n) \/ LoadFails(n)
  PROVE  SlideInv'
<1>1. /\ docs \in Seq(Doc) /\ DOMAIN docs = 1..Len(docs) /\ Len(docs) \in Nat
      /\ n \in 1..Len(docs) /\ docs[n].state = "loading"
      /\ pdfCache \in 0..Len(docs) /\ pdfLoading \in 0..Len(docs)
      /\ pdfCache # 0 => docs[pdfCache].state = "ready"
      /\ pdfLoading # 0 => docs[pdfLoading].state = "loading"
      /\ UNCHANGED <<slide, renderGen, renders, canvas, panel, overdrawn, amid>>
      /\ pdfLoading' = IF pdfLoading # 0 /\ docs[pdfLoading].file = docs[n].file THEN 0 ELSE pdfLoading
  BY DEF SlideInv, SlideTypeOK, LoadReady, LoadFails
<1>2. RendersApart' /\ FreshOnSlide' /\ Drawn'
  BY <1>1 DEF SlideInv, RendersApart, FreshOnSlide, Drawn, Fresh
<1>3. ASSUME docs' \in Seq(Doc), Len(docs') = Len(docs), pdfCache' \in 0..Len(docs),
             pdfCache' # 0 => docs'[pdfCache'].state = "ready",
             failed \subseteq failed', failed' \subseteq SlideFiles,
             \A m \in 1..Len(docs) :
               /\ docs'[m].file = docs[m].file
               /\ docs'[m].state = "loading" => docs[m].state = "loading"
               /\ m # n /\ m # pdfCache => docs'[m] = docs[m]
               /\ docs'[m].state = "failed" => docs[m].state = "failed" \/ docs[m].file \in failed'
               /\ docs'[m].state = "destroyed" =>
                    docs[m].state = "destroyed" \/ docs[m].file # docs[n].file
      PROVE  SlideInv'
  <2>1. SlideTypeOK'
    BY <1>1, <1>3 DEF SlideInv, SlideTypeOK
  <2>2. pdfLoading' # 0 => docs'[pdfLoading'].state = "loading"
    BY <1>1, <1>3
  <2>3. ASSUME NEW f, LoadsOther(f)' PROVE LoadsOther(f)
    BY <1>1, <1>3, <2>3 DEF LoadsOther
  <2>4. ASSUME NEW r \in renders, OwnDoc(r) PROVE OwnDoc(r)'
    <3>1. r.doc \in 1..Len(docs) /\ DOMAIN docs' = 1..Len(docs) /\ docs[r.doc].file = r.file
      BY <1>1, <1>3, <2>4 DEF OwnDoc
    <3>2. docs'[r.doc].state = "failed" => r.file \in failed'
      BY <1>3, <2>4, <3>1 DEF OwnDoc
    <3>3. docs[n].file # r.file => "load" \in amid
      BY <1>1, <2>4 DEF OwnDoc, LoadsOther
    <3>4. docs'[r.doc].state = "destroyed" => "load" \in amid
      BY <1>3, <2>4, <3>1, <3>3 DEF OwnDoc
    <3> QED BY <1>1, <1>3, <2>3, <2>4, <3>1, <3>2, <3>4 DEF OwnDoc
  <2>5. FreshFounded'
    BY <1>1, <2>4 DEF SlideInv, FreshFounded, Fresh
  <2>6. Justified'
    BY <1>1, <1>3 DEF SlideInv, Justified
  <2> QED BY <1>1, <1>2, <2>1, <2>2, <2>5, <2>6 DEF SlideInv
<1>4. CASE LoadReady(n)
  <2> DEFINE next(m) == CASE m = n -> [docs[m] EXCEPT !.state = "ready"]
         [] m # n /\ m = pdfCache /\ docs[m].file # docs[n].file -> [docs[m] EXCEPT !.state = "destroyed"]
         [] OTHER -> docs[m]
  <2>0. docs[n] \in Doc /\ \A m \in 1..Len(docs) : docs[m] \in Doc
    BY <1>1
  <2>1. docs' = [m \in 1..Len(docs) |-> next(m)] /\ pdfCache' = n /\ failed' = failed
    BY <1>1, <1>4 DEF LoadReady
  <2>2. ASSUME NEW m \in 1..Len(docs)
        PROVE  /\ next(m) \in Doc /\ next(m).file = docs[m].file
               /\ m = n => next(m).state = "ready"
               /\ next(m).state = docs[m].state \/ next(m).state = "ready"
                    \/ (next(m).state = "destroyed" /\ docs[m].file # docs[n].file)
               /\ m # n /\ m # pdfCache => next(m) = docs[m]
    <3>1. docs[m] \in Doc
      BY <2>0
    <3>2. CASE m = n
      BY <3>1, <3>2 DEF Doc
    <3>3. CASE m # n /\ m = pdfCache /\ docs[m].file # docs[n].file
      BY <3>1, <3>3 DEF Doc
    <3>4. CASE m # n /\ ~(m = pdfCache /\ docs[m].file # docs[n].file)
      BY <3>1, <3>4
    <3> QED BY <3>2, <3>3, <3>4
  <2> HIDE DEF next
  <2>4. docs' \in Seq(Doc) /\ Len(docs') = Len(docs) /\ \A m \in 1..Len(docs) : docs'[m] = next(m)
    BY <1>1, <2>1, <2>2
  <2>5. failed' \subseteq SlideFiles
    BY <2>1 DEF SlideInv, SlideTypeOK
  <2> QED BY <1>1, <1>3, <2>1, <2>2, <2>4, <2>5
<1>5. CASE LoadFails(n)
  <2> DEFINE d == [docs[n] EXCEPT !.state = "failed"]
  <2>0. docs[n] \in Doc
    BY <1>1
  <2>1. /\ d \in Doc /\ d.file = docs[n].file /\ d.state = "failed"
        /\ docs' = [docs EXCEPT ![n] = d] /\ pdfCache' = pdfCache /\ n # pdfCache
        /\ failed' = failed \cup {docs[n].file} /\ docs[n].file \in SlideFiles
    BY <1>1, <1>5, <2>0 DEF Doc, LoadFails
  <2> HIDE DEF d
  <2>2. /\ docs' \in Seq(Doc) /\ Len(docs') = Len(docs) /\ (pdfCache # 0 => docs'[pdfCache] = docs[pdfCache])
        /\ \A m \in 1..Len(docs) : docs'[m] = IF m = n THEN d ELSE docs[m]
    BY <1>1, <2>1
  <2>3. failed' \subseteq SlideFiles
    BY <2>1 DEF SlideInv, SlideTypeOK
  <2> QED BY <1>1, <1>3, <2>1, <2>2, <2>3
<1> QED BY <1>4, <1>5

\* A render that ends with an error it is entitled to, or leaves the canvas as it should be.
LEMMA EndsInv ==
  ASSUME SlideInv, NEW r \in renders, NEW error \in Panel \ {"download"}, Ends(r, error),
         UNCHANGED <<slide, renderGen, pdfCache, pdfLoading, docs, amid>>,
         canvas' \in Drawing, overdrawn' \in BOOLEAN,
         failed \subseteq failed', failed' \subseteq SlideFiles,
         Fresh(r) /\ error = "failed" => r.file \in failed',
         Fresh(r) /\ error = "destroyed" => "load" \in amid,
         (Fresh(r) /\ error = "refused") \/ (overdrawn' /\ ~overdrawn) => "paint" \in amid,
         Drawn'
  PROVE  SlideInv'
<1>1. /\ r \in Render /\ SlideTypeOK /\ renders \subseteq Render /\ panel \in Panel
      /\ renders' = renders \ {r}
      /\ panel' = IF error = "none" \/ ~Fresh(r) THEN panel ELSE error
  BY DEF SlideInv, SlideTypeOK, Ends, Stale, Fresh
<1>2. SlideTypeOK'
  BY <1>1 DEF SlideTypeOK
<1>3. RendersApart' /\ FreshOnSlide'
  BY <1>1 DEF SlideInv, RendersApart, FreshOnSlide, Fresh
<1>4. \A o \in renders : OwnDoc(o) => OwnDoc(o)'
  BY DEF OwnDoc, LoadsOther
<1>5. FreshFounded'
  BY <1>1, <1>4 DEF SlideInv, FreshFounded, Fresh
<1>6. Justified'
  <2>1. Fresh(r) /\ slide.file # "none" => r.file = slide.file /\ FileKind[r.file] # "other"
    BY DEF SlideInv, FreshOnSlide, FreshFounded
  <2>2. error = "none" \/ ~Fresh(r) => Justified'
    BY <1>1 DEF SlideInv, Justified
  <2>3. error # "none" /\ Fresh(r) => Justified'
    BY <1>1, <2>1 DEF SlideInv, Justified, Panel
  <2> QED BY <2>2, <2>3
<1> QED BY <1>2, <1>3, <1>5, <1>6 DEF SlideInv

LEMMA GoesOnInv ==
  ASSUME SlideInv, NEW r \in renders, HasDoc(r) \/ HasPage(r)
  PROVE  SlideInv'
<1>1. /\ r \in Render /\ r.gen \in Nat /\ SlideTypeOK /\ renders \subseteq Render
      /\ UNCHANGED <<renderGen, pdfCache, pdfLoading, docs, canvas, overdrawn, amid, failed>>
      /\ slide \in Drawing /\ renderGen \in Nat /\ canvas \in Drawing
      /\ overdrawn \in BOOLEAN /\ failed \subseteq SlideFiles
  BY DEF SlideInv, SlideTypeOK, HasDoc, HasPage, Render
\* it gives up: a render of this generation with an error
<1>2. ASSUME NEW error \in Panel \ {"download"}, Ends(r, error), UNCHANGED slide,
             Fresh(r) => error # "none",
             Fresh(r) /\ error = "failed" => r.file \in failed,
             Fresh(r) /\ error = "destroyed" => "load" \in amid,
             Fresh(r) /\ error = "refused" => "paint" \in amid
      PROVE  SlideInv'
  <2>1. renders' = renders \ {r} /\ panel' = IF error = "none" \/ ~Fresh(r) THEN panel ELSE error
    BY <1>2 DEF Ends, Fresh, Stale
  <2>2. Drawn'
    BY <1>1, <1>2, <2>1 DEF SlideInv, Drawn, Fresh
  <2> QED BY <1>1, <1>2, <2>2, EndsInv
\* it goes on, being of this generation
<1>3. ASSUME NEW new \in Render, renders' = (renders \ {r}) \cup {new}, Fresh(r), r.at # "decode",
             new.gen = r.gen, new.file = r.file, new.doc = r.doc, UNCHANGED panel,
             slide' \in Drawing, slide'.file = slide.file,
             \/ new.at = "getPage" /\ new.page = slide'.page
             \/ /\ new.at = "paint" /\ new.page = r.page /\ r.at = "getPage" /\ slide' = slide
                /\ \A o \in renders : o.at # "paint"
      PROVE  SlideInv'
  <2>1. SlideTypeOK'
    BY <1>1, <1>3 DEF SlideTypeOK
  <2>2. RendersApart'
    BY <1>1, <1>3 DEF SlideInv, RendersApart
  <2>3. \A o \in renders : Fresh(o) => o = r
    BY <1>3 DEF SlideInv, RendersApart, Fresh
  <2>4. FreshOnSlide'
    BY <1>1, <1>3, <2>3 DEF SlideInv, FreshOnSlide, Fresh
  <2>5. Drawn'
    BY <1>1, <1>3 DEF Drawn, Fresh
  <2>6. OwnDoc(r) => OwnDoc(new)'
    BY <1>1, <1>3 DEF OwnDoc, LoadsOther
  <2>7. FreshFounded'
    BY <1>1, <1>3, <2>3, <2>6 DEF SlideInv, FreshFounded, Fresh
  <2>8. Justified'
    BY <1>1, <1>3 DEF SlideInv, Justified
  <2> QED BY <1>1, <1>3, <2>1, <2>2, <2>4, <2>5, <2>7, <2>8 DEF SlideInv
<1>4. CASE HasDoc(r)
  <2> DEFINE page == IF slide.page > NumPages[r.file] THEN NumPages[r.file] ELSE slide.page
             new == [r EXCEPT !.at = "getPage", !.page = page]
             error == IF docs[r.doc].state = "failed" THEN "failed" ELSE "none"
  <2>1. page \in Nat \ {0} /\ r.at = "load"
    BY <1>1, <1>4, SlideAssumption DEF Render, Drawing, HasDoc
  <2>2. CASE Ends(r, error) /\ UNCHANGED slide /\ (docs[r.doc].state = "failed" \/ Stale(r))
    <3>1. error \in Panel \ {"download"}
      BY DEF Panel
    <3>2. Fresh(r) => error = "failed" /\ r.file \in failed
      BY <2>1, <2>2 DEF Fresh, Stale, SlideInv, FreshFounded, OwnDoc
    <3> QED BY <1>2, <2>2, <3>1, <3>2
  <2>3. CASE /\ renders' = (renders \ {r}) \cup {new} /\ slide' = [slide EXCEPT !.page = page]
             /\ UNCHANGED panel /\ ~Stale(r)
    <3>1. /\ new \in Render /\ new.gen = r.gen /\ new.file = r.file /\ new.at = "getPage" /\ new.page = page
          /\ new.doc = r.doc
      BY <1>1, <2>1 DEF Render
    <3>2. slide' \in Drawing /\ slide'.file = slide.file /\ slide'.page = page
      BY <1>1, <2>1, <2>3 DEF Drawing
    <3>3. Fresh(r)
      BY <2>3 DEF Stale, Fresh
    <3>4. new.page = slide'.page /\ renders' = (renders \ {r}) \cup {new} /\ UNCHANGED panel
      BY <2>3, <3>1, <3>2
    <3> HIDE DEF new, page
    <3> QED BY <1>3, <2>1, <3>1, <3>2, <3>3, <3>4
  <2> QED BY <1>4, <2>2, <2>3 DEF HasDoc
<1>5. CASE HasPage(r)
  <2> DEFINE new == [r EXCEPT !.at = "paint"]
  <2>0. UNCHANGED slide /\ r.at = "getPage"
    BY <1>5 DEF HasPage
  <2>a. {"destroyed", "none", "refused"} \subseteq Panel \ {"download"}
    BY DEF Panel
  <2>1. CASE Ends(r, "destroyed") /\ docs[r.doc].state = "destroyed"
    <3>1. Fresh(r) => "load" \in amid
      BY <2>0, <2>1 DEF SlideInv, FreshFounded, OwnDoc
    <3> QED BY <1>2, <2>0, <2>1, <2>a, <3>1
  <2>2. CASE Ends(r, "none") /\ Stale(r)
    BY <1>2, <2>0, <2>2, <2>a DEF Stale, Fresh
  <2>b. CASE Ends(r, "refused") /\ Painting
    <3>1. Fresh(r) => "paint" \in amid
      <4>1. PICK o \in renders : o.at = "paint"
        BY <2>b DEF Painting
      <4>2. Fresh(r) /\ Fresh(o) => o = r
        BY DEF SlideInv, RendersApart, Fresh
      <4> QED BY <2>0, <4>1, <4>2 DEF SlideInv, FreshFounded
    <3> QED BY <1>2, <2>0, <2>b, <2>a, <3>1
  <2>3. CASE /\ renders' = (renders \ {r}) \cup {new} /\ UNCHANGED panel
             /\ ~Stale(r) /\ ~Painting
    <3>1. new \in Render /\ new.gen = r.gen /\ new.file = r.file /\ new.at = "paint" /\ new.page = r.page
          /\ new.doc = r.doc
      BY <1>1 DEF Render
    <3>2. Fresh(r) /\ \A o \in renders : o.at # "paint"
      BY <2>3 DEF Stale, Fresh, Painting
    <3> HIDE DEF new
    <3> QED BY <1>1, <1>3, <2>0, <2>3, <3>1, <3>2
  <2>4. docs[r.doc].state # "destroyed" /\ ~Stale(r) /\ ~Painting =>
          renders' = (renders \ {r}) \cup {new} /\ UNCHANGED panel
    BY <1>5 DEF HasPage
  <2>5. docs[r.doc].state # "destroyed" /\ ~Stale(r) /\ Painting => Ends(r, "refused")
    BY <1>5 DEF HasPage
  <2>6. docs[r.doc].state # "destroyed" /\ Stale(r) => Ends(r, "none")
    BY <1>5 DEF HasPage
  <2>7. docs[r.doc].state = "destroyed" => Ends(r, "destroyed")
    BY <1>5 DEF HasPage
  <2> HIDE DEF new
  <2> QED BY <2>1, <2>2, <2>b, <2>3, <2>4, <2>5, <2>6, <2>7
<1> QED BY <1>4, <1>5

LEMMA DrawsInv ==
  ASSUME SlideInv, NEW r \in renders, Painted(r) \/ Decoded(r) \/ DecodeFails(r)
  PROVE  SlideInv'
<1>1. /\ r \in Render /\ SlideTypeOK /\ renders \subseteq Render
      /\ UNCHANGED <<slide, renderGen, pdfCache, pdfLoading, docs, amid>>
      /\ slide \in Drawing /\ canvas \in Drawing /\ renderGen \in Nat
      /\ panel \in Panel /\ overdrawn \in BOOLEAN /\ failed \subseteq SlideFiles
      /\ r.file \in SlideFiles
  BY DEF SlideInv, SlideTypeOK, Painted, Decoded, DecodeFails, Render
<1>2. {"destroyed", "none", "failed"} \subseteq Panel \ {"download"}
  BY DEF Panel
<1>3. CASE Painted(r)
  <2>1. UNCHANGED <<overdrawn, failed>> /\ r.at = "paint"
    BY <1>3 DEF Painted
  <2>2. CASE Ends(r, "destroyed") /\ UNCHANGED canvas /\ docs[r.doc].state = "destroyed"
    <3>1. renders' = renders \ {r} /\ panel' = IF Fresh(r) THEN "destroyed" ELSE panel
      BY <2>2 DEF Ends, Fresh, Stale
    <3>2. Drawn'
      BY <1>1, <2>1, <2>2, <3>1 DEF SlideInv, Drawn, Fresh
    <3>3. Fresh(r) => "load" \in amid
      BY <2>1, <2>2 DEF SlideInv, FreshFounded, OwnDoc
    <3> QED BY <1>1, <1>2, <2>1, <2>2, <3>2, <3>3, EndsInv
  <2>3. CASE Ends(r, "none") /\ canvas' = [file |-> r.file, page |-> r.page]
    <3>1. renders' = renders \ {r} /\ panel' = panel
      BY <1>1, <2>3 DEF Ends
    <3>2. canvas' \in Drawing
      BY <1>1, <2>3 DEF Drawing, Render
    <3>3. Drawn'
      <4>1. CASE Fresh(r)
        <5>1. \A o \in renders' : o.at # "paint"
          BY <2>1, <3>1 DEF SlideInv, RendersApart
        <5>2. slide.file # "none" => canvas' = slide
          <6>1. slide.file # "none" => slide.file = r.file /\ slide.page = r.page
            BY <2>1, <4>1 DEF SlideInv, FreshOnSlide
          <6> QED BY <1>1, <2>3, <6>1 DEF Drawing
        <5> QED BY <1>1, <5>1, <5>2 DEF Drawn
      <4>2. CASE ~Fresh(r)
        <5>1. slide.file # "none" /\ panel = "none" /\ ~overdrawn => \E o \in renders : Fresh(o)
          BY <2>1 DEF SlideInv, Drawn
        <5> QED BY <1>1, <2>1, <3>1, <4>2, <5>1 DEF Drawn, Fresh
      <4> QED BY <4>1, <4>2
    <3> QED BY <1>1, <1>2, <2>1, <2>3, <3>2, <3>3, EndsInv
  <2> QED BY <1>3, <2>2, <2>3 DEF Painted
<1>4. CASE Decoded(r)
  <2>1. /\ Ends(r, "none") /\ r.at = "decode" /\ renders' = renders \ {r} /\ panel' = panel
        /\ UNCHANGED failed
    BY <1>1, <1>4 DEF Decoded, Ends
  <2>2. CASE Stale(r) /\ UNCHANGED <<canvas, overdrawn>>
    <3>1. Drawn'
      BY <1>1, <2>1, <2>2 DEF SlideInv, Drawn, Fresh, Stale
    <3> QED BY <1>1, <1>2, <2>1, <2>2, <3>1, EndsInv
  <2>3. CASE ~Stale(r) /\ canvas' = [file |-> r.file, page |-> 1] /\ overdrawn' = Painting
    <3>1. canvas' \in Drawing /\ overdrawn' \in BOOLEAN
      BY <1>1, <2>3 DEF Drawing, Render, Painting
    <3>2. Drawn'
      <4>1. slide.file # "none" => canvas' = slide
        <5>1. slide.file # "none" => slide.file = r.file /\ slide.page = 1
          BY <2>1, <2>3 DEF SlideInv, FreshOnSlide, Stale, Fresh
        <5> QED BY <1>1, <2>3, <5>1 DEF Drawing
      <4> QED BY <1>1, <2>1, <2>3, <4>1 DEF Drawn, Painting
    <3>3. overdrawn' => "paint" \in amid
      <4> SUFFICES ASSUME NEW o \in renders, o.at = "paint" PROVE "paint" \in amid
        BY <2>3 DEF Painting
      <4>1. Fresh(o) => o = r
        BY <2>3 DEF SlideInv, RendersApart, Fresh, Stale
      <4> QED BY <2>1, <2>3, <4>1 DEF SlideInv, FreshFounded, Fresh, Stale
    <3> QED BY <1>1, <1>2, <2>1, <2>3, <3>1, <3>2, <3>3, EndsInv
  <2> QED BY <1>4, <2>2, <2>3 DEF Decoded
<1>5. CASE DecodeFails(r)
  <2>1. Ends(r, "failed") /\ UNCHANGED <<canvas, overdrawn>> /\ failed' = failed \cup {r.file}
    BY <1>5 DEF DecodeFails
  <2>2. renders' = renders \ {r} /\ panel' = IF Fresh(r) THEN "failed" ELSE panel
    BY <2>1 DEF Ends, Fresh, Stale
  <2>3. Drawn'
    BY <1>1, <2>1, <2>2 DEF SlideInv, Drawn, Fresh
  <2> QED BY <1>1, <1>2, <2>1, <2>3, EndsInv
<1> QED BY <1>3, <1>4, <1>5

LEMMA SlideInvNext == SlideInv /\ [SlideNext]_slideVars => SlideInv'
<1> SUFFICES ASSUME SlideInv, [SlideNext]_slideVars PROVE SlideInv'
  OBVIOUS
<1>1. ASSUME NEW f \in SlideFiles, NEW p \in 1..2, show(f, p) PROVE SlideInv'
  BY <1>1, StartInv DEF show
<1>0. \A r \in renders : UNCHANGED <<docs, amid, failed>> /\ OwnDoc(r) => OwnDoc(r)'
  BY DEF OwnDoc, LoadsOther
<1>2. CASE hide
  <2>1. /\ slide' = [slide EXCEPT !.file = "none"] /\ slide \in Drawing
        /\ UNCHANGED <<renderGen, renders, pdfCache, pdfLoading, docs, canvas, panel, overdrawn,
                       amid, failed>>
    BY <1>2 DEF hide, SlideInv, SlideTypeOK
  <2>2. slide' \in Drawing /\ slide'.file = "none"
    BY <2>1 DEF Drawing
  <2>3. SlideTypeOK' /\ RendersApart' /\ FreshOnSlide' /\ Drawn' /\ Justified'
    BY <2>1, <2>2 DEF SlideInv, SlideTypeOK, RendersApart, FreshOnSlide, Drawn, Justified
  <2>4. FreshFounded'
    BY <1>0, <2>1 DEF SlideInv, FreshFounded, Fresh
  <2> QED BY <2>1, <2>3, <2>4 DEF SlideInv
<1>3. ASSUME NEW p \in 1..2, showLocalPage(p) PROVE SlideInv'
  <2>1. slide.file \in SlideFiles /\ renderCurrent(slide.file)
    BY <1>3 DEF showLocalPage, SlideInv, SlideTypeOK, Drawing
  <2>2. slide' = [file |-> slide.file, page |-> PageOf(slide.file, p)]
    BY <1>3 DEF showLocalPage, SlideInv, SlideTypeOK, Drawing
  <2> QED BY <2>1, <2>2, StartInv
<1>4. ASSUME NEW n \in DOMAIN docs, LoadReady(n) \/ LoadFails(n) PROVE SlideInv'
  BY <1>4, DocsInv
<1>5. ASSUME NEW r \in renders, HasDoc(r) \/ HasPage(r) \/ Painted(r) \/ Decoded(r) \/ DecodeFails(r)
      PROVE  SlideInv'
  BY <1>5, GoesOnInv, DrawsInv
<1>6. CASE UNCHANGED slideVars
  <2>1. UNCHANGED <<docs, amid, failed, renders, renderGen>>
    BY <1>6 DEF slideVars
  <2>2. FreshFounded'
    BY <1>0, <2>1 DEF SlideInv, FreshFounded, Fresh
  <2> QED BY <1>6, <2>2
    DEF slideVars, SlideInv, SlideTypeOK, RendersApart, FreshOnSlide, Drawn, Justified, Fresh
<1> QED BY <1>1, <1>2, <1>3, <1>4, <1>5, <1>6 DEF SlideNext

\* The render of the current generation works on what is shown and with a document of its
\* own file, what can stop it was under way when it began, and nobody paints when it has
\* ended: the inductive invariant of the theorem below.
THEOREM SlideInductive == SlideSpec => []SlideInv
  BY SlideInvInit, SlideInvNext, PTL DEF SlideSpec

\* The generation counter of renderCurrent does its work: whatever loads, fails or
\* overtakes, a stale render never brings up the failure panel, and the latest one ends
\* with the page the viewer was told or with the panel of a file that failed; it is cheated
\* of that only by a load of another file, or a page being painted, that was under way when
\* it began.
THEOREM ViewerSeesTheSlide == SlideSpec => []SlideShown
<1>1. SlideInv => SlideShown
  BY DEF SlideInv, Justified, Drawn, SlideShown
<1> QED BY <1>1, SlideInductive, PTL
=============================================================================
