-------------------------------- MODULE Files -------------------------------
(***************************************************************************)
(* Shared files and the file being presented: file_upload_view with        *)
(* convert_to_pdf, delete_shared_file and set_presentation on the server,  *)
(* and in every room page the file list and the presented file (room.js).  *)
(* Permissions are the business of Membership; every request here may run. *)
(***************************************************************************)
EXTENDS Naturals, FiniteSets, SequencesExt

CONSTANTS
  FileReqs,               \* requests that may run at the same time
  FilePages,              \* room pages
  FileIds,                \* rows to come
  MAX_FILES_PER_CLASSROOM,
  FilePlans               \* bounds on a behaviour, see fileLeft

ASSUME FileAssumption ==
  /\ 0 \notin FileIds
  /\ FileReqs # {} /\ IsFiniteSet(FileReqs)
  /\ FilePages # {}
  /\ MAX_FILES_PER_CLASSROOM \in Nat
  /\ FilePlans \subseteq [uploads : Nat, deletes : Nat, presents : Nat, drops : Nat,
                          pages : SUBSET FilePages]

VARIABLES
  files,         \* SharedFile rows of the classroom
  used,          \* ids given out
  current,       \* current_file, 0 for none
  fileReq,       \* [FileReqs -> request in progress, see FileRequest]
  filePage,      \* [FilePages -> the page, see RoomPage]
  fileLeft,      \* uploads, deletions, presentations and lost sockets still to come
  overlap,       \* history: presenting or deleting began while one of them was going on
  early          \* history: files deleted before their upload had been answered

fileVars == <<files, used, current, fileReq, filePage, fileLeft, overlap, early>>

FileId0 == FileIds \cup {0}

FileRequest == [
  op    : {"idle", "upload", "delete", "present"},
  step  : {"begin", "checked", "stored", "done"},
  page  : FilePages,        \* who made it
  file  : FileId0,
  shown : BOOLEAN]          \* was_presenting, as the request read the classroom

FileEvent == [type : {"file_uploaded", "file_deleted", "presentation_changed"}, file : FileId0]

RoomPage == [
  conn    : {"closed", "loaded", "joining", "on"},
  inbox   : Seq(FileEvent),
  list    : Seq(FileIds),        \* rows of the file list
  present : FileId0,             \* Presentation.fileId
  missed  : BOOLEAN]             \* history: an event was sent while the page was not in the group

FileIdle == CHOOSE q \in FileRequest : q.op = "idle" /\ q.step = "begin" /\ q.file = 0 /\ ~q.shown

Presenting == {q \in FileReqs : fileReq[q].op \in {"delete", "present"}}

FileBroadcast(events) ==
  filePage' = [p \in FilePages |->
     CASE filePage[p].conn \in {"joining", "on"} -> [filePage[p] EXCEPT !.inbox = @ \o events]
       [] filePage[p].conn = "loaded" -> [filePage[p] EXCEPT !.missed = TRUE]
       [] OTHER -> filePage[p]]

Event(type, f) == [type |-> type, file |-> f]

-----------------------------------------------------------------------------
(* Uploading: the number of files is checked before the row is written.    *)

UploadBegins(q, p) ==
  /\ fileReq[q].op = "idle" /\ filePage[p].conn = "on"
  /\ fileLeft.uploads > 0
  /\ fileLeft' = [fileLeft EXCEPT !.uploads = @ - 1]
  /\ fileReq' = [fileReq EXCEPT ![q] = [FileIdle EXCEPT !.op = "upload", !.page = p]]
  /\ UNCHANGED <<files, used, current, filePage, overlap, early>>

\* (mutant: off by one)
UploadCountLoose(q) ==
  /\ fileReq[q].op = "upload" /\ fileReq[q].step = "begin"
  /\ fileReq' = [fileReq EXCEPT ![q] =
       IF Cardinality(files) > MAX_FILES_PER_CLASSROOM THEN FileIdle ELSE [@ EXCEPT !.step = "checked"]]
  /\ UNCHANGED <<files, used, current, filePage, fileLeft, overlap, early>>

UploadCount(q) ==
  /\ fileReq[q].op = "upload" /\ fileReq[q].step = "begin"
  /\ fileReq' = [fileReq EXCEPT ![q] =
       IF Cardinality(files) >= MAX_FILES_PER_CLASSROOM THEN FileIdle ELSE [@ EXCEPT !.step = "checked"]]
  /\ UNCHANGED <<files, used, current, filePage, fileLeft, overlap, early>>

UploadCreate(q) ==
  /\ fileReq[q].op = "upload" /\ fileReq[q].step = "checked"
  /\ \E f \in FileIds \ used :
       /\ used' = used \cup {f}
       /\ files' = files \cup {f}
       /\ fileReq' = [fileReq EXCEPT ![q].step = "stored", ![q].file = f]
  /\ UNCHANGED <<current, filePage, fileLeft, overlap, early>>

\* convert_to_pdf, which takes up to OFFICE_CONVERT_TIMEOUT and saves the whole row
\* when it succeeds, and then file_uploaded.
convert_to_pdf(q) ==
  /\ fileReq[q].op = "upload" /\ fileReq[q].step = "stored"
  /\ fileReq' = [fileReq EXCEPT ![q].step = "done"]
  /\ files' \in {files, files \cup {fileReq[q].file}}
  /\ UNCHANGED <<used, current, filePage, fileLeft, overlap, early>>

UploadAnnounce(q) ==
  /\ fileReq[q].op = "upload" /\ fileReq[q].step = "done" /\ ~fileReq[q].shown
  /\ FileBroadcast(<<Event("file_uploaded", fileReq[q].file)>>)
  /\ fileReq' = [fileReq EXCEPT ![q].shown = TRUE]
  /\ UNCHANGED <<files, used, current, fileLeft, overlap, early>>

-----------------------------------------------------------------------------
(* Presenting and deleting.                                                *)

\* presentation_view and set_presentation up to the check that the file is there.
PresentBegins(q, p) ==
  /\ fileReq[q].op = "idle" /\ filePage[p].conn = "on"
  /\ fileLeft.presents > 0
  /\ fileLeft' = [fileLeft EXCEPT !.presents = @ - 1]
  /\ \E f \in (ToSet(filePage[p].list) \cap files) \cup {0} :
       fileReq' = [fileReq EXCEPT ![q] = [FileIdle EXCEPT !.op = "present", !.page = p, !.file = f]]
  /\ overlap' = (overlap \/ Presenting # {})
  /\ UNCHANGED <<files, used, current, filePage, early>>

\* The save fails on the foreign key if the file is gone by now.
set_presentation(q) ==
  /\ fileReq[q].op = "present" /\ fileReq[q].step = "begin"
  /\ IF fileReq[q].file \in files \cup {0}
       THEN /\ current' = fileReq[q].file
            /\ fileReq' = [fileReq EXCEPT ![q].step = "done"]
       ELSE /\ fileReq' = [fileReq EXCEPT ![q] = FileIdle]
            /\ UNCHANGED current
  /\ UNCHANGED <<files, used, filePage, fileLeft, overlap, early>>

PresentAnnounce(q) ==
  /\ fileReq[q].op = "present" /\ fileReq[q].step = "done"
  /\ FileBroadcast(<<Event("presentation_changed", fileReq[q].file)>>)
  /\ fileReq' = [fileReq EXCEPT ![q] = FileIdle]
  /\ UNCHANGED <<files, used, current, fileLeft, overlap, early>>

\* The classroom is read when the request begins.
DeleteBegins(q, p) ==
  /\ fileReq[q].op = "idle" /\ filePage[p].conn = "on"
  /\ fileLeft.deletes > 0
  /\ fileLeft' = [fileLeft EXCEPT !.deletes = @ - 1]
  /\ \E f \in ToSet(filePage[p].list) \cap files :
       fileReq' = [fileReq EXCEPT ![q] =
         [FileIdle EXCEPT !.op = "delete", !.page = p, !.file = f, !.shown = (current = f)]]
  /\ overlap' = (overlap \/ Presenting # {})
  /\ UNCHANGED <<files, used, current, filePage, early>>

\* The row goes, and with it the reference of the classroom (SET_NULL).
\* (mutant: the reference stays)
DeleteDangling(q) ==
  /\ fileReq[q].op = "delete" /\ fileReq[q].step = "begin"
  /\ files' = files \ {fileReq[q].file}
  /\ fileReq' = [fileReq EXCEPT ![q].step = "stored"]
  /\ UNCHANGED <<used, current, filePage, fileLeft, overlap, early>>

delete_shared_file(q) ==
  /\ fileReq[q].op = "delete" /\ fileReq[q].step = "begin"
  /\ files' = files \ {fileReq[q].file}
  /\ current' = IF current = fileReq[q].file THEN 0 ELSE current
  /\ fileReq' = [fileReq EXCEPT ![q].step = "stored"]
  /\ early' = IF \E u \in FileReqs : fileReq[u].op = "upload" /\ fileReq[u].file = fileReq[q].file
                THEN early \cup {fileReq[q].file} ELSE early
  /\ UNCHANGED <<used, filePage, fileLeft, overlap>>

\* If it was presented, the presentation is cleared and everybody is told.
\* (mutant: the presentation is cleared silently)
DeleteQuiet(q) ==
  /\ fileReq[q].op = "delete" /\ fileReq[q].step = "stored"
  /\ current' = IF fileReq[q].shown THEN 0 ELSE current
  /\ FileBroadcast(<<Event("file_deleted", fileReq[q].file)>>)
  /\ fileReq' = [fileReq EXCEPT ![q].step = "done"]
  /\ UNCHANGED <<files, used, fileLeft, overlap, early>>

DeleteAnnounce(q) ==
  /\ fileReq[q].op = "delete" /\ fileReq[q].step = "stored"
  /\ current' = IF fileReq[q].shown THEN 0 ELSE current
  /\ FileBroadcast((IF fileReq[q].shown THEN <<Event("presentation_changed", 0)>> ELSE <<>>)
                   \o <<Event("file_deleted", fileReq[q].file)>>)
  /\ fileReq' = [fileReq EXCEPT ![q].step = "done"]
  /\ UNCHANGED <<files, used, fileLeft, overlap, early>>

-----------------------------------------------------------------------------
(* The room page.                                                          *)

addFileItem(list, f) == IF f \in ToSet(list) THEN list ELSE <<f>> \o list

removeFileItem(list, f) == RemoveFirst(list, f)

\* The rows of the list come with the page, the presented file with the snapshot.
PageLoads(p) ==
  /\ filePage[p].conn = "closed" /\ p \in fileLeft.pages
  /\ filePage' = [filePage EXCEPT ![p].conn = "loaded", ![p].list = SetToSeq(files)]
  /\ UNCHANGED <<files, used, current, fileReq, fileLeft, overlap, early>>

PageJoins(p) ==
  /\ filePage[p].conn = "loaded"
  /\ filePage' = [filePage EXCEPT ![p].conn = "joining"]
  /\ UNCHANGED <<files, used, current, fileReq, fileLeft, overlap, early>>

\* applyClassroomState: a presentation is applied only if there is one.
PageSnapshot(p) ==
  /\ filePage[p].conn = "joining"
  /\ filePage' = [filePage EXCEPT ![p].conn = "on",
                                  ![p].present = IF current # 0 THEN current ELSE @]
  /\ UNCHANGED <<files, used, current, fileReq, fileLeft, overlap, early>>

PageLosesSocket(p) ==
  /\ filePage[p].conn = "on"
  /\ fileLeft.drops > 0
  /\ fileLeft' = [fileLeft EXCEPT !.drops = @ - 1]
  /\ filePage' = [filePage EXCEPT ![p].conn = "loaded", ![p].missed = @ \/ filePage[p].inbox # <<>>,
                                  ![p].inbox = <<>>]
  /\ UNCHANGED <<files, used, current, fileReq, overlap, early>>

PageHears(p) ==
  LET P == filePage[p]
      e == Head(P.inbox)
  IN
  /\ P.conn = "on" /\ P.inbox # <<>>
  /\ filePage' = [filePage EXCEPT ![p] =
       CASE e.type = "file_uploaded" -> [P EXCEPT !.inbox = Tail(@), !.list = addFileItem(@, e.file)]
         [] e.type = "file_deleted" -> [P EXCEPT !.inbox = Tail(@), !.list = removeFileItem(@, e.file)]
         [] OTHER -> [P EXCEPT !.inbox = Tail(@), !.present = e.file]]
  /\ UNCHANGED <<files, used, current, fileReq, fileLeft, overlap, early>>

\* The reply reaches the page that asked: an upload is added "for instant feedback",
\* a deleted file is removed.
FileReply(q) ==
  LET f == fileReq[q].file IN
  /\ fileReq[q].op \in {"upload", "delete"} /\ fileReq[q].step = "done"
  /\ fileReq[q].op = "upload" => fileReq[q].shown
  /\ filePage' = [filePage EXCEPT ![fileReq[q].page].list =
       IF fileReq[q].op = "upload" THEN addFileItem(@, f) ELSE removeFileItem(@, f)]
  /\ fileReq' = [fileReq EXCEPT ![q] = FileIdle]
  /\ UNCHANGED <<files, used, current, fileLeft, overlap, early>>

-----------------------------------------------------------------------------
FileInit ==
  /\ files = {} /\ used = {} /\ current = 0
  /\ fileReq = [q \in FileReqs |-> FileIdle]
  /\ filePage = [p \in FilePages |-> [conn |-> "closed", inbox |-> <<>>, list |-> <<>>, present |-> 0,
                                      missed |-> FALSE]]
  /\ fileLeft \in FilePlans
  /\ overlap = FALSE /\ early = {}

FileNext ==
  \/ \E q \in FileReqs :
       \/ UploadCount(q) \/ UploadCreate(q) \/ convert_to_pdf(q) \/ UploadAnnounce(q)
       \/ set_presentation(q) \/ PresentAnnounce(q)
       \/ delete_shared_file(q) \/ DeleteAnnounce(q) \/ FileReply(q)
       \/ \E p \in FilePages : UploadBegins(q, p) \/ PresentBegins(q, p) \/ DeleteBegins(q, p)
  \/ \E p \in FilePages :
       PageLoads(p) \/ PageJoins(p) \/ PageSnapshot(p) \/ PageLosesSocket(p) \/ PageHears(p)

FileSpec == FileInit /\ [][FileNext]_fileVars

-----------------------------------------------------------------------------
(* Properties.                                                             *)

FileTypeOK ==
  /\ files \subseteq used /\ used \subseteq FileIds
  /\ current \in files \cup {0}
  /\ fileReq \in [FileReqs -> FileRequest]
  /\ filePage \in [FilePages -> RoomPage]

\* "shared storage stays bounded": uploads that count at the same time exceed the cap
\* by at most their number less one.
FilesBounded ==
  Cardinality(files) < MAX_FILES_PER_CLASSROOM + Cardinality(FileReqs)

\* A page that was in the group for every announcement and has heard them all has one
\* row for each file and no other; files deleted before their upload was answered, which
\* a late announcement or reply brings back to the list, are excepted.  It presents what
\* the classroom presents, unless presenting and deleting overlapped.
PageFollowsFiles ==
  \A p \in FilePages :
    LET P == filePage[p] IN
    P.conn = "on" /\ P.inbox = <<>> /\ ~P.missed /\ (\A q \in FileReqs : fileReq[q].op = "idle") =>
      /\ IsInjective(P.list)
      /\ ToSet(P.list) \ early = files \ early
      /\ ~overlap => P.present = current
=============================================================================
