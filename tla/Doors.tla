-------------------------------- MODULE Doors --------------------------------
(***************************************************************************)
(* Whom the pages, the sockets and the REST API let in.  Each handler looks *)
(* the member up and decides for itself (classrooms/views.py, api.py, the   *)
(* three consumers, quizzes/views_room.py): some ask whether the classroom  *)
(* is running and some do not, some go by the row's role and some by the    *)
(* classroom's owner.  These are their answers, as functions of the state   *)
(* of Membership; the property is where they agree, and by how much those   *)
(* differ that never ask whether the member is still waiting to be let in. *)
(*                                                                         *)
(* A member stands for the browser that acts as that member: a user who is  *)
(* logged in, or a guest with the uid in the session.  A guest without a    *)
(* row is an anonymous visitor.                                            *)
(***************************************************************************)
EXTENDS Membership

-----------------------------------------------------------------------------
(* Who is behind a request.                                                *)

get_active_member(m) == m \in User /\ Active(m)

get_guest_member(m) == m \in Guest /\ Active(m)

resolve_member(m) == get_active_member(m) \/ get_guest_member(m)

resolve_scope_member(m) == room.active /\ resolve_member(m)

-----------------------------------------------------------------------------
(* The three addresses of a classroom.  A view shows its own page, sends    *)
(* the browser to another of the three, or shows a page to end on.          *)

Page == {"lobby", "waiting", "room"}

lobby_view(m) ==
  IF ~room.active THEN "ended"
  ELSE IF resolve_member(m) THEN IF row[m].waiting THEN "waiting" ELSE "room"
  ELSE IF m \in User \/ "allow_guests" \in room.on THEN "lobby" ELSE "guests_disabled"

waiting_view(m) ==
  IF ~room.active THEN "missing"
  ELSE IF ~resolve_member(m) THEN "lobby"
  ELSE IF row[m].waiting THEN "waiting" ELSE "room"

room_view(m) ==
  IF ~room.active THEN "missing"
  ELSE IF ~resolve_member(m) THEN "lobby"
  ELSE IF row[m].waiting THEN "waiting" ELSE "room"

Answer(p, m) ==
  IF p = "lobby" THEN lobby_view(m)
  ELSE IF p = "waiting" THEN waiting_view(m)
  ELSE IF p = "room" THEN room_view(m)
  ELSE p

-----------------------------------------------------------------------------
(* The material of the lesson.                                             *)

\* (mutant: the token is given to whoever has an active membership)
TokenForTheWaiting(m) == room.active /\ resolve_member(m)

media_token_view(m) == room.active /\ resolve_member(m) /\ ~row[m].waiting

\* connect() of the chat and of the whiteboard.
socket_opens(m) == resolve_scope_member(m) /\ ~row[m].waiting

file_download_view(m) == resolve_member(m) /\ ~row[m].waiting

\* Answering a quiz.
_member_or_none(m) == resolve_member(m) /\ row[m].active /\ ~row[m].waiting

quiz_answer_view(m) == _member_or_none(m)

\* delete_shared_file, of a file one has uploaded oneself.
file_delete_view(u) == resolve_member(u) /\ row[u].active /\ ~row[u].waiting

\* Uploading and presenting go by the capability alone: nothing asks whether the member
\* waits.
file_upload_view(u) == get_active_member(u) /\ "can_upload_files" \in Effective(u)

set_presentation(u) == get_active_member(u) /\ "can_present" \in Effective(u)

\* _ClassroomScopedMixin.initial, of the whole REST API of a classroom.
initial(m, require_privileged) ==
  /\ get_active_member(m)
  /\ ~row[m].waiting
  /\ require_privileged => is_privileged(row[m])

MessageListAPIView(m)       == initial(m, FALSE)
FileListAPIView(m)          == initial(m, FALSE)
AttendanceListAPIView(m)    == initial(m, TRUE)
ParticipantUpdateAPIView(m) == initial(m, TRUE)

\* What a socket asks before each message.
_member_active_now(m) == room.active /\ Active(m) /\ ~row[m].waiting

_is_privileged_now(m) == _member_active_now(m) /\ is_privileged(row[m])

\* Nothing else is asked of who leaves.
leave_view(m) == resolve_member(m)

-----------------------------------------------------------------------------
(* Pages and lists of hosts.                                               *)

attendance_view(u) == get_active_member(u) /\ is_privileged(row[u])

classroom_detail_view(u) == u = Owner /\ room.active

\* Found by owner; deactivate_classroom then asks for the membership.
classroom_delete_view(u) == u = Owner /\ room.active /\ _require_owner(u)

\* Whom ClassroomParticipantsAPIView lists to u, once it has let u in.
participants(u) ==
  { m \in Member : Active(m) /\ (is_privileged(row[u]) \/ ~row[m].waiting) }

-----------------------------------------------------------------------------
(* Under which heading a user finds the classroom.                         *)

dashboard_view(u) ==
  (IF u = Owner THEN {"owned"} ELSE {}) \cup
  (IF Active(u) /\ u # Owner THEN {"joined"} ELSE {})

classroom_list_view(u) ==
  (IF u = Owner THEN {"owned"} ELSE {}) \cup
  (IF Active(u) /\ row[u].role # "OWNER" THEN {"joined"} ELSE {})

ClassroomListCreateAPIView(u) == u = Owner

ClassroomDetailAPIView(u) == u = Owner \/ Active(u)

-----------------------------------------------------------------------------
(* Properties.                                                             *)

\* Is m in class: admitted to a classroom that is running?
InClass(m) == room.active /\ Admitted(m)

\* Whichever address a browser opens, two redirects at most bring it to a page, and
\* while the classroom is running to the same page: the room for who is in class, the
\* waiting room for who waits, the lobby for everybody else.  The first two can leave.
OnePlace(m) ==
  \A p \in Page :
    LET end == Answer(Answer(p, m), m) IN
    /\ Answer(end, m) = end
    /\ room.active =>
         /\ end = IF InClass(m) THEN "room" ELSE IF Active(m) THEN "waiting" ELSE lobby_view(m)
         /\ leave_view(m) = (end \in {"room", "waiting"})

\* The doors that ask whether the member has been let in.
AdmittingDoors(m) ==
  {room_view(m) = "room", media_token_view(m), socket_opens(m), file_download_view(m),
   quiz_answer_view(m), _member_active_now(m)}
  \cup IF m \in User THEN {MessageListAPIView(m), FileListAPIView(m), file_delete_view(m)}
                    ELSE {}

\* Has m a place in the waiting room of a classroom that is running?
Waits(m) == room.active /\ Active(m) /\ row[m].waiting

\* The doors that do not ask it - uploading, presenting, the host actions, the report of a
\* session - are open to somebody who waits as if they had been let in, and to nobody
\* who is neither in class nor waiting.
UnaskedDoors(u) ==
  LET inside == InClass(u) \/ Waits(u) IN
  /\ file_upload_view(u) = (inside /\ "can_upload_files" \in Effective(u))
  /\ set_presentation(u) = (inside /\ "can_present" \in Effective(u))
  /\ {_require_privileged(u), attendance_view(u)} = {inside /\ is_privileged(row[u])}

\* Whom the API and the sockets take for a host are the hosts of every host action and
\* of the report but those who wait themselves; only the owner ends the classroom; who
\* is shown those who wait may let them in.
HostDoors(u) ==
  /\ {AttendanceListAPIView(u), ParticipantUpdateAPIView(u), _is_privileged_now(u)} =
       {_require_privileged(u) /\ ~Waits(u)}
  /\ classroom_delete_view(u) = (classroom_detail_view(u) /\ Active(u))
  /\ initial(u, FALSE) =>
       \A m \in participants(u) : row[m].waiting => _require_privileged(u)

\* The lists of a user name the classroom under the same headings, the API opens it if
\* and only if they do, and what is listed as joined is running and leads inside.
Lists(u) ==
  /\ dashboard_view(u) = classroom_list_view(u)
  /\ ClassroomListCreateAPIView(u) = ("owned" \in dashboard_view(u))
  /\ ClassroomDetailAPIView(u) = (dashboard_view(u) # {})
  /\ "joined" \in dashboard_view(u) => lobby_view(u) \in {"room", "waiting"}

\* The handlers of the room, of its files, its tokens, its sockets and its API that ask
\* for admission let in the same people, although many of them never ask whether the
\* classroom is still running; those that do not ask for it differ by who waits and by
\* nobody else.
DoorsAgree ==
  /\ \A m \in Member : OnePlace(m) /\ AdmittingDoors(m) = {InClass(m)}
  /\ \A u \in User : UnaskedDoors(u) /\ HostDoors(u) /\ Lists(u)
=============================================================================
