---------------------------- MODULE Permissions ----------------------------
(***************************************************************************)
(* classrooms/permissions.py: roles, the capability matrix and the map     *)
(* effective_permissions() that every consumer, view and token consults.   *)
(*                                                                         *)
(* A Python dict of booleans is the set of the names it maps to True: the  *)
(* stored can_* flags of a member are the set `caps', the room-wide        *)
(* switches of a classroom are the set `on'.                               *)
(*                                                                         *)
(* camera_disabled is left out: no code of the repository ever sets it.    *)
(***************************************************************************)

Role == {"OWNER", "MODERATOR", "PRESENTER", "STUDENT", "GUEST"}

PRIVILEGED_ROLES == {"OWNER", "MODERATOR"}

\* permission_fields(): the fields of PermissionDefaults.
Capability ==
  {"can_use_microphone", "can_use_camera", "can_share_screen",
   "can_use_whiteboard", "can_send_messages", "can_upload_files",
   "can_raise_hand", "can_present"}

Baseline ==
  {"can_use_microphone", "can_use_camera", "can_send_messages", "can_raise_hand"}

ROLE_DEFAULTS ==
  [r \in Role |->
     CASE r \in PRIVILEGED_ROLES    -> Capability
       [] r = "PRESENTER"           -> Capability \ {"can_upload_files"}
       [] r \in {"STUDENT", "GUEST"} -> Baseline]

\* services.SETTING_FIELDS: the boolean columns of Classroom the owner switches.
SETTING_FIELDS ==
  {"enable_waiting_room", "allow_student_chat", "allow_student_mic",
   "allow_student_camera", "allow_student_screen_share",
   "allow_student_whiteboard", "allow_file_upload", "allow_guests",
   "chat_disabled"}

\* Model defaults of those columns.
DefaultSettings ==
  {"allow_student_chat", "allow_student_mic", "allow_student_camera",
   "allow_file_upload", "allow_guests"}

\* Which room-wide switch gates which capability of a STUDENT or GUEST.
StudentGate ==
  {<<"can_send_messages", "allow_student_chat">>,
   <<"can_share_screen", "allow_student_screen_share">>,
   <<"can_use_whiteboard", "allow_student_whiteboard">>,
   <<"can_use_microphone", "allow_student_mic">>,
   <<"can_use_camera", "allow_student_camera">>}

PassesRoomSwitches(role, c, on) ==
  role \in {"STUDENT", "GUEST"} =>
    \A gate \in StudentGate : gate[1] = c => gate[2] \in on

(***************************************************************************)
(* effective_permissions(member, classroom).  `m' has the fields active,   *)
(* role, caps and muted of a ClassroomMember row, `isGuest' is its         *)
(* is_guest column, `room' has the fields active and on.                   *)
(***************************************************************************)
effective_permissions(m, isGuest, room) ==
  IF ~m.active \/ ~room.active THEN {}
  ELSE { c \in IF m.role = "OWNER" THEN Capability ELSE m.caps :
           /\ PassesRoomSwitches(m.role, c, room.on)
           /\ c = "can_upload_files" =>
                /\ ~isGuest
                /\ m.role = "OWNER" \/ "allow_file_upload" \in room.on
           /\ c = "can_send_messages" /\ "chat_disabled" \in room.on =>
                m.role \in PRIVILEGED_ROLES
           /\ c = "can_use_microphone" /\ m.muted => m.role = "OWNER" }

is_privileged(m) == m.active /\ m.role \in PRIVILEGED_ROLES
=============================================================================
