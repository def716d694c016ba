# Online Classroom: TLA+ models and proofs

A verification development for the Django/Channels virtual classroom in `src/`.
Each module states which source it models; the `map` of `PROJECT.json` gives the
lines definition by definition. The properties are aimed at the list of hazards in
`PROJECT.json`: things in this code that are hard to reach with a unit test.

## 1. The system

One classroom is a `Classroom` row, its `ClassroomMember` rows, and the browsers
connected to it. HTTP views, the REST API and the WebSocket consumers all change
the rows through `classrooms/services.py` and tell the browsers through channel
groups: `classroom_<code>` (the room), one group per member, and one each for chat
and whiteboard. Media go peer to peer (`static/js/mesh.js`) or over LiveKit.

| Component | State | Operations | Hard behaviour |
|---|---|---|---|
| Capability matrix (`permissions.py`) | none: a function of a member and the room | `effective_permissions`, `is_privileged` | many overlapping rules; the owner must never be locked out |
| Memberships and moderation (`services.py`, `models.py`, views) | `Classroom`: active, locked, settings. `ClassroomMember`: role, active, waiting, ban, mute, hand, `can_*` | joins, leave, raise hand, host actions, waiting room, lock, settings, end | no `ATOMIC_REQUESTS`, no row locks: stale instances are saved later, some with every column |
| Presence socket (`consumers.py`) | membership and `waiting` cached at connect; group memberships | connect, events, raise hand, media state, signalling relay, disconnect | awaits between load, `group_add` and snapshot; revocation must close sockets |
| Sessions, attendance | `ClassroomSession`, `AttendanceRecord` | start, end, join, leave | check-then-create; several tabs of one member |
| Whiteboard (server and `whiteboard.js`) | event log, `last_seq` per socket, client pages | draw, clear (compaction), history, undo | persist order against publish order; history against live operations |
| Chat | `ChatMessage` | send, soft delete, history | history against live messages; live permission checks |
| Quizzes | `QuizRun`, `QuizAnswer` | start, answer, end | answer racing the end; two starts |
| Assignments | `Submission` | submit, grade | full-row save against a grade |
| Files and presentation | `SharedFile`, `current_file` | upload, convert, present, delete | conversion racing deletion; the cap on files |
| Throttles (`core/ratelimit.py`, password gate, `RateLimiter`) | expiring counters, block flags | hit, block, clear | counter and flag expire separately |
| Mesh negotiation (`PeerLink`) | peer connection, `makingOffer`, timers | offer, answer, recover, retry | both sides offer; timers race recovery |
| Media switches (`MeshMedia`, `media.js`) | tracks, switches, permissions | toggle, moderation | permission checked before an awaited device |
| Room page (`room.js`) | roster, own permissions, reconnection | events, reconnect | events against snapshot; `user_left` of one of two tabs |
| Doors: pages, media token, files, REST API (`views.py`, `api.py`) | none: each reads the rows | who is let in, where a browser is sent, what is listed | each decides for itself; most never ask whether the classroom has ended |
| Gestures (`whiteboard.js`), origin check and limits (`ws_security.py`, `whiteboard/consumers.py`) | the gesture under the mouse, the size of the canvas | draw, resize, serialize, validate | what is refused has been painted already |
| LiveKit server, accounts, deployment | | | data mapping or framework code |

What makes the modelled part correct: the owner cannot be touched; a role, a mute
and a ban change only by the operation meant for it; entry respects lock, ban and
waiting room whichever way it goes; ending a class or removing a member takes away
the access, of open sockets too.

## 2. Modules

**`Permissions`**: `permissions.py` as operators on sets: a dict of booleans is the
set of names it maps to `True`. `camera_disabled` is omitted (no code sets it).

**`Membership`** (EXTENDS `Permissions`): the rows of one classroom and every
operation that changes them. `room` is the classroom row, `row` the member rows
(`known` = the row exists; `banned` = `banned_until` is in the future), `req` what
each request handler is doing. An operation is three steps of a handler:

1. an action with the source function's name reads the rows, applies the checks and
   keeps the instance as assigned (`req[h].copy`, `.room`, `.ids`);
2. `SaveMember`, `CreateMember`, `MuteAll`, `Deactivate` or `SaveRoom` writes it: the
   columns of `update_fields`, or all of them where the code calls `save()` bare
   (`set_member_permission`, `set_member_role`, the customization form);
3. `Announce` publishes the events.

The joins and `deactivate_classroom` are `@transaction.atomic` and publish inside the
transaction, so they announce before their write is visible. Rows written by such a
transaction stay locked until it commits, and a second INSERT of the same member
waits and then fails on the unique constraint (`InsertWaits`, `Refused`). The reads
of one operation are one step; the window that matters is from there to the save.
A guest may come without an address (`NoIp`): the code then asks for no ban.

**`Closing`** (EXTENDS `Membership`): the end of a classroom among overlapping requests.
`deactivate_classroom` updates the rows it has listed; `latecomers` is the history of the
memberships that became active after that.

**`Doors`** (EXTENDS `Membership`): everything that asks whether somebody is in class, as
predicates of the rows: the pages and their redirects, the media token, downloads, `connect`
of the chat and the whiteboard, the live check before each message, the REST API, quizzes,
uploads, presenting, the report and the actions of hosts, and the lists on the dashboard.
They do not all agree. `AdmittingDoors` ask whether the member has been let in;
`UnaskedDoors` (upload, presenting, host actions, the attendance report) ask for a membership
and a capability or rank only, and open to who waits. `DoorsAgree` states both answers
exactly: the first let in who is in class, the others who waits besides, and nobody else. The
module has no actions; run `entry` evaluates it in every state that `Membership` reaches.

**`WaitingRoom`** adds the history of who has ever been admitted.

**`Presence`** (EXTENDS `Membership`): the `ClassroomConsumer` of each tab. `connect`
is three steps (`Load`, `JoinGroups`, `Snapshot`) separated at its awaits; group
events queue in `inbox` until `connect` has returned; `Dispatch` is
`classroom_event`/`classroom_notification`; `RefuseAction` is the live check of
`receive_json`. Only events that close a socket or name a waiting member are kept.
`missed` is history: the revocation was published after the membership had been
loaded and before the groups were joined. That window is real in the code
(`consumers.py`, lines 74 to 95): such a socket stays open for reading until its next
action, which `_member_active_now` refuses. The properties about closing exclude
exactly these sockets and no others.

**`BoardLog`** is the abstract promise of the whiteboard: a log of accepted operations,
of which a viewer is given a snapshot and then single operations, none twice and none
out of order. It is no stronger, because the code is not (finding 4).

**`Whiteboard`** models `whiteboard/consumers.py`, `whiteboard.js` and the annotation part
of `presentation.js`. `log` are the rows ever inserted (the index is the id), `kept` those
that are committed and not deleted by a clear, `busy` the `receive_json` in progress
(`Insert`, `Commit`, `Publish`), `conn` the consumer with `last_seq`, `chan` its channel,
`tab` the page with boards, undo and redo stacks. A browser draws first and sends
afterwards. The refinement mapping (`Log`) maps a viewer's position to `last_seq`, or to
the operation its own consumer has inserted.

**`Gestures`**: from the mouse to the server: whether the page is admitted
(`ws_origin_allowed`, with default ports, trusted origins and a proxy that ends TLS), what
`_down`, `_move` and `_up` make of the pixels on a canvas that may be resized meanwhile,
how `_serialize` scales and rounds it, and what `_valid_op` and the limit on a frame refuse.
Positions are pixels, and coordinates on the wire units of 1/10000 of the canvas, to which
`_serialize` rounds.

**`Chat`**: rows, `group_send` calls still to be made, and per member the socket with its
channel and the elements shown. `connect` joins the group (`ChatConnect`) and later sends
the history (`ChatHistory`).

**`Sessions`**: `start_session` and `end_session` as read and write steps of any number of
requests, `attendance_join` and `attendance_leave` of any number of tabs, a worker that
dies. `records` are `AttendanceRecord` rows.

**`Quiz`**: `start_quiz`, `end_quiz` and `answer_question` split at their reads, and the
`QuizClient` of every page with its snapshot, its events, and answers under way.

**`Files`**: the cap, `convert_to_pdf`, presentation and deletion as overlapping requests,
and the file list and presented file of every page. **`Slides`**: how one page renders the
presented file: concurrent renders, the one-document cache, the generation counter. `panel`
is the panel over the canvas by its cause: a file for download, a load that failed, a document
that another file's load destroyed, a canvas that PDF.js refused because it was being painted.
`amid` and `failed` are history: what was under way when the latest render began, and what has
failed since.

**`Mesh`**: two `PeerLink`s, each with a camera and a screen connection: `makingOffer`,
collision and rollback, `_pendingSignals`, watchdog, grace timer, ICE restart, `retryNow`.
A description is the number of things of its sender that it covers; ICE candidates belong
to the network. A signal that comes before its link is judged when it arrives: a link that
is created for it collides with nothing. `page` is the presence socket and the roster
of each side. A socket that is lost takes what was on its way along; the server tells the
other page that this member left (`Left`), which removes its link with its timers (`Remove`)
and creates a new one when the roster names the member again (`Reconnect`, `HearRoster`,
`Create`), while the page that lost the socket keeps its link. Once a link was removed, a
description may come to a connection it does not belong to, and the browser may refuse it
(`Refused`) or not. `renewed` is history: a link was removed. So is `clash`: one connection reset the `makingOffer` of the link while the offer of
the other was in the making.

**`Voice`**: the mute of a host on its way from the `muted` column through the events and
the consumer's payloads to the speaker's microphone (`toggleMicrophone`, `setMicDevice`,
`applyModeration`, a device that ends) and to what listeners play. Requests of several hosts
overlap: each saves (`HostSaves`, or `HostReads` and `HostSavesAll` where `save()` is bare) and
announces (`HostAnnounces`) in steps of its own, so events may come in the opposite order of
the saves. A raised hand, a media state, a new connection and the settings carry the column as
read, too. `told` is history: what the last event to the room said.

**`Roster`**: joins, approvals, denials, removals and mutes, the consumers of two tabs
that announce arrivals and departures, and the roster of each page. Several requests about one
member may be in progress (`RosterReqs`), whoever has a row may be their target, as
`_target_member` asks for no more, and each writes and tells in two steps. `ghost` is history:
somebody was told of who is not in the room, or denied who is.

**`Throttle`**: failed logins (`core/ratelimit.py`, `accounts/views.py`) with counter,
block flag and expiry apart; wrong passwords of a classroom, counted by name and by address
(`services.py`, `lobby_view`), where a first failure is a `set` after an `incr` that found
nothing, and may replace a counter that others have raised meanwhile; and `RateLimiter`, which
pops the stamps that are too old from the left. Time is in ticks. Of the two counters of a
login, of the address and of the address with the name, the module follows one; the other can
only refuse more.

**`Grades`**: one `Submission`: submitting, replacing the upload, grading, the deadline,
deletion of the assignment, and a server that dies in between.

Variables named `...Left` or `plan` are bounds: what users, networks and workers will
still do in a behaviour. Variables marked "history" record that a race has happened; the
code has no such state, and no guard reads them. They serve to state exactly which
behaviours a property leaves out (section 5).

**`MC...`** modules hold model values, plans and symmetry. **`MCLesson`** combines `Quiz`,
`Chat`, `Sessions`, `Files`, `Slides`, `Voice`, `Roster`, `Throttle`, `Grades` and `Gestures`: they share
no state in the code, so a behaviour explores one of them (`topic`) while the others stand
still, and one run checks them all.

**`...Proofs`** modules hold the theorems: `MembershipProofs` (of `Permissions` and
`Membership`), `SerialProofs` (EXTENDS it, `Doors` and `Presence`: what holds of one request at
a time), `WhiteboardProofs` (`Whiteboard`, `BoardLog`, `Gestures`), `TalkProofs` (`Sessions`,
`Chat`, `Voice`, `Roster`), `ExerciseProofs` (`Quiz`, `Grades`), `MaterialProofs` (`Files`,
`Slides`), `ThrottleProofs` and `MeshProofs`.

Operators commented `(mutant: ...)` are plausible bugs kept beside the definition
they vary; no specification uses them.

## 3. Runs

| Run | Instance | Shows |
|---|---|---|
| `moderation` | owner, two users, one handler; 214 232 states | `MuteSticks`, `OnlyOwnerAssignsRoles`, `BanRunsItsTime` |
| `entry` | owner, one user, two guests behind one address or none; 589 448 states | `TypeOK`, `DoorsAgree`, `NoBackDoor` |
| `overlap` | `Closing`: owner, one user, two handlers; 743 786 states | `OwnerSovereign`, `BannedIsOut`, `WaitingIsActive` although stale instances are saved; `OnlyLatecomersRemain` although the end of the classroom overlaps the rest |
| `presence` | owner, one user with two tabs; 128 104 states | `PresenceTypeOK`, `NoSilentSurvivor`, `RoomGroupIsAdmitted`, `RevokedSocketsClose` |
| `ban_lost` | two handlers | finding 1 |
| `waiting_room_bypass` | one handler | finding 2 |
| `waiting_shown` | one socket | finding 3 |
| `board` | two boards and two presentations, two at a time, three plans; 884 890 states | `CompactionExact`, `NewerIsOnItsWay`, `ViewersAgree`, `KeepsTheLog` (refinement of `BoardLog`) |
| `board_op_lost` | two users draw at once | finding 4 |
| `mesh` | two participants, nine plans; 673 051 states | `Agreement`; `ImpoliteGetsThrough`, `NeverSilent` under fairness |
| `lesson` | ten topics; 2 047 319 states | `QuizFollowed`, `MarkedIsRecorded`, `OneRunAfterStart`; `NothingIsMissed`, `DeletionsShow`; `EndedIsClosed`, `AttendeesAreThere`; `FilesBounded`, `PageFollowsFiles`, `SlideShown`; `MutedNotHeard`, `MicTellsTheTruth`; `RosterIsRight`; `Throttled`; `AnswerIsKept`; `HeardAsDrawn` |
| `muted_mic` | one speaker, one listener | finding 5 |

Each passing run also checks the type invariant of its modules.

**Bounds.** `Ops` selects operations, `Grantable`, `Assignable` and `Toggled` what host
requests name, `Visitor` who opens tabs. Two users besides the owner give every rank
relation (owner, moderator, other moderator, student). Two guests suffice for the ban
by address, two handlers for any read-save overlap of a pair, two tabs for the case
that one tab closes and the other must too. Nothing else is counted in these runs, so
their state spaces are finite without further bounds.

The other runs are bounded by plans. Each plan is the smallest in which the cases it is
for happen: on the board, one browser that stays and one that reconnects, with every kind
of operation; in the mesh, colliding offers of both sides with a lost signal, a camera and a
screen negotiated at once, a broken connection, a lost signal or a retry with timers, and a
presence socket that goes down: with nothing left to negotiate, of the one who shares a screen,
and with timers. In the lesson two hosts start and end
quizzes at once and a pupil answers twice; three chat messages exceed a history of two;
two tabs of one member see two sessions, or one session and a crash; two uploads compete
for one place, or meet a deletion and a presentation; two documents and three `show`
calls share the one-document cache; three host requests of two hosts overlap while the
microphone is switched, one meets two payloads of the consumer, two meet a lost socket, and
two a device change, a device that ends and a classmate who comes or goes; three requests about
a member with two tabs overlap, or three or four about one who waits, is approved, denied,
muted and removed, whose page loses its socket; logins fail around the expiry of the counter,
more messages come than a window takes, and one name guesses the password until it is blocked,
or two names from one address, up to the limit of the address. Strokes of up to four
moves, shapes and texts are drawn on a low and on a wide canvas that may change between
two moves, from inside and outside of it, and on the last page; a browser of each kind
visits once. Three answers and two grades overlap with one crash.
Larger plans were explored per module while modelling. In the mesh they found the case
that `clash` now names, and a plan of the run has it; elsewhere they found nothing else.

**`INIT`/`NEXT`.** `Lesson.cfg` names `LessonInit` and `LessonNext` because no liveness is
asked there.

**Symmetry** exchanges users other than the owner, guests, and handlers; no expression
tells them apart. The liveness run uses none.

**Deadlock** is checked in `moderation`. In `entry`, `overlap`, `presence` and
`waiting_shown` the classroom can end, or everybody can have left, and the system may
stop; in the others the plan is used up.

**Serialised and overlapping requests.** `BanRunsItsTime`, `MuteSticks`,
`OnlyOwnerAssignsRoles`, `NoBackDoor`, `DoorsAgree`, `RoomGroupIsAdmitted` and
`NoSilentSurvivor` hold when requests run one after another, and
are proved for that with any number of users, guests and sockets. With two requests the
stale full-row save breaks the row they speak of (finding 1), so nothing is claimed for two requests.
The four properties of `overlap` hold regardless, and are proved for any number of requests.

**Fairness** (`PresenceFairness`): a request that has started finishes, `connect`
returns, a queued event is dispatched and a closed socket is torn down. These are steps
of the server's threads and event loop. No user action and no new request is fair.
`MeshFairness`: the roster reaches a page, the browser's event loop runs its callbacks, a
signal in the channel is received, a timer that was set expires. Connecting, breaking,
failing and the user's retry are not fair: the network and the user owe nothing.
Messages of the channel layer arrive in order per channel and are not lost, except with
their socket.

## 4. Findings

1. **A ban can be lost.** `set_member_permission` and `set_member_role` call `save()`
   without `update_fields`. If `remove_member` with a ban is saved between their read and
   their save, the old row is written back: the member is active and not banned, although
   `remove_member` is to "ban re-entry for N minutes" (`services.py:622`). Run `ban_lost`.
2. **A denied student walks in.** `join_classroom` puts only newly created rows in the
   waiting room. After `deny_waiting_room` the row exists with `in_waiting_room` false, and
   the next join re-activates it, although "new students go to the waiting room"
   (`services.py:303`). Run `waiting_room_bypass`.
3. **Who waits is told to the whole room.** `waiting_room_entry` is broadcast to the room
   group, students included, although "nobody sees them until admission"
   (`consumers.py:86`). Run `waiting_shown`.
4. **An operation on the board is lost.** `receive_json` raises `last_seq` to the id of its
   own operation (`whiteboard/consumers.py:141`). An operation with a lower id, inserted
   before by another consumer and published later, is then dropped, although a client is
   sent "one whiteboard_operation per accepted operation" (line 15). It appears with the
   next history. Run `board_op_lost`.
5. **A muted microphone goes on.** `toggleMicrophone` checks the permission, awaits the
   device and switches on (`mesh.js:542`). A mute in between is overridden, and the member
   can no longer switch off, although moderation is to "cut the device AND revoke the local
   right to switch it back on" (`mesh.js:776`). Run `muted_mic`.

## 5. What the properties leave out

These races do happen in the code. There is no run for them; the property concerned excepts
them by the history variable named here, and claims the rest. Seven of them contradict what
the repository says: "a stale render could [...] have its doc destroyed mid-render and [...]
flash the error fallback over a perfectly good newer render. Stale renders abort silently" and
"any render still using it is stale" (`presentation.js:189-193`, `253-254`), "one live quiz per
classroom" (`quizzes/services.py:98`), "close every live socket for them"
(`classrooms/services.py:351`), "revoke every member's HTTP/WS access immediately" (`:377`), "if
the deleted file was the one being presented, the presentation is cleared and everyone is told"
(`:784-786`), '"off" means OFF' (`mesh.js:415`), and the row that is read again lest a payload
overwrites what a host has changed (`consumers.py:305-310`).

| Where | What happens | Excepted by |
|---|---|---|
| `services.py:836`, `:878` | two starts make two live sessions; a row written after the end of its session stays open | `twoLive`, `late`, `crashed` |
| `chat.js:145`, `chat/consumers.py:67` | a message deleted before it was broadcast, or shown twice, keeps its text | `overtaken`; first copy only |
| `quizzes/services.py:99` | overlapping starts leave two active runs, of which the page shows one | `crossed`, `alone` |
| `quiz.js:188` | the error of a first click unmarks the second answer | `twice` |
| `room.js:778`, `views.py:333` | a page never clears a quiz or a presentation that ended while its socket was away; an upload between page load and join is missing in the list | `gap`, `missed` |
| `services.py:799` | presenting during a deletion leaves pages with another file than the classroom | `overlap` |
| `office_convert.py:93` | the conversion writes the row of a deleted file again | `early` |
| `assignments/views_manage.py:142` | a submission saves the grade it read: a grade given meanwhile is gone | `crossedPost` |
| `consumers.py:305`, `services.py:574` | a payload read before a mute, or a request of another host saved before it, and published after it shows the member unmuted | `told` |
| `mesh.js:789` | a device change that ends after the microphone was switched off, or a second one, leaves a live device | `raced` |
| `consumers.py:122` | closing one of two tabs removes the member from the rosters | `twofold` |
| `services.py:485`, `room.js:571` | a mute or an approval told of somebody who waits or has gone makes a row of them in the rosters; a denial of somebody in the room leaves theirs | `ghost` |
| `services.py:382` | a membership that becomes active while the classroom is being ended outlives it | `latecomers` (`OnlyLatecomersRemain`) |
| `views.py:662`, `:644`, `services.py:749`, `:467` | somebody in the waiting room may upload, present, act as a host and read the report, if the capability or the rank is theirs | `UnaskedDoors` states it (`DoorsAgree`) |
| `services.py:334` | an entry announced before its commit is missing in a snapshot read in between | `missed` |
| `services.py:665` | a member who waits, is denied, joins again and connects before the denial is broadcast is dropped by the pages although in class | `survivor` (Roster) |
| `core/ratelimit.py:22`, `services.py:93` | simultaneous first failures count once, and a late one replaces a counter that others have raised | the bounds of `Throttled` |
| `mesh.js:188` | `makingOffer` is shared by both connections: the polite side may stay without its tracks | `ImpoliteGetsThrough` speaks of the impolite side |
| `mesh.js:188` | one connection resets the flag while the offer of the other is in the making: both sides take theirs back | `clash` (`Agreement`, `ImpoliteGetsThrough`) |
| `mesh.js:316` | a lost presence socket makes the other page remove its link; the page that comes back keeps the old one, has nothing to offer on it, and what it shares never reaches the new link | `renewed` (`Agreement`) |
| `presentation.js:193` | a page that is being painted when the latest render begins makes PDF.js refuse the canvas, or paints over an image | `amid` holds "paint" (`SlideShown`) |
| `presentation.js:256` | a file that is still loading when the latest render begins destroys the document under it | `amid` holds "load" (`SlideShown`) |
| `consumers.py:74` | a socket that was loading while its member was removed stays until its next action | `missed` (Presence) |

Seen while reading and not modelled: `core/ratelimit.py:9` says blocked attempts keep the
window alive, but a blocked login never reaches `hit`. Chat and whiteboard sockets have no
handler for a denial, which `deny_waiting_room` may apply to an admitted member
(`chat/consumers.py:147`). A clear of the board also deletes `page_go` rows, so that a later
history opens the first page (`whiteboard.js:134`). A second tab of a user ignores the
operations of the first (`whiteboard.js:144`). A participant PATCH of the API applies role
and permissions one by one (`api.py:162`). The end-session button of a page knows only the
session of its page load and of later events (`room.js:1039`). The settings form of a classroom does not catch `PermissionDenied`, which
it gets when the owner has left the own classroom. The eraser at full width on a canvas
lower than some 197 pixels, a stroke of more points than the server takes and a page beyond
the last are refused though painted locally, and a stroke beyond the limit on a frame
closes the socket. A stroke during which the presenter turns the page is recorded on the
new page. Where a proxy ends TLS, the sockets need the site in `CSRF_TRUSTED_ORIGINS`.

## 6. Proofs

All theorems hold for every value of the constants within the `ASSUME`s of the modules.
Those of `Membership` say that the owner is a user, users and guests are disjoint, `NoIp`
is no address, and requests name existing capabilities and settings and assign a role
other than OWNER (`set_member_role` rejects it). The others exclude degenerate constants
(no request, no page, no session) and say that requests are finitely many where files are
counted. Each invariant below was model-checked on the instances of the runs before it
was proved; where one is a conjunction of named parts, its module comments on each part.

### Requests that overlap

- `TypeCorrect`: `Spec => []TypeOK`.
- `Inductive`: `Spec => []IInv`. The safety invariants are not inductive: a request in
  flight holds an old instance and writes it later. `InFlightOK` says what it may hold:
  operations that passed `_can_manage` or the owner check of `set_member_role` never
  target the owner; an instance to be saved whole is not OWNER and is consistent (banned
  excludes active, waiting implies active); a re-join carries active and no ban; leaving,
  removal and denial carry neither active nor waiting; an OWNER instance in `mute_all`
  is the owner's. `KeepsJoinOrLeave`, `KeepsHostOnMember` and `KeepsHostOnRoom` show
  that every read establishes it, `SavedFacts` and `KeepsSave` that every save, on
  whatever row it finds, restores the invariants of the table.
- `OwnerIsSovereign`, `BannedAreOut`, `WaitingAreActive`: the first properties of `overlap`.
- `EndMissesLatecomersOnly` (`OnlyLatecomersRemain`), of `Closing`: while an end has made its
  list and not committed, whoever is active is in the list or late (`ListedOrLate`), and the
  customization form, which saves the whole room, has read a room that was running. So the
  commit deactivates everybody but the late, and nobody becomes active after it without being
  late. It does not assume `OneAtATime`.
- `OwnerMayAll`: the effective permissions of an active owner in a running classroom are
  all of them, whatever the settings and the stored flags.
- `PresenceTypeCorrect`, and `PresenceImplementsMembership`: `PresenceSpec => Spec`, so
  everything above also holds with sockets.

### One request at a time

`OneAtATime` (there is at most one handler) is the hypothesis of the theorems that
overlapping requests refute (finding 1); `Presence` and `Doors` are used under it.

- `SerialInductive`: `SInv` adds to `IInv` that an instance read and not yet saved agrees
  with its row in every column the request does not change (`Fresh`), and that a row that
  was never created is blank. Reads establish `Fresh` because no other request can be
  between a read and its save; the saves then write back what is there.
- The action properties `BansRunTheirTime`, `MutesStick`, `RolesComeFromTheOwner` and
  `NoWayAround`: a step that changes a row is a save, whose instance is fresh.
- `OneAnswerForAll` (`DoorsAgree`): handlers that ask for an active member and not for a
  running classroom agree with those that ask for both, since `SInv` has nobody active in an
  ended one; those that do not ask whether the member waits differ from the others by exactly
  those who wait. The lemmas before it take the pages, the doors of either kind, the hosts and
  the lists one by one.
- `SocketInductive`: nobody whom a consumer took for admitted waits (`CachedWaiting`); a
  consumer whose membership is gone has the closing event in its channel or in the list of
  the request (`LostArePending`); an end of the classroom, announced before it commits, is
  in every channel (`EndIsSent`). `SurvivorsAreTold` and `RoomGroupAdmitted` follow.

### Whiteboard, sessions, uploads

- `BoardInvariant`: the rows a clear may delete are older and of its page, every operation
  without a row is covered by a later clear, ids of operations being inserted differ, and no
  consumer's watermark is beyond the log. `CompactionIsExact`, `NothingFallsBetween` and
  `WhiteboardRefinesLog` (initial states and every step) follow from it, without looking into
  the pages.
- `BoardTypeCorrect` (`BoardTypeOK`) rests on `TypeInv`: the visible page is one of the pages
  there are, also after a `page_go` to a page the tab does not have yet, and no operation is
  twice on its way to the log (`CountOK`).
- `ViewersSeeTheBoard` (`ViewersAgree`): `Replay`, the loop over the events of a history, is a
  recursive function. `RunExists` and `ReplayIs` show that it has the values its definition
  gives, and `ReplayDraws` that a page then shows what its rows draw. `SnapshotDraws` takes
  the rows of a snapshot for all operations up to its watermark, by `RowsSuffice`. Live
  operations are newer and come in the order of their ids (`Watermark`), and the newest of
  all operations does to the page what it does to the reference (`NewestDraws`). Together
  `ViewsStep` keeps: a page shows what all that was sent to it draws.
- `GestureInductive`, `WhatIsDrawnIsHeard` (`HeardAsDrawn`). A coordinate is a rounded
  quotient; `Quotient` turns a bound on it into one on the pixels, and `Share` and `Width`
  show that on a canvas below 10000 pixels a side rounding never decides. `Strokes`, `Points`
  and `Pages` take the operations one by one, and `Admitted` the handshake.
- `SessionInductive`, with `EndedCountsForNobody` and `AttendeesThere`. The second is not
  inductive by itself: `Accounted` adds that a tab that is leaving is about to close the
  session of the interval, `OneLive` that this session is the live one, `Begun` that no
  interval belongs to a session that could still become live for the first time.
- `StorageIsBounded` rests on `FilesInductive`: a request that has passed the check, or whose
  row was deleted under its conversion, holds a claim, and rows and claims together stay
  below cap plus requests. Uploads have files of their own, so a deletion makes one claim.
- `AnswersAreKept` rests on `GradeInductive`: a submission that nothing overlaps is alone and
  holds the row as it stands.

### Pages that have heard everything

A page is right when its channel is empty, so the invariants say what a page will be once
it has heard what is still in its channel: of each thing, the last word on its way (in the
channel, or in the hands of a request that is about to publish) is the state of the rows.

- `ChatInductive`, `NoMessageMissed`: a recent message is shown, in the channel, or about to
  be broadcast. `ShownInductive`, `DeletedIsBlank`: a deletion follows its message in every
  channel, or has marked the first element that shows it.
- `StartInductive`, `OneQuiz`: a start that is alone has seen all live runs, until it
  commits. `QuizInductive` adds the pages: no end overtakes its start, and a run that nobody
  is about to end is the last one started. `QuizTypeCorrect`, `PagesFollowTheQuiz`, and
  `MarksAreRecorded`: an answer marked on a page is recorded, or its reply is on the way.
- `FollowInductive`, `FilesTypeCorrect`, `PagesListTheFiles`: each file is listed, announced,
  or still in the hands of its upload; a file deleted is followed by its deletion.
- `SlideInductive`, `ViewerSeesTheSlide` (`SlideShown`): of the concurrent renders the latest is
  at work, or the canvas shows its page, or the panel that is up has its cause: the file is for
  download, it has failed to load since, or a load or a paint was under way when that render
  began. No other render, stale or not, brings a panel up or paints over it.
- `RosterTypeCorrect`, `PagesShowTheRoom` (`RosterIsRight`): `PageIsDue` says that the row a
  page shows of a member turns into the one that is due (`Due`) by the events in the page's
  channel. `RowRun` states that as the existence of the sequence of rows in between, so that an
  event put at the end or taken from the front extends or shortens it (`RunOfOneMore`,
  `RunOfTheRest`). A page that waits for its snapshot satisfies it from any row, unless nothing
  on its way speaks of the member. `StandingOK` relates requests, rows and consumers, whichever
  requests are pending besides; a row that no membership accounts for is a `ghost`.
- `VoiceInductive`, `MicNeverLies`, `TheMutedAreNotHeard`: the last event about the speaker in
  a page's channel, or else the row of the page, says what the room was told last
  (`PageToldOf`), whatever the requests of other hosts have saved meanwhile;
  the live tracks are the one held and the one a device change has got and not merged
  (`MicHeld`). `MicHeld` has no word on mutes: button and device agree through all of them.

### Brakes

`ThrottleTypeCorrect`, and `BrakesHold` (`Throttled`), for any limits, windows and numbers of
overlapping requests. A failure and its count are different steps of a request, between which
the counter may expire or be replaced. The invariants (`LoginInductive`, `NameInductive`,
`AddressInductive`) keep a budget for each window that lasts (`Budget`): what has failed in it
is covered by the counter as it stands, by the attempts on their way to it, and, where the
counter was begun in the window, by a full counter for each attempt that is not about to
replace it. A first hit (`BudgetSet`) pays for the counter it replaces with its own share. Of
the logins, those that found the counter full are counted apart: they block the address for
longer than the window lasts. These invariants were model-checked on the constants of the run
(543 760 states) and with limits of three and twelve logins (357 617 states). `SocketInductive`
says that the stamps are the last messages that passed, and that what was dropped is too old;
`RecentIs` is what popping from the left leaves.

### Mesh

`MeshInductive` describes one connection by the two signaling states and the descriptions
in the two channels. `Orderly` says of each description on its way what the two sides must be
doing: an answer is to the outstanding offer and comes alone, an offer the other side will
accept is the last one, and of two stable sides each has what the other has done. A lost
signal, or a socket with all that was on its way, only removes cases (`Thinned`,
`AsideKeeps`). All this is claimed while `Steady`: no link was removed and `makingOffer` was
reset for both connections never. `PresenceKeeps` shows that losing a socket, coming back and
hearing of the other keep it up to the removal; after that only types, timers and what was
negotiated of what was added remain. `MeshTypeCorrect` and `PeersAgree` (`Agreement`) follow,
for any number of tracks, losses, drops and retries. The two connections of a pair meet in
`makingOffer` only; `clash` is where that matters.

### Only model-checked

- `LessonTypeOK` as a whole: it joins ten modules whose proofs are four modules that cannot
  be extended together, because they use the same names. `QuizTypeCorrect`,
  `FilesTypeCorrect`, `RosterTypeCorrect` and `ThrottleTypeCorrect` are the parts stated as
  theorems, the other types are conjuncts of the invariants above.
- Liveness (`RevokedSocketsClose`, `ImpoliteGetsThrough`, `NeverSilent`): there is no
  reasoning about ENABLED here.

Induction over data is out of reach as a rule to be instantiated, but most uses of it here
are least counterexamples: a nonempty set of naturals has a least element (`LeastNumber`), and
below a bound a largest one (`Largest`), from the well-foundedness of `<`. So a recursive
function over a list has the values of its definition if no first index breaks it. Lists are
compared by the positions at which an element occurs.

## 7. Not modelled

- Lost messages of the channel layer: nothing in the code notices or repairs them, so no
  property would hold; delivery in order is assumed everywhere.
- A role change (`role_changed`), whose row is written as that of a permission change and
  whose event makes the page of the member load anew, and taking the microphone away for good:
  `Voice` has the mutes and unmutes.
- Which descriptions a browser refuses when a link was removed: `Refused` leaves it open.
- The second counter of a login (see `Throttle`).
- Screen sharing beyond its negotiation, recording, the preview page of `media.js`: local state that nobody else
  reacts to. The camera is the same code as the microphone.
- The LiveKit server and the signing of its token, file validation: functions of one input
  without state here. Whom the token and the files are given to is in `Doors`.
- Accounts, page rendering, quiz and assignment authoring, serializers, settings and
  deployment: forms on rows that nobody writes concurrently, or framework code.
- HTML, CSS, layout, keyboard shortcuts, how strokes are painted, laser pointers.
- Malformed frames: the sockets refuse what the page never sends.
- Tests and audit scripts are read as documentation, not modelled.
