-------------------------------- MODULE Voice -------------------------------
(***************************************************************************)
(* From the mute button of a host to the silence in every page, without a  *)
(* media server: the muted column and the events about it (services.py,    *)
(* consumers.py), the page of one member, the speaker, with its microphone *)
(* and the devices behind it (mesh.js), and pages of classmates, who       *)
(* switch the arriving track on and off by what their roster says.  The    *)
(* camera has the same code.                                               *)
(***************************************************************************)
EXTENDS Naturals, Sequences, FiniteSets

CONSTANTS
  Listeners,     \* pages of classmates
  HostReqs,      \* requests of hosts that may be served at the same time
  NoLink,        \* no connection to a page
  VoicePlans     \* bounds on a behaviour, see voiceLeft

ASSUME VoiceAssumption ==
  /\ NoLink \notin Nat
  /\ VoicePlans \subseteq [acts : Nat, taps : Nat, picks : Nat, losses : Nat, news : Nat,
                           links : Nat, drops : Nat]

VARIABLES
  muted,       \* the speaker's ClassroomMember.muted
  act,         \* [HostReqs -> how far the request is, and its event]
  speaker,     \* the speaker's page, see SpeakerPage
  mic,         \* its devices: tracks given out, live ones, ones whose "ended" is due
  sends,       \* [Listeners -> track the speaker's connection to the page sends]
  listener,    \* [Listeners -> the page, see ListenerPage]
  news,        \* the speaker's consumer: payload read and not sent, of what event
  voiceLeft,   \* actions of each kind still to come
  told,        \* history: what the last event to the room said of the speaker
  raced        \* history: a device switch ended in a page it had not begun in

voiceVars == <<muted, act, speaker, mic, sends, listener, news, voiceLeft, told, raced>>

Track  == Nat \ {0}
HostWords == {"participant_muted", "mute_all", "permission_changed", "settings_changed"}
NewsWords == {"media_state", "raise_hand", "user_joined"}
VoiceEvent == [type : HostWords \cup NewsWords \cup {"muted", "user_left"}, muted : BOOLEAN]
HostRequest == [step : {"idle", "read", "saved"}, type : HostWords, muted : BOOLEAN]
NoRequest == [step |-> "idle", type |-> "participant_muted", muted |-> FALSE]

SpeakerPage == [
  inbox    : Seq(VoiceEvent),
  micOn    : BOOLEAN,
  allowed  : BOOLEAN,            \* permissions.can_use_microphone
  local    : Nat,                \* audio track of localStream, 0 for none
  toggling : BOOLEAN,            \* _toggling.mic: waiting for getUserMedia
  pick     : {<<>>} \cup {<<"asked">>} \cup (Track \X SUBSET Listeners)]   \* setMicDevice

ListenerPage == [
  conn   : {"on", "joining"},
  inbox  : Seq(VoiceEvent),
  row    : {"none", "muted", "open"},           \* participants.get(speaker)
  queued : BOOLEAN,                             \* _renderQueued
  peer   : {"none", "muted", "open"},           \* link.peer, "none" without a link
  track  : {"none", "enabled", "disabled"}]     \* link.remoteStream

MutedWord(m) == IF m THEN "muted" ELSE "open"

VEvent(type, m) == [type |-> type, muted |-> m]

SpeakerIdle == ~speaker.toggling /\ speaker.pick = <<>>

-----------------------------------------------------------------------------
(* The server.                                                             *)

ToListeners(e) == [l \in Listeners |-> [listener[l] EXCEPT !.inbox = Append(@, e)]]

ToRoom(before, e) ==
  /\ listener' = ToListeners(e)
  /\ speaker' = [speaker EXCEPT !.inbox = @ \o before \o <<e>>]

\* A host's request gets to a step with what it has read, or has written, in its instance.
HostGoes(q, step, type, m) ==
  /\ act[q].step = "idle"
  /\ voiceLeft.acts > 0
  /\ voiceLeft' = [voiceLeft EXCEPT !.acts = @ - 1]
  /\ act' = [act EXCEPT ![q] = [step |-> step, type |-> type, muted |-> m]]
  /\ UNCHANGED <<speaker, mic, sends, listener, news, told, raced>>

\* set_member_muted, mute_all, or set_member_permission granting the microphone,
\* which lifts the mute: the column gets a value that does not depend on what was read.
HostSaves(q, type, m) ==
  /\ type = "mute_all" => m
  /\ type = "permission_changed" => ~m
  /\ HostGoes(q, "saved", type, m)
  /\ muted' = m

\* set_member_permission of another capability reads the member, and its bare save()
\* writes every column back.
HostReads(q) ==
  /\ HostGoes(q, "read", "permission_changed", muted)
  /\ UNCHANGED muted

HostSavesAll(q) ==
  /\ act[q].step = "read"
  /\ act' = [act EXCEPT ![q].step = "saved"]
  /\ muted' = act[q].muted
  /\ UNCHANGED <<speaker, mic, sends, listener, news, voiceLeft, told, raced>>

\* update_settings writes no member: it sends what _permission_updates has read.
update_settings(q) ==
  /\ HostGoes(q, "saved", "settings_changed", muted)
  /\ UNCHANGED muted

\* notify_member and broadcast, in the order the requests get there.
HostAnnounces(q) ==
  LET e == VEvent(act[q].type, act[q].muted) IN
  /\ act[q].step = "saved"
  /\ ToRoom(IF e.type \in {"participant_muted", "mute_all"} /\ e.muted
              THEN <<VEvent("muted", TRUE)>> ELSE <<>>, e)
  /\ act' = [act EXCEPT ![q] = NoRequest]
  /\ told' = e.muted
  /\ UNCHANGED <<muted, mic, sends, news, voiceLeft, raced>>

\* The speaker's consumer reads its payload (media_state, a raised hand, or connect after
\* the socket was lost) and sends it to the group later.
ConsumerReads(type) ==
  /\ news = <<>>
  /\ voiceLeft.news > 0
  /\ voiceLeft' = [voiceLeft EXCEPT !.news = @ - 1]
  /\ news' = <<VEvent(type, muted)>>
  /\ IF type = "user_joined"
       THEN \* the old consumer has announced that it left; events to it are lost
            /\ listener' = ToListeners(VEvent("user_left", muted))
            /\ speaker' = [speaker EXCEPT !.inbox = <<>>]
       ELSE UNCHANGED <<listener, speaker>>
  /\ UNCHANGED <<muted, act, mic, sends, told, raced>>

\* A connecting consumer sends the page a fresh snapshot first, which counts as
\* participant_muted of oneself.
ConsumerSends ==
  /\ news # <<>>
  /\ LET e == Head(news)
         snapshot == IF e.type = "user_joined" THEN <<VEvent("participant_muted", muted)>> ELSE <<>>
     IN /\ listener' = ToListeners(e)
        /\ speaker' = [speaker EXCEPT !.inbox = snapshot \o @]
        /\ told' = e.muted
  /\ news' = <<>>
  /\ UNCHANGED <<muted, act, mic, sends, voiceLeft, raced>>

-----------------------------------------------------------------------------
(* The speaker's devices.                                                  *)

\* _mergeLocalTrack: the track replaces the one of its kind, which is stopped.
\* (mutant: which is left running)
MergeKeepsOld(live, old, new) == live \cup {new}

_mergeLocalTrack(live, old, new) == (live \ {old}) \cup {new}

\* _republishLocal: a sender whose track has ended gets the live one, or none; a
\* connection without a sender of the kind gets the local track.
_republishLocal(live, local) ==
  [l \in Listeners |->
     CASE sends[l] = NoLink -> NoLink
       [] sends[l] \in Track /\ sends[l] \in live -> sends[l]
       [] OTHER -> local]

\* _dropLocalTrack and what follows it, in toggleMicrophone, forceMute and the handler
\* of "ended".
MicGoesOff ==
  LET live == mic.live \ {speaker.local} IN
  /\ mic' = [mic EXCEPT !.live = live]
  /\ sends' = _republishLocal(live, 0)

ToggleOff ==
  /\ ~speaker.toggling /\ speaker.allowed /\ speaker.micOn
  /\ voiceLeft.taps > 0
  /\ voiceLeft' = [voiceLeft EXCEPT !.taps = @ - 1]
  /\ MicGoesOff
  /\ speaker' = [speaker EXCEPT !.local = 0, !.micOn = FALSE]
  /\ UNCHANGED <<muted, act, listener, news, told, raced>>

ToggleOn ==
  /\ ~speaker.toggling /\ speaker.allowed /\ ~speaker.micOn
  /\ voiceLeft.taps > 0
  /\ voiceLeft' = [voiceLeft EXCEPT !.taps = @ - 1]
  /\ speaker' = [speaker EXCEPT !.toggling = TRUE]
  /\ UNCHANGED <<muted, act, mic, sends, listener, news, told, raced>>

\* getUserMedia answers: with an error, or with a fresh track.
toggleMicrophone ==
  /\ speaker.toggling
  /\ \/ /\ speaker' = [speaker EXCEPT !.toggling = FALSE]
        /\ UNCHANGED <<mic, sends>>
     \/ LET t == mic.given + 1
            live == _mergeLocalTrack(mic.live, speaker.local, t)
        IN /\ mic' = [mic EXCEPT !.given = t, !.live = live]
           /\ speaker' = [speaker EXCEPT !.toggling = FALSE, !.micOn = TRUE, !.local = t]
           /\ sends' = _republishLocal(live, t)
  /\ UNCHANGED <<muted, act, listener, news, voiceLeft, told, raced>>

PickDevice ==
  /\ speaker.pick = <<>> /\ speaker.micOn /\ speaker.local # 0
  /\ voiceLeft.picks > 0
  /\ voiceLeft' = [voiceLeft EXCEPT !.picks = @ - 1]
  /\ speaker' = [speaker EXCEPT !.pick = <<"asked">>]
  /\ UNCHANGED <<muted, act, mic, sends, listener, news, told, raced>>

DeviceAnswers ==
  /\ speaker.pick = <<"asked">>
  /\ \/ /\ speaker' = [speaker EXCEPT !.pick = <<>>]
        /\ UNCHANGED mic
     \/ LET t == mic.given + 1 IN
        /\ mic' = [mic EXCEPT !.given = t, !.live = @ \cup {t}]
        /\ speaker' = [speaker EXCEPT !.pick = <<t, {l \in Listeners : sends[l] # NoLink}>>]
  /\ UNCHANGED <<muted, act, sends, listener, news, voiceLeft, told, raced>>

\* The senders that have a track get the new one, then it is merged; nothing is
\* republished.
setMicDevice ==
  /\ speaker.pick \notin {<<>>, <<"asked">>}
  /\ LET t == speaker.pick[1]
         pcs == speaker.pick[2]
     IN /\ sends' = [l \in Listeners |-> IF l \in pcs /\ sends[l] \in Track THEN t ELSE sends[l]]
        /\ mic' = [mic EXCEPT !.live = _mergeLocalTrack(@, speaker.local, t)]
        /\ raced' = (raced \/ ~speaker.micOn \/ pcs # {l \in Listeners : sends[l] # NoLink})
        /\ speaker' = [speaker EXCEPT !.pick = <<>>, !.local = t]
  /\ UNCHANGED <<muted, act, listener, news, voiceLeft, told>>

\* A device is unplugged: its track ends and an event is due.
DeviceLost ==
  /\ speaker.local \in mic.live
  /\ voiceLeft.losses > 0
  /\ voiceLeft' = [voiceLeft EXCEPT !.losses = @ - 1]
  /\ mic' = [mic EXCEPT !.live = @ \ {speaker.local}, !.due = @ \cup {speaker.local}]
  /\ UNCHANGED <<muted, act, speaker, sends, listener, news, told, raced>>

\* _watchLocalTrack: a track that is no longer ours "we stopped on purpose".
_watchLocalTrack(t) ==
  /\ t \in mic.due
  /\ mic' = [mic EXCEPT !.due = @ \ {t}]
  /\ IF speaker.local = t
       THEN /\ speaker' = [speaker EXCEPT !.local = 0, !.micOn = FALSE]
            /\ sends' = _republishLocal(mic.live, 0)
       ELSE UNCHANGED <<speaker, sends>>
  /\ UNCHANGED <<muted, act, listener, news, voiceLeft, told, raced>>

\* syncPeers in the speaker's page: a classmate appears, or goes.
SpeakerLinks(l) ==
  /\ voiceLeft.links > 0
  /\ voiceLeft' = [voiceLeft EXCEPT !.links = @ - 1]
  /\ sends' = [sends EXCEPT ![l] = IF @ = NoLink THEN speaker.local ELSE NoLink]
  /\ listener' = [listener EXCEPT ![l].track = "none"]
  /\ UNCHANGED <<muted, act, speaker, mic, news, told, raced>>

\* handleEvent, applyOwnPermissionUpdate and applyModerationState: the host's word
\* switches the microphone off and takes or gives the right to switch it on.
SpeakerHears ==
  LET e == Head(speaker.inbox) IN
  /\ speaker.inbox # <<>>
  /\ \A k \in DOMAIN news : news[k].type # "user_joined"     \* connect() has returned
  /\ IF e.muted
       THEN /\ MicGoesOff
            /\ speaker' = [speaker EXCEPT !.inbox = Tail(@), !.allowed = FALSE, !.local = 0,
                                          !.micOn = FALSE]
       ELSE /\ speaker' = [speaker EXCEPT !.inbox = Tail(@), !.allowed = TRUE]
            /\ UNCHANGED <<mic, sends>>
  /\ UNCHANGED <<muted, act, listener, news, voiceLeft, told, raced>>

-----------------------------------------------------------------------------
(* The page of a classmate.                                                *)

\* _applyPeerPermissions: the arrived track is enabled if the peer's record allows it.
_applyPeerPermissions(P, peer) ==
  [P EXCEPT !.peer = peer,
            !.track = IF @ = "none" THEN @ ELSE IF peer = "open" THEN "enabled" ELSE "disabled"]

\* handleEvent: mute_all and permission_changed touch only a row that is there, the
\* others write it; media_state goes to the link at once as well.
ListenerHears(l) ==
  LET P == listener[l]
      e == Head(P.inbox)
      Q == [P EXCEPT !.inbox = Tail(@), !.queued = TRUE]
      word == MutedWord(e.muted)
  IN
  /\ P.conn = "on" /\ P.inbox # <<>>
  /\ listener' = [listener EXCEPT ![l] =
       CASE e.type = "user_left" -> [Q EXCEPT !.row = "none"]
         [] e.type \in {"mute_all", "permission_changed"} ->
              [Q EXCEPT !.row = IF @ = "none" THEN @ ELSE word]
         [] e.type = "media_state" /\ P.peer # "none" ->
              _applyPeerPermissions([Q EXCEPT !.row = word], word)
         [] OTHER -> [Q EXCEPT !.row = word]]
  /\ UNCHANGED <<muted, act, speaker, mic, sends, news, voiceLeft, told, raced>>

\* The next animation frame: render and syncPeers.
ListenerRenders(l) ==
  LET P == [listener[l] EXCEPT !.queued = FALSE] IN
  /\ listener[l].queued
  /\ listener' = [listener EXCEPT ![l] =
       IF P.row = "none" THEN [P EXCEPT !.peer = "none", !.track = "none"]
       ELSE _applyPeerPermissions(P, P.row)]
  /\ UNCHANGED <<muted, act, speaker, mic, sends, news, voiceLeft, told, raced>>

\* The speaker's track arrives, once both ends have a link; renegotiation fires the
\* event again.
\* (mutant: the permissions are left to the next update of the roster)
TrackArrivesOn(l) ==
  /\ listener[l].peer # "none" /\ sends[l] \in Track
  /\ listener' = [listener EXCEPT ![l].track = "enabled"]
  /\ UNCHANGED <<muted, act, speaker, mic, sends, news, voiceLeft, told, raced>>

_onRemoteMedia(l) ==
  /\ listener[l].peer # "none" /\ sends[l] \in Track
  /\ listener' = [listener EXCEPT ![l] =
       _applyPeerPermissions([@ EXCEPT !.track = "enabled"], @.peer)]
  /\ UNCHANGED <<muted, act, speaker, mic, sends, news, voiceLeft, told, raced>>

\* A classmate's page connects again, after what was sent to the lost socket: it is in
\* the group before its consumer reads the roster for it, which is painted at once.
ListenerReconnects(l) ==
  /\ listener[l].conn = "on"
  /\ voiceLeft.drops > 0
  /\ voiceLeft' = [voiceLeft EXCEPT !.drops = @ - 1]
  /\ listener' = [listener EXCEPT ![l].conn = "joining", ![l].inbox = <<>>]
  /\ UNCHANGED <<muted, act, speaker, mic, sends, news, told, raced>>

ListenerSnapshot(l) ==
  /\ listener[l].conn = "joining"
  /\ listener' = [listener EXCEPT ![l] =
       _applyPeerPermissions([@ EXCEPT !.conn = "on", !.row = MutedWord(muted)], MutedWord(muted))]
  /\ UNCHANGED <<muted, act, speaker, mic, sends, news, voiceLeft, told, raced>>

-----------------------------------------------------------------------------
VoiceInit ==
  /\ muted = FALSE /\ news = <<>>
  /\ act = [q \in HostReqs |-> NoRequest]
  /\ speaker = [inbox |-> <<>>, micOn |-> FALSE, allowed |-> TRUE, local |-> 0,
                toggling |-> FALSE, pick |-> <<>>]
  /\ mic = [given |-> 0, live |-> {}, due |-> {}]
  /\ sends = [l \in Listeners |-> 0]
  /\ listener = [l \in Listeners |->
       [conn |-> "on", inbox |-> <<>>, row |-> "open", queued |-> FALSE, peer |-> "open", track |-> "none"]]
  /\ voiceLeft \in VoicePlans
  /\ told = FALSE /\ raced = FALSE

VoiceNext ==
  \/ \E q \in HostReqs :
       \/ \E type \in HostWords \ {"settings_changed"}, m \in BOOLEAN : HostSaves(q, type, m)
       \/ HostReads(q) \/ HostSavesAll(q) \/ update_settings(q) \/ HostAnnounces(q)
  \/ \E type \in NewsWords : ConsumerReads(type)
  \/ ConsumerSends
  \/ ToggleOff \/ ToggleOn \/ toggleMicrophone
  \/ PickDevice \/ DeviceAnswers \/ setMicDevice
  \/ DeviceLost \/ \E t \in mic.due : _watchLocalTrack(t)
  \/ SpeakerHears
  \/ \E l \in Listeners :
       \/ SpeakerLinks(l) \/ ListenerHears(l) \/ ListenerRenders(l) \/ _onRemoteMedia(l)
       \/ ListenerReconnects(l) \/ ListenerSnapshot(l)

VoiceSpec == VoiceInit /\ [][VoiceNext]_voiceVars

-----------------------------------------------------------------------------
(* Properties.                                                             *)

VoiceTypeOK ==
  /\ muted \in BOOLEAN /\ act \in [HostReqs -> HostRequest]
  /\ speaker \in SpeakerPage
  /\ mic.live \cup mic.due \subseteq 1 .. mic.given
  /\ sends \in [Listeners -> Nat \cup {NoLink}]
  /\ listener \in [Listeners -> ListenerPage]

\* A request has written the column and not told anybody.
Unannounced == \E q \in HostReqs : act[q].step = "saved" /\ act[q].type # "settings_changed"

\* Whatever the muted member's own page does, and however the requests of hosts overlap, a
\* page that has handled everything plays nothing of somebody whom the server has muted, in
\* whichever order the events, the frames, the snapshots and the track came.  The code
\* breaks this where the last event to the room says that the member is not muted: one that
\* was read before the mute, or whose request saved before it, and published after it.
MutedNotHeard ==
  \A l \in Listeners :
    LET P == listener[l] IN
    muted /\ told /\ ~Unannounced /\ P.conn = "on" /\ P.inbox = <<>> /\ ~P.queued =>
      P.track # "enabled"

\* '"off" means OFF' and a page never claims "mic on" while nothing is transmitted: with
\* no operation in flight the microphone is on exactly if a device is held, it is the
\* only one, and every connection sends it; unless a device switch was overtaken.
MicTellsTheTruth ==
  SpeakerIdle /\ mic.due = {} /\ ~raced =>
    /\ mic.live = IF speaker.micOn THEN {speaker.local} ELSE {}
    /\ speaker.micOn <=> speaker.local # 0
    /\ \A l \in Listeners : sends[l] \in {NoLink, speaker.local}

\* "cut the device AND revoke the local right to switch it back on, otherwise the button
\* silently lies": a page that has heard the mute and waits for nothing has its
\* microphone off.
MutedStaysOff ==
  ~speaker.allowed /\ speaker.inbox = <<>> /\ SpeakerIdle => ~speaker.micOn
=============================================================================
