-------------------------------- MODULE Mesh --------------------------------
(***************************************************************************)
(* Two participants without a media server (mesh.js): each has a PeerLink  *)
(* to the other, with an RTCPeerConnection for camera and microphone and   *)
(* another one for a shared screen.  Both may offer at any time; the one   *)
(* with the lower member id is polite.  Descriptions travel over the       *)
(* presence socket and the member group, in order, unless a socket is down.*)
(* When a socket goes down the other page is told that this member left,   *)
(* drops its link and builds a new one when the member is back; the page   *)
(* whose socket it was keeps its own.                                      *)
(*                                                                         *)
(* A description is the number of things (tracks, the data channel, ICE    *)
(* restarts) of its sender that it covers.  ICE candidates are left out:   *)
(* whether the network lets two agreed sides connect is the environment's. *)
(***************************************************************************)
EXTENDS Naturals, Sequences

CONSTANTS
  Lower, Higher,   \* the two members, by member id
  MeshPlans        \* bound: what happens in a behaviour, see meshPlan

Peer == {Lower, Higher}
Pc   == {"cam", "screen"}
Other(p) == IF p = Lower THEN Higher ELSE Lower

\* What each side adds to its connections, whether ten seconds pass and the network
\* does something, and how often connections break, the user tries again after a
\* failure, a single signal is lost (refused by the rate limit, or by a full channel),
\* and a presence socket goes down.
ASSUME MeshAssumption ==
  /\ Lower # Higher
  /\ MeshPlans \subseteq [adds : [Peer -> [Pc -> Nat]], timed : BOOLEAN,
                   drops : Nat, retries : Nat, losses : Nat, cuts : [Peer -> Nat]]

VARIABLES
  peer,      \* [Peer -> the PeerLink to the other, see Link]
  page,      \* [Peer -> its presence socket, and whether its roster holds the other]
  wire,      \* [Peer -> what is on the way to this member]
  spent,     \* what of the plan is used up
  renewed,   \* history: a link was removed
  meshPlan   \* chosen once

meshVars == <<peer, page, wire, spent, renewed, meshPlan>>

\* A description for one of the connections, or the news that the other left or joined.
Description == [type : {"offer", "answer"}, pc : Pc, ver : Nat]
News(type) == [type |-> type, pc |-> "none", ver |-> 0]
Signal == Description \cup {News("left"), News("joined")}

\* Old sockets of which the server still has to take leave.
Page == [up : BOOLEAN, listed : BOOLEAN, old : Nat]

Link == [
  link     : BOOLEAN,                       \* syncPeers has created it
  sig      : [Pc -> {"stable", "offering", "answering"}],  \* signalingState
  draft    : [Pc -> Nat],                   \* what createOffer, if running, will cover
  out      : [Pc -> Nat],                   \* what the offer on the way covers
  making   : BOOLEAN,                       \* makingOffer, one for both connections
  todo     : [Pc -> Seq(Signal)],           \* _pendingSignals without a link, then the
                                            \* setRemoteDescription calls not finished
  added    : [Pc -> Nat],                   \* things to negotiate
  done     : [Pc -> Nat],                   \* of those, negotiated
  got      : [Pc -> Nat],                   \* of the other's, received
  ice      : {"new", "met", "up", "down"},  \* of the camera connection
  watchdog : BOOLEAN,                       \* the two timers
  recovery : BOOLEAN,
  retried  : BOOLEAN,
  failed   : BOOLEAN,                       \* the tile says so
  clash    : BOOLEAN]                       \* history: makingOffer was reset for both

Fresh0 == [k \in Pc |-> 0]

NoLink ==
  [link |-> FALSE, sig |-> [k \in Pc |-> "stable"], draft |-> Fresh0,
   out |-> Fresh0, making |-> FALSE, todo |-> [k \in Pc |-> <<>>], added |-> Fresh0,
   done |-> Fresh0, got |-> Fresh0, ice |-> "new", watchdog |-> FALSE,
   recovery |-> FALSE, retried |-> FALSE, failed |-> FALSE,
   clash |-> FALSE]

-----------------------------------------------------------------------------
(* What happens inside one PeerLink.                                       *)

\* (mutant: neither side gives way)
PoliteStrict(p) == p = Lower /\ p = Higher
Polite(p) == p = Lower

_isUp(L) == L.ice = "up"

armWatchdog(L, k) == [L EXCEPT !.watchdog = @ \/ (k = "cam" /\ ~_isUp(L))]

_settle(L) ==
  [L EXCEPT !.watchdog = FALSE, !.recovery = FALSE, !.retried = FALSE, !.failed = FALSE]

\* One ICE restart, which has to be negotiated, then the user is told.
\* (mutant: the timer is not armed again after the restart)
RecoverOnce(L) ==
  IF ~L.retried
    THEN [L EXCEPT !.retried = TRUE, !.added["cam"] = @ + 1, !.watchdog = FALSE]
    ELSE [L EXCEPT !.watchdog = FALSE, !.recovery = FALSE, !.failed = TRUE]

_recover(L) ==
  IF ~L.retried
    THEN armWatchdog([L EXCEPT !.retried = TRUE, !.added["cam"] = @ + 1, !.watchdog = FALSE], "cam")
    ELSE [L EXCEPT !.watchdog = FALSE, !.recovery = FALSE, !.failed = TRUE]

\* (mutant: the impolite side answers a colliding offer, too)
AnswerAll(p, L, m) == [L EXCEPT !.todo[m.pc] = Append(@, m)]

\* handleSignal up to its first await: the collision is judged on arrival, while
\* descriptions that arrived earlier may still be in the works.
handleSignal(p, L, m) ==
  LET collision == m.type = "offer" /\ (L.making \/ L.sig[m.pc] # "stable")
  IN IF collision /\ ~Polite(p) THEN L
     ELSE [L EXCEPT !.todo[m.pc] = Append(@, m)]

-----------------------------------------------------------------------------
(* Signals.                                                                *)

\* presence.send and _relay_rtc_signal; nothing arrives while a socket is down.
_signal(p, m) ==
  \/ /\ wire' = IF page[p].up /\ page[Other(p)].up
                 THEN [wire EXCEPT ![Other(p)] = Append(@, m)] ELSE wire
     /\ UNCHANGED spent
  \/ /\ spent.losses < meshPlan.losses
     /\ spent' = [spent EXCEPT !.losses = @ + 1]
     /\ UNCHANGED wire

\* syncPeers sees the other: existing tracks are added, the higher member id
\* opens a data channel if it has none, and buffered signals are replayed.
Create(p) ==
  /\ page[p].listed /\ ~peer[p].link
  /\ \E tracks \in [Pc -> 0..1] :
       /\ p = Higher => tracks["cam"] = 1
       /\ tracks["screen"] <= meshPlan.adds[p]["screen"]
       /\ peer' = [peer EXCEPT ![p].link = TRUE, ![p].added = tracks]
  /\ UNCHANGED <<page, wire, spent, renewed, meshPlan>>

\* (mutant: close() leaves the timers running)
RemoveKeepsTimers(p) ==
  /\ peer[p].link /\ ~page[p].listed
  /\ peer' = [peer EXCEPT ![p] = [NoLink EXCEPT !.clash = peer[p].clash,
                !.watchdog = peer[p].watchdog, !.recovery = peer[p].recovery]]
  /\ renewed' = TRUE
  /\ UNCHANGED <<page, wire, spent, meshPlan>>

\* syncPeers sees that the other is gone: _removePeer and close, nothing is told.
Remove(p) ==
  /\ peer[p].link /\ ~page[p].listed
  /\ peer' = [peer EXCEPT ![p] = [NoLink EXCEPT !.clash = peer[p].clash]]
  /\ renewed' = TRUE
  /\ UNCHANGED <<page, wire, spent, meshPlan>>

\* What the room group brings to the other page, if that is connected.
Announced(p, news) ==
  IF page[Other(p)].up THEN [wire EXCEPT ![Other(p)] = Append(@, news)] ELSE wire

\* The presence socket closes, with all that was on the way to it.
SocketLost(p) ==
  /\ page[p].up /\ spent.cuts[p] < meshPlan.cuts[p]
  /\ spent' = [spent EXCEPT !.cuts[p] = @ + 1]
  /\ page' = [page EXCEPT ![p].up = FALSE, ![p].old = @ + 1]
  /\ wire' = [wire EXCEPT ![p] = <<>>]
  /\ UNCHANGED <<peer, renewed, meshPlan>>

\* disconnect() of the old socket, whether or not the page has a new one by then.
Left(p) ==
  /\ page[p].old > 0
  /\ page' = [page EXCEPT ![p].old = @ - 1]
  /\ wire' = Announced(p, News("left"))
  /\ UNCHANGED <<peer, spent, renewed, meshPlan>>

\* The page connects again, gets the list of all active members, and is announced.
Reconnect(p) ==
  /\ ~page[p].up
  /\ page' = [page EXCEPT ![p].up = TRUE, ![p].listed = TRUE]
  /\ wire' = Announced(p, News("joined"))
  /\ UNCHANGED <<peer, spent, renewed, meshPlan>>

\* user_left and user_joined change the roster; the links follow in the next frame.
HearRoster(p) ==
  /\ wire[p] # <<>> /\ Head(wire[p]).pc = "none"
  /\ wire' = [wire EXCEPT ![p] = Tail(@)]
  /\ page' = [page EXCEPT ![p].listed = Head(wire[p]).type = "joined"]
  /\ UNCHANGED <<peer, spent, renewed, meshPlan>>

\* Without a link the signal is buffered: what is replayed to a fresh link collides
\* with nothing, so it is judged here, too.
Receive(p) ==
  LET m == Head(wire[p]) IN
  /\ wire[p] # <<>> /\ m.pc # "none"
  /\ wire' = [wire EXCEPT ![p] = Tail(@)]
  /\ peer' = [peer EXCEPT ![p] = handleSignal(p, @, m)]
  /\ UNCHANGED <<page, spent, renewed, meshPlan>>

-----------------------------------------------------------------------------
(* Negotiation.                                                            *)

\* A microphone, a camera or a screen is switched on for the first time.
AddTrack(p, k) ==
  /\ peer[p].link
  /\ spent.adds[p][k] < meshPlan.adds[p][k]
  /\ spent' = [spent EXCEPT !.adds[p][k] = @ + 1]
  /\ peer' = [peer EXCEPT ![p].added[k] = @ + 1]
  /\ UNCHANGED <<page, wire, renewed, meshPlan>>

\* onnegotiationneeded: fired by a stable connection with nothing in the works.
NegotiationNeeded(p, k) ==
  LET L == peer[p] IN
  /\ L.link
  /\ L.sig[k] = "stable" /\ L.todo[k] = <<>> /\ L.draft[k] = 0
  /\ L.added[k] > L.done[k]
  /\ peer' = [peer EXCEPT ![p].draft[k] = L.added[k], ![p].making = TRUE]
  /\ UNCHANGED <<page, wire, spent, renewed, meshPlan>>

\* setLocalDescription of the offer; it fails if an offer of the other was
\* accepted meanwhile.  makingOffer is reset either way.
SetLocalOffer(p, k) ==
  LET L == peer[p]
      idle == [L EXCEPT !.draft[k] = 0, !.making = FALSE,
                        !.clash = @ \/ \E o \in Pc \ {k} : L.draft[o] # 0]
  IN /\ L.draft[k] # 0
     /\ \/ /\ L.sig[k] = "stable"
           /\ peer' = [peer EXCEPT ![p] =
                armWatchdog([idle EXCEPT !.sig[k] = "offering", !.out[k] = L.draft[k]], k)]
           /\ _signal(p, [type |-> "offer", pc |-> k, ver |-> L.draft[k]])
        \/ /\ L.sig[k] # "stable"
           /\ peer' = [peer EXCEPT ![p] = idle]
           /\ UNCHANGED <<wire, spent>>
     /\ UNCHANGED <<page, renewed, meshPlan>>

\* Descriptions of both sides: the network may try.
Met(L, k) == IF k = "cam" /\ L.ice = "new" THEN [L EXCEPT !.ice = "met"] ELSE L

\* setRemoteDescription: an offer rolls an own one back, an answer counts only
\* if an offer is outstanding.
SetRemote(p, k) ==
  LET L == [peer[p] EXCEPT !.todo[k] = Tail(@)]
      m == Head(peer[p].todo[k])
  IN /\ peer[p].link /\ peer[p].todo[k] # <<>>
     /\ L.sig[k] # "answering"
     /\ peer' = [peer EXCEPT ![p] =
          CASE m.type = "offer" ->
                 armWatchdog(Met([L EXCEPT !.sig[k] = "answering", !.out[k] = 0, !.got[k] = m.ver], k), k)
            [] m.type = "answer" /\ L.sig[k] = "offering" ->
                 armWatchdog(Met([L EXCEPT !.sig[k] = "stable", !.out[k] = 0,
                                           !.done[k] = L.out[k], !.got[k] = m.ver], k), k)
            [] OTHER -> L]
     /\ UNCHANGED <<page, wire, spent, renewed, meshPlan>>

\* The description is of another RTCPeerConnection than the one this one has agreed
\* with: the browser may refuse it, having rolled an own offer back for one of the other.
Refused(p, k) ==
  LET L == [peer[p] EXCEPT !.todo[k] = Tail(@)]
      m == Head(peer[p].todo[k])
  IN /\ renewed
     /\ peer[p].link /\ peer[p].todo[k] # <<>>
     /\ L.sig[k] # "answering"
     /\ peer' = [peer EXCEPT ![p] =
          IF m.type = "offer" THEN [L EXCEPT !.sig[k] = "stable", !.out[k] = 0] ELSE L]
     /\ UNCHANGED <<page, wire, spent, renewed, meshPlan>>

\* createAnswer and setLocalDescription: the answer takes along what fits into
\* the media sections of the offer.
SendAnswer(p, k) ==
  LET L == peer[p] IN
  /\ L.sig[k] = "answering" /\ L.draft[k] = 0
  /\ \E covers \in L.done[k]..L.added[k] :
       /\ peer' = [peer EXCEPT ![p].sig[k] = "stable", ![p].done[k] = covers]
       /\ _signal(p, [type |-> "answer", pc |-> k, ver |-> covers])
  /\ UNCHANGED <<page, renewed, meshPlan>>

-----------------------------------------------------------------------------
(* The camera connection comes up, breaks and is given up.                 *)

Connected(p) ==
  /\ meshPlan.timed /\ peer[p].ice \in {"met", "down"}
  /\ peer' = [peer EXCEPT ![p] = _settle([@ EXCEPT !.ice = "up"])]
  /\ UNCHANGED <<page, wire, spent, renewed, meshPlan>>

\* "disconnected": wait for DISCONNECT_GRACE_MS.
Disconnected(p) ==
  /\ peer[p].ice = "up"
  /\ spent.drops < meshPlan.drops
  /\ spent' = [spent EXCEPT !.drops = @ + 1]
  /\ peer' = [peer EXCEPT ![p].ice = "down", ![p].recovery = TRUE]
  /\ UNCHANGED <<page, wire, renewed, meshPlan>>

\* "failed": at once.
ConnectionFailed(p) ==
  /\ meshPlan.timed /\ peer[p].ice \in {"met", "down"} /\ ~peer[p].failed
  /\ peer' = [peer EXCEPT ![p] = _recover(@)]
  /\ UNCHANGED <<page, wire, spent, renewed, meshPlan>>

WatchdogFires(p) ==
  /\ meshPlan.timed /\ peer[p].watchdog
  /\ peer' = [peer EXCEPT ![p] = LET L == [@ EXCEPT !.watchdog = FALSE]
                                 IN IF _isUp(L) THEN L ELSE _recover(L)]
  /\ UNCHANGED <<page, wire, spent, renewed, meshPlan>>

GraceEnds(p) ==
  /\ peer[p].recovery
  /\ peer' = [peer EXCEPT ![p] = LET L == [@ EXCEPT !.recovery = FALSE]
                                 IN IF _isUp(L) THEN L ELSE _recover(L)]
  /\ UNCHANGED <<page, wire, spent, renewed, meshPlan>>

\* "try again" on the tile of a failed peer.
retryNow(p) ==
  /\ peer[p].failed
  /\ spent.retries < meshPlan.retries
  /\ spent' = [spent EXCEPT !.retries = @ + 1]
  /\ peer' = [peer EXCEPT ![p] = _recover([@ EXCEPT !.failed = FALSE, !.retried = FALSE])]
  /\ UNCHANGED <<page, wire, renewed, meshPlan>>

-----------------------------------------------------------------------------
MeshInit ==
  /\ meshPlan \in MeshPlans
  /\ peer = [p \in Peer |-> NoLink]
  /\ page = [p \in Peer |-> [up |-> TRUE, listed |-> TRUE, old |-> 0]]
  /\ wire = [p \in Peer |-> <<>>]
  /\ spent = [adds |-> [p \in Peer |-> Fresh0], drops |-> 0, retries |-> 0, losses |-> 0, cuts |-> [p \in Peer |-> 0]]
  /\ renewed = FALSE

\* What the browser does by itself, and what a network or a user may do.
Negotiate(p) ==
  \/ Receive(p)
  \/ \E k \in Pc : NegotiationNeeded(p, k) \/ SetLocalOffer(p, k) \/ SetRemote(p, k) \/ Refused(p, k) \/ SendAnswer(p, k)

Presence(p) == SocketLost(p) \/ Left(p) \/ Reconnect(p) \/ HearRoster(p)

Timer(p) == WatchdogFires(p) \/ GraceEnds(p)

Network(p) == Connected(p) \/ Disconnected(p) \/ ConnectionFailed(p)

MeshNext ==
  \E p \in Peer :
    \/ Create(p) \/ Remove(p) \/ Presence(p)
    \/ Negotiate(p) \/ Timer(p) \/ Network(p) \/ retryNow(p)
    \/ \E k \in Pc : AddTrack(p, k)

\* Rosters arrive and are shown, the event loop runs and timers expire; the network owes
\* nothing, not even that a lost socket comes back.
MeshFairness ==
  \A p \in Peer :
    /\ WF_meshVars(Create(p)) /\ WF_meshVars(Remove(p))
    /\ WF_meshVars(Receive(p)) /\ WF_meshVars(HearRoster(p))
    /\ WF_meshVars(WatchdogFires(p)) /\ WF_meshVars(GraceEnds(p))
    /\ \A k \in Pc :
         /\ WF_meshVars(NegotiationNeeded(p, k)) /\ WF_meshVars(SetLocalOffer(p, k))
         /\ WF_meshVars(SetRemote(p, k)) /\ WF_meshVars(SendAnswer(p, k))

MeshSpec == MeshInit /\ [][MeshNext]_meshVars /\ MeshFairness

-----------------------------------------------------------------------------
(* Properties.                                                             *)

MeshTypeOK ==
  /\ peer \in [Peer -> Link]
  /\ wire \in [Peer -> Seq(Signal)]
  /\ page \in [Peer -> Page]
  /\ \A p \in Peer, k \in Pc : peer[p].done[k] <= peer[p].added[k]
  /\ \A p \in Peer : ~peer[p].link => ~peer[p].watchdog /\ ~peer[p].recovery /\ ~peer[p].failed

\* makingOffer, which both connections share, was reset by one of them while the offer
\* of the other one was still in the making.  The impolite side then overlooks that the
\* offers collide, and each side rolls its own back for that of the other.
Clashed == peer[Higher].clash

\* Nothing is on the way or in the works, and nothing is left to be offered.
Quiet(k) ==
  \A p \in Peer :
    /\ peer[p].sig[k] = "stable" => peer[p].added[k] = peer[p].done[k]
    /\ peer[p].link /\ peer[p].sig[k] # "answering"
    /\ peer[p].todo[k] = <<>> /\ peer[p].draft[k] = 0
    /\ \A i \in 1..Len(wire[p]) : wire[p][i].pc # k

\* When nothing is left to do and neither side waits, each one has exactly what the
\* other one sends, whatever was offered, ignored, rolled back or lost before.  Not so
\* once a link was removed: the other side keeps a connection on which nothing is left to
\* be offered, and what it sends never reaches the new one.
Agreement ==
  ~Clashed /\ ~renewed =>
    \A k \in Pc :
      Quiet(k) /\ (\A p \in Peer : peer[p].sig[k] = "stable") =>
        \A p \in Peer : peer[p].got[k] = peer[Other(p)].done[k]

\* "lower member id is polite": if no signal and no socket is lost, what the other side adds
\* always reaches its peer, however many offers collide.
ImpoliteGetsThrough ==
  []<>(meshPlan.losses = 0 /\ meshPlan.cuts = [p \in Peer |-> 0] /\ ~Clashed =>
         \A k \in Pc : peer[Lower].got[k] = peer[Higher].added[k])

\* "Silence here is the worst possible answer": a link that has begun to negotiate
\* is up at some later time, or its tile says that it failed, or it is gone; lost signals
\* and lost sockets included.
NeverSilent ==
  []<>(meshPlan.timed => \A p \in Peer :
         peer[p].sig["cam"] = "offering" \/ peer[p].ice # "new" => _isUp(peer[p]) \/ peer[p].failed)
=============================================================================
