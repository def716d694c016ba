------------------------------ MODULE Sessions ------------------------------
(***************************************************************************)
(* Live sessions of a classroom and who attended them: start_session,      *)
(* end_session and the attendance calls of classrooms/services.py, made by *)
(* views and API requests and by the presence consumers as they connect    *)
(* and disconnect.  Only start_session runs in a transaction.              *)
(***************************************************************************)
EXTENDS Naturals, FiniteSets

CONSTANTS
  Leaders,        \* requests of hosts that may run at the same time
  SessionIds,     \* rows of ClassroomSession
  Tabs, TabOwner, \* browser tabs and the member behind each
  SessionPlans    \* bounds on a behaviour, see sessionLeft

Attendee == {TabOwner[t] : t \in Tabs}

ASSUME SessionAssumption ==
  /\ SessionIds # {}
  /\ SessionPlans \subseteq [starts : Nat, ends : Nat, joins : Nat, crashes : Nat]

VARIABLES
  session,      \* [SessionIds -> status, "none" before the row exists]
  hosting,      \* [Leaders -> the request in progress]
  tab,          \* [Tabs -> the presence consumer of the tab]
  records,      \* AttendanceRecord rows
  sessionLeft,  \* starts, ends, connections and worker crashes still to come
  twoLive,      \* history: two sessions have been live at once
  crashed       \* history: a worker has died with its sockets

sessionVars == <<session, hosting, tab, records, sessionLeft, twoLive, crashed>>

Status   == {"none", "SCHEDULED", "LIVE", "ENDED"}
Hosting  == [op : {"idle", "start", "end", "close"}, of : SessionIds]
Consumer == [phase : {"off", "joining", "on", "leaving"}, of : SUBSET SessionIds]

\* An interval with its number among the intervals of its tab; "late" is a history
\* component: its session had stopped being live when the row was written.
Interval == [tab : Tabs, n : Nat, session : SessionIds, open : BOOLEAN, late : BOOLEAN]

LiveSessions == {s \in SessionIds : session[s] = "LIVE"}

\* get_live_session: any of them.
get_live_session == IF LiveSessions = {} THEN {{}} ELSE {{s} : s \in LiveSessions}

LeaderIdle == CHOOSE i \in Hosting : i.op = "idle"

CloseIntervals(rows) ==
  records' = {[r EXCEPT !.open = @ /\ r \notin rows] : r \in records}

-----------------------------------------------------------------------------
(* Requests of hosts.                                                      *)

\* start_session finds no live session; it takes a new row or the one it is given,
\* scheduled or ended.  What it writes is visible when the transaction commits.
StartRead(h, s) ==
  /\ hosting[h].op = "idle" /\ LiveSessions = {}
  /\ sessionLeft.starts > 0
  /\ sessionLeft' = [sessionLeft EXCEPT !.starts = @ - 1]
  /\ session[s] = "none" => \A g \in Leaders : hosting[g].op # "start" \/ hosting[g].of # s
  /\ hosting' = [hosting EXCEPT ![h] = [op |-> "start", of |-> s]]
  /\ UNCHANGED <<session, tab, records, twoLive, crashed>>

StartCommit(h) ==
  /\ hosting[h].op = "start"
  /\ session' = [session EXCEPT ![hosting[h].of] = "LIVE"]
  /\ hosting' = [hosting EXCEPT ![h] = LeaderIdle]
  /\ twoLive' = (twoLive \/ LiveSessions \ {hosting[h].of} # {})
  /\ UNCHANGED <<tab, records, sessionLeft, crashed>>

\* A session created for later over the API.
Schedule(s) ==
  /\ session[s] = "none"
  /\ \A h \in Leaders : hosting[h].op # "start" \/ hosting[h].of # s
  /\ session' = [session EXCEPT ![s] = "SCHEDULED"]
  /\ UNCHANGED <<hosting, tab, records, sessionLeft, twoLive, crashed>>

\* end_session judges the row as the view read it.
EndRead(h, s) ==
  /\ hosting[h].op = "idle" /\ session[s] = "LIVE"
  /\ sessionLeft.ends > 0
  /\ sessionLeft' = [sessionLeft EXCEPT !.ends = @ - 1]
  /\ hosting' = [hosting EXCEPT ![h] = [op |-> "end", of |-> s]]
  /\ UNCHANGED <<session, tab, records, twoLive, crashed>>

EndSession(h) ==
  /\ hosting[h].op = "end"
  /\ session' = [session EXCEPT ![hosting[h].of] = "ENDED"]
  /\ hosting' = [hosting EXCEPT ![h].op = "close"]
  /\ UNCHANGED <<tab, records, sessionLeft, twoLive, crashed>>

\* (mutant: the intervals are left to the consumers)
CloseNothing(h) ==
  /\ hosting[h].op = "close"
  /\ hosting' = [hosting EXCEPT ![h] = LeaderIdle]
  /\ UNCHANGED <<session, tab, records, sessionLeft, twoLive, crashed>>

EndIntervals(h) ==
  /\ hosting[h].op = "close"
  /\ CloseIntervals({r \in records : r.session = hosting[h].of})
  /\ hosting' = [hosting EXCEPT ![h] = LeaderIdle]
  /\ UNCHANGED <<session, tab, sessionLeft, twoLive, crashed>>

-----------------------------------------------------------------------------
(* Presence consumers: connect opens an interval, disconnect closes those  *)
(* of the member, the ones of the member's other tabs included.            *)

attendance_join(t) ==
  /\ tab[t].phase = "off"
  /\ sessionLeft.joins > 0
  /\ sessionLeft' = [sessionLeft EXCEPT !.joins = @ - 1]
  /\ \E live \in get_live_session : tab' = [tab EXCEPT ![t] = [phase |-> "joining", of |-> live]]
  /\ UNCHANGED <<session, hosting, records, twoLive, crashed>>

JoinCreate(t) ==
  /\ tab[t].phase = "joining"
  /\ records' = records \cup
       {[tab |-> t, n |-> Cardinality({r \in records : r.tab = t}) + 1, session |-> s,
         open |-> TRUE, late |-> session[s] # "LIVE"] : s \in tab[t].of}
  /\ tab' = [tab EXCEPT ![t] = [phase |-> "on", of |-> {}]]
  /\ UNCHANGED <<session, hosting, sessionLeft, twoLive, crashed>>

attendance_leave(t) ==
  /\ tab[t].phase = "on"
  /\ \E live \in get_live_session : tab' = [tab EXCEPT ![t] = [phase |-> "leaving", of |-> live]]
  /\ UNCHANGED <<session, hosting, records, sessionLeft, twoLive, crashed>>

\* (mutant: only the first interval of the tab is closed)
LeaveFirst(t) ==
  /\ tab[t].phase = "leaving"
  /\ CloseIntervals({r \in records : r.session \in tab[t].of /\ r.tab = t /\ r.n = 1})
  /\ tab' = [tab EXCEPT ![t] = [phase |-> "off", of |-> {}]]
  /\ UNCHANGED <<session, hosting, sessionLeft, twoLive, crashed>>

LeaveUpdate(t) ==
  /\ tab[t].phase = "leaving"
  /\ CloseIntervals({r \in records : r.session \in tab[t].of /\ TabOwner[r.tab] = TabOwner[t]})
  /\ tab' = [tab EXCEPT ![t] = [phase |-> "off", of |-> {}]]
  /\ UNCHANGED <<session, hosting, sessionLeft, twoLive, crashed>>

\* The worker dies; its consumers never run disconnect.
WorkerDies ==
  /\ sessionLeft.crashes > 0
  /\ sessionLeft' = [sessionLeft EXCEPT !.crashes = @ - 1]
  /\ tab' = [t \in Tabs |-> [phase |-> "off", of |-> {}]]
  /\ crashed' = TRUE
  /\ UNCHANGED <<session, hosting, records, twoLive>>

-----------------------------------------------------------------------------
SessionInit ==
  /\ session = [s \in SessionIds |-> "none"]
  /\ hosting = [h \in Leaders |-> LeaderIdle]
  /\ tab = [t \in Tabs |-> [phase |-> "off", of |-> {}]]
  /\ records = {}
  /\ sessionLeft \in SessionPlans
  /\ twoLive = FALSE /\ crashed = FALSE

SessionNext ==
  \/ \E h \in Leaders :
       \/ StartCommit(h) \/ EndSession(h) \/ EndIntervals(h)
       \/ \E s \in SessionIds : StartRead(h, s) \/ EndRead(h, s)
  \/ \E s \in SessionIds : Schedule(s)
  \/ \E t \in Tabs : attendance_join(t) \/ JoinCreate(t) \/ attendance_leave(t) \/ LeaveUpdate(t)
  \/ WorkerDies

SessionSpec == SessionInit /\ [][SessionNext]_sessionVars

-----------------------------------------------------------------------------
(* Properties.                                                             *)

SessionTypeOK ==
  /\ session \in [SessionIds -> Status]
  /\ hosting \in [Leaders -> Hosting]
  /\ tab \in [Tabs -> Consumer]
  /\ records \subseteq Interval

\* A session that has ended counts for nobody any longer: no interval of it stays open,
\* crashes and concurrent ends included, except one whose connection found the session
\* live and wrote its row after the end.
EndedIsClosed ==
  \A r \in records :
    r.open /\ session[r.session] = "ENDED" /\ ~r.late =>
      \E h \in Leaders : hosting[h] = [op |-> "close", of |-> r.session]

\* Nobody attends who is not there: as long as no worker died and never two sessions
\* were live, an open interval belongs to a member with a tab in the room, or is about
\* to be closed with the session.
AttendeesAreThere ==
  ~crashed /\ ~twoLive =>
    \A r \in records :
      r.open /\ ~r.late /\ session[r.session] = "LIVE" =>
        \/ \E t \in Tabs : TabOwner[t] = TabOwner[r.tab] /\ tab[t].phase # "off"
        \/ \E h \in Leaders : hosting[h] = [op |-> "close", of |-> r.session]
=============================================================================
