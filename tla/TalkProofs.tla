----------------------------- MODULE TalkProofs -----------------------------
(***************************************************************************)
(* What holds of those who are in the room and of what they say, for any   *)
(* number of hosts, sessions, tabs, members and messages: sessions and     *)
(* attendance, the chat, the microphone of a member, and the roster.       *)
(***************************************************************************)
EXTENDS Sessions, Chat, Voice, Roster, FiniteSetTheorems, FunctionTheorems, TLAPS

-----------------------------------------------------------------------------
(* Sessions and attendance: the types, that an ended session counts for    *)
(* nobody, and that nobody attends who is not there.                       *)

\* The rows are numbered by counting, so there must be finitely many.
RecordsFinite ==
  /\ IsFiniteSet(records)
  /\ \A t \in Tabs : tab[t].of = {} \/ \E s \in SessionIds : tab[t].of = {s}

\* twoLive is honest.
OneLive == ~twoLive => \A a, b \in LiveSessions : a = b

\* A session somebody attends or attended has been live and is never scheduled again.
Begun ==
  /\ \A r \in records : session[r.session] \in {"LIVE", "ENDED"}
  /\ \A t \in Tabs : \A s \in tab[t].of : session[s] \in {"LIVE", "ENDED"}

\* AttendeesAreThere needs to know what a tab that is leaving is about to close.
StillThere(r) ==
  \/ \E t \in Tabs :
       /\ TabOwner[t] = TabOwner[r.tab]
       /\ \/ tab[t].phase \in {"joining", "on"}
          \/ tab[t].phase = "leaving" /\ r.session \in tab[t].of
  \/ \E h \in Leaders : hosting[h] = [op |-> "close", of |-> r.session]

Accounted ==
  ~crashed /\ ~twoLive =>
    \A r \in records : r.open /\ ~r.late /\ session[r.session] = "LIVE" => StillThere(r)

\* The inductive invariant.
SessionInv ==
  SessionTypeOK /\ RecordsFinite /\ OneLive /\ Begun /\ EndedIsClosed /\ Accounted

-----------------------------------------------------------------------------
LEMMA IdleLeader == LeaderIdle \in Hosting /\ LeaderIdle.op = "idle"
<1>1. PICK s \in SessionIds : TRUE
  BY SessionAssumption
<1>2. [op |-> "idle", of |-> s] \in Hosting /\ [op |-> "idle", of |-> s].op = "idle"
  BY <1>1 DEF Hosting
<1> QED BY <1>2 DEF LeaderIdle

LEMMA LiveOne ==
  ASSUME NEW live \in get_live_session
  PROVE  \/ live = {} /\ LiveSessions = {}
         \/ \E s \in LiveSessions : live = {s}
  BY DEF get_live_session

\* Closing intervals neither adds rows nor touches anything but "open".
LEMMA Closing ==
  ASSUME records \subseteq Interval, IsFiniteSet(records), NEW rows, CloseIntervals(rows)
  PROVE  /\ records' \subseteq Interval /\ IsFiniteSet(records')
         /\ \A r \in records' : \E o \in records :
              /\ r.session = o.session /\ r.tab = o.tab /\ r.late = o.late
              /\ r.open => r = o /\ o \notin rows
<1> DEFINE Shut(r) == [r EXCEPT !.open = @ /\ r \notin rows]
<1>1. records' = {Shut(r) : r \in records}
  BY DEF CloseIntervals
<1>2. \A r \in records :
        /\ Shut(r) \in Interval
        /\ Shut(r).session = r.session /\ Shut(r).tab = r.tab /\ Shut(r).late = r.late
        /\ Shut(r).open => Shut(r) = r /\ r \notin rows
  BY DEF Interval
<1>3. IsFiniteSet(records')
  <2> DEFINE f == [r \in records |-> Shut(r)]
  <2>1. f \in [records -> records'] /\ \A q \in records' : \E r \in records : f[r] = q
    BY <1>1
  <2> HIDE DEF f
  <2>2. f \in Surjection(records, records')
    BY <2>1, Fun_IsSurj
  <2> QED BY <2>2, FS_Surjection
<1> HIDE DEF Shut
<1> QED BY <1>1, <1>2, <1>3

LEMMA SessionInvInit == SessionInit => SessionInv
  BY IdleLeader, FS_EmptySet
     DEF SessionInit, SessionInv, SessionTypeOK, RecordsFinite, OneLive, Begun, EndedIsClosed,
         Accounted, LiveSessions, Status, Consumer
-----------------------------------------------------------------------------
(* The steps of the hosts.                                                 *)

LEMMA StartReadInv ==
  ASSUME SessionInv, NEW h \in Leaders, NEW s \in SessionIds, StartRead(h, s)
  PROVE  SessionInv'
<1>1. [op |-> "start", of |-> s] \in Hosting
  BY DEF Hosting
<1>2. /\ hosting[h].op = "idle"
      /\ hosting' = [hosting EXCEPT ![h] = [op |-> "start", of |-> s]]
      /\ UNCHANGED <<session, tab, records, twoLive, crashed>>
  BY DEF StartRead
<1>3. \A x : \A g \in Leaders : hosting[g] = [op |-> "close", of |-> x] => hosting'[g] = hosting[g]
  BY <1>2 DEF SessionInv, SessionTypeOK
<1>4. SessionTypeOK' /\ RecordsFinite' /\ OneLive' /\ Begun'
  BY <1>1, <1>2 DEF SessionInv, SessionTypeOK, RecordsFinite, OneLive, LiveSessions, Begun
<1>5. EndedIsClosed'
  BY <1>2, <1>3 DEF SessionInv, EndedIsClosed
<1>6. Accounted'
  BY <1>2, <1>3 DEF SessionInv, Accounted, StillThere
<1> QED BY <1>4, <1>5, <1>6 DEF SessionInv

LEMMA StartCommitInv ==
  ASSUME SessionInv, NEW h \in Leaders, StartCommit(h)
  PROVE  SessionInv'
<1> DEFINE s == hosting[h].of
<1>1. /\ hosting[h].op = "start" /\ s \in SessionIds
      /\ session' = [session EXCEPT ![s] = "LIVE"]
      /\ hosting' = [hosting EXCEPT ![h] = LeaderIdle]
      /\ twoLive' = (twoLive \/ LiveSessions \ {s} # {})
      /\ UNCHANGED <<tab, records, crashed>>
  BY DEF StartCommit, SessionInv, SessionTypeOK, Hosting
<1> HIDE DEF s
<1>2. \A x : \A g \in Leaders : hosting[g] = [op |-> "close", of |-> x] => hosting'[g] = hosting[g]
  BY <1>1 DEF SessionInv, SessionTypeOK
<1>3. SessionTypeOK' /\ RecordsFinite' /\ Begun'
  BY <1>1, IdleLeader DEF SessionInv, SessionTypeOK, RecordsFinite, Begun, Status
<1>4. OneLive'
  <2> SUFFICES ASSUME ~twoLive' PROVE \A a, b \in LiveSessions' : a = b
    BY DEF OneLive
  <2>1. LiveSessions \subseteq {s}
    BY <1>1
  <2>2. LiveSessions' \subseteq {s}
    BY <1>1, <2>1 DEF SessionInv, SessionTypeOK, LiveSessions
  <2> QED BY <2>2
<1>5. EndedIsClosed'
  BY <1>1, <1>2 DEF SessionInv, SessionTypeOK, EndedIsClosed
<1>6. Accounted'
  <2> SUFFICES ASSUME ~crashed', ~twoLive', NEW r \in records', r.open, ~r.late,
                      session'[r.session] = "LIVE"
               PROVE  StillThere(r)'
    BY DEF Accounted
  <2>1. ~crashed /\ ~twoLive /\ r \in records /\ session[r.session] \in {"LIVE", "ENDED"}
    BY <1>1 DEF SessionInv, Begun
  <2>2. StillThere(r)
    BY <2>1 DEF SessionInv, Accounted, EndedIsClosed, StillThere
  <2> QED BY <1>1, <1>2, <2>2 DEF StillThere
<1> QED BY <1>3, <1>4, <1>5, <1>6 DEF SessionInv

LEMMA ScheduleInv ==
  ASSUME SessionInv, NEW s \in SessionIds, Schedule(s)
  PROVE  SessionInv'
<1>1. /\ session[s] = "none"
      /\ session' = [session EXCEPT ![s] = "SCHEDULED"]
      /\ UNCHANGED <<hosting, tab, records, twoLive, crashed>>
  BY DEF Schedule
<1>2. SessionTypeOK' /\ RecordsFinite' /\ Begun' /\ OneLive'
  BY <1>1 DEF SessionInv, SessionTypeOK, RecordsFinite, Begun, Status, OneLive, LiveSessions, Consumer
<1>3. \A r \in records : r.session \in SessionIds
  BY DEF SessionInv, SessionTypeOK, Interval
<1>4. \A x \in SessionIds : session'[x] \in {"LIVE", "ENDED"} => session'[x] = session[x]
  BY <1>1 DEF SessionInv, SessionTypeOK
<1>5. EndedIsClosed'
  BY <1>1, <1>3, <1>4 DEF SessionInv, EndedIsClosed
<1>6. Accounted'
  BY <1>1, <1>3, <1>4 DEF SessionInv, Accounted, StillThere
<1> QED BY <1>2, <1>5, <1>6 DEF SessionInv

LEMMA EndReadInv ==
  ASSUME SessionInv, NEW h \in Leaders, NEW s \in SessionIds, EndRead(h, s)
  PROVE  SessionInv'
<1>1. [op |-> "end", of |-> s] \in Hosting
  BY DEF Hosting
<1>2. /\ hosting[h].op = "idle"
      /\ hosting' = [hosting EXCEPT ![h] = [op |-> "end", of |-> s]]
      /\ UNCHANGED <<session, tab, records, twoLive, crashed>>
  BY DEF EndRead
<1>3. \A x : \A g \in Leaders : hosting[g] = [op |-> "close", of |-> x] => hosting'[g] = hosting[g]
  BY <1>2 DEF SessionInv, SessionTypeOK
<1>4. SessionTypeOK' /\ RecordsFinite' /\ OneLive' /\ Begun'
  BY <1>1, <1>2 DEF SessionInv, SessionTypeOK, RecordsFinite, OneLive, LiveSessions, Begun
<1>5. EndedIsClosed'
  BY <1>2, <1>3 DEF SessionInv, EndedIsClosed
<1>6. Accounted'
  BY <1>2, <1>3 DEF SessionInv, Accounted, StillThere
<1> QED BY <1>4, <1>5, <1>6 DEF SessionInv

\* From here until EndIntervals the host is what EndedIsClosed refers to.
LEMMA EndSessionInv ==
  ASSUME SessionInv, NEW h \in Leaders, EndSession(h)
  PROVE  SessionInv'
<1> DEFINE s == hosting[h].of
<1>1. /\ hosting[h].op = "end" /\ s \in SessionIds
      /\ session' = [session EXCEPT ![s] = "ENDED"]
      /\ hosting' = [hosting EXCEPT ![h] = [op |-> "close", of |-> s]]
      /\ [op |-> "close", of |-> s] \in Hosting
      /\ UNCHANGED <<tab, records, twoLive, crashed>>
  <2>1. hosting \in [Leaders -> Hosting] /\ hosting[h].op = "end"
    BY DEF EndSession, SessionInv, SessionTypeOK
  <2>2. /\ hosting' = [hosting EXCEPT ![h] = [hosting[h] EXCEPT !.op = "close"]]
        /\ session' = [session EXCEPT ![s] = "ENDED"]
        /\ UNCHANGED <<tab, records, twoLive, crashed>>
    BY DEF EndSession
  <2>3. s \in SessionIds /\ [hosting[h] EXCEPT !.op = "close"] = [op |-> "close", of |-> s]
    BY <2>1 DEF Hosting
  <2> QED BY <2>1, <2>2, <2>3 DEF Hosting
<1> HIDE DEF s
<1>2. \A x : \A g \in Leaders : hosting[g] = [op |-> "close", of |-> x] => hosting'[g] = hosting[g]
  BY <1>1 DEF SessionInv, SessionTypeOK
<1>3. \A r \in records : r.session \in SessionIds
  BY DEF SessionInv, SessionTypeOK, Interval
<1>4. SessionTypeOK' /\ RecordsFinite' /\ Begun' /\ OneLive'
  BY <1>1 DEF SessionInv, SessionTypeOK, RecordsFinite, Begun, Status, OneLive, LiveSessions, Consumer
<1>5. EndedIsClosed'
  <2>1. hosting'[h] = [op |-> "close", of |-> s]
    BY <1>1 DEF SessionInv, SessionTypeOK
  <2>2. \A x \in SessionIds : x # s => session'[x] = session[x]
    BY <1>1 DEF SessionInv, SessionTypeOK
  <2> QED BY <1>1, <1>2, <1>3, <2>1, <2>2 DEF SessionInv, EndedIsClosed
<1>6. Accounted'
  <2>1. \A x \in SessionIds : session'[x] = "LIVE" => session[x] = "LIVE"
    BY <1>1 DEF SessionInv, SessionTypeOK
  <2> QED BY <1>1, <1>2, <1>3, <2>1 DEF SessionInv, Accounted, StillThere
<1> QED BY <1>4, <1>5, <1>6 DEF SessionInv

LEMMA EndIntervalsInv ==
  ASSUME SessionInv, NEW h \in Leaders, EndIntervals(h)
  PROVE  SessionInv'
<1> DEFINE s    == hosting[h].of
           rows == {r \in records : r.session = s}
<1>1. /\ hosting[h].op = "close" /\ s \in SessionIds
      /\ CloseIntervals(rows)
      /\ hosting' = [hosting EXCEPT ![h] = LeaderIdle]
      /\ UNCHANGED <<session, tab, twoLive, crashed>>
  BY DEF EndIntervals, SessionInv, SessionTypeOK, Hosting
<1>2. /\ records' \subseteq Interval /\ IsFiniteSet(records')
      /\ \A r \in records' : \E o \in records :
           /\ r.session = o.session /\ r.tab = o.tab /\ r.late = o.late
           /\ r.open => r = o /\ o \notin rows
  BY <1>1, Closing DEF SessionInv, SessionTypeOK, RecordsFinite
<1>3. \A x : \A g \in Leaders : x # s /\ hosting[g] = [op |-> "close", of |-> x] => hosting'[g] = hosting[g]
  BY <1>1 DEF SessionInv, SessionTypeOK
<1>4. \A r \in records' : r.open => r \in records /\ r.session # s
  BY <1>2
<1>5. SessionTypeOK' /\ RecordsFinite' /\ OneLive'
  BY <1>1, <1>2, IdleLeader DEF SessionInv, SessionTypeOK, RecordsFinite, OneLive, LiveSessions
<1>6. Begun'
  BY <1>1, <1>2 DEF SessionInv, Begun
<1> HIDE DEF s, rows
<1>7. EndedIsClosed'
  BY <1>1, <1>3, <1>4 DEF SessionInv, EndedIsClosed
<1>8. Accounted'
  BY <1>1, <1>3, <1>4 DEF SessionInv, Accounted, StillThere
<1> QED BY <1>5, <1>6, <1>7, <1>8 DEF SessionInv
-----------------------------------------------------------------------------
(* The steps of the consumers.                                             *)

LEMMA JoinInv ==
  ASSUME SessionInv, NEW t \in Tabs, attendance_join(t)
  PROVE  SessionInv'
<1>1. PICK live \in get_live_session : tab' = [tab EXCEPT ![t] = [phase |-> "joining", of |-> live]]
  BY DEF attendance_join
<1>2. /\ tab[t].phase = "off"
      /\ UNCHANGED <<session, hosting, records, twoLive, crashed>>
  BY DEF attendance_join
<1>3. /\ live \subseteq LiveSessions
      /\ live = {} \/ \E s \in SessionIds : live = {s}
  BY LiveOne DEF LiveSessions
<1>4. SessionTypeOK' /\ RecordsFinite' /\ OneLive' /\ Begun'
  BY <1>1, <1>2, <1>3
     DEF SessionInv, SessionTypeOK, RecordsFinite, OneLive, LiveSessions, Begun, Consumer
<1>5. EndedIsClosed'
  BY <1>2 DEF SessionInv, EndedIsClosed
<1>6. Accounted'
  <2>1. \A u \in Tabs : u # t => tab'[u] = tab[u]
    BY <1>1 DEF SessionInv, SessionTypeOK
  <2> QED BY <1>2, <2>1 DEF SessionInv, Accounted, StillThere
<1> QED BY <1>4, <1>5, <1>6 DEF SessionInv

LEMMA JoinCreateInv ==
  ASSUME SessionInv, NEW t \in Tabs, JoinCreate(t)
  PROVE  SessionInv'
<1> DEFINE n    == Cardinality({r \in records : r.tab = t}) + 1
           new(s) == [tab |-> t, n |-> n, session |-> s, open |-> TRUE, late |-> session[s] # "LIVE"]
<1>1. /\ tab[t].phase = "joining"
      /\ records' = records \cup {new(s) : s \in tab[t].of}
      /\ tab' = [tab EXCEPT ![t] = [phase |-> "on", of |-> {}]]
      /\ UNCHANGED <<session, hosting, twoLive, crashed>>
  BY DEF JoinCreate
<1>2. n \in Nat
  <2>1. IsFiniteSet({r \in records : r.tab = t})
    BY FS_Subset DEF SessionInv, RecordsFinite
  <2> QED BY <2>1, FS_CardinalityType
<1>3. records' = records \/ \E s \in tab[t].of : tab[t].of = {s} /\ records' = records \cup {new(s)}
  <2>1. CASE tab[t].of = {}
    BY <1>1, <2>1
  <2>2. ASSUME NEW s \in SessionIds, tab[t].of = {s}
        PROVE  records' = records \cup {new(s)}
    BY <1>1, <2>2
  <2> QED BY <2>1, <2>2 DEF SessionInv, RecordsFinite
<1>4. \A s \in tab[t].of :
        /\ new(s) \in Interval /\ new(s).session = s /\ new(s).tab = t
        /\ new(s).late = (session[s] # "LIVE")
        /\ session[s] \in {"LIVE", "ENDED"}
  BY <1>2 DEF SessionInv, SessionTypeOK, Consumer, Interval, Begun
<1> HIDE DEF n, new
<1>5. IsFiniteSet(records')
  BY <1>3, FS_AddElement DEF SessionInv, RecordsFinite
<1>6. /\ \A u \in Tabs : u # t => tab'[u] = tab[u]
      /\ tab'[t] = [phase |-> "on", of |-> {}]
      /\ tab' \in [Tabs -> Consumer]
  BY <1>1 DEF SessionInv, SessionTypeOK, Consumer
<1>7. SessionTypeOK' /\ RecordsFinite' /\ OneLive' /\ Begun'
  BY <1>1, <1>3, <1>4, <1>5, <1>6
     DEF SessionInv, SessionTypeOK, RecordsFinite, OneLive, LiveSessions, Begun
<1>0. \A r \in records' : r \notin records =>
        /\ r.tab = t /\ (r.late = (session[r.session] # "LIVE"))
        /\ session[r.session] \in {"LIVE", "ENDED"}
  BY <1>1, <1>4
<1>8. EndedIsClosed'
  <2> SUFFICES ASSUME NEW r \in records', r.open, session[r.session] = "ENDED", ~r.late
               PROVE  \E h \in Leaders : hosting[h] = [op |-> "close", of |-> r.session]
    BY <1>1 DEF EndedIsClosed
  <2>1. r \in records
    BY <1>0
  <2> QED BY <2>1 DEF SessionInv, EndedIsClosed
<1>9. Accounted'
  <2> SUFFICES ASSUME ~crashed, ~twoLive, NEW r \in records', r.open, ~r.late,
                      session[r.session] = "LIVE"
               PROVE  StillThere(r)'
    BY <1>1 DEF Accounted
  <2>1. CASE r \in records
    <3>1. StillThere(r)
      BY <2>1 DEF SessionInv, Accounted
    <3>2. CASE \E h \in Leaders : hosting[h] = [op |-> "close", of |-> r.session]
      BY <1>1, <3>2 DEF StillThere
    <3>3. ASSUME NEW u \in Tabs, TabOwner[u] = TabOwner[r.tab],
                 tab[u].phase \in {"joining", "on"} \/ (tab[u].phase = "leaving" /\ r.session \in tab[u].of)
          PROVE  \/ tab'[u].phase \in {"joining", "on"}
                 \/ tab'[u].phase = "leaving" /\ r.session \in tab'[u].of
      BY <1>1, <1>6, <3>3
    <3> QED BY <3>1, <3>2, <3>3 DEF StillThere
  <2>2. CASE r \notin records
    <3>1. r.tab = t /\ tab'[t].phase = "on"
      BY <1>0, <1>6, <2>2
    <3> QED BY <3>1 DEF StillThere
  <2> QED BY <2>1, <2>2
<1> QED BY <1>7, <1>8, <1>9 DEF SessionInv

\* The session this tab is about to leave is the one its member attends, if there
\* is only one.
LEMMA LeaveInv ==
  ASSUME SessionInv, NEW t \in Tabs, attendance_leave(t)
  PROVE  SessionInv'
<1>1. PICK live \in get_live_session : tab' = [tab EXCEPT ![t] = [phase |-> "leaving", of |-> live]]
  BY DEF attendance_leave
<1>2. /\ tab[t].phase = "on"
      /\ UNCHANGED <<session, hosting, records, twoLive, crashed>>
  BY DEF attendance_leave
<1>3. /\ (live = {} /\ LiveSessions = {}) \/ \E s \in LiveSessions : live = {s}
      /\ live \subseteq LiveSessions
  BY LiveOne
<1>4. SessionTypeOK' /\ RecordsFinite' /\ OneLive' /\ Begun'
  BY <1>1, <1>2, <1>3
     DEF SessionInv, SessionTypeOK, RecordsFinite, OneLive, LiveSessions, Begun, Consumer
<1>5. EndedIsClosed'
  BY <1>2 DEF SessionInv, EndedIsClosed
<1>6. Accounted'
  <2> SUFFICES ASSUME ~crashed, ~twoLive, NEW r \in records, r.open, ~r.late,
                      session[r.session] = "LIVE"
               PROVE  StillThere(r)'
    BY <1>2 DEF Accounted
  <2>1. /\ \A u \in Tabs : u # t => tab'[u] = tab[u]
        /\ tab'[t] = [phase |-> "leaving", of |-> live]
    BY <1>1 DEF SessionInv, SessionTypeOK
  <2>2. r.session \in live
    BY <1>3 DEF SessionInv, SessionTypeOK, Interval, OneLive, LiveSessions
  <2>3. StillThere(r)
    BY DEF SessionInv, Accounted
  <2> QED BY <1>2, <2>1, <2>2, <2>3 DEF StillThere
<1> QED BY <1>4, <1>5, <1>6 DEF SessionInv

LEMMA LeaveUpdateInv ==
  ASSUME SessionInv, NEW t \in Tabs, LeaveUpdate(t)
  PROVE  SessionInv'
<1> DEFINE rows == {r \in records : r.session \in tab[t].of /\ TabOwner[r.tab] = TabOwner[t]}
<1>1. /\ tab[t].phase = "leaving"
      /\ CloseIntervals(rows)
      /\ tab' = [tab EXCEPT ![t] = [phase |-> "off", of |-> {}]]
      /\ UNCHANGED <<session, hosting, twoLive, crashed>>
  BY DEF LeaveUpdate
<1>2. /\ records' \subseteq Interval /\ IsFiniteSet(records')
      /\ \A r \in records' : \E o \in records :
           /\ r.session = o.session /\ r.tab = o.tab /\ r.late = o.late
           /\ r.open => r = o /\ o \notin rows
  BY <1>1, Closing DEF SessionInv, SessionTypeOK, RecordsFinite
<1>3. \A r \in records' : r.open => r \in records /\ r \notin rows
  BY <1>2
<1>4. /\ \A u \in Tabs : u # t => tab'[u] = tab[u]
      /\ tab'[t] = [phase |-> "off", of |-> {}]
      /\ tab' \in [Tabs -> Consumer]
  BY <1>1 DEF SessionInv, SessionTypeOK, Consumer
<1>5. SessionTypeOK' /\ RecordsFinite' /\ OneLive'
  BY <1>1, <1>2, <1>4 DEF SessionInv, SessionTypeOK, RecordsFinite, OneLive, LiveSessions
<1>6. Begun'
  BY <1>1, <1>2, <1>4 DEF SessionInv, Begun
<1>7. EndedIsClosed'
  BY <1>1, <1>3 DEF SessionInv, EndedIsClosed
<1>8. Accounted'
  <2> SUFFICES ASSUME ~crashed, ~twoLive, NEW r \in records', r.open, ~r.late,
                      session[r.session] = "LIVE"
               PROVE  StillThere(r)'
    BY <1>1 DEF Accounted
  <2>1. StillThere(r) /\ r \notin rows /\ r \in records
    BY <1>3 DEF SessionInv, Accounted
  <2>2. CASE \E h \in Leaders : hosting[h] = [op |-> "close", of |-> r.session]
    BY <1>1, <2>2 DEF StillThere
  <2>3. ASSUME NEW u \in Tabs, TabOwner[u] = TabOwner[r.tab],
               tab[u].phase \in {"joining", "on"} \/ (tab[u].phase = "leaving" /\ r.session \in tab[u].of)
        PROVE  u # t
    BY <1>1, <2>1, <2>3
  <2> QED BY <1>4, <2>1, <2>2, <2>3 DEF StillThere
<1> QED BY <1>5, <1>6, <1>7, <1>8 DEF SessionInv

LEMMA WorkerInv ==
  ASSUME SessionInv, WorkerDies
  PROVE  SessionInv'
<1>1. /\ crashed' /\ tab' = [t \in Tabs |-> [phase |-> "off", of |-> {}]]
      /\ UNCHANGED <<session, hosting, records, twoLive>>
  BY DEF WorkerDies
<1> QED BY <1>1 DEF SessionInv, SessionTypeOK, RecordsFinite, OneLive, LiveSessions, Begun,
                    EndedIsClosed, Accounted, Consumer

LEMMA SessionInvNext == SessionInv /\ [SessionNext]_sessionVars => SessionInv'
<1> SUFFICES ASSUME SessionInv, [SessionNext]_sessionVars PROVE SessionInv'
  OBVIOUS
<1>1. CASE UNCHANGED sessionVars
  BY <1>1 DEF sessionVars, SessionInv, SessionTypeOK, RecordsFinite, OneLive, LiveSessions, Begun,
              EndedIsClosed, Accounted, StillThere
<1>2. CASE SessionNext
  BY <1>2, StartReadInv, StartCommitInv, ScheduleInv, EndReadInv, EndSessionInv, EndIntervalsInv,
     JoinInv, JoinCreateInv, LeaveInv, LeaveUpdateInv, WorkerInv DEF SessionNext
<1> QED BY <1>1, <1>2

-----------------------------------------------------------------------------
\* The tables and the consumers keep their types, and the history the promises the
\* properties rest on: the inductive invariant.
THEOREM SessionInductive == SessionSpec => []SessionInv
  BY SessionInvInit, SessionInvNext, PTL DEF SessionSpec

\* end_session leaves no open interval behind, whatever connects, disconnects, ends or
\* dies meanwhile: an ended session counts for nobody, except by a row of a connection
\* that found it live and was written after the end.
THEOREM EndedCountsForNobody == SessionSpec => []EndedIsClosed
<1>1. SessionInv => EndedIsClosed
  BY DEF SessionInv
<1> QED BY <1>1, SessionInductive, PTL

\* attendance_join and attendance_leave agree on who is there, for any number of tabs of
\* a member, as long as no worker died and start_session never raced itself.
THEOREM AttendeesThere == SessionSpec => []AttendeesAreThere
<1>1. SessionInv => AttendeesAreThere
  BY DEF SessionInv, Accounted, StillThere, AttendeesAreThere
<1> QED BY <1>1, SessionInductive, PTL

-----------------------------------------------------------------------------
(* The chat: history and live messages together miss nothing, and what a   *)
(* moderator has deleted is blank on every page that has been told.        *)

ChatTables ==
  /\ ChatTypeOK
  /\ relays \subseteq [by : Chatters, event : ChatEvent]

Message(i) == [type |-> "chat_message", id |-> i]

\* The page shows message i, or has it in its channel.
Reached(P, i) ==
  \/ \E k \in 1..Len(P.list) : P.list[k].id = i
  \/ \E k \in 1..Len(P.inbox) : P.inbox[k] = Message(i)

\* A page that has had its history misses no recent message, or it is still coming:
\* the socket was in the group before the history was read.
NoneMissing(P) ==
  P.conn = "on" =>
    \A i \in 1..Len(log) : i + HISTORY_LIMIT > Len(log) =>
      Reached(P, i) \/ \E r \in relays : r.event = Message(i)

ChatInv == ChatTables /\ \A c \in Chatters : NoneMissing(chatPage[c])

-----------------------------------------------------------------------------
(* Sequences.                                                              *)

LEMMA AppendItem ==
  ASSUME NEW S, NEW seq \in Seq(S), NEW e \in S
  PROVE  /\ Append(seq, e) \in Seq(S)
         /\ Len(seq) \in Nat /\ Len(Append(seq, e)) = Len(seq) + 1
         /\ \A k \in 1..Len(seq) : Append(seq, e)[k] = seq[k]
         /\ Append(seq, e)[Len(seq) + 1] = e
  OBVIOUS

LEMMA TakeHead ==
  ASSUME NEW S, NEW seq \in Seq(S), seq # <<>>
  PROVE  /\ Head(seq) \in S /\ Tail(seq) \in Seq(S)
         /\ \A k \in 1..Len(seq) :
              seq[k] = Head(seq) \/ \E j \in 1..Len(Tail(seq)) : Tail(seq)[j] = seq[k]
<1>1. /\ Head(seq) \in S /\ Tail(seq) \in Seq(S) /\ Head(seq) = seq[1]
      /\ Len(seq) \in Nat /\ Len(Tail(seq)) = Len(seq) - 1
      /\ \A j \in 1..Len(Tail(seq)) : Tail(seq)[j] = seq[j + 1]
  OBVIOUS
<1>2. ASSUME NEW k \in 1..Len(seq), k # 1
      PROVE  k - 1 \in 1..Len(Tail(seq)) /\ Tail(seq)[k - 1] = seq[k]
  <2>1. k - 1 \in 1..Len(Tail(seq)) /\ (k - 1) + 1 = k
    BY <1>1, <1>2
  <2>2. Tail(seq)[k - 1] = seq[(k - 1) + 1]
    BY <1>1, <2>1
  <2> QED BY <2>1, <2>2
<1> QED BY <1>1, <1>2

LEMMA SameElements ==
  ASSUME NEW S, NEW seq \in Seq(S)
  PROVE  ToSet(seq) = {seq[k] : k \in 1..Len(seq)} /\ ToSet(seq) \subseteq S /\ DOMAIN seq = 1..Len(seq)
  BY DEF ToSet

\* Marking an element keeps all ids.
LEMMA Marked ==
  ASSUME NEW list \in Seq(Shown), NEW id
  PROVE  /\ markDeleted(list, id) \in Seq(Shown)
         /\ Len(markDeleted(list, id)) = Len(list)
         /\ \A k \in 1..Len(list) : markDeleted(list, id)[k].id = list[k].id
<1> DEFINE at == SelectInSeq(list, LAMBDA s : s.id = id)
           new == [list EXCEPT ![at].deleted = TRUE]
<1>1. CASE at = 0
  BY <1>1 DEF markDeleted
<1>2. CASE at # 0
  <2>1. markDeleted(list, id) = new
    BY <1>2 DEF markDeleted
  <2> HIDE DEF at
  <2>2. list \in [1..Len(list) -> Shown] /\ Len(list) \in Nat
    OBVIOUS
  <2>3. /\ new \in [1..Len(list) -> Shown]
        /\ \A k \in 1..Len(list) : new[k].id = list[k].id
    BY <2>2 DEF Shown
  <2> HIDE DEF new
  <2>4. new \in Seq(Shown) /\ Len(new) = Len(list)
    BY <2>2, <2>3
  <2> QED BY <2>1, <2>3, <2>4
<1> QED BY <1>1, <1>2

\* The history ends with the last HISTORY_LIMIT rows.
LEMMA History ==
  ASSUME log \in Seq(Row)
  PROVE  /\ _load_history \in Seq(Shown)
         /\ \A i \in 1..Len(log) : i + HISTORY_LIMIT > Len(log) =>
              \E k \in 1..Len(_load_history) : _load_history[k].id = i
<1> DEFINE all  == [i \in DOMAIN log |-> [id |-> i, deleted |-> log[i].deleted]]
           from == 1 + (IF Len(log) > HISTORY_LIMIT THEN Len(log) - HISTORY_LIMIT ELSE 0)
<1>1. /\ Len(log) \in Nat /\ DOMAIN log = 1..Len(log) /\ HISTORY_LIMIT \in Nat \ {0}
  BY ChatAssumption
<1>2. /\ all \in [1..Len(log) -> Shown] /\ \A i \in 1..Len(log) : all[i].id = i
  <2>1. \A i \in 1..Len(log) : log[i].deleted \in BOOLEAN /\ i \in Nat \ {0}
    <3> TAKE i \in 1..Len(log)
    <3>1. log[i] \in Row
      BY <1>1
    <3> QED BY <1>1, <3>1 DEF Row
  <2>2. \A i \in 1..Len(log) : [id |-> i, deleted |-> log[i].deleted] \in Shown
    BY <2>1 DEF Shown
  <2> QED BY <1>1, <2>2
<1>3. _load_history = SubSeq(all, from, Len(log))
  BY DEF _load_history
<1>4. from \in 1..(Len(log) + 1) /\ \A i \in 1..Len(log) : i + HISTORY_LIMIT > Len(log) => i >= from
  BY <1>1
<1> HIDE DEF all, from
<1>5. all \in Seq(Shown) /\ Len(all) = Len(log)
  BY <1>1, <1>2
<1>6. /\ _load_history \in Seq(Shown)
      /\ Len(_load_history) = Len(log) + 1 - from
      /\ \A k \in 1..Len(_load_history) : _load_history[k] = all[from + k - 1]
  BY <1>1, <1>3, <1>4, <1>5
<1>7. ASSUME NEW i \in 1..Len(log), i + HISTORY_LIMIT > Len(log)
      PROVE  i - from + 1 \in 1..Len(_load_history) /\ _load_history[i - from + 1].id = i
  BY <1>1, <1>2, <1>4, <1>6, <1>7
<1> QED BY <1>6, <1>7

LEMMA ChatInvInit == ChatInit => ChatInv
  BY DEF ChatInit, ChatInv, ChatTables, ChatTypeOK, ChatSocket, NoneMissing
-----------------------------------------------------------------------------
(* Steps of one page or its consumer.                                      *)

LEMMA PageStep ==
  ASSUME ChatInv, NEW c \in Chatters, NEW new \in ChatSocket,
         chatPage' = [chatPage EXCEPT ![c] = new],
         UNCHANGED <<log, relays, overtaken>>, banned' \subseteq Chatters,
         NoneMissing(new)
  PROVE  ChatInv'
<1>1. /\ chatPage' \in [Chatters -> ChatSocket]
      /\ chatPage'[c] = new
      /\ \A d \in Chatters : d # c => chatPage'[d] = chatPage[d]
  BY DEF ChatInv, ChatTables, ChatTypeOK
<1>2. ChatTables'
  BY <1>1 DEF ChatInv, ChatTables, ChatTypeOK
<1>3. ASSUME NEW d \in Chatters PROVE NoneMissing(chatPage[d])'
  BY <1>1 DEF ChatInv, NoneMissing
<1> QED BY <1>2, <1>3 DEF ChatInv

\* What a page shows and its channel decide whether it misses anything.
LEMMA SameView ==
  ASSUME NEW P, NEW Q, NoneMissing(P), Q.conn = P.conn, Q.list = P.list, Q.inbox = P.inbox
  PROVE  NoneMissing(Q)
  BY DEF NoneMissing, Reached

LEMMA ConnectInv ==
  ASSUME ChatInv, NEW c \in Chatters, ChatConnect(c) \/ ChatRevoke(c) \/ ChatDrop(c)
  PROVE  ChatInv'
<1>1. chatPage[c] \in ChatSocket /\ banned \subseteq Chatters
  BY DEF ChatInv, ChatTables, ChatTypeOK
<1>2. CASE ChatConnect(c)
  <2> DEFINE new == [chatPage[c] EXCEPT !.conn = "joined"]
  <2>1. new \in ChatSocket /\ NoneMissing(new)
    BY <1>1 DEF ChatSocket, NoneMissing
  <2>2. /\ chatPage' = [chatPage EXCEPT ![c] = new]
        /\ UNCHANGED <<log, relays, overtaken, banned>>
    BY <1>2 DEF ChatConnect
  <2> HIDE DEF new
  <2> QED BY <1>1, <2>1, <2>2, PageStep
<1>3. CASE ChatRevoke(c)
  <2> DEFINE new == [chatPage[c] EXCEPT !.conn = "refused", !.inbox = <<>>, !.asked = <<>>]
  <2>1. new \in ChatSocket /\ NoneMissing(new)
    <3>1. <<>> \in Seq(ChatEvent)
      OBVIOUS
    <3>2. new \in ChatSocket /\ new.conn = "refused"
      BY <1>1, <3>1 DEF ChatSocket
    <3> QED BY <3>2 DEF NoneMissing
  <2>2. /\ chatPage' = [chatPage EXCEPT ![c] = new]
        /\ UNCHANGED <<log, relays, overtaken>> /\ banned' \subseteq Chatters
    BY <1>1, <1>3 DEF ChatRevoke
  <2> HIDE DEF new
  <2> QED BY <2>1, <2>2, PageStep
<1>4. CASE ChatDrop(c)
  <2> DEFINE new == [chatPage[c] EXCEPT !.conn = "off", !.inbox = <<>>, !.asked = <<>>]
  <2>1. new \in ChatSocket /\ NoneMissing(new)
    <3>1. <<>> \in Seq(ChatEvent)
      OBVIOUS
    <3>2. new \in ChatSocket /\ new.conn = "off"
      BY <1>1, <3>1 DEF ChatSocket
    <3> QED BY <3>2 DEF NoneMissing
  <2>2. /\ chatPage' = [chatPage EXCEPT ![c] = new]
        /\ UNCHANGED <<log, relays, overtaken, banned>>
    BY <1>4 DEF ChatDrop
  <2> HIDE DEF new
  <2> QED BY <1>1, <2>1, <2>2, PageStep
<1> QED BY <1>2, <1>3, <1>4

LEMMA HistoryInv ==
  ASSUME ChatInv, NEW c \in Chatters, ChatHistory(c)
  PROVE  ChatInv'
<1> DEFINE new == [chatPage[c] EXCEPT !.conn = "on", !.list = _load_history]
<1>1. chatPage[c] \in ChatSocket /\ banned \subseteq Chatters /\ log \in Seq(Row)
  BY DEF ChatInv, ChatTables, ChatTypeOK
<1>2. new \in ChatSocket /\ new.list = _load_history
  BY <1>1, History DEF ChatSocket
<1>3. /\ chatPage' = [chatPage EXCEPT ![c] = new]
      /\ UNCHANGED <<log, relays, overtaken, banned>>
  BY DEF ChatHistory
<1> HIDE DEF new
<1>4. NoneMissing(new)
  BY <1>1, <1>2, History DEF NoneMissing, Reached
<1> QED BY <1>1, <1>2, <1>3, <1>4, PageStep

LEMMA AskInv ==
  ASSUME ChatInv, NEW c \in Chatters, ChatSend(c) \/ deleteMessage(c)
  PROVE  ChatInv'
<1>1. /\ chatPage[c] \in ChatSocket /\ banned \subseteq Chatters
      /\ chatPage[c].list \in Seq(Shown) /\ chatPage[c].asked \in Seq(ChatEvent)
      /\ NoneMissing(chatPage[c])
  BY DEF ChatInv, ChatTables, ChatTypeOK, ChatSocket
<1>2. ASSUME NEW e \in ChatEvent, chatPage' = [chatPage EXCEPT ![c].asked = Append(@, e)],
             UNCHANGED <<log, relays, overtaken, banned>>
      PROVE  ChatInv'
  <2> DEFINE new == [chatPage[c] EXCEPT !.asked = Append(chatPage[c].asked, e)]
  <2>1. Append(chatPage[c].asked, e) \in Seq(ChatEvent)
    BY <1>1
  <2>2. /\ new \in ChatSocket /\ new.conn = chatPage[c].conn /\ new.list = chatPage[c].list
        /\ new.inbox = chatPage[c].inbox
    BY <1>1, <2>1 DEF ChatSocket
  <2>3. chatPage' = [chatPage EXCEPT ![c] = new]
    BY <1>2
  <2> HIDE DEF new
  <2>4. NoneMissing(new)
    BY <1>1, <2>2, SameView
  <2> QED BY <1>1, <1>2, <2>2, <2>3, <2>4, PageStep
<1>3. CASE ChatSend(c)
  <2>1. [type |-> "chat_message", id |-> 1] \in ChatEvent
    BY DEF ChatEvent
  <2> QED BY <1>2, <1>3, <2>1 DEF ChatSend
<1>4. CASE deleteMessage(c)
  <2>1. PICK s \in ToSet(chatPage[c].list) :
          chatPage' = [chatPage EXCEPT ![c].asked = Append(@, [type |-> "chat_deleted", id |-> s.id])]
    BY <1>4 DEF deleteMessage
  <2>2. s \in Shown
    BY <1>1, SameElements
  <2>3. [type |-> "chat_deleted", id |-> s.id] \in ChatEvent
    BY <2>2 DEF Shown, ChatEvent
  <2> QED BY <1>2, <1>4, <2>1, <2>3 DEF deleteMessage
<1> QED BY <1>3, <1>4

LEMMA HearInv ==
  ASSUME ChatInv, NEW c \in Chatters, ChatHear(c)
  PROVE  ChatInv'
<1> DEFINE P    == chatPage[c]
           e    == Head(P.inbox)
           list == IF e.type = "chat_message" THEN Append(P.list, [id |-> e.id, deleted |-> FALSE])
                   ELSE markDeleted(P.list, e.id)
           new  == [P EXCEPT !.inbox = Tail(P.inbox), !.list = list]
<1>1. /\ P \in ChatSocket /\ banned \subseteq Chatters
      /\ P.list \in Seq(Shown) /\ P.inbox \in Seq(ChatEvent) /\ P.inbox # <<>>
      /\ NoneMissing(P) /\ P.conn = "on"
      /\ UNCHANGED <<log, relays, overtaken, banned>>
  BY DEF ChatHear, ChatInv, ChatTables, ChatTypeOK, ChatSocket
<1>2. /\ e \in ChatEvent /\ Tail(P.inbox) \in Seq(ChatEvent)
      /\ \A k \in 1..Len(P.inbox) :
           P.inbox[k] = e \/ \E j \in 1..Len(Tail(P.inbox)) : Tail(P.inbox)[j] = P.inbox[k]
  BY <1>1, TakeHead
<1>3. chatPage' = [chatPage EXCEPT ![c] = new]
  BY DEF ChatHear
<1> HIDE DEF e
<1>4. /\ list \in Seq(Shown)
      /\ \A k \in 1..Len(P.list) : \E j \in 1..Len(list) : list[j].id = P.list[k].id
      /\ e.type = "chat_message" => \E j \in 1..Len(list) : list[j].id = e.id
  <2>1. CASE e.type = "chat_message"
    <3> DEFINE s == [id |-> e.id, deleted |-> FALSE]
    <3>1. s \in Shown /\ s.id = e.id
      BY <1>2 DEF Shown, ChatEvent
    <3> HIDE DEF s
    <3>2. /\ Append(P.list, s) \in Seq(Shown)
          /\ Len(P.list) \in Nat /\ Len(Append(P.list, s)) = Len(P.list) + 1
          /\ \A k \in 1..Len(P.list) : Append(P.list, s)[k] = P.list[k]
          /\ Append(P.list, s)[Len(P.list) + 1] = s
      BY <1>1, <3>1, AppendItem
    <3>3. list = Append(P.list, s)
      BY <2>1 DEF s
    <3> HIDE DEF list, P
    <3> QED BY <3>1, <3>2, <3>3
  <2>2. CASE e.type # "chat_message"
    <3>1. list = markDeleted(P.list, e.id)
      BY <2>2
    <3> HIDE DEF list, P
    <3> QED BY <1>1, <2>2, <3>1, Marked
  <2> QED BY <2>1, <2>2
<1> HIDE DEF list
<1>5. /\ new \in ChatSocket /\ new.conn = "on" /\ new.inbox = Tail(P.inbox) /\ new.list = list
  BY <1>1, <1>2, <1>4 DEF ChatSocket
<1> HIDE DEF new, P
<1>6. ASSUME NEW i, Reached(P, i) PROVE Reached(new, i)
  <2>1. CASE \E k \in 1..Len(P.list) : P.list[k].id = i
    BY <1>4, <1>5, <2>1 DEF Reached
  <2>2. ASSUME NEW k \in 1..Len(P.inbox), P.inbox[k] = Message(i) PROVE Reached(new, i)
    <3>1. CASE P.inbox[k] = e
      <4>1. e.type = "chat_message" /\ e.id = i
        BY <2>2, <3>1 DEF Message
      <4> QED BY <1>4, <1>5, <4>1 DEF Reached
    <3>2. CASE \E j \in 1..Len(Tail(P.inbox)) : Tail(P.inbox)[j] = P.inbox[k]
      BY <1>5, <2>2, <3>2 DEF Reached
    <3> QED BY <1>2, <3>1, <3>2
  <2> QED BY <1>6, <2>1, <2>2 DEF Reached
<1>7. NoneMissing(new)
  BY <1>1, <1>6 DEF NoneMissing
<1> QED BY <1>1, <1>3, <1>5, <1>7, PageStep
-----------------------------------------------------------------------------
(* Steps of the consumers that others hear of.                             *)

\* What a consumer reads from its page, and the page without it.
LEMMA Asked ==
  ASSUME ChatInv, NEW c \in Chatters, chatPage[c].asked # <<>>,
         chatPage' = [chatPage EXCEPT ![c].asked = Tail(@)]
  PROVE  /\ Head(chatPage[c].asked) \in ChatEvent
         /\ chatPage' \in [Chatters -> ChatSocket]
         /\ \A d \in Chatters : /\ chatPage'[d].conn = chatPage[d].conn
                               /\ chatPage'[d].list = chatPage[d].list
                               /\ chatPage'[d].inbox = chatPage[d].inbox
<1> DEFINE new == [chatPage[c] EXCEPT !.asked = Tail(chatPage[c].asked)]
<1>1. /\ chatPage \in [Chatters -> ChatSocket] /\ chatPage[c] \in ChatSocket
      /\ chatPage[c].asked \in Seq(ChatEvent)
  BY DEF ChatInv, ChatTables, ChatTypeOK, ChatSocket
<1>2. Head(chatPage[c].asked) \in ChatEvent /\ Tail(chatPage[c].asked) \in Seq(ChatEvent)
  BY <1>1, TakeHead
<1>3. /\ new \in ChatSocket /\ new.conn = chatPage[c].conn /\ new.list = chatPage[c].list
      /\ new.inbox = chatPage[c].inbox
  BY <1>1, <1>2 DEF ChatSocket
<1>4. chatPage' = [chatPage EXCEPT ![c] = new]
  OBVIOUS
<1> HIDE DEF new
<1>5. chatPage' \in [Chatters -> ChatSocket] /\ chatPage'[c] = new
      /\ \A d \in Chatters : d # c => chatPage'[d] = chatPage[d]
  BY <1>1, <1>3, <1>4
<1> QED BY <1>2, <1>3, <1>5

LEMMA SendInv ==
  ASSUME ChatInv, NEW c \in Chatters, _handle_send(c)
  PROVE  ChatInv'
<1> DEFINE row  == [by |-> c, deleted |-> FALSE]
           m    == [by |-> c, event |-> Message(Len(log) + 1)]
<1>1. /\ chatPage[c].asked # <<>>
      /\ chatPage' = [chatPage EXCEPT ![c].asked = Tail(@)]
      /\ UNCHANGED <<banned, overtaken>>
  BY DEF _handle_send
<1>2. /\ chatPage' \in [Chatters -> ChatSocket]
      /\ \A d \in Chatters : /\ chatPage'[d].conn = chatPage[d].conn
                            /\ chatPage'[d].list = chatPage[d].list
                            /\ chatPage'[d].inbox = chatPage[d].inbox
  BY <1>1, Asked
<1>3. log \in Seq(Row) /\ Len(log) \in Nat /\ DOMAIN log = 1..Len(log)
  BY DEF ChatInv, ChatTables, ChatTypeOK
<1>4. CASE UNCHANGED <<log, relays>>
  <2>1. ChatTables'
    BY <1>1, <1>2, <1>4 DEF ChatInv, ChatTables, ChatTypeOK
  <2>2. ASSUME NEW d \in Chatters PROVE NoneMissing(chatPage[d])'
    BY <1>2, <1>4 DEF ChatInv, NoneMissing, Reached
  <2> QED BY <2>1, <2>2 DEF ChatInv
<1>5. CASE log' = Append(log, row) /\ relays' = relays \cup {m}
  <2>1. row \in Row /\ m \in [by : Chatters, event : ChatEvent] /\ m.event = Message(Len(log) + 1)
    BY <1>3 DEF Row, Message, ChatEvent
  <2> HIDE DEF row, m
  <2>2. /\ log' \in Seq(Row) /\ Len(log') = Len(log) + 1 /\ DOMAIN log' = 1..(Len(log) + 1)
    BY <1>3, <1>5, <2>1, AppendItem
  <2>3. ChatTables'
    BY <1>1, <1>2, <1>3, <1>5, <2>1, <2>2 DEF ChatInv, ChatTables, ChatTypeOK
  <2>4. ASSUME NEW d \in Chatters PROVE NoneMissing(chatPage[d])'
    <3> SUFFICES ASSUME chatPage[d].conn = "on", NEW i \in 1..(Len(log) + 1),
                        i + HISTORY_LIMIT > Len(log) + 1
                 PROVE  Reached(chatPage[d], i) \/ \E r \in relays' : r.event = Message(i)
      BY <1>2, <2>2 DEF NoneMissing, Reached
    <3>1. CASE i = Len(log) + 1
      BY <1>5, <2>1, <3>1
    <3>2. CASE i # Len(log) + 1
      <4>1. i \in 1..Len(log) /\ i + HISTORY_LIMIT > Len(log)
        BY <1>3, <3>2, ChatAssumption
      <4> QED BY <1>5, <4>1 DEF ChatInv, NoneMissing
    <3> QED BY <3>1, <3>2
  <2> QED BY <2>3, <2>4 DEF ChatInv
<1> QED BY <1>4, <1>5 DEF _handle_send, Message

LEMMA HandleDeleteInv ==
  ASSUME ChatInv, NEW c \in Chatters, _handle_delete(c)
  PROVE  ChatInv'
<1> DEFINE e == Head(chatPage[c].asked)
           m == [by |-> c, event |-> e]
<1>1. /\ chatPage[c].asked # <<>>
      /\ chatPage' = [chatPage EXCEPT ![c].asked = Tail(@)]
      /\ UNCHANGED banned
      /\ \/ UNCHANGED <<log, relays, overtaken>>
         \/ /\ e.id \in DOMAIN log
            /\ log' = [log EXCEPT ![e.id].deleted = TRUE]
            /\ relays' = relays \cup {m}
            /\ overtaken' = overtaken \/ overtaken' = overtaken \cup {e.id}
  BY DEF _handle_delete
<1>2. /\ e \in ChatEvent
      /\ chatPage' \in [Chatters -> ChatSocket]
      /\ \A d \in Chatters : /\ chatPage'[d].conn = chatPage[d].conn
                            /\ chatPage'[d].list = chatPage[d].list
                            /\ chatPage'[d].inbox = chatPage[d].inbox
  BY <1>1, Asked
<1>3. m \in [by : Chatters, event : ChatEvent]
  BY <1>2
<1> HIDE DEF e, m
<1>4. log' \in Seq(Row) /\ Len(log') = Len(log) /\ DOMAIN log' = DOMAIN log
  <2>1. log \in Seq(Row)
    BY DEF ChatInv, ChatTables, ChatTypeOK
  <2>2. CASE UNCHANGED log
    BY <2>1, <2>2
  <2>3. CASE log' = [log EXCEPT ![e.id].deleted = TRUE] /\ e.id \in DOMAIN log
    <3> DEFINE row == [log[e.id] EXCEPT !.deleted = TRUE]
    <3>1. log[e.id] \in Row
      BY <2>1, <2>3
    <3>2. row \in Row
      BY <3>1 DEF Row
    <3>3. log' = [log EXCEPT ![e.id] = row]
      BY <2>3
    <3> HIDE DEF row
    <3> QED BY <2>1, <2>3, <3>2, <3>3
  <2> QED BY <1>1, <2>2, <2>3
<1>5. ChatTables'
  BY <1>1, <1>2, <1>3, <1>4 DEF ChatInv, ChatTables, ChatTypeOK
<1>6. ASSUME NEW d \in Chatters PROVE NoneMissing(chatPage[d])'
  BY <1>1, <1>2, <1>4, SMTT(30) DEF ChatInv, NoneMissing, Reached
<1> QED BY <1>5, <1>6 DEF ChatInv

LEMMA RelayInv ==
  ASSUME ChatInv, NEW r \in relays, Relay(r)
  PROVE  ChatInv'
<1> DEFINE e      == r.event
           got(d) == [chatPage[d] EXCEPT !.inbox = Append(chatPage[d].inbox, e)]
<1>1. /\ relays' = relays \ {r} /\ UNCHANGED <<log, banned, overtaken>>
      /\ chatPage' = [d \in Chatters |-> IF chatPage[d].conn \in {"joined", "on"} THEN got(d)
                                         ELSE chatPage[d]]
      /\ e \in ChatEvent
  BY DEF Relay, ToGroup, ChatInv, ChatTables
<1> HIDE DEF e
<1>2. ASSUME NEW d \in Chatters
      PROVE  /\ got(d) \in ChatSocket /\ got(d).conn = chatPage[d].conn
             /\ got(d).list = chatPage[d].list
             /\ \A k \in 1..Len(chatPage[d].inbox) :
                  k \in 1..Len(got(d).inbox) /\ got(d).inbox[k] = chatPage[d].inbox[k]
             /\ \E k \in 1..Len(got(d).inbox) : got(d).inbox[k] = e
  <2>1. chatPage[d] \in ChatSocket /\ chatPage[d].inbox \in Seq(ChatEvent)
    BY DEF ChatInv, ChatTables, ChatTypeOK, ChatSocket
  <2> DEFINE q == Append(chatPage[d].inbox, e)
  <2>2. /\ q \in Seq(ChatEvent)
        /\ Len(chatPage[d].inbox) \in Nat /\ Len(q) = Len(chatPage[d].inbox) + 1
        /\ \A k \in 1..Len(chatPage[d].inbox) : q[k] = chatPage[d].inbox[k]
        /\ q[Len(chatPage[d].inbox) + 1] = e
    BY <1>1, <2>1, AppendItem
  <2> HIDE DEF q
  <2>3. got(d) = [chatPage[d] EXCEPT !.inbox = q]
    BY DEF q
  <2> HIDE DEF got
  <2>4. got(d) \in ChatSocket /\ got(d).conn = chatPage[d].conn /\ got(d).inbox = q
        /\ got(d).list = chatPage[d].list
    BY <2>1, <2>2, <2>3 DEF ChatSocket
  <2> QED BY <2>2, <2>4
<1> HIDE DEF got
<1>3. chatPage' \in [Chatters -> ChatSocket]
  BY <1>1, <1>2 DEF ChatInv, ChatTables, ChatTypeOK
<1>4. ChatTables'
  BY <1>1, <1>3 DEF ChatInv, ChatTables, ChatTypeOK
<1>5. ASSUME NEW d \in Chatters PROVE NoneMissing(chatPage[d])'
  <2> SUFFICES ASSUME chatPage'[d].conn = "on", NEW i \in 1..Len(log),
                      i + HISTORY_LIMIT > Len(log)
               PROVE  Reached(chatPage'[d], i) \/ \E x \in relays' : x.event = Message(i)
    BY <1>1 DEF NoneMissing, Reached
  <2>1. chatPage'[d] = got(d) /\ chatPage[d].conn = "on"
    BY <1>1, <1>2
  <2>2. Reached(chatPage[d], i) \/ \E x \in relays : x.event = Message(i)
    BY <2>1 DEF ChatInv, NoneMissing
  <2>3. CASE Reached(chatPage[d], i)
    BY <1>2, <2>1, <2>3 DEF Reached
  <2>4. CASE e = Message(i)
    BY <1>2, <2>1, <2>4 DEF Reached
  <2>5. CASE e # Message(i) /\ \E x \in relays : x.event = Message(i)
    BY <1>1, <2>5 DEF e
  <2> QED BY <2>2, <2>3, <2>4, <2>5
<1> QED BY <1>4, <1>5 DEF ChatInv

LEMMA ChatInvNext == ChatInv /\ [ChatNext]_chatVars => ChatInv'
<1> SUFFICES ASSUME ChatInv, [ChatNext]_chatVars PROVE ChatInv'
  OBVIOUS
<1>1. ASSUME UNCHANGED <<log, relays, chatPage, overtaken>>, banned' \subseteq Chatters PROVE ChatInv'
  BY <1>1 DEF ChatInv, ChatTables, ChatTypeOK, NoneMissing, Reached
<1>2. CASE UNCHANGED chatVars
  BY <1>1, <1>2 DEF chatVars, ChatInv, ChatTables, ChatTypeOK
<1>3. ASSUME NEW c \in Chatters, ChatBan(c) PROVE ChatInv'
  BY <1>1, <1>3 DEF ChatBan, ChatInv, ChatTables, ChatTypeOK
<1> QED BY <1>2, <1>3, ConnectInv, HistoryInv, AskInv, HearInv, SendInv, HandleDeleteInv, RelayInv
        DEF ChatNext

-----------------------------------------------------------------------------
\* Rows, sockets and pages keep their types, whatever is sent, deleted, revoked or lost;
\* no page misses a recent message.
THEOREM ChatInductive == ChatSpec => []ChatInv
  BY ChatInvInit, ChatInvNext, PTL DEF ChatSpec

\* connect joins the group before it reads the history: a page that has heard everything
\* shows the last HISTORY_LIMIT messages, for any limit and however many messages are
\* sent, sockets lost and members removed meanwhile.
THEOREM NoMessageMissed == ChatSpec => []NothingIsMissed
<1>1. ChatInv => NothingIsMissed
  <2> SUFFICES ASSUME ChatInv, NEW c \in Chatters, ChatDrained(c), NEW i \in DOMAIN log,
                      i + HISTORY_LIMIT > Len(log)
               PROVE  \E s \in ToSet(chatPage[c].list) : s.id = i
    BY DEF NothingIsMissed
  <2>1. /\ i \in 1..Len(log) /\ chatPage[c].conn = "on" /\ chatPage[c].inbox = <<>> /\ relays = {}
        /\ chatPage[c].list \in Seq(Shown)
    BY DEF ChatDrained, ChatInv, ChatTables, ChatTypeOK, ChatSocket
  <2>2. \E k \in 1..Len(chatPage[c].list) : chatPage[c].list[k].id = i
    BY <2>1 DEF ChatInv, NoneMissing, Reached
  <2> QED BY <2>1, <2>2, SameElements
<1> QED BY <1>1, ChatInductive, PTL

Deletion(i) == [type |-> "chat_deleted", id |-> i]

\* The rows a moderator has deleted after they had been broadcast.
Gone == {i \in 1..Len(log) : log[i].deleted /\ i \notin overtaken}

DeletionSent(i) == \E r \in relays : r.event = Deletion(i)

KnowsRows(P) ==
  /\ \A k \in 1..Len(P.list) : P.list[k].id \in 1..Len(log)
  /\ \A k \in 1..Len(P.inbox) : P.inbox[k].type = "chat_message" => P.inbox[k].id \in 1..Len(log)

\* A deletion follows the message to every socket; it marks the first element, which is
\* marked already if it came with the history.
DeletionFollows(P, i) ==
  P.conn \in {"joined", "on"} =>
    \A k \in 1..Len(P.inbox) : P.inbox[k] = Message(i) =>
      DeletionSent(i) \/ \E j \in (k + 1)..Len(P.inbox) : P.inbox[j] = Deletion(i)

FirstIsMarked(P, i) ==
  P.conn = "on" =>
    \A k \in 1..Len(P.list) : P.list[k].id = i /\ (\A j \in 1..(k - 1) : P.list[j].id # i) =>
      P.list[k].deleted \/ DeletionSent(i) \/ \E j \in 1..Len(P.inbox) : P.inbox[j] = Deletion(i)

ShownInv ==
  /\ \A r \in relays : r.event.type = "chat_message" => r.event.id \in (1..Len(log)) \ Gone
  /\ \A c \in Chatters :
       /\ KnowsRows(chatPage[c]) /\ (chatPage[c].conn = "off" => chatPage[c].inbox = <<>>)
       /\ \A i \in Gone : DeletionFollows(chatPage[c], i) /\ FirstIsMarked(chatPage[c], i)

-----------------------------------------------------------------------------
\* Marking marks the first element with the id and blanks nothing out again.
LEMMA MarksTheFirst ==
  ASSUME NEW list \in Seq(Shown), NEW id
  PROVE  /\ \A k \in 1..Len(list) : list[k].deleted => markDeleted(list, id)[k].deleted
         /\ \A k \in 1..Len(list) :
              list[k].id = id /\ (\A j \in 1..(k - 1) : list[j].id # id) => markDeleted(list, id)[k].deleted
<1> DEFINE I == {k \in 1..Len(list) : list[k].id = id}
           at == IF I # {} THEN CHOOSE x \in I : \A y \in I : x =< y ELSE 0
<1>0. Len(list) \in Nat /\ list \in [1..Len(list) -> Shown] /\ DOMAIN list = 1..Len(list)
  OBVIOUS
<1>1. SelectInSeq(list, LAMBDA s : s.id = id) = at
  BY DEF SelectInSeq, Min
<1>2. markDeleted(list, id) = IF at = 0 THEN list ELSE [list EXCEPT ![at].deleted = TRUE]
  BY <1>1 DEF markDeleted
<1>3. ASSUME NEW k \in I, \A j \in 1..(k - 1) : list[j].id # id PROVE at = k
  <2>1. \A y \in I : k =< y
    BY <1>0, <1>3
  <2>2. \A x \in I : (\A y \in I : x =< y) => x = k
    BY <1>0, <2>1
  <2> QED BY <2>1, <2>2
<1> HIDE DEF at
<1>4. ASSUME NEW k \in 1..Len(list), at # 0
      PROVE  /\ k = at => [list EXCEPT ![at].deleted = TRUE][k].deleted
             /\ k # at => [list EXCEPT ![at].deleted = TRUE][k] = list[k]
  BY <1>0, <1>4 DEF Shown
<1>5. \A k \in 1..Len(list) : list[k].deleted => markDeleted(list, id)[k].deleted
  BY <1>2, <1>4
<1>6. ASSUME NEW k \in 1..Len(list), list[k].id = id, \A j \in 1..(k - 1) : list[j].id # id
      PROVE  markDeleted(list, id)[k].deleted
  BY <1>0, <1>2, <1>3, <1>4, <1>6
<1> QED BY <1>5, <1>6

\* The elements of a history are rows, blank if they are deleted.
LEMMA HistoryRows ==
  ASSUME log \in Seq(Row)
  PROVE  /\ _load_history \in Seq(Shown)
         /\ \A k \in 1..Len(_load_history) :
              /\ _load_history[k].id \in 1..Len(log)
              /\ _load_history[k].deleted = log[_load_history[k].id].deleted
<1> DEFINE all  == [i \in DOMAIN log |-> [id |-> i, deleted |-> log[i].deleted]]
           from == 1 + (IF Len(log) > HISTORY_LIMIT THEN Len(log) - HISTORY_LIMIT ELSE 0)
<1>1. /\ Len(log) \in Nat /\ DOMAIN log = 1..Len(log) /\ HISTORY_LIMIT \in Nat \ {0}
  BY ChatAssumption
<1>2. /\ all \in [1..Len(log) -> Shown]
      /\ \A i \in 1..Len(log) : all[i].id = i /\ all[i].deleted = log[i].deleted
  <2>1. \A i \in 1..Len(log) : log[i].deleted \in BOOLEAN /\ i \in Nat \ {0}
    <3> TAKE i \in 1..Len(log)
    <3>1. log[i] \in Row
      BY <1>1
    <3> QED BY <1>1, <3>1 DEF Row
  <2>2. \A i \in 1..Len(log) : [id |-> i, deleted |-> log[i].deleted] \in Shown
    BY <2>1 DEF Shown
  <2> QED BY <1>1, <2>2
<1>3. _load_history = SubSeq(all, from, Len(log))
  BY DEF _load_history
<1>4. from \in 1..(Len(log) + 1)
  BY <1>1
<1> HIDE DEF all, from
<1>5. all \in Seq(Shown) /\ Len(all) = Len(log)
  BY <1>1, <1>2
<1>6. /\ _load_history \in Seq(Shown)
      /\ Len(_load_history) = Len(log) + 1 - from
      /\ \A k \in 1..Len(_load_history) : _load_history[k] = all[from + k - 1]
  BY <1>1, <1>3, <1>4, <1>5
<1>7. ASSUME NEW k \in 1..Len(_load_history) PROVE from + k - 1 \in 1..Len(log)
  BY <1>1, <1>4, <1>6
<1> QED BY <1>2, <1>6, <1>7

LEMMA ShownStep ==
  ASSUME ChatInv, ShownInv, NEW c \in Chatters, NEW new \in ChatSocket,
         chatPage' = [chatPage EXCEPT ![c] = new], UNCHANGED <<log, relays, overtaken>>,
         KnowsRows(new), new.conn = "off" => new.inbox = <<>>,
         \A i \in Gone : DeletionFollows(new, i) /\ FirstIsMarked(new, i)
  PROVE  ShownInv'
<1>1. \A d \in Chatters : chatPage'[d] = IF d = c THEN new ELSE chatPage[d]
  BY DEF ChatInv, ChatTables, ChatTypeOK
<1>2. ASSUME NEW d \in Chatters
      PROVE  /\ KnowsRows(chatPage'[d]) /\ (chatPage'[d].conn = "off" => chatPage'[d].inbox = <<>>)
             /\ \A i \in Gone : DeletionFollows(chatPage'[d], i) /\ FirstIsMarked(chatPage'[d], i)
  BY <1>1 DEF ShownInv
<1>3. Gone' = Gone
  BY DEF Gone
<1> QED BY <1>2, <1>3 DEF ShownInv, KnowsRows, DeletionFollows, FirstIsMarked, DeletionSent

\* Nothing that is shown or told changes.
LEMMA SameShown ==
  ASSUME ShownInv, UNCHANGED <<log, relays, overtaken>>,
         \A d \in Chatters : /\ chatPage'[d].conn = chatPage[d].conn /\ chatPage'[d].list = chatPage[d].list
                             /\ chatPage'[d].inbox = chatPage[d].inbox
  PROVE  ShownInv'
<1>1. Gone' = Gone
  BY DEF Gone
<1>2. ASSUME NEW d \in Chatters
      PROVE  /\ KnowsRows(chatPage[d])' /\ (chatPage'[d].conn = "off" => chatPage'[d].inbox = <<>>)
             /\ \A i \in Gone : DeletionFollows(chatPage[d], i)' /\ FirstIsMarked(chatPage[d], i)'
  <2>1. /\ chatPage'[d].conn = chatPage[d].conn /\ chatPage'[d].list = chatPage[d].list
        /\ chatPage'[d].inbox = chatPage[d].inbox
    OBVIOUS
  <2>2. KnowsRows(chatPage[d]) /\ (chatPage[d].conn = "off" => chatPage[d].inbox = <<>>)
    BY DEF ShownInv
  <2>3. KnowsRows(chatPage[d])' /\ (chatPage'[d].conn = "off" => chatPage'[d].inbox = <<>>)
    BY <2>1, <2>2 DEF KnowsRows
  <2>4. \A i : DeletionSent(i)' <=> DeletionSent(i)
    BY DEF DeletionSent
  <2>5. ASSUME NEW i \in Gone PROVE DeletionFollows(chatPage[d], i)'
    BY <2>1, <2>4 DEF ShownInv, DeletionFollows
  <2>6. ASSUME NEW i \in Gone PROVE FirstIsMarked(chatPage[d], i)'
    BY <2>1, <2>4 DEF ShownInv, FirstIsMarked
  <2> QED BY <2>3, <2>5, <2>6
<1> QED BY <1>1, <1>2 DEF ShownInv

LEMMA ConnectShown ==
  ASSUME ChatInv, ShownInv, NEW c \in Chatters, ChatConnect(c) \/ ChatRevoke(c) \/ ChatDrop(c)
  PROVE  ShownInv'
<1>1. chatPage[c] \in ChatSocket /\ KnowsRows(chatPage[c])
  BY DEF ChatInv, ChatTables, ChatTypeOK, ShownInv
<1>2. <<>> \in Seq(ChatEvent) /\ Len(<<>>) = 0
  OBVIOUS
<1>3. ASSUME NEW new \in ChatSocket, new.list = chatPage[c].list, new.inbox = <<>>, new.conn # "on",
             chatPage' = [chatPage EXCEPT ![c] = new], UNCHANGED <<log, relays, overtaken>>
      PROVE  ShownInv'
  <2>1. Len(new.inbox) = 0
    BY <1>2, <1>3
  <2>2. KnowsRows(new) /\ \A i \in Gone : DeletionFollows(new, i) /\ FirstIsMarked(new, i)
    BY <1>1, <1>3, <2>1 DEF KnowsRows, DeletionFollows, FirstIsMarked
  <2> QED BY <1>3, <2>2, ShownStep
<1>4. CASE ChatConnect(c)
  <2> DEFINE new == [chatPage[c] EXCEPT !.conn = "joined"]
  <2>1. /\ new \in ChatSocket /\ new.list = chatPage[c].list /\ new.inbox = chatPage[c].inbox
        /\ new.conn = "joined"
    BY <1>1 DEF ChatSocket
  <2>2. chatPage' = [chatPage EXCEPT ![c] = new] /\ UNCHANGED <<log, relays, overtaken>>
        /\ chatPage[c].conn = "off"
    BY <1>4 DEF ChatConnect
  <2>3. chatPage[c].inbox = <<>>
    BY <2>2 DEF ShownInv
  <2> HIDE DEF new
  <2> QED BY <1>3, <2>1, <2>2, <2>3
<1>5. CASE ChatRevoke(c)
  <2> DEFINE new == [chatPage[c] EXCEPT !.conn = "refused", !.inbox = <<>>, !.asked = <<>>]
  <2>1. new \in ChatSocket /\ new.list = chatPage[c].list /\ new.inbox = <<>> /\ new.conn = "refused"
    BY <1>1, <1>2 DEF ChatSocket
  <2>2. chatPage' = [chatPage EXCEPT ![c] = new] /\ UNCHANGED <<log, relays, overtaken>>
    BY <1>5 DEF ChatRevoke
  <2> HIDE DEF new
  <2> QED BY <1>3, <2>1, <2>2
<1>6. CASE ChatDrop(c)
  <2> DEFINE new == [chatPage[c] EXCEPT !.conn = "off", !.inbox = <<>>, !.asked = <<>>]
  <2>1. new \in ChatSocket /\ new.list = chatPage[c].list /\ new.inbox = <<>> /\ new.conn = "off"
    BY <1>1, <1>2 DEF ChatSocket
  <2>2. chatPage' = [chatPage EXCEPT ![c] = new] /\ UNCHANGED <<log, relays, overtaken>>
    BY <1>6 DEF ChatDrop
  <2> HIDE DEF new
  <2> QED BY <1>3, <2>1, <2>2
<1> QED BY <1>4, <1>5, <1>6

LEMMA HistoryShown ==
  ASSUME ChatInv, ShownInv, NEW c \in Chatters, ChatHistory(c)
  PROVE  ShownInv'
<1> DEFINE new == [chatPage[c] EXCEPT !.conn = "on", !.list = _load_history]
<1>1. chatPage[c] \in ChatSocket /\ log \in Seq(Row) /\ KnowsRows(chatPage[c])
  BY DEF ChatInv, ChatTables, ChatTypeOK, ShownInv
<1>2. /\ _load_history \in Seq(Shown)
      /\ \A k \in 1..Len(_load_history) :
              /\ _load_history[k].id \in 1..Len(log)
              /\ _load_history[k].deleted = log[_load_history[k].id].deleted
  BY <1>1, HistoryRows
<1>3. new \in ChatSocket /\ new.list = _load_history /\ new.inbox = chatPage[c].inbox /\ new.conn = "on"
  BY <1>1, <1>2 DEF ChatSocket
<1>4. chatPage' = [chatPage EXCEPT ![c] = new] /\ UNCHANGED <<log, relays, overtaken>>
      /\ chatPage[c].conn = "joined"
  BY DEF ChatHistory
<1> HIDE DEF new
<1>5. KnowsRows(new)
  BY <1>1, <1>2, <1>3 DEF KnowsRows
<1>6. \A i \in Gone : DeletionFollows(new, i)
  BY <1>3, <1>4 DEF ShownInv, DeletionFollows
<1>7. \A i \in Gone : FirstIsMarked(new, i)
  BY <1>2, <1>3 DEF FirstIsMarked, Gone
<1> QED BY <1>3, <1>4, <1>5, <1>6, <1>7, ShownStep

\* The page asks for something: nothing it shows or is told changes.
LEMMA AskShown ==
  ASSUME ChatInv, ShownInv, NEW c \in Chatters, ChatSend(c) \/ deleteMessage(c)
  PROVE  ShownInv'
<1>1. /\ chatPage \in [Chatters -> ChatSocket] /\ UNCHANGED <<log, relays, overtaken>>
      /\ \E e : chatPage' = [chatPage EXCEPT ![c].asked = Append(@, e)]
  BY DEF ChatSend, deleteMessage, ChatInv, ChatTables, ChatTypeOK
<1>2. PICK e : chatPage' = [chatPage EXCEPT ![c].asked = Append(@, e)]
  BY <1>1
<1>3. \A d \in Chatters : /\ chatPage'[d].conn = chatPage[d].conn /\ chatPage'[d].list = chatPage[d].list
                          /\ chatPage'[d].inbox = chatPage[d].inbox
  BY <1>1, <1>2 DEF ChatSocket
<1> QED BY <1>1, <1>3, SameShown

LEMMA TakeFirst ==
  ASSUME NEW S, NEW seq \in Seq(S), seq # <<>>
  PROVE  /\ Head(seq) \in S /\ Tail(seq) \in Seq(S) /\ Head(seq) = seq[1]
         /\ Len(seq) \in Nat \ {0} /\ Len(Tail(seq)) = Len(seq) - 1
         /\ \A k \in 1..Len(Tail(seq)) : Tail(seq)[k] = seq[k + 1]
  OBVIOUS

\* What is behind the first event of a channel comes one place nearer.
LEMMA Behind ==
  ASSUME NEW S, NEW seq \in Seq(S), seq # <<>>, NEW x, NEW k \in Nat,
         \E j \in (k + 1)..Len(seq) : seq[j] = x, k > 0
  PROVE  \E j \in k..Len(Tail(seq)) : Tail(seq)[j] = x
<1>1. /\ Len(seq) \in Nat \ {0} /\ Len(Tail(seq)) = Len(seq) - 1
      /\ \A i \in 1..Len(Tail(seq)) : Tail(seq)[i] = seq[i + 1]
  BY TakeFirst
<1>2. PICK j \in (k + 1)..Len(seq) : seq[j] = x
  OBVIOUS
<1>3. j - 1 \in k..Len(Tail(seq)) /\ j - 1 \in 1..Len(Tail(seq)) /\ (j - 1) + 1 = j
  BY <1>1, <1>2
<1> QED BY <1>1, <1>2, <1>3

LEMMA BehindFirst ==
  ASSUME NEW S, NEW seq \in Seq(S), seq # <<>>, NEW x, \E j \in 2..Len(seq) : seq[j] = x
  PROVE  \E j \in 1..Len(Tail(seq)) : Tail(seq)[j] = x
<1>1. 1 \in Nat /\ 1 > 0 /\ 1 + 1 = 2
  OBVIOUS
<1>2. \E j \in (1 + 1)..Len(seq) : seq[j] = x
  BY <1>1
<1>3. \A k \in Nat : k > 0 /\ (\E j \in (k + 1)..Len(seq) : seq[j] = x)
                     => \E j \in k..Len(Tail(seq)) : Tail(seq)[j] = x
  BY Behind
<1> QED BY <1>1, <1>2, <1>3

LEMMA HearShown ==
  ASSUME ChatInv, ShownInv, NEW c \in Chatters, ChatHear(c)
  PROVE  ShownInv'
<1> DEFINE P    == chatPage[c]
           e    == Head(P.inbox)
           rest == Tail(P.inbox)
           list == IF e.type = "chat_message" THEN Append(P.list, [id |-> e.id, deleted |-> FALSE])
                   ELSE markDeleted(P.list, e.id)
           new  == [P EXCEPT !.inbox = rest, !.list = list]
<1>1. /\ P \in ChatSocket
      /\ P.list \in Seq(Shown) /\ P.inbox \in Seq(ChatEvent) /\ P.inbox # <<>>
      /\ P.conn = "on" /\ UNCHANGED <<log, relays, overtaken>>
      /\ KnowsRows(P)
  BY DEF ChatHear, ChatInv, ChatTables, ChatTypeOK, ChatSocket, ShownInv
<1>2. /\ e \in ChatEvent /\ rest \in Seq(ChatEvent) /\ e = P.inbox[1]
      /\ Len(P.inbox) \in Nat \ {0} /\ Len(rest) = Len(P.inbox) - 1
      /\ \A k \in 1..Len(rest) : rest[k] = P.inbox[k + 1]
  BY <1>1, TakeFirst
<1>3. chatPage' = [chatPage EXCEPT ![c] = new]
  BY DEF ChatHear
<1>4. \A i \in Gone : DeletionFollows(P, i) /\ FirstIsMarked(P, i)
  BY DEF ShownInv
<1>5. ASSUME NEW x, NEW k \in 1..Len(rest), \E j \in ((k + 1) + 1)..Len(P.inbox) : P.inbox[j] = x
      PROVE  \E j \in (k + 1)..Len(rest) : rest[j] = x
  <2>1. k + 1 \in Nat /\ k + 1 > 0
    BY <1>2
  <2> QED BY <1>1, <1>5, <2>1, Behind
<1>6. ASSUME NEW x, \E j \in 1..Len(P.inbox) : P.inbox[j] = x, x # e
      PROVE  \E j \in 1..Len(rest) : rest[j] = x
  <2>1. \E j \in 2..Len(P.inbox) : P.inbox[j] = x
    BY <1>2, <1>6
  <2> QED BY <1>1, <2>1, BehindFirst
<1> HIDE DEF e, rest
<1>7. /\ list \in Seq(Shown) /\ Len(P.list) \in Nat
      /\ \A k \in 1..Len(P.list) : k \in 1..Len(list) /\ list[k].id = P.list[k].id
                                   /\ (P.list[k].deleted => list[k].deleted)
      /\ e.type = "chat_message" =>
           /\ Len(list) = Len(P.list) + 1 /\ list[Len(P.list) + 1].id = e.id
      /\ e.type # "chat_message" =>
           /\ Len(list) = Len(P.list)
           /\ \A k \in 1..Len(P.list) :
                P.list[k].id = e.id /\ (\A j \in 1..(k - 1) : P.list[j].id # e.id) => list[k].deleted
  <2>0. Len(P.list) \in Nat
    BY <1>1
  <2>1. CASE e.type = "chat_message"
    <3> DEFINE s == [id |-> e.id, deleted |-> FALSE]
    <3>1. s \in Shown /\ s.id = e.id
      BY <1>2 DEF Shown, ChatEvent
    <3> HIDE DEF s
    <3>2. /\ Append(P.list, s) \in Seq(Shown)
          /\ Len(P.list) \in Nat /\ Len(Append(P.list, s)) = Len(P.list) + 1
          /\ \A k \in 1..Len(P.list) : Append(P.list, s)[k] = P.list[k]
          /\ Append(P.list, s)[Len(P.list) + 1] = s
      BY <1>1, <3>1, AppendItem
    <3>3. list = Append(P.list, s)
      BY <2>1 DEF s
    <3> HIDE DEF list, P
    <3> QED BY <2>1, <3>1, <3>2, <3>3
  <2>2. CASE e.type # "chat_message"
    <3>1. list = markDeleted(P.list, e.id)
      BY <2>2
    <3> HIDE DEF list, P
    <3> QED BY <1>1, <2>0, <2>2, <3>1, Marked, MarksTheFirst
  <2> QED BY <2>1, <2>2
<1>8. list \in Seq(Shown)
  BY <1>7
<1> HIDE DEF list
<1>9. /\ new \in ChatSocket /\ new.conn = "on" /\ new.inbox = rest /\ new.list = list
  BY <1>1, <1>2, <1>8 DEF ChatSocket
<1> HIDE DEF new, P
<1>10. KnowsRows(new)
  <2>1. ASSUME NEW k \in 1..Len(rest), rest[k].type = "chat_message" PROVE rest[k].id \in 1..Len(log)
    <3>1. k + 1 \in 1..Len(P.inbox)
      BY <1>2
    <3> QED BY <1>1, <1>2, <2>1, <3>1 DEF KnowsRows
  <2>2. e.type = "chat_message" => e.id \in 1..Len(log)
    <3>1. 1 \in 1..Len(P.inbox)
      BY <1>2
    <3> QED BY <1>1, <1>2, <3>1 DEF KnowsRows
  <2>3. ASSUME NEW k \in 1..Len(list) PROVE list[k].id \in 1..Len(log)
    <3>1. CASE k \in 1..Len(P.list)
      BY <1>1, <1>7, <3>1 DEF KnowsRows
    <3>2. CASE k \notin 1..Len(P.list)
      <4>1. e.type = "chat_message" /\ k = Len(P.list) + 1
        BY <1>7, <3>2
      <4> QED BY <1>7, <2>2, <4>1
    <3> QED BY <3>1, <3>2
  <2> QED BY <1>9, <2>1, <2>3 DEF KnowsRows
<1>11. ASSUME NEW i \in Gone PROVE DeletionFollows(new, i)
  <2> SUFFICES ASSUME NEW k \in 1..Len(rest), rest[k] = Message(i), ~DeletionSent(i)
               PROVE  \E j \in (k + 1)..Len(rest) : rest[j] = Deletion(i)
    BY <1>9 DEF DeletionFollows
  <2>1. k + 1 \in 1..Len(P.inbox) /\ P.inbox[k + 1] = Message(i)
    <3>1. rest[k] = P.inbox[k + 1]
      BY <1>2
    <3>2. k + 1 \in 1..Len(P.inbox)
      BY <1>2
    <3> QED BY <3>1, <3>2
  <2>2. \E j \in ((k + 1) + 1)..Len(P.inbox) : P.inbox[j] = Deletion(i)
    BY <1>1, <1>4, <2>1 DEF DeletionFollows
  <2> QED BY <1>5, <2>2
<1>12. ASSUME NEW i \in Gone PROVE FirstIsMarked(new, i)
  <2> SUFFICES ASSUME NEW k \in 1..Len(list), list[k].id = i, \A j \in 1..(k - 1) : list[j].id # i,
                      ~DeletionSent(i), ~list[k].deleted
               PROVE  \E j \in 1..Len(rest) : rest[j] = Deletion(i)
    BY <1>9 DEF FirstIsMarked
  <2>1. CASE k \in 1..Len(P.list)
    <3>1. /\ P.list[k].id = i /\ ~P.list[k].deleted
          /\ \A j \in 1..(k - 1) : P.list[j].id # i
      <4>1. \A j \in 1..(k - 1) : j \in 1..Len(P.list)
        BY <1>7, <2>1
      <4> QED BY <1>7, <2>1, <4>1
    <3>2. \E j \in 1..Len(P.inbox) : P.inbox[j] = Deletion(i)
      BY <1>1, <1>4, <2>1, <3>1 DEF FirstIsMarked
    <3>3. Deletion(i) # e
      <4>1. ASSUME Deletion(i) = e PROVE FALSE
        <5>1. e.type = "chat_deleted" /\ e.id = i
          BY <4>1 DEF Deletion
        <5> QED BY <1>7, <2>1, <3>1, <5>1
      <4> QED BY <4>1
    <3> QED BY <1>6, <3>2, <3>3
  <2>2. CASE k \notin 1..Len(P.list)
    <3>1. e.type = "chat_message" /\ k = Len(P.list) + 1 /\ e.id = i
      BY <1>7, <2>2
    <3>2. P.inbox[1] = Message(i) /\ 1 \in 1..Len(P.inbox)
      BY <1>2, <3>1 DEF ChatEvent, Message
    <3>3. \E j \in 2..Len(P.inbox) : P.inbox[j] = Deletion(i)
      <4>1. 1 + 1 = 2
        OBVIOUS
      <4> QED BY <1>1, <1>4, <3>2, <4>1 DEF DeletionFollows
    <3> QED BY <1>1, <3>3, BehindFirst DEF rest
  <2> QED BY <2>1, <2>2
<1> QED BY <1>1, <1>3, <1>9, <1>10, <1>11, <1>12, ShownStep

-----------------------------------------------------------------------------
LEMMA SendShown ==
  ASSUME ChatInv, ShownInv, NEW c \in Chatters, _handle_send(c)
  PROVE  ShownInv'
<1> DEFINE row  == [by |-> c, deleted |-> FALSE]
           m    == [by |-> c, event |-> Message(Len(log) + 1)]
<1>1. /\ chatPage[c].asked # <<>>
      /\ chatPage' = [chatPage EXCEPT ![c].asked = Tail(@)]
      /\ UNCHANGED overtaken
  BY DEF _handle_send
<1>2. \A d \in Chatters : /\ chatPage'[d].conn = chatPage[d].conn
                          /\ chatPage'[d].list = chatPage[d].list
                          /\ chatPage'[d].inbox = chatPage[d].inbox
  BY <1>1, Asked
<1>3. log \in Seq(Row) /\ Len(log) \in Nat
  BY DEF ChatInv, ChatTables, ChatTypeOK
<1>4. CASE UNCHANGED <<log, relays>>
  BY <1>1, <1>2, <1>4, SameShown
<1>5. CASE log' = Append(log, row) /\ relays' = relays \cup {m}
  <2>1. row \in Row /\ ~row.deleted /\ m.event.id = Len(log) + 1
        /\ m.event.type = "chat_message"
    BY DEF Row, Message
  <2> HIDE DEF row, m
  <2>2. /\ Len(log') = Len(log) + 1 /\ log'[Len(log) + 1] = row
        /\ \A k \in 1..Len(log) : log'[k] = log[k]
    BY <1>3, <1>5, <2>1, AppendItem
  <2>3. Gone' = Gone
    <3>1. \A k \in 1..(Len(log) + 1) : k \in 1..Len(log) \/ k = Len(log) + 1
      BY <1>3
    <3>2. 1..Len(log) \subseteq 1..(Len(log) + 1)
      BY <1>3
    <3> QED BY <1>1, <2>1, <2>2, <3>1, <3>2 DEF Gone
  <2>4. \A k \in 1..Len(log) : k \in 1..Len(log')
    BY <1>3, <2>2
  <2>5. \A r \in relays' : r.event.type = "chat_message" => r.event.id \in (1..Len(log')) \ Gone'
    <3>1. Len(log) + 1 \in 1..Len(log') /\ Len(log) + 1 \notin Gone
      BY <1>3, <2>2 DEF Gone
    <3> QED BY <1>5, <2>1, <2>3, <2>4, <3>1 DEF ShownInv
  <2>6. ASSUME NEW d \in Chatters
        PROVE  KnowsRows(chatPage[d])' /\ (chatPage'[d].conn = "off" => chatPage'[d].inbox = <<>>)
    BY <1>2, <2>4 DEF ShownInv, KnowsRows
  <2>7. ASSUME NEW d \in Chatters, NEW i \in Gone
        PROVE  DeletionFollows(chatPage[d], i)' /\ FirstIsMarked(chatPage[d], i)'
    <3>1. DeletionSent(i) => DeletionSent(i)'
      BY <1>5 DEF DeletionSent
    <3>2. DeletionFollows(chatPage[d], i) /\ FirstIsMarked(chatPage[d], i)
      BY DEF ShownInv
    <3>3. DeletionFollows(chatPage[d], i)'
      BY <1>2, <3>1, <3>2 DEF DeletionFollows
    <3>4. FirstIsMarked(chatPage[d], i)'
      BY <1>2, <3>1, <3>2 DEF FirstIsMarked
    <3> QED BY <3>3, <3>4
  <2> QED BY <2>3, <2>5, <2>6, <2>7 DEF ShownInv
<1> QED BY <1>4, <1>5 DEF _handle_send, Message

LEMMA DeleteShown ==
  ASSUME ChatInv, ShownInv, NEW c \in Chatters, _handle_delete(c)
  PROVE  ShownInv'
<1> DEFINE e == Head(chatPage[c].asked)
           m == [by |-> c, event |-> e]
<1>1. /\ chatPage[c].asked # <<>> /\ e.type = "chat_deleted"
      /\ chatPage' = [chatPage EXCEPT ![c].asked = Tail(@)]
      /\ \/ UNCHANGED <<log, relays, overtaken>>
         \/ /\ e.id \in DOMAIN log
            /\ log' = [log EXCEPT ![e.id].deleted = TRUE]
            /\ relays' = relays \cup {m}
            /\ overtaken' = IF \E r \in relays : r.event = Message(e.id)
                              THEN overtaken \cup {e.id} ELSE overtaken
  BY DEF _handle_delete, Message
<1>2. /\ e \in ChatEvent
      /\ \A d \in Chatters : /\ chatPage'[d].conn = chatPage[d].conn
                            /\ chatPage'[d].list = chatPage[d].list
                            /\ chatPage'[d].inbox = chatPage[d].inbox
  BY <1>1, Asked
<1>3. m.event = e /\ e = Deletion(e.id)
  BY <1>1, <1>2 DEF Deletion, ChatEvent
<1>4. log \in Seq(Row) /\ Len(log) \in Nat /\ DOMAIN log = 1..Len(log)
  BY DEF ChatInv, ChatTables, ChatTypeOK
<1> HIDE DEF e, m
<1>5. CASE UNCHANGED <<log, relays, overtaken>>
  BY <1>2, <1>5, SameShown
<1>6. CASE /\ e.id \in DOMAIN log
           /\ log' = [log EXCEPT ![e.id].deleted = TRUE]
           /\ relays' = relays \cup {m}
           /\ overtaken' = IF \E r \in relays : r.event = Message(e.id)
                             THEN overtaken \cup {e.id} ELSE overtaken
  <2>1. Len(log') = Len(log) /\ \A k \in 1..Len(log) : k # e.id => log'[k] = log[k]
    BY <1>4, <1>6
  <2>2. Gone' \subseteq Gone \cup {e.id}
    BY <1>4, <1>6, <2>1 DEF Gone
  <2>3. (\E r \in relays : r.event = Message(e.id)) => e.id \notin Gone'
    BY <1>6 DEF Gone
  <2>4. \A r \in relays' : r.event.type = "chat_message" => r.event.id \in (1..Len(log')) \ Gone'
    <3> SUFFICES ASSUME NEW r \in relays', r.event.type = "chat_message"
                 PROVE  r.event.id \in (1..Len(log')) \ Gone'
      OBVIOUS
    <3>1. r \in relays /\ r.event \in ChatEvent
      BY <1>1, <1>3, <1>6 DEF ChatInv, ChatTables
    <3>2. r.event.id \in (1..Len(log)) \ Gone
      BY <3>1 DEF ShownInv
    <3>3. r.event.id = e.id => r.event = Message(e.id)
      BY <3>1 DEF ChatEvent, Message
    <3> QED BY <2>1, <2>2, <2>3, <3>1, <3>2, <3>3
  <2>5. ASSUME NEW d \in Chatters
        PROVE  KnowsRows(chatPage[d])' /\ (chatPage'[d].conn = "off" => chatPage'[d].inbox = <<>>)
    BY <1>2, <2>1 DEF ShownInv, KnowsRows
  <2>6. ASSUME NEW d \in Chatters, NEW i \in Gone'
        PROVE  DeletionFollows(chatPage[d], i)' /\ FirstIsMarked(chatPage[d], i)'
    <3>1. CASE i = e.id
      <4>1. DeletionSent(i)'
        BY <1>3, <1>6, <3>1 DEF DeletionSent
      <4> QED BY <4>1 DEF DeletionFollows, FirstIsMarked
    <3>2. CASE i # e.id
      <4>1. i \in Gone
        BY <2>2, <3>2
      <4>2. DeletionSent(i) => DeletionSent(i)'
        BY <1>6 DEF DeletionSent
      <4>3. DeletionFollows(chatPage[d], i) /\ FirstIsMarked(chatPage[d], i)
        BY <4>1 DEF ShownInv
      <4>4. /\ chatPage'[d].conn = chatPage[d].conn /\ chatPage'[d].list = chatPage[d].list
            /\ chatPage'[d].inbox = chatPage[d].inbox
        BY <1>2
      <4>5. DeletionFollows(chatPage[d], i)'
        BY <4>2, <4>3, <4>4 DEF DeletionFollows
      <4>6. FirstIsMarked(chatPage[d], i)'
        BY <4>2, <4>3, <4>4 DEF FirstIsMarked
      <4> QED BY <4>5, <4>6
    <3> QED BY <3>1, <3>2
  <2> QED BY <2>4, <2>5, <2>6 DEF ShownInv
<1> QED BY <1>1, <1>5, <1>6

LEMMA RelayShown ==
  ASSUME ChatInv, ShownInv, NEW r \in relays, Relay(r)
  PROVE  ShownInv'
<1> DEFINE e      == r.event
           got(d) == [chatPage[d] EXCEPT !.inbox = Append(chatPage[d].inbox, e)]
<1>1. /\ relays' = relays \ {r} /\ UNCHANGED <<log, overtaken>>
      /\ chatPage' = [d \in Chatters |-> IF chatPage[d].conn \in {"joined", "on"} THEN got(d)
                                         ELSE chatPage[d]]
      /\ e \in ChatEvent
  BY DEF Relay, ToGroup, ChatInv, ChatTables
<1>2. e.type = "chat_message" => e.id \in (1..Len(log)) \ Gone
  BY DEF ShownInv
<1>3. \A i : DeletionSent(i) => DeletionSent(i)' \/ e = Deletion(i)
  BY <1>1 DEF DeletionSent
<1>4. Gone' = Gone
  BY <1>1 DEF Gone
<1> HIDE DEF e
<1>5. \A x \in relays' : x.event.type = "chat_message" => x.event.id \in (1..Len(log')) \ Gone'
  BY <1>1, <1>4 DEF ShownInv
<1>6. ASSUME NEW d \in Chatters
      PROVE  /\ KnowsRows(chatPage[d])' /\ (chatPage'[d].conn = "off" => chatPage'[d].inbox = <<>>)
             /\ \A i \in Gone : DeletionFollows(chatPage[d], i)' /\ FirstIsMarked(chatPage[d], i)'
  <2>1. /\ chatPage[d] \in ChatSocket /\ chatPage[d].inbox \in Seq(ChatEvent) /\ KnowsRows(chatPage[d])
        /\ \A i \in Gone : DeletionFollows(chatPage[d], i) /\ FirstIsMarked(chatPage[d], i)
    BY DEF ChatInv, ChatTables, ChatTypeOK, ChatSocket, ShownInv
  <2>2. CASE chatPage[d].conn \notin {"joined", "on"}
    <3>1. chatPage'[d] = chatPage[d]
      BY <1>1, <2>2
    <3> QED BY <1>1, <2>1, <2>2, <3>1 DEF ShownInv, KnowsRows, DeletionFollows, FirstIsMarked
  <2>3. CASE chatPage[d].conn \in {"joined", "on"}
    <3> DEFINE q == Append(chatPage[d].inbox, e)
               n == Len(chatPage[d].inbox)
    <3>1. /\ q \in Seq(ChatEvent) /\ n \in Nat /\ Len(q) = n + 1
          /\ \A k \in 1..n : q[k] = chatPage[d].inbox[k]
          /\ q[n + 1] = e
      BY <1>1, <2>1, AppendItem
    <3>2. chatPage'[d] = [chatPage[d] EXCEPT !.inbox = q]
      BY <1>1, <2>3
    <3> HIDE DEF q
    <3>3. /\ chatPage'[d].conn = chatPage[d].conn /\ chatPage'[d].inbox = q
          /\ chatPage'[d].list = chatPage[d].list
      BY <2>1, <3>1, <3>2 DEF ChatSocket
    <3> HIDE DEF n
    <3>4. KnowsRows(chatPage[d])'
      <4>1. ASSUME NEW k \in 1..Len(q), q[k].type = "chat_message" PROVE q[k].id \in 1..Len(log)
        <5>1. CASE k \in 1..n
          BY <2>1, <3>1, <4>1, <5>1 DEF KnowsRows, n
        <5>2. CASE k = n + 1
          BY <1>2, <3>1, <4>1, <5>2
        <5> QED BY <3>1, <5>1, <5>2
      <4> QED BY <1>1, <2>1, <3>3, <4>1 DEF KnowsRows
    <3>5. ASSUME NEW i \in Gone PROVE DeletionFollows(chatPage[d], i)'
      <4> SUFFICES ASSUME NEW k \in 1..Len(q), q[k] = Message(i), ~DeletionSent(i)'
                   PROVE  \E j \in (k + 1)..Len(q) : q[j] = Deletion(i)
        BY <3>3 DEF DeletionFollows
      <4>1. k \in 1..n
        <5>1. q[k] # e
          BY <1>2 DEF Message
        <5> QED BY <3>1, <5>1
      <4>2. n + 1 \in (k + 1)..Len(q) /\ 1..n \subseteq 1..Len(q) /\ (k + 1)..n \subseteq (k + 1)..Len(q)
        BY <3>1, <4>1
      <4>3. \A j \in (k + 1)..n : j \in 1..n
        BY <3>1, <4>1
      <4>4. DeletionSent(i) \/ \E j \in (k + 1)..n : chatPage[d].inbox[j] = Deletion(i)
        BY <2>1, <2>3, <3>1, <4>1 DEF DeletionFollows, n
      <4> QED BY <1>3, <3>1, <4>2, <4>3, <4>4
    <3>6. ASSUME NEW i \in Gone PROVE FirstIsMarked(chatPage[d], i)'
      <4>1. n + 1 \in 1..Len(q) /\ 1..n \subseteq 1..Len(q)
        BY <3>1
      <4>2. DeletionSent(i) \/ (\E j \in 1..n : chatPage[d].inbox[j] = Deletion(i)) =>
              DeletionSent(i)' \/ \E j \in 1..Len(q) : q[j] = Deletion(i)
        BY <1>3, <3>1, <4>1
      <4> QED BY <2>1, <3>3, <4>2 DEF FirstIsMarked, n
    <3> QED BY <2>3, <3>3, <3>4, <3>5, <3>6
  <2> QED BY <2>2, <2>3
<1> QED BY <1>4, <1>5, <1>6 DEF ShownInv

LEMMA ShownStarts == ChatInit => ShownInv
<1>1. Len(<<>>) = 0
  OBVIOUS
<1> QED BY <1>1 DEF ChatInit, ShownInv, KnowsRows, Gone

LEMMA ShownKept == ChatInv /\ ShownInv /\ [ChatNext]_chatVars => ShownInv'
<1> SUFFICES ASSUME ChatInv, ShownInv, [ChatNext]_chatVars PROVE ShownInv'
  OBVIOUS
<1>1. ASSUME UNCHANGED <<log, relays, chatPage, overtaken>> PROVE ShownInv'
  BY <1>1, SameShown
<1>2. CASE UNCHANGED chatVars
  BY <1>1, <1>2 DEF chatVars
<1>3. ASSUME NEW c \in Chatters, ChatBan(c) PROVE ShownInv'
  BY <1>1, <1>3 DEF ChatBan
<1> QED BY <1>2, <1>3, ConnectShown, HistoryShown, AskShown, HearShown, SendShown, DeleteShown, RelayShown
        DEF ChatNext

THEOREM ShownInductive == ChatSpec => [](ChatInv /\ ShownInv)
<1>1. ChatInit => ChatInv /\ ShownInv
  BY ChatInvInit, ShownStarts
<1>2. (ChatInv /\ ShownInv) /\ [ChatNext]_chatVars => (ChatInv /\ ShownInv)'
  BY ChatInvNext, ShownKept
<1> QED BY <1>1, <1>2, PTL DEF ChatSpec

\* delete_message and markDeleted: a message that is deleted after it was broadcast is blank on
\* every page that has heard everything, whether it came live, with a history or twice.
THEOREM DeletedIsBlank == ChatSpec => []DeletionsShow
<1>1. ChatInv /\ ShownInv => DeletionsShow
  <2> SUFFICES ASSUME ChatInv, ShownInv, NEW c \in Chatters, ChatDrained(c),
                      NEW k \in DOMAIN chatPage[c].list,
                      log[chatPage[c].list[k].id].deleted, chatPage[c].list[k].id \notin overtaken,
                      \A j \in 1..(k - 1) : chatPage[c].list[j].id # chatPage[c].list[k].id
               PROVE  chatPage[c].list[k].deleted
    BY DEF DeletionsShow
  <2>1. /\ chatPage[c].conn = "on" /\ chatPage[c].inbox = <<>> /\ relays = {}
        /\ chatPage[c].list \in Seq(Shown)
    BY DEF ChatDrained, ChatInv, ChatTables, ChatTypeOK, ChatSocket
  <2>2. k \in 1..Len(chatPage[c].list) /\ Len(chatPage[c].inbox) = 0
    BY <2>1
  <2>3. chatPage[c].list[k].id \in Gone
    BY <2>2 DEF ShownInv, KnowsRows, Gone
  <2> DEFINE i == chatPage[c].list[k].id
  <2>4. FirstIsMarked(chatPage[c], i)
    BY <2>3 DEF ShownInv
  <2>5. ~DeletionSent(i) /\ ~\E j \in 1..Len(chatPage[c].inbox) : chatPage[c].inbox[j] = Deletion(i)
    BY <2>1, <2>2 DEF DeletionSent
  <2> QED BY <2>1, <2>2, <2>4, <2>5 DEF FirstIsMarked
<1> QED BY <1>1, ShownInductive, PTL

-----------------------------------------------------------------------------
(* The microphone: its button never lies and the muted are not heard, for  *)
(* any pages and any number of mutes, taps, devices and lost sockets.      *)

\* A sequence of at most one event.
AtMostOne == {<<>>} \cup {<<e>> : e \in VoiceEvent}

\* The track setMicDevice has got and not merged yet.
Spare == IF speaker.pick \in {<<>>, <<"asked">>} THEN {} ELSE {speaker.pick[1]}

VoiceTables ==
  /\ VoiceTypeOK
  /\ news \in AtMostOne
  /\ \A q \in HostReqs : act[q].step = "read" => act[q].type = "permission_changed"
  /\ mic \in [given : Nat, live : SUBSET Track, due : SUBSET Track]
  /\ speaker.local \in 0 .. mic.given /\ Spare \subseteq 1 .. mic.given
  /\ told \in BOOLEAN /\ raced \in BOOLEAN

\* The track of a microphone that is on, unless it has been unplugged.
Held == IF speaker.micOn /\ speaker.local \notin mic.due THEN {speaker.local} ELSE {}

\* A track whose end is to be announced is not live, nor the spare one.
LostIsGone ==
  mic.live \cap mic.due = {} /\ Spare \cap (mic.due \cup {speaker.local}) = {}

\* Until a device switch is overtaken: the live tracks are the one the page holds and the
\* spare one; and every connection sends the held one.
MicHeld ==
  /\ LostIsGone
  /\ speaker.toggling => ~speaker.micOn
  /\ ~raced =>
       /\ speaker.micOn <=> speaker.local # 0
       /\ mic.live = Held \cup Spare
       /\ \A l \in Listeners : sends[l] \in {NoLink, speaker.local}

\* The last event a page will hear of the speaker says what the room was told last, or that
\* the speaker has left; with none to come, its row does, or it says what the column says,
\* which a snapshot showed it, or a request is about to speak.  The link follows the row at
\* the next frame, and an enabled track the link.
PageToldOf(P) ==
  /\ P.inbox # <<>> => \/ P.inbox[Len(P.inbox)].type = "user_left"
                       \/ P.inbox[Len(P.inbox)].muted = told
  /\ P.conn = "on" /\ P.inbox = <<>> /\ ~Unannounced =>
       P.row \in {"none", MutedWord(told), MutedWord(muted)}
  /\ ~P.queued => P.peer = P.row
  /\ P.track = "enabled" => P.peer = "open"

VoiceInv == VoiceTables /\ MicHeld /\ \A l \in Listeners : PageToldOf(listener[l])

-----------------------------------------------------------------------------
(* The tables part by part, and sequences.                                 *)

ServerTables ==
  /\ muted \in BOOLEAN /\ told \in BOOLEAN /\ raced \in BOOLEAN
  /\ act \in [HostReqs -> HostRequest] /\ news \in AtMostOne
  /\ \A q \in HostReqs : act[q].step = "read" => act[q].type = "permission_changed"

DeviceTables ==
  /\ speaker \in SpeakerPage /\ speaker.local \in 0 .. mic.given /\ Spare \subseteq 1 .. mic.given
  /\ mic \in [given : Nat, live : SUBSET Track, due : SUBSET Track]
  /\ mic.live \cup mic.due \subseteq 1 .. mic.given
  /\ sends \in [Listeners -> Nat \cup {NoLink}]

LEMMA TablesInParts ==
  VoiceTables <=> ServerTables /\ DeviceTables /\ listener \in [Listeners -> ListenerPage]
BY DEF VoiceTables, VoiceTypeOK, ServerTables, DeviceTables

LEMMA OneEvent ==
  ASSUME NEW s \in AtMostOne, s # <<>>
  PROVE  /\ Head(s) \in VoiceEvent /\ DOMAIN s = {1} /\ Head(s) = s[1]
         /\ <<Head(s)>> \in Seq(VoiceEvent)
<1>1. PICK e \in VoiceEvent : s = <<e>>
  BY DEF AtMostOne
<1>2. Head(s) = e /\ DOMAIN s = {1} /\ s[1] = e
  BY <1>1
<1>3. <<e>> \in Seq(VoiceEvent)
  OBVIOUS
<1> QED BY <1>2, <1>3

LEMMA AddEvent ==
  ASSUME NEW s \in Seq(VoiceEvent), NEW e \in VoiceEvent
  PROVE  /\ Append(s, e) \in Seq(VoiceEvent) /\ Append(s, e) # <<>>
         /\ Append(s, e)[Len(Append(s, e))] = e
OBVIOUS

LEMMA DropEvent ==
  ASSUME NEW s \in Seq(VoiceEvent), s # <<>>
  PROVE  /\ Head(s) \in VoiceEvent /\ Tail(s) \in Seq(VoiceEvent)
         /\ Tail(s) = <<>> => Head(s) = s[Len(s)]
         /\ Tail(s) # <<>> => Tail(s)[Len(Tail(s))] = s[Len(s)]
<1>1. /\ Head(s) \in VoiceEvent /\ Tail(s) \in Seq(VoiceEvent) /\ Head(s) = s[1]
      /\ Len(s) \in Nat \ {0} /\ Len(Tail(s)) = Len(s) - 1
      /\ \A j \in 1..Len(Tail(s)) : Tail(s)[j] = s[j + 1]
  OBVIOUS
<1>2. CASE Tail(s) = <<>>
  <2> DEFINE rest == Tail(s)
  <2>1. rest = <<>> /\ Len(rest) = Len(s) - 1
    BY <1>1, <1>2
  <2> HIDE DEF rest
  <2>2. Len(rest) = 0
    BY <2>1
  <2>3. Len(s) \in Nat
    BY <1>1
  <2>4. Len(s) = 1
    BY <2>1, <2>2, <2>3
  <2> QED BY <1>1, <1>2, <2>4
<1>3. CASE Tail(s) # <<>>
  <2>1. Len(Tail(s)) \in 1..Len(Tail(s)) /\ Len(Tail(s)) + 1 = Len(s)
    BY <1>1, <1>3
  <2> QED BY <1>1, <1>3, <2>1
<1> QED BY <1>2, <1>3

LEMMA Concatenated ==
  ASSUME NEW s \in Seq(VoiceEvent), NEW t \in Seq(VoiceEvent)
  PROVE  s \o t \in Seq(VoiceEvent)
OBVIOUS

LEMMA EventIs ==
  /\ \A t \in HostWords \cup NewsWords \cup {"muted", "user_left"}, m \in BOOLEAN :
       /\ VEvent(t, m) \in VoiceEvent /\ VEvent(t, m).type = t /\ VEvent(t, m).muted = m
       /\ <<VEvent(t, m)>> \in AtMostOne /\ <<VEvent(t, m)>> \in Seq(VoiceEvent)
       /\ DOMAIN <<VEvent(t, m)>> = {1} /\ <<VEvent(t, m)>>[1] = VEvent(t, m)
  /\ <<>> \in AtMostOne /\ <<>> \in Seq(VoiceEvent) /\ DOMAIN <<>> = {}
<1>1. ASSUME NEW t \in HostWords \cup NewsWords \cup {"muted", "user_left"}, NEW m \in BOOLEAN
      PROVE  /\ VEvent(t, m) \in VoiceEvent /\ VEvent(t, m).type = t /\ VEvent(t, m).muted = m
             /\ <<VEvent(t, m)>> \in AtMostOne /\ <<VEvent(t, m)>> \in Seq(VoiceEvent)
             /\ DOMAIN <<VEvent(t, m)>> = {1} /\ <<VEvent(t, m)>>[1] = VEvent(t, m)
  <2>1. VEvent(t, m) \in VoiceEvent /\ VEvent(t, m).type = t /\ VEvent(t, m).muted = m
    BY DEF VEvent, VoiceEvent
  <2> DEFINE e == VEvent(t, m)
  <2> HIDE DEF e
  <2>2. /\ e \in VoiceEvent => <<e>> \in AtMostOne /\ <<e>> \in Seq(VoiceEvent)
        /\ DOMAIN <<e>> = {1} /\ <<e>>[1] = e
    BY DEF AtMostOne
  <2> QED BY <2>1, <2>2 DEF e
<1>2. <<>> \in AtMostOne /\ <<>> \in Seq(VoiceEvent) /\ DOMAIN <<>> = {}
  BY DEF AtMostOne
<1> QED BY <1>1, <1>2

-----------------------------------------------------------------------------
(* The server.                                                             *)

LEMMA KeepsServer ==
  ASSUME VoiceTables, VoiceNext
  PROVE  ServerTables'
<1> USE TablesInParts DEF ServerTables
<1>r. ASSUME NEW q \in HostReqs, NEW step \in {"idle", "read", "saved"}, NEW type \in HostWords,
             NEW m \in BOOLEAN, act' = [act EXCEPT ![q] = [step |-> step, type |-> type, muted |-> m]],
             step = "read" => type = "permission_changed"
      PROVE  /\ act' \in [HostReqs -> HostRequest]
             /\ \A r \in HostReqs : act'[r].step = "read" => act'[r].type = "permission_changed"
  <2>1. [step |-> step, type |-> type, muted |-> m] \in HostRequest
    BY DEF HostRequest
  <2> QED BY <1>r, <2>1
<1>1. ASSUME NEW q \in HostReqs,
             \/ \E type \in HostWords \ {"settings_changed"}, m \in BOOLEAN : HostSaves(q, type, m)
             \/ HostReads(q) \/ update_settings(q)
      PROVE  ServerTables'
  <2>1. PICK step \in {"read", "saved"}, type \in HostWords, m \in BOOLEAN :
          HostGoes(q, step, type, m) /\ (step = "read" => type = "permission_changed")
    <3>1. "permission_changed" \in HostWords /\ "settings_changed" \in HostWords
      BY DEF HostWords
    <3> QED BY <1>1, <3>1 DEF HostSaves, HostReads, update_settings
  <2>2. /\ act' \in [HostReqs -> HostRequest]
        /\ \A r \in HostReqs : act'[r].step = "read" => act'[r].type = "permission_changed"
    BY <1>r, <2>1 DEF HostGoes
  <2>3. UNCHANGED <<news, told, raced>>
    BY <2>1 DEF HostGoes
  <2>4. muted' \in BOOLEAN
    BY <1>1 DEF HostSaves, HostReads, update_settings
  <2> QED BY <2>2, <2>3, <2>4
<1>7. ASSUME NEW q \in HostReqs, HostSavesAll(q)
      PROVE  ServerTables'
  <2>1. act[q].type \in HostWords /\ act[q].muted \in BOOLEAN
    BY DEF HostRequest
  <2>2. [act[q] EXCEPT !.step = "saved"] = [step |-> "saved", type |-> act[q].type, muted |-> act[q].muted]
    BY DEF HostRequest
  <2>3. act' = [act EXCEPT ![q] = [step |-> "saved", type |-> act[q].type, muted |-> act[q].muted]]
    BY <1>7, <2>2 DEF HostSavesAll
  <2>4. /\ act' \in [HostReqs -> HostRequest]
        /\ \A r \in HostReqs : act'[r].step = "read" => act'[r].type = "permission_changed"
    BY <1>r, <2>1, <2>3
  <2>5. UNCHANGED <<news, told, raced>> /\ muted' = act[q].muted
    BY <1>7 DEF HostSavesAll
  <2> QED BY <2>1, <2>4, <2>5
<1>2. ASSUME NEW q \in HostReqs, HostAnnounces(q)
      PROVE  ServerTables'
  <2>1. act[q].type \in HostWords /\ act[q].muted \in BOOLEAN /\ "participant_muted" \in HostWords
    BY DEF HostRequest, HostWords
  <2>2. /\ act' \in [HostReqs -> HostRequest]
        /\ \A r \in HostReqs : act'[r].step = "read" => act'[r].type = "permission_changed"
    BY <1>2, <1>r, <2>1 DEF HostAnnounces, NoRequest
  <2>3. told' = act[q].muted /\ UNCHANGED <<muted, news, raced>>
    BY <1>2 DEF HostAnnounces, VEvent
  <2> QED BY <2>1, <2>2, <2>3
<1>3. ASSUME NEW type \in NewsWords, ConsumerReads(type)
      PROVE  ServerTables'
  <2>1. <<VEvent(type, muted)>> \in AtMostOne
    BY EventIs
  <2> QED BY <1>3, <2>1 DEF ConsumerReads
<1>4. CASE ConsumerSends
  <2>1. Head(news) \in VoiceEvent
    BY <1>4, OneEvent DEF ConsumerSends
  <2>2. told' = Head(news).muted /\ news' = <<>> /\ UNCHANGED <<muted, act, raced>>
    BY <1>4 DEF ConsumerSends
  <2> QED BY <2>1, <2>2, EventIs DEF VoiceEvent
<1>5. CASE setMicDevice
  BY <1>5 DEF setMicDevice, DeviceTables, SpeakerPage
<1>6. CASE \/ ToggleOff \/ ToggleOn \/ toggleMicrophone \/ PickDevice \/ DeviceAnswers \/ DeviceLost
           \/ \E t \in mic.due : _watchLocalTrack(t)
           \/ SpeakerHears
           \/ \E l \in Listeners :
                \/ SpeakerLinks(l) \/ ListenerHears(l) \/ ListenerRenders(l) \/ _onRemoteMedia(l)
                \/ ListenerReconnects(l) \/ ListenerSnapshot(l)
  <2>1. UNCHANGED <<muted, act, news, told, raced>>
    BY <1>6 DEF ToggleOff, ToggleOn, toggleMicrophone, PickDevice, DeviceAnswers, DeviceLost,
                _watchLocalTrack, SpeakerHears, SpeakerLinks, ListenerHears, ListenerRenders,
                _onRemoteMedia, ListenerReconnects, ListenerSnapshot
  <2> QED BY <2>1
<1> QED BY <1>1, <1>2, <1>3, <1>4, <1>5, <1>6, <1>7 DEF VoiceNext

-----------------------------------------------------------------------------
(* The microphone.                                                         *)

\* Nothing of it depends on the words waiting for the page, or its rights.
LEMMA OnlyTheInbox ==
  ASSUME DeviceTables, MicHeld, NEW s \in Seq(VoiceEvent), NEW a \in BOOLEAN,
         speaker' = [speaker EXCEPT !.inbox = s, !.allowed = a],
         UNCHANGED <<mic, sends, raced>>
  PROVE  DeviceTables' /\ MicHeld'
<1>1. /\ speaker' \in SpeakerPage /\ speaker'.local = speaker.local /\ speaker'.micOn = speaker.micOn
      /\ speaker'.toggling = speaker.toggling /\ speaker'.pick = speaker.pick
  BY DEF DeviceTables, SpeakerPage
<1> QED BY <1>1 DEF DeviceTables, MicHeld, LostIsGone, Spare, Held

LEMMA PickIs ==
  ASSUME NEW pick \in {<<>>} \cup {<<"asked">>} \cup (Track \X SUBSET Listeners),
         pick \notin {<<>>, <<"asked">>}
  PROVE  pick[1] \in Track /\ pick[2] \in SUBSET Listeners
OBVIOUS

LEMMA NotAPick ==
  ASSUME NEW t \in Track, NEW S \in SUBSET Listeners
  PROVE  <<t, S>> \notin {<<>>, <<"asked">>} /\ <<t, S>>[1] = t /\ <<t, S>>[2] = S
<1>1. Len(<<t, S>>) = 2 /\ Len(<<>>) = 0 /\ Len(<<"asked">>) = 1
  OBVIOUS
<1> QED BY <1>1

\* What the connections send after a track went off.
LEMMA Republished ==
  ASSUME DeviceTables, NEW live \in SUBSET Track, NEW t \in Nat
  PROVE  /\ _republishLocal(live, t) \in [Listeners -> Nat \cup {NoLink}]
         /\ \A l \in Listeners : _republishLocal(live, t)[l] \in {NoLink, sends[l], t}
         /\ \A l \in Listeners : sends[l] \notin live => _republishLocal(live, t)[l] \in {NoLink, t}
BY VoiceAssumption DEF DeviceTables, _republishLocal, Track

\* The microphone goes off: the device is released, by the page or because it was lost.
LEMMA GoesOff ==
  ASSUME DeviceTables, MicHeld, NEW s \in Seq(VoiceEvent), NEW a \in BOOLEAN,
         NEW live, live = mic.live \ {speaker.local},
         NEW due \in SUBSET mic.due,
         speaker' = [speaker EXCEPT !.inbox = s, !.allowed = a, !.local = 0, !.micOn = FALSE],
         mic' = [mic EXCEPT !.live = live, !.due = due],
         sends' = _republishLocal(live, 0), raced' = raced
  PROVE  DeviceTables' /\ MicHeld'
<1>1. /\ speaker' \in SpeakerPage /\ speaker'.local = 0 /\ speaker'.micOn = FALSE
      /\ speaker'.toggling = speaker.toggling /\ speaker'.pick = speaker.pick
  BY DEF DeviceTables, SpeakerPage
<1>2. /\ mic' \in [given : Nat, live : SUBSET Track, due : SUBSET Track]
      /\ mic'.given = mic.given /\ mic'.live = live /\ mic'.due = due /\ live \in SUBSET Track
  BY DEF DeviceTables
<1>3. /\ sends' \in [Listeners -> Nat \cup {NoLink}]
      /\ \A l \in Listeners : sends'[l] \in {NoLink, sends[l], 0}
      /\ \A l \in Listeners : sends[l] \notin live => sends'[l] \in {NoLink, 0}
  BY <1>2, Republished
<1>4. Spare' = Spare
  BY <1>1 DEF Spare
<1>5. DeviceTables'
  <2>1. mic'.live \cup mic'.due \subseteq 1 .. mic'.given
    BY <1>2 DEF DeviceTables
  <2>2. speaker'.local \in 0 .. mic'.given
    BY <1>1, <1>2 DEF DeviceTables
  <2>3. Spare' \subseteq 1 .. mic'.given
    BY <1>2, <1>4 DEF DeviceTables
  <2> QED BY <1>1, <1>2, <1>3, <2>1, <2>2, <2>3 DEF DeviceTables
<1>6. ASSUME ~raced
      PROVE  /\ live = Spare
             /\ \A l \in Listeners : sends'[l] \in {NoLink, 0}
  <2>1. /\ speaker.micOn <=> speaker.local # 0
        /\ mic.live = Held \cup Spare
        /\ Spare \cap (mic.due \cup {speaker.local}) = {}
        /\ \A l \in Listeners : sends[l] \in {NoLink, speaker.local}
    BY <1>6 DEF MicHeld, LostIsGone
  <2>2. live = Spare
    BY <2>1 DEF Held
  <2>3. speaker.local \notin live
    OBVIOUS
  <2>4. \A l \in Listeners : sends'[l] \in {NoLink, 0}
    BY <1>3, <2>1, <2>3
  <2> QED BY <2>2, <2>4
<1>7. Held' = {}
  BY <1>1 DEF Held
<1>8. speaker'.toggling => ~speaker'.micOn
  BY <1>1
<1>9. ~raced' =>
        /\ speaker'.micOn <=> speaker'.local # 0
        /\ mic'.live = Held' \cup Spare'
        /\ \A l \in Listeners : sends'[l] \in {NoLink, speaker'.local}
  BY <1>1, <1>2, <1>4, <1>6, <1>7
<1>10. LostIsGone'
  <2>1. 0 \notin Spare
    BY DEF DeviceTables
  <2>2. mic.live \cap mic.due = {} /\ Spare \cap mic.due = {}
    BY DEF MicHeld, LostIsGone
  <2>3. live \cap due = {} /\ Spare \cap (due \cup {0}) = {}
    BY <2>1, <2>2
  <2> QED BY <1>1, <1>2, <1>4, <2>3 DEF LostIsGone
<1> QED BY <1>5, <1>8, <1>9, <1>10 DEF MicHeld

LEMMA KeepsMic ==
  ASSUME VoiceTables, MicHeld, VoiceNext
  PROVE  DeviceTables' /\ MicHeld'
<1> USE TablesInParts
<1>s. /\ speaker.inbox \in Seq(VoiceEvent) /\ speaker.allowed \in BOOLEAN /\ speaker.micOn \in BOOLEAN
      /\ speaker.local \in Nat /\ speaker.toggling \in BOOLEAN
      /\ speaker.pick \in {<<>>} \cup {<<"asked">>} \cup (Track \X SUBSET Listeners)
  BY DEF DeviceTables, SpeakerPage
<1>m. mic.given \in Nat /\ mic.given + 1 \in Track /\ mic.given + 1 \notin 0 .. mic.given
  BY DEF DeviceTables, Track
<1>0. ASSUME NEW s \in Seq(VoiceEvent), speaker' = [speaker EXCEPT !.inbox = s],
             UNCHANGED <<mic, sends, raced>>
      PROVE  DeviceTables' /\ MicHeld'
  <2>1. speaker' = [speaker EXCEPT !.inbox = s, !.allowed = speaker.allowed]
    BY <1>0 DEF DeviceTables, SpeakerPage
  <2> QED BY <1>0, <1>s, <2>1, OnlyTheInbox
<1>1. ASSUME NEW q \in HostReqs, HostAnnounces(q)
      PROVE  DeviceTables' /\ MicHeld'
  <2> DEFINE e == VEvent(act[q].type, act[q].muted)
             before == IF e.type \in {"participant_muted", "mute_all"} /\ e.muted
                         THEN <<VEvent("muted", TRUE)>> ELSE <<>>
  <2>1. <<e>> \in Seq(VoiceEvent)
    <3>1. act[q].type \in HostWords /\ act[q].muted \in BOOLEAN
      BY DEF ServerTables, HostRequest
    <3> QED BY <3>1, EventIs
  <2>2. before \in Seq(VoiceEvent)
    <3>1. <<VEvent("muted", TRUE)>> \in Seq(VoiceEvent) /\ <<>> \in Seq(VoiceEvent)
      BY EventIs
    <3> QED BY <3>1
  <2>3. /\ speaker' = [speaker EXCEPT !.inbox = speaker.inbox \o before \o <<e>>]
        /\ UNCHANGED <<mic, sends, raced>>
    BY <1>1 DEF HostAnnounces, ToRoom
  <2> HIDE DEF e, before
  <2>4. speaker.inbox \o before \o <<e>> \in Seq(VoiceEvent)
    BY <1>s, <2>1, <2>2, Concatenated
  <2> QED BY <1>0, <2>3, <2>4
<1>2. ASSUME NEW type \in NewsWords, ConsumerReads(type)
      PROVE  DeviceTables' /\ MicHeld'
  <2>1. CASE type = "user_joined"
    BY <1>0, <1>2, <2>1, EventIs DEF ConsumerReads
  <2>2. CASE type # "user_joined"
    BY <1>2, <2>2 DEF ConsumerReads, DeviceTables, MicHeld, LostIsGone, Spare, Held
  <2> QED BY <2>1, <2>2
<1>3. CASE ConsumerSends
  <2> DEFINE snapshot == IF Head(news).type = "user_joined" THEN <<VEvent("participant_muted", muted)>>
                         ELSE <<>>
  <2>1. snapshot \in Seq(VoiceEvent)
    <3>1. muted \in BOOLEAN
      BY DEF ServerTables
    <3>2. <<VEvent("participant_muted", muted)>> \in Seq(VoiceEvent) /\ <<>> \in Seq(VoiceEvent)
      BY <3>1, EventIs DEF HostWords
    <3> QED BY <3>2
  <2>2. snapshot \o speaker.inbox \in Seq(VoiceEvent)
    BY <1>s, <2>1, Concatenated
  <2> QED BY <1>0, <1>3, <2>2 DEF ConsumerSends
<1>4. CASE ToggleOff
  <2>1. /\ speaker' = [speaker EXCEPT !.inbox = speaker.inbox, !.allowed = speaker.allowed,
                                      !.local = 0, !.micOn = FALSE]
        /\ mic' = [mic EXCEPT !.live = mic.live \ {speaker.local}, !.due = mic.due]
    BY <1>4 DEF ToggleOff, MicGoesOff, DeviceTables, SpeakerPage
  <2> QED BY <1>4, <1>s, <2>1, GoesOff DEF ToggleOff, MicGoesOff
<1>5. CASE ToggleOn
  <2>1. /\ speaker' \in SpeakerPage /\ speaker'.local = speaker.local /\ ~speaker.micOn
        /\ speaker'.micOn = speaker.micOn /\ speaker'.pick = speaker.pick
    BY <1>5 DEF ToggleOn, DeviceTables, SpeakerPage
  <2> QED BY <1>5, <2>1 DEF ToggleOn, DeviceTables, MicHeld, LostIsGone, Spare, Held
<1>6. CASE toggleMicrophone
  <2>1. CASE speaker' = [speaker EXCEPT !.toggling = FALSE] /\ UNCHANGED <<mic, sends, raced>>
    <3>1. /\ speaker' \in SpeakerPage /\ speaker'.local = speaker.local
          /\ speaker'.toggling = FALSE
          /\ speaker'.micOn = speaker.micOn /\ speaker'.pick = speaker.pick
      BY <2>1 DEF DeviceTables, SpeakerPage
    <3> QED BY <2>1, <3>1 DEF DeviceTables, MicHeld, LostIsGone, Spare, Held
  <2>2. ASSUME NEW t, t = mic.given + 1, NEW live, live = (mic.live \ {speaker.local}) \cup {t},
               mic' = [mic EXCEPT !.given = t, !.live = live],
               speaker' = [speaker EXCEPT !.toggling = FALSE, !.micOn = TRUE, !.local = t],
               sends' = _republishLocal(live, t), raced' = raced, speaker.toggling
        PROVE  DeviceTables' /\ MicHeld'
    <3>1. t \in Track /\ t \notin 0 .. mic.given /\ t \in Nat
      BY <1>m, <2>2 DEF Track
    <3>2. /\ speaker' \in SpeakerPage /\ speaker'.local = t
          /\ speaker'.toggling = FALSE
          /\ speaker'.micOn = TRUE /\ speaker'.pick = speaker.pick
      BY <2>2, <3>1 DEF DeviceTables, SpeakerPage
    <3>3. /\ mic' \in [given : Nat, live : SUBSET Track, due : SUBSET Track]
          /\ mic'.given = t /\ mic'.live = live /\ mic'.due = mic.due /\ live \in SUBSET Track
      BY <2>2, <3>1 DEF DeviceTables
    <3>4. /\ sends' \in [Listeners -> Nat \cup {NoLink}]
          /\ \A l \in Listeners : sends[l] \notin live => sends'[l] \in {NoLink, t}
      <4>1. live \in SUBSET Track
        BY <3>3
      <4> QED BY <2>2, <3>1, <4>1, Republished
    <3>5. Spare' = Spare /\ Held' = IF t \notin mic.due THEN {t} ELSE {}
      BY <3>2, <3>3 DEF Spare, Held
    <3>6. /\ mic.due \subseteq 1 .. mic.given /\ mic.live \subseteq 1 .. mic.given
          /\ Spare \subseteq 1 .. mic.given
      BY DEF DeviceTables
    <3>7. 1 .. mic.given \subseteq 1 .. t /\ t \in 1 .. t /\ t \notin mic.due /\ t \notin Spare
      BY <2>2, <3>1, <3>6, <1>m
    <3>8. DeviceTables'
      <4>1. mic'.live \cup mic'.due \subseteq 1 .. mic'.given
        BY <2>2, <3>3, <3>6, <3>7
      <4>2. speaker'.local \in 0 .. mic'.given
        BY <3>1, <3>2, <3>3
      <4>3. Spare' \subseteq 1 .. mic'.given
        BY <3>3, <3>5, <3>6, <3>7
      <4> QED BY <3>2, <3>3, <3>4, <4>1, <4>2, <4>3 DEF DeviceTables
    <3>9. ASSUME ~raced
          PROVE  /\ live = {t} \cup Spare
                 /\ \A l \in Listeners : sends'[l] \in {NoLink, t}
      <4>1. /\ ~speaker.micOn /\ speaker.local = 0 /\ mic.live = Held \cup Spare
            /\ \A l \in Listeners : sends[l] \in {NoLink, 0}
        BY <2>2, <3>9, <1>s DEF MicHeld
      <4>2. Held = {}
        BY <4>1 DEF Held
      <4>3. live = {t} \cup Spare
        <5>1. 0 \notin Spare
          BY <3>6
        <5> QED BY <2>2, <4>1, <4>2, <5>1
      <4>4. \A l \in Listeners : sends[l] \notin live
        BY <3>3, <4>1, VoiceAssumption DEF Track
      <4>5. \A l \in Listeners : sends'[l] \in {NoLink, t}
        BY <3>4, <4>4
      <4> QED BY <3>7, <4>1, <4>3, <4>5
    <3>10. Held' = {t}
      BY <3>5, <3>7
    <3>11. ~raced' =>
             /\ speaker'.micOn <=> speaker'.local # 0
             /\ mic'.live = Held' \cup Spare'
             /\ \A l \in Listeners : sends'[l] \in {NoLink, speaker'.local}
      BY <2>2, <3>1, <3>2, <3>3, <3>5, <3>9, <3>10 DEF Track
    <3>12. LostIsGone'
      <4>1. mic.live \cap mic.due = {} /\ Spare \cap mic.due = {}
        BY DEF MicHeld, LostIsGone
      <4>2. live \cap mic.due = {} /\ Spare \cap (mic.due \cup {t}) = {}
        BY <2>2, <3>7, <4>1
      <4> QED BY <3>2, <3>3, <3>5, <4>2 DEF LostIsGone
    <3> QED BY <3>2, <3>8, <3>11, <3>12 DEF MicHeld
  <2> QED BY <1>6, <2>1, <2>2 DEF toggleMicrophone, _mergeLocalTrack
<1>7. CASE PickDevice
  <2>1. /\ speaker' \in SpeakerPage /\ speaker'.local = speaker.local
        /\ speaker'.toggling = speaker.toggling
        /\ speaker'.micOn = speaker.micOn /\ speaker'.pick = <<"asked">> /\ speaker.pick = <<>>
    BY <1>7 DEF PickDevice, DeviceTables, SpeakerPage
  <2> QED BY <1>7, <2>1 DEF PickDevice, DeviceTables, MicHeld, LostIsGone, Spare, Held
<1>8. CASE DeviceAnswers
  <2>1. CASE speaker' = [speaker EXCEPT !.pick = <<>>] /\ UNCHANGED mic
    <3>1. /\ speaker' \in SpeakerPage /\ speaker'.local = speaker.local
          /\ speaker'.toggling = speaker.toggling
          /\ speaker'.micOn = speaker.micOn /\ speaker'.pick = <<>>
      BY <2>1 DEF DeviceTables, SpeakerPage
    <3> QED BY <1>8, <2>1, <3>1 DEF DeviceAnswers, DeviceTables, MicHeld, LostIsGone, Spare, Held
  <2>2. ASSUME NEW t, t = mic.given + 1, NEW pcs, pcs = {l \in Listeners : sends[l] # NoLink},
               mic' = [mic EXCEPT !.given = t, !.live = @ \cup {t}],
               speaker' = [speaker EXCEPT !.pick = <<t, pcs>>], UNCHANGED <<sends, raced>>,
               speaker.pick = <<"asked">>
        PROVE  DeviceTables' /\ MicHeld'
    <3>1. t \in Track /\ t \notin 0 .. mic.given /\ t \in Nat /\ pcs \in SUBSET Listeners
      BY <1>m, <2>2 DEF Track
    <3>2. /\ speaker' \in SpeakerPage /\ speaker'.local = speaker.local
          /\ speaker'.toggling = speaker.toggling
          /\ speaker'.micOn = speaker.micOn /\ speaker'.pick = <<t, pcs>>
      BY <2>2, <3>1 DEF DeviceTables, SpeakerPage
    <3>3. /\ mic' \in [given : Nat, live : SUBSET Track, due : SUBSET Track]
          /\ mic'.given = t /\ mic'.live = mic.live \cup {t} /\ mic'.due = mic.due
      BY <2>2, <3>1 DEF DeviceTables
    <3>4. Spare = {} /\ Spare' = {t} /\ Held' = Held
      <4>1. Spare = {}
        BY <2>2 DEF Spare
      <4>2. Spare' = {t}
        BY <3>1, <3>2, NotAPick DEF Spare
      <4>3. Held' = Held
        BY <3>2, <3>3 DEF Held
      <4> QED BY <4>1, <4>2, <4>3
    <3>5. /\ mic.due \subseteq 1 .. mic.given /\ mic.live \subseteq 1 .. mic.given
          /\ speaker.local \in 0 .. mic.given
      BY DEF DeviceTables
    <3>6. /\ 1 .. mic.given \subseteq 1 .. t /\ 0 .. mic.given \subseteq 0 .. t
          /\ t \in 1 .. t /\ t \notin mic.due /\ t # speaker.local
      BY <2>2, <3>1, <3>5, <1>m
    <3>7. DeviceTables'
      <4>1. mic'.live \cup mic'.due \subseteq 1 .. mic'.given
        BY <3>3, <3>5, <3>6
      <4>2. speaker'.local \in 0 .. mic'.given
        BY <3>2, <3>3, <3>5, <3>6
      <4>3. Spare' \subseteq 1 .. mic'.given
        BY <3>3, <3>4, <3>6
      <4>4. sends' \in [Listeners -> Nat \cup {NoLink}]
        BY <2>2 DEF DeviceTables
      <4> QED BY <3>2, <3>3, <4>1, <4>2, <4>3, <4>4 DEF DeviceTables
    <3>8. ~raced' =>
             /\ speaker'.micOn <=> speaker'.local # 0
             /\ mic'.live = Held' \cup Spare'
             /\ \A l \in Listeners : sends'[l] \in {NoLink, speaker'.local}
      BY <2>2, <3>2, <3>3, <3>4, <3>6 DEF MicHeld
    <3>9. speaker'.toggling => ~speaker'.micOn
      BY <3>2 DEF MicHeld
    <3>10. LostIsGone'
      <4>1. mic.live \cap mic.due = {}
        BY DEF MicHeld, LostIsGone
      <4>2. (mic.live \cup {t}) \cap mic.due = {} /\ {t} \cap (mic.due \cup {speaker.local}) = {}
        BY <3>6, <4>1
      <4> QED BY <3>2, <3>3, <3>4, <4>2 DEF LostIsGone
    <3> QED BY <3>7, <3>8, <3>9, <3>10 DEF MicHeld
  <2> QED BY <1>8, <2>1, <2>2 DEF DeviceAnswers
<1>9. CASE setMicDevice
  <2> DEFINE t == speaker.pick[1]
             pcs == speaker.pick[2]
  <2>1. t \in Track /\ pcs \in SUBSET Listeners /\ Spare = {t}
    BY <1>9, <1>s, PickIs DEF setMicDevice, Spare
  <2>2. /\ sends' = [l \in Listeners |-> IF l \in pcs /\ sends[l] \in Track THEN t ELSE sends[l]]
        /\ mic' = [mic EXCEPT !.live = (mic.live \ {speaker.local}) \cup {t}]
        /\ raced' = (raced \/ ~speaker.micOn \/ pcs # {l \in Listeners : sends[l] # NoLink})
        /\ speaker' = [speaker EXCEPT !.pick = <<>>, !.local = t]
    BY <1>9 DEF setMicDevice, _mergeLocalTrack
  <2> HIDE DEF t, pcs
  <2>3. /\ speaker' \in SpeakerPage /\ speaker'.local = t
        /\ speaker'.toggling = speaker.toggling
        /\ speaker'.micOn = speaker.micOn /\ speaker'.pick = <<>>
    BY <2>1, <2>2 DEF DeviceTables, SpeakerPage, Track
  <2>4. /\ mic' \in [given : Nat, live : SUBSET Track, due : SUBSET Track]
        /\ mic'.given = mic.given /\ mic'.live = (mic.live \ {speaker.local}) \cup {t}
        /\ mic'.due = mic.due
    BY <2>1, <2>2 DEF DeviceTables
  <2>5. sends' \in [Listeners -> Nat \cup {NoLink}]
    BY <2>1, <2>2 DEF DeviceTables, Track
  <2>6. /\ Spare' = {} /\ t \in 1 .. mic.given /\ 1 .. mic.given \subseteq 0 .. mic.given
        /\ mic.due \subseteq 1 .. mic.given /\ mic.live \subseteq 1 .. mic.given
    <3>1. Spare' = {}
      BY <2>3 DEF Spare
    <3>2. t \in 1 .. mic.given /\ mic.due \subseteq 1 .. mic.given /\ mic.live \subseteq 1 .. mic.given
      BY <2>1 DEF DeviceTables
    <3> QED BY <1>m, <3>1, <3>2
  <2>7. DeviceTables'
    <3>1. mic'.live \cup mic'.due \subseteq 1 .. mic'.given
      BY <2>4, <2>6
    <3>2. speaker'.local \in 0 .. mic'.given /\ Spare' \subseteq 1 .. mic'.given
      BY <2>3, <2>4, <2>6
    <3> QED BY <2>3, <2>4, <2>5, <3>1, <3>2 DEF DeviceTables
  <2>8. ASSUME ~raced'
        PROVE  /\ speaker'.micOn /\ speaker'.local # 0 /\ Held' = {t}
               /\ mic'.live = {t} /\ \A l \in Listeners : sends'[l] \in {NoLink, t}
    <3>1. ~raced /\ speaker.micOn /\ pcs = {l \in Listeners : sends[l] # NoLink}
      BY <2>2, <2>8
    <3>2. /\ speaker.local # 0 /\ mic.live = Held \cup {t} /\ t \notin mic.due /\ t # speaker.local
          /\ \A l \in Listeners : sends[l] \in {NoLink, speaker.local}
      BY <2>1, <3>1 DEF MicHeld, LostIsGone
    <3>3. Held' = {t}
      BY <2>3, <2>4, <3>1, <3>2 DEF Held
    <3>4. mic'.live = {t}
      BY <2>4, <3>2 DEF Held
    <3>5. \A l \in Listeners : sends'[l] \in {NoLink, t}
      BY <1>s, <2>2, <3>1, <3>2 DEF Track
    <3> QED BY <2>1, <2>3, <3>1, <3>3, <3>4, <3>5 DEF Track
  <2>9. ~raced' =>
          /\ speaker'.micOn <=> speaker'.local # 0
          /\ mic'.live = Held' \cup Spare'
          /\ \A l \in Listeners : sends'[l] \in {NoLink, speaker'.local}
    BY <2>3, <2>6, <2>8
  <2>10. speaker'.toggling => ~speaker'.micOn
    BY <2>3 DEF MicHeld
  <2>11. LostIsGone'
    <3>1. mic.live \cap mic.due = {} /\ t \notin mic.due
      BY <2>1 DEF MicHeld, LostIsGone
    <3>2. mic'.live \cap mic.due = {}
      BY <2>4, <3>1
    <3> QED BY <2>4, <2>6, <3>2 DEF LostIsGone
  <2> QED BY <2>7, <2>9, <2>10, <2>11 DEF MicHeld
<1>10. CASE DeviceLost
  <2>1. /\ mic' = [mic EXCEPT !.live = @ \ {speaker.local}, !.due = @ \cup {speaker.local}]
        /\ speaker.local \in mic.live /\ UNCHANGED <<speaker, sends, raced>>
    BY <1>10 DEF DeviceLost
  <2>2. /\ mic.due \subseteq 1 .. mic.given /\ mic.live \subseteq 1 .. mic.given
        /\ speaker.local \in 1 .. mic.given
    BY <2>1 DEF DeviceTables
  <2>3. /\ mic' \in [given : Nat, live : SUBSET Track, due : SUBSET Track]
        /\ mic'.given = mic.given /\ mic'.live = mic.live \ {speaker.local}
        /\ mic'.due = mic.due \cup {speaker.local}
    BY <2>1, <2>2 DEF DeviceTables, Track
  <2>4. Held' = {} /\ Spare' = Spare
    BY <2>1, <2>3 DEF Held, Spare
  <2>5. DeviceTables'
    <3>1. mic'.live \cup mic'.due \subseteq 1 .. mic'.given
      BY <2>2, <2>3
    <3> QED BY <2>1, <2>3, <2>4, <3>1 DEF DeviceTables
  <2>6. ASSUME ~raced
        PROVE  /\ speaker.micOn <=> speaker.local # 0
               /\ mic'.live = Spare
               /\ \A l \in Listeners : sends[l] \in {NoLink, speaker.local}
    BY <2>3, <2>6 DEF MicHeld, LostIsGone, Held
  <2>7. ~raced' =>
          /\ speaker'.micOn <=> speaker'.local # 0
          /\ mic'.live = Held' \cup Spare'
          /\ \A l \in Listeners : sends'[l] \in {NoLink, speaker'.local}
    BY <2>1, <2>3, <2>4, <2>6
  <2>8. LostIsGone'
    <3>1. mic.live \cap mic.due = {} /\ Spare \cap (mic.due \cup {speaker.local}) = {}
      BY DEF MicHeld, LostIsGone
    <3>2. mic'.live \cap mic'.due = {} /\ Spare \cap (mic'.due \cup {speaker.local}) = {}
      BY <2>3, <3>1
    <3> QED BY <2>1, <2>4, <3>2 DEF LostIsGone
  <2> QED BY <2>1, <2>5, <2>7, <2>8 DEF MicHeld
<1>11. ASSUME NEW t \in mic.due, _watchLocalTrack(t)
       PROVE  DeviceTables' /\ MicHeld'
  <2>1. mic' = [mic EXCEPT !.due = mic.due \ {t}] /\ raced' = raced
    BY <1>11 DEF _watchLocalTrack
  <2>2. /\ mic' \in [given : Nat, live : SUBSET Track, due : SUBSET Track]
        /\ mic'.given = mic.given /\ mic'.live = mic.live /\ mic'.due = mic.due \ {t}
    BY <2>1 DEF DeviceTables
  <2>3. CASE speaker.local = t
    <3>1. speaker' = [speaker EXCEPT !.local = 0, !.micOn = FALSE]
          /\ sends' = _republishLocal(mic.live, 0)
      BY <1>11, <2>3 DEF _watchLocalTrack
    <3>2. speaker' = [speaker EXCEPT !.inbox = speaker.inbox, !.allowed = speaker.allowed,
                                     !.local = 0, !.micOn = FALSE]
      BY <3>1 DEF DeviceTables, SpeakerPage
    <3>3. speaker.local \notin mic.live
      BY <2>3 DEF MicHeld, LostIsGone
    <3>4. mic.live = mic.live \ {speaker.local}
      BY <3>3
    <3>5. mic' = [mic EXCEPT !.live = mic.live, !.due = mic.due \ {t}]
      BY <2>1 DEF DeviceTables
    <3>6. mic.due \ {t} \in SUBSET mic.due
      OBVIOUS
    <3>7. /\ speaker.inbox \in Seq(VoiceEvent) /\ speaker.allowed \in BOOLEAN
          /\ raced' = raced
      BY <2>1 DEF DeviceTables, SpeakerPage
    <3> DEFINE live == mic.live  due == mic.due \ {t}  s == speaker.inbox  a == speaker.allowed
    <3>8. /\ live = mic.live \ {speaker.local} /\ due \in SUBSET mic.due
          /\ s \in Seq(VoiceEvent) /\ a \in BOOLEAN
          /\ speaker' = [speaker EXCEPT !.inbox = s, !.allowed = a, !.local = 0, !.micOn = FALSE]
          /\ mic' = [mic EXCEPT !.live = live, !.due = due]
          /\ sends' = _republishLocal(live, 0) /\ raced' = raced
      BY <3>1, <3>2, <3>4, <3>5, <3>6, <3>7
    <3> HIDE DEF live, due, s, a
    <3> QED BY <3>8, GoesOff
  <2>4. CASE speaker.local # t
    <3>1. UNCHANGED <<speaker, sends>>
      BY <1>11, <2>4 DEF _watchLocalTrack
    <3>2. Held' = Held /\ Spare' = Spare
      BY <2>2, <2>4, <3>1 DEF Held, Spare
    <3>3. mic'.live \cup mic'.due \subseteq 1 .. mic'.given
      BY <2>2 DEF DeviceTables
    <3>4. DeviceTables'
      BY <2>2, <3>1, <3>2, <3>3 DEF DeviceTables
    <3>5. ~raced' =>
            /\ speaker'.micOn <=> speaker'.local # 0
            /\ mic'.live = Held' \cup Spare'
            /\ \A l \in Listeners : sends'[l] \in {NoLink, speaker'.local}
      BY <2>1, <2>2, <3>1, <3>2 DEF MicHeld
    <3>6. LostIsGone'
      BY <2>2, <3>1, <3>2 DEF MicHeld, LostIsGone
    <3> QED BY <3>1, <3>4, <3>5, <3>6 DEF MicHeld
  <2> QED BY <2>3, <2>4
<1>12. CASE SpeakerHears
  <2>1. speaker.inbox # <<>> /\ Tail(speaker.inbox) \in Seq(VoiceEvent)
    BY <1>12, <1>s, DropEvent DEF SpeakerHears
  <2>2. CASE Head(speaker.inbox).muted
    <3>1. /\ speaker' = [speaker EXCEPT !.inbox = Tail(speaker.inbox), !.allowed = FALSE,
                                        !.local = 0, !.micOn = FALSE]
          /\ mic' = [mic EXCEPT !.live = mic.live \ {speaker.local}, !.due = mic.due]
          /\ sends' = _republishLocal(mic.live \ {speaker.local}, 0) /\ raced' = raced
      BY <1>12, <2>2 DEF SpeakerHears, MicGoesOff, DeviceTables, SpeakerPage
    <3> QED BY <2>1, <3>1, GoesOff
  <2>3. CASE ~Head(speaker.inbox).muted
    <3>1. /\ speaker' = [speaker EXCEPT !.inbox = Tail(speaker.inbox), !.allowed = TRUE]
          /\ UNCHANGED <<mic, sends, raced>>
      BY <1>12, <2>3 DEF SpeakerHears
    <3> QED BY <2>1, <3>1, OnlyTheInbox
  <2> QED BY <2>2, <2>3
<1>13. ASSUME NEW l \in Listeners, SpeakerLinks(l)
       PROVE  DeviceTables' /\ MicHeld'
  <2>1. /\ UNCHANGED <<speaker, mic, raced>>
        /\ sends' = [sends EXCEPT ![l] = IF sends[l] = NoLink THEN speaker.local ELSE NoLink]
    BY <1>13 DEF SpeakerLinks
  <2>2. sends' \in [Listeners -> Nat \cup {NoLink}]
    BY <1>s, <2>1 DEF DeviceTables
  <2>3. \A k \in Listeners : sends[k] \in {NoLink, speaker.local} => sends'[k] \in {NoLink, speaker.local}
    BY <2>1 DEF DeviceTables
  <2>4. Held' = Held /\ Spare' = Spare
    BY <2>1 DEF Held, Spare
  <2>5. DeviceTables'
    BY <2>1, <2>2, <2>4 DEF DeviceTables
  <2> QED BY <2>1, <2>3, <2>4, <2>5 DEF MicHeld, LostIsGone
<1>14. CASE \/ \E q \in HostReqs :
                 \/ \E type \in HostWords \ {"settings_changed"}, m \in BOOLEAN : HostSaves(q, type, m)
                 \/ HostReads(q) \/ HostSavesAll(q) \/ update_settings(q)
            \/ \E l \in Listeners :
                 \/ ListenerHears(l) \/ ListenerRenders(l) \/ _onRemoteMedia(l)
                 \/ ListenerReconnects(l) \/ ListenerSnapshot(l)
  <2>1. UNCHANGED <<speaker, mic, sends, raced>>
    BY <1>14 DEF HostSaves, HostReads, HostSavesAll, update_settings, HostGoes, ListenerHears,
                 ListenerRenders, _onRemoteMedia, ListenerReconnects, ListenerSnapshot
  <2>2. Held' = Held /\ Spare' = Spare
    BY <2>1 DEF Held, Spare
  <2> QED BY <2>1, <2>2 DEF DeviceTables, MicHeld, LostIsGone
<1> QED BY <1>1, <1>2, <1>3, <1>4, <1>5, <1>6, <1>7, <1>8, <1>9, <1>10, <1>11, <1>12, <1>13, <1>14
        DEF VoiceNext

-----------------------------------------------------------------------------
(* The pages of the classmates.                                            *)

\* What is in force about the speaker stays as it was.
Same == UNCHANGED <<muted, act, told>>

LEMMA PageParts ==
  ASSUME NEW P \in ListenerPage
  PROVE  /\ P.conn \in {"on", "joining"} /\ P.inbox \in Seq(VoiceEvent)
         /\ P.row \in {"none", "muted", "open"} /\ P.queued \in BOOLEAN
         /\ P.peer \in {"none", "muted", "open"} /\ P.track \in {"none", "enabled", "disabled"}
BY DEF ListenerPage

\* A word sent to every page, which is the last one.
LEMMA KeepsPagesOnWord ==
  ASSUME listener \in [Listeners -> ListenerPage], \A l \in Listeners : PageToldOf(listener[l]),
         NEW e \in VoiceEvent, listener' = ToListeners(e),
         e.type = "user_left" \/ e.muted = told'
  PROVE  /\ listener' \in [Listeners -> ListenerPage]
         /\ \A l \in Listeners : PageToldOf(listener[l])'
<1> SUFFICES ASSUME NEW l \in Listeners
             PROVE  listener'[l] \in ListenerPage /\ PageToldOf(listener[l])'
  BY DEF ToListeners
<1> DEFINE P == listener[l]
           Q == listener'[l]
           box == Append(P.inbox, e)
<1>1. Q = [P EXCEPT !.inbox = box] /\ P \in ListenerPage /\ PageToldOf(P)
  BY DEF ToListeners
<1>2. box \in Seq(VoiceEvent) /\ box # <<>> /\ box[Len(box)] = e
  BY <1>1, PageParts, AddEvent
<1> HIDE DEF P, Q, box
<1>3. /\ Q \in ListenerPage /\ Q.inbox = box /\ Q.queued = P.queued /\ Q.row = P.row
      /\ Q.peer = P.peer /\ Q.track = P.track
  BY <1>1, <1>2 DEF ListenerPage
<1>4. /\ ~Q.queued => Q.peer = Q.row
      /\ Q.track = "enabled" => Q.peer = "open"
  BY <1>1, <1>3 DEF PageToldOf
<1>5. Q.inbox[Len(Q.inbox)].type = "user_left" \/ Q.inbox[Len(Q.inbox)].muted = told'
  BY <1>2, <1>3
<1>6. Q.inbox # <<>>
  BY <1>2, <1>3
<1> QED BY <1>3, <1>4, <1>5, <1>6 DEF PageToldOf, Q

\* A step of one page.
LEMMA KeepsPagesOnStep ==
  ASSUME listener \in [Listeners -> ListenerPage], \A k \in Listeners : PageToldOf(listener[k]),
         Same, NEW l \in Listeners, NEW Q \in ListenerPage,
         listener' = [listener EXCEPT ![l] = Q], PageToldOf(Q)
  PROVE  /\ listener' \in [Listeners -> ListenerPage]
         /\ \A k \in Listeners : PageToldOf(listener[k])'
<1>1. ASSUME NEW k \in Listeners
      PROVE  PageToldOf(listener'[k])
  BY DEF PageToldOf
<1> QED BY <1>1 DEF PageToldOf, Same, Unannounced

LEMMA KeepsPages ==
  ASSUME VoiceTables, \A l \in Listeners : PageToldOf(listener[l]), VoiceNext
  PROVE  /\ listener' \in [Listeners -> ListenerPage]
         /\ \A l \in Listeners : PageToldOf(listener[l])'
<1> USE TablesInParts
<1>s. muted \in BOOLEAN /\ MutedWord(muted) \in {"muted", "open"}
  BY DEF ServerTables, MutedWord
<1>0. act \in [HostReqs -> HostRequest]
  BY DEF ServerTables
<1>t. ASSUME listener' = listener, told' = told, Unannounced' \/ (muted' = muted /\ (Unannounced' <=> Unannounced))
      PROVE  /\ listener' \in [Listeners -> ListenerPage]
             /\ \A l \in Listeners : PageToldOf(listener[l])'
  <2>1. ASSUME NEW l \in Listeners PROVE PageToldOf(listener[l])'
    BY <1>t DEF PageToldOf
  <2> QED BY <1>t, <2>1
<1>1. ASSUME NEW q \in HostReqs, NEW type \in HostWords \ {"settings_changed"}, NEW m \in BOOLEAN,
             HostSaves(q, type, m)
      PROVE  /\ listener' \in [Listeners -> ListenerPage]
             /\ \A l \in Listeners : PageToldOf(listener[l])'
  <2>1. act'[q].step = "saved" /\ act'[q].type # "settings_changed" /\ UNCHANGED <<listener, told>>
    BY <1>0, <1>1 DEF HostSaves, HostGoes
  <2>2. Unannounced'
    BY <2>1 DEF Unannounced
  <2> QED BY <1>t, <2>1, <2>2
<1>12. ASSUME NEW q \in HostReqs, HostSavesAll(q)
       PROVE  /\ listener' \in [Listeners -> ListenerPage]
              /\ \A l \in Listeners : PageToldOf(listener[l])'
  <2>1. act'[q].step = "saved" /\ act'[q].type # "settings_changed" /\ UNCHANGED <<listener, told>>
    BY <1>0, <1>12 DEF HostSavesAll, HostRequest, ServerTables
  <2>2. Unannounced'
    BY <2>1 DEF Unannounced
  <2> QED BY <1>t, <2>1, <2>2
<1>13. ASSUME NEW q \in HostReqs, HostReads(q) \/ update_settings(q)
       PROVE  /\ listener' \in [Listeners -> ListenerPage]
              /\ \A l \in Listeners : PageToldOf(listener[l])'
  <2>1. /\ act[q].step = "idle" /\ UNCHANGED <<listener, told, muted>>
        /\ act'[q].step = "saved" => act'[q].type = "settings_changed"
        /\ \A r \in HostReqs \ {q} : act'[r] = act[r]
    BY <1>0, <1>13 DEF HostReads, update_settings, HostGoes
  <2>2. Unannounced' <=> Unannounced
    BY <2>1 DEF Unannounced
  <2> QED BY <1>t, <2>1, <2>2
<1>2. ASSUME NEW q \in HostReqs, HostAnnounces(q)
      PROVE  /\ listener' \in [Listeners -> ListenerPage]
             /\ \A l \in Listeners : PageToldOf(listener[l])'
  <2> DEFINE e == VEvent(act[q].type, act[q].muted)
  <2>1. act[q].type \in HostWords /\ act[q].muted \in BOOLEAN
    BY <1>0 DEF HostRequest
  <2>2. e \in VoiceEvent
    BY <2>1, EventIs
  <2>3. listener' = ToListeners(e) /\ told' = e.muted
    BY <1>2 DEF HostAnnounces, ToRoom
  <2> QED BY <2>2, <2>3, KeepsPagesOnWord
<1>3. ASSUME NEW type \in NewsWords, ConsumerReads(type)
      PROVE  /\ listener' \in [Listeners -> ListenerPage]
             /\ \A l \in Listeners : PageToldOf(listener[l])'
  <2>1. CASE type = "user_joined"
    <3>1. VEvent("user_left", muted) \in VoiceEvent /\ VEvent("user_left", muted).type = "user_left"
      BY <1>s, EventIs
    <3> QED BY <1>3, <2>1, <3>1, KeepsPagesOnWord DEF ConsumerReads
  <2>2. CASE type # "user_joined"
    BY <1>3, <2>2 DEF ConsumerReads, PageToldOf, Unannounced
  <2> QED BY <2>1, <2>2
<1>4. CASE ConsumerSends
  <2>1. Head(news) \in VoiceEvent
    BY <1>4, OneEvent DEF ConsumerSends, ServerTables
  <2>2. Head(news).muted = told'
    BY <1>4 DEF ConsumerSends
  <2> QED BY <1>4, <2>1, <2>2, KeepsPagesOnWord DEF ConsumerSends
<1>5. ASSUME NEW l \in Listeners, SpeakerLinks(l)
      PROVE  /\ listener' \in [Listeners -> ListenerPage]
             /\ \A k \in Listeners : PageToldOf(listener[k])'
  <2> DEFINE Q == [listener[l] EXCEPT !.track = "none"]
  <2>1. Q \in ListenerPage
    BY DEF ListenerPage
  <2>2. PageToldOf(Q)
    BY DEF PageToldOf, ListenerPage
  <2> QED BY <1>5, <2>1, <2>2, KeepsPagesOnStep DEF SpeakerLinks, Same
<1>6. ASSUME NEW l \in Listeners, ListenerHears(l)
      PROVE  /\ listener' \in [Listeners -> ListenerPage]
             /\ \A k \in Listeners : PageToldOf(listener[k])'
  <2> DEFINE P == listener[l]
             e == Head(P.inbox)
             rest == Tail(P.inbox)
             word == MutedWord(e.muted)
             Q == listener'[l]
  <2>1. P \in ListenerPage /\ PageToldOf(P) /\ P.inbox # <<>> /\ P.conn = "on"
    BY <1>6 DEF ListenerHears
  <2>2. /\ e \in VoiceEvent /\ rest \in Seq(VoiceEvent)
        /\ rest = <<>> => e = P.inbox[Len(P.inbox)]
        /\ rest # <<>> => rest[Len(rest)] = P.inbox[Len(P.inbox)]
    BY <2>1, PageParts, DropEvent
  <2>3. word \in {"muted", "open"}
    BY DEF MutedWord
  <2>4. listener' = [listener EXCEPT ![l] =
          CASE e.type = "user_left" -> [P EXCEPT !.inbox = rest, !.queued = TRUE, !.row = "none"]
            [] e.type \in {"mute_all", "permission_changed"} ->
                 [P EXCEPT !.inbox = rest, !.queued = TRUE,
                           !.row = IF P.row = "none" THEN P.row ELSE word]
            [] e.type = "media_state" /\ P.peer # "none" ->
                 _applyPeerPermissions([P EXCEPT !.inbox = rest, !.queued = TRUE, !.row = word], word)
            [] OTHER -> [P EXCEPT !.inbox = rest, !.queued = TRUE, !.row = word]]
    BY <1>6, <2>1 DEF ListenerHears, ListenerPage
  <2> HIDE DEF word
  <2>5. /\ Q \in ListenerPage /\ Q.inbox = rest /\ Q.queued
        /\ Q.row \in {"none", word} /\ (e.type = "user_left" => Q.row = "none")
        /\ Q.track = "enabled" => Q.peer = "open"
    <3> HIDE DEF e, rest
    <3>1. CASE e.type = "media_state" /\ P.peer # "none"
      <4>1. Q = _applyPeerPermissions([P EXCEPT !.inbox = rest, !.queued = TRUE, !.row = word], word)
        BY <2>4, <3>1
      <4> QED BY <2>1, <2>2, <2>3, <3>1, <4>1 DEF _applyPeerPermissions, ListenerPage
    <3>2. CASE ~(e.type = "media_state" /\ P.peer # "none")
      <4>1. PICK row \in IF e.type = "user_left" THEN {"none"} ELSE {"none", word} :
              Q = [P EXCEPT !.inbox = rest, !.queued = TRUE, !.row = row]
        <5>1. CASE e.type = "user_left"
          BY <2>4, <5>1
        <5>2. CASE e.type \in {"mute_all", "permission_changed"} /\ P.row = "none"
          BY <2>4, <5>2
        <5>3. CASE e.type \in {"mute_all", "permission_changed"} /\ P.row # "none"
          BY <2>4, <5>3
        <5>4. CASE e.type \notin {"user_left", "mute_all", "permission_changed"}
          BY <2>4, <3>2, <5>4
        <5> QED BY <5>1, <5>2, <5>3, <5>4
      <4>2. P.track = "enabled" => P.peer = "open"
        BY <2>1 DEF PageToldOf
      <4>3. row \in {"none", "muted", "open"}
        BY <2>3, <4>1
      <4>5. P \in ListenerPage /\ rest \in Seq(VoiceEvent)
        BY <2>1, <2>2
      <4>6. Q = [P EXCEPT !.inbox = rest, !.queued = TRUE, !.row = row]
        BY <4>1
      <4>7. row \in {"none", word} /\ (e.type = "user_left" => row = "none")
        BY <4>1
      <4> HIDE DEF P, Q
      <4>4. /\ Q \in ListenerPage /\ Q.inbox = rest /\ Q.queued = TRUE /\ Q.row = row
            /\ Q.track = P.track /\ Q.peer = P.peer
        BY <4>3, <4>5, <4>6 DEF ListenerPage
      <4> QED BY <4>2, <4>4, <4>6, <4>7, Zenon
    <3> QED BY <3>1, <3>2
  <2>6. Same
    BY <1>6 DEF ListenerHears, Same
  <2>7. PageToldOf(Q)
    BY <2>1, <2>2, <2>5 DEF PageToldOf, word
  <2>8. listener' = [listener EXCEPT ![l] = Q]
    BY <2>4
  <2> QED BY <2>5, <2>6, <2>7, <2>8, KeepsPagesOnStep
<1>7. ASSUME NEW l \in Listeners, ListenerRenders(l)
      PROVE  /\ listener' \in [Listeners -> ListenerPage]
             /\ \A k \in Listeners : PageToldOf(listener[k])'
  <2> DEFINE P == listener[l]
             Q == IF P.row = "none"
                    THEN [P EXCEPT !.queued = FALSE, !.peer = "none", !.track = "none"]
                    ELSE _applyPeerPermissions([P EXCEPT !.queued = FALSE], P.row)
  <2>1. P \in ListenerPage /\ PageToldOf(P)
    OBVIOUS
  <2>2. listener' = [listener EXCEPT ![l] = Q]
    BY <1>7 DEF ListenerRenders, ListenerPage
  <2>3. Q \in ListenerPage /\ PageToldOf(Q)
    BY <2>1 DEF _applyPeerPermissions, ListenerPage, PageToldOf
  <2> QED BY <1>7, <2>2, <2>3, KeepsPagesOnStep DEF ListenerRenders, Same
<1>8. ASSUME NEW l \in Listeners, _onRemoteMedia(l)
      PROVE  /\ listener' \in [Listeners -> ListenerPage]
             /\ \A k \in Listeners : PageToldOf(listener[k])'
  <2> DEFINE P == listener[l]
             Q == _applyPeerPermissions([P EXCEPT !.track = "enabled"], P.peer)
  <2>1. P \in ListenerPage /\ PageToldOf(P)
    OBVIOUS
  <2>2. listener' = [listener EXCEPT ![l] = Q]
    BY <1>8 DEF _onRemoteMedia, ListenerPage
  <2>3. Q \in ListenerPage /\ PageToldOf(Q)
    BY <2>1 DEF _applyPeerPermissions, ListenerPage, PageToldOf
  <2> QED BY <1>8, <2>2, <2>3, KeepsPagesOnStep DEF _onRemoteMedia, Same
<1>9. ASSUME NEW l \in Listeners, ListenerReconnects(l)
      PROVE  /\ listener' \in [Listeners -> ListenerPage]
             /\ \A k \in Listeners : PageToldOf(listener[k])'
  <2> DEFINE P == listener[l]
             Q == [P EXCEPT !.conn = "joining", !.inbox = <<>>]
  <2>1. P \in ListenerPage /\ PageToldOf(P)
    OBVIOUS
  <2>2. listener' = [listener EXCEPT ![l] = Q]
    BY <1>9 DEF ListenerReconnects
  <2>3. Q \in ListenerPage /\ PageToldOf(Q)
    BY <2>1, EventIs DEF ListenerPage, PageToldOf
  <2> QED BY <1>9, <2>2, <2>3, KeepsPagesOnStep DEF ListenerReconnects, Same
<1>10. ASSUME NEW l \in Listeners, ListenerSnapshot(l)
       PROVE  /\ listener' \in [Listeners -> ListenerPage]
              /\ \A k \in Listeners : PageToldOf(listener[k])'
  <2> DEFINE P == listener[l]
             word == MutedWord(muted)
             Q == _applyPeerPermissions([P EXCEPT !.conn = "on", !.row = word], word)
  <2>1. P \in ListenerPage /\ PageToldOf(P)
    OBVIOUS
  <2>2. listener' = [listener EXCEPT ![l] = Q]
    BY <1>10 DEF ListenerSnapshot
  <2>3. word \in {"muted", "open"} /\ word = MutedWord(muted)
    BY <1>s
  <2> HIDE DEF word
  <2>4. Q \in ListenerPage /\ PageToldOf(Q)
    BY <2>1, <2>3 DEF _applyPeerPermissions, ListenerPage, PageToldOf
  <2> QED BY <1>10, <2>2, <2>4, KeepsPagesOnStep DEF ListenerSnapshot, Same
<1>11. CASE \/ ToggleOff \/ ToggleOn \/ toggleMicrophone \/ PickDevice \/ DeviceAnswers \/ setMicDevice
            \/ DeviceLost \/ \E t \in mic.due : _watchLocalTrack(t)
            \/ SpeakerHears
  <2>1. UNCHANGED <<listener, muted, act, told>>
    BY <1>11 DEF ToggleOff, ToggleOn, toggleMicrophone, PickDevice, DeviceAnswers, setMicDevice,
                 DeviceLost, _watchLocalTrack, SpeakerHears
  <2> QED BY <2>1 DEF PageToldOf, Unannounced
<1> QED BY <1>1, <1>2, <1>3, <1>4, <1>5, <1>6, <1>7, <1>8, <1>9, <1>10, <1>11, <1>12, <1>13 DEF VoiceNext

-----------------------------------------------------------------------------
(* The theorems.                                                           *)

LEMMA VoiceStart == VoiceInit => VoiceInv
<1> SUFFICES ASSUME VoiceInit PROVE VoiceInv
  OBVIOUS
<1>1. ServerTables
  BY EventIs DEF VoiceInit, ServerTables, HostRequest, NoRequest, HostWords
<1>2. DeviceTables /\ MicHeld
  <2>1. /\ speaker \in SpeakerPage /\ speaker.local = 0 /\ ~speaker.micOn /\ ~speaker.toggling
        /\ speaker.pick = <<>> /\ mic = [given |-> 0, live |-> {}, due |-> {}]
    BY EventIs DEF VoiceInit, SpeakerPage
  <2>2. Spare = {} /\ Held = {}
    BY <2>1 DEF Spare, Held
  <2>3. sends = [l \in Listeners |-> 0]
    BY DEF VoiceInit
  <2> QED BY <2>1, <2>2, <2>3 DEF DeviceTables, MicHeld, LostIsGone
<1>3. /\ listener \in [Listeners -> ListenerPage]
      /\ \A l \in Listeners : PageToldOf(listener[l])
  BY EventIs DEF VoiceInit, ListenerPage, PageToldOf, MutedWord
<1> QED BY <1>1, <1>2, <1>3, TablesInParts DEF VoiceInv

\* The microphone's tracks and connections, and what every page has been told, in every
\* reachable state.
THEOREM VoiceInductive == VoiceSpec => []VoiceInv
<1>1. VoiceInv /\ [VoiceNext]_voiceVars => VoiceInv'
  <2> SUFFICES ASSUME VoiceInv, [VoiceNext]_voiceVars PROVE VoiceInv'
    OBVIOUS
  <2>1. CASE VoiceNext
    <3>1. ServerTables' /\ DeviceTables' /\ MicHeld'
      BY <2>1, KeepsServer, KeepsMic DEF VoiceInv
    <3>2. listener' \in [Listeners -> ListenerPage] /\ \A l \in Listeners : PageToldOf(listener[l])'
      BY <2>1, KeepsPages DEF VoiceInv
    <3> QED BY <3>1, <3>2, TablesInParts DEF VoiceInv, ServerTables, DeviceTables, VoiceTables, VoiceTypeOK
  <2>2. CASE UNCHANGED voiceVars
    BY <2>2 DEF voiceVars, VoiceInv, VoiceTables, VoiceTypeOK, MicHeld, LostIsGone, Held, Spare,
                PageToldOf, Unannounced
  <2> QED BY <2>1, <2>2
<1> QED BY <1>1, VoiceStart, PTL DEF VoiceSpec

\* '"off" means OFF': whatever is tapped, picked, unplugged, muted or linked, in any order,
\* the page shows its microphone on exactly while one device runs and is sent to all.
THEOREM MicNeverLies == VoiceSpec => []MicTellsTheTruth
<1>1. VoiceInv => MicTellsTheTruth
  BY DEF VoiceInv, MicHeld, Held, Spare, SpeakerIdle, MicTellsTheTruth
<1> QED BY <1>1, VoiceInductive, PTL

\* A page that has handled everything plays nothing of somebody the server has muted and
\* the room was last told is muted, for any number of hosts whose requests overlap.
THEOREM TheMutedAreNotHeard == VoiceSpec => []MutedNotHeard
<1>1. VoiceInv => MutedNotHeard
  BY DEF VoiceInv, PageToldOf, MutedWord, MutedNotHeard
<1> QED BY <1>1, VoiceInductive, PTL

-----------------------------------------------------------------------------
(* The roster: a page that has handled everything shows who is in the      *)
(* room, for any members, tabs and pages.                                  *)


RosterEvent == [type : Told, of : Folk]

\* The row of m once the events of q are handled, if it was `from' before them.
RowRun(q, m, isHost, from, to) ==
  \E w \in [0..Len(q) -> RosterRow] :
    /\ w[0] = from /\ w[Len(q)] = to
    /\ \A i \in 1..Len(q) :
         w[i] = IF q[i].of = m THEN RowAfter(q[i], w[i - 1], isHost) ELSE w[i - 1]

\* In the room, and no request in progress means to put an end to it.
Settled(m) == InTheRoom(m) /\ ~Pending(m, "remove") /\ ~Pending(m, "deny")

\* What the page of v may come to show of m: what RosterIsRight asks for, and on the way
\* to it what a request in progress will need.
Due(v, m) ==
  IF m \in twofold THEN RosterRow
  ELSE IF Settled(m) THEN {"room"}
  ELSE IF OnTabs(m) # {} \/ member[m] = "active" \/ Pending(m, "join") \/ Pending(m, "remove")
    THEN RosterRow
  ELSE IF v \in Hosts /\ (member[m] = "waiting" \/ Pending(m, "wait"))
    THEN IF <<v, m>> \in missed THEN RosterRow ELSE {"waiting"}
  ELSE IF m \in ghost \/ (v \in Hosts /\ Pending(m, "deny")) THEN RosterRow
  ELSE {"none"}

\* The snapshot of a host's page has a row of whoever waits.
HostSees(v, m) == v \in Hosts /\ member[m] = "waiting"

\* A page that is on will show what is due; one that waits for its snapshot will, unless
\* nothing on its way says anything of m, whatever row the snapshot brings.
PageIsDue(v, m) ==
  LET q == viewer[v].inbox IN
  /\ viewer[v].conn = "on" => \E r \in Due(v, m) : RowRun(q, m, v \in Hosts, viewer[v].rows[m], r)
  /\ viewer[v].conn = "joining" =>
       \A from \in RosterRow : \E r \in RosterRow :
         /\ RowRun(q, m, v \in Hosts, from, r)
         /\ r \in Due(v, m) \cup {from} \/ (from = "none" /\ HostSees(v, m))

\* Requests, rows and consumers agree: who is not admitted has no consumer, a request is
\* about a row it fits, and of somebody who is out no consumer is left that was not told
\* to close or excepted, once no removal or denial is in progress.
RowOK(m) ==
  /\ member[m] \in {"absent", "waiting"} => OnTabs(m) = {}
  /\ Pending(m, "join") \/ Pending(m, "wait") => member[m] = "absent"
  /\ \A q, r \in RosterReqs :
       request[m][q] \in {"join", "wait"} /\ request[m][r] \in {"join", "wait"} => q = r
  /\ Pending(m, "approve") \/ Pending(m, "deny") \/ Pending(m, "remove") =>
       member[m] \in {"active", "inactive"}
  /\ Pending(m, "mute") => member[m] # "absent"
  /\ member[m] = "inactive" /\ ~Pending(m, "deny") /\ ~Pending(m, "remove") =>
       OnTabs(m) \subseteq doomed \cup survivor

StandingOK == \A m \in Folk : RowOK(m)

\* The strengthening of RosterIsRight: what a page will show is due, of each member.
RosterInductive ==
  /\ RosterTypeOK
  /\ StandingOK
  /\ \A v \in Viewers, m \in Folk : PageIsDue(v, m)

LEMMA RowAfterType ==
  ASSUME NEW e, NEW r \in RosterRow, NEW h
  PROVE  RowAfter(e, r, h) \in RosterRow
BY DEF RowAfter, RosterRow

LEMMA RunOfNothing ==
  ASSUME NEW m, NEW h, NEW from \in RosterRow
  PROVE  /\ RowRun(<<>>, m, h, from, from)
         /\ \A to : RowRun(<<>>, m, h, from, to) => to = from
<1>1. RowRun(<<>>, m, h, from, from)
  <2> DEFINE w == [i \in 0..0 |-> from]
  <2>1. Len(<<>>) = 0 /\ w \in [0..0 -> RosterRow] /\ w[0] = from
    OBVIOUS
  <2> HIDE DEF w
  <2>2. \A i \in 1..0 :
          w[i] = IF <<>>[i].of = m THEN RowAfter(<<>>[i], w[i - 1], h) ELSE w[i - 1]
    OBVIOUS
  <2> QED BY <2>1, <2>2 DEF RowRun
<1>2. \A to : RowRun(<<>>, m, h, from, to) => to = from
  BY DEF RowRun
<1> QED BY <1>1, <1>2

LEMMA RunOfOneMore ==
  ASSUME NEW q \in Seq(RosterEvent), NEW e \in RosterEvent, NEW m, NEW h, NEW from, NEW to,
         RowRun(q, m, h, from, to)
  PROVE  RowRun(Append(q, e), m, h, from, IF e.of = m THEN RowAfter(e, to, h) ELSE to)
<1> DEFINE n == Len(q)
           last == IF e.of = m THEN RowAfter(e, to, h) ELSE to
<1>1. PICK w \in [0..n -> RosterRow] :
        /\ w[0] = from /\ w[n] = to
        /\ \A i \in 1..n : w[i] = IF q[i].of = m THEN RowAfter(q[i], w[i - 1], h) ELSE w[i - 1]
  BY DEF RowRun
<1>2. n \in Nat /\ Len(Append(q, e)) = n + 1 /\ Append(q, e)[n + 1] = e
      /\ \A i \in 1..n : Append(q, e)[i] = q[i]
  OBVIOUS
<1>3. to \in RosterRow /\ last \in RosterRow
  BY <1>1, <1>2, RowAfterType
<1> DEFINE x == [i \in 0..(n + 1) |-> IF i = n + 1 THEN last ELSE w[i]]
<1>4. x \in [0..(n + 1) -> RosterRow]
  BY <1>1, <1>2, <1>3
<1>5. x[0] = from /\ x[n + 1] = last
  BY <1>1, <1>2
<1>6. ASSUME NEW i \in 1..(n + 1)
      PROVE  x[i] = IF Append(q, e)[i].of = m THEN RowAfter(Append(q, e)[i], x[i - 1], h)
                    ELSE x[i - 1]
  <2>1. CASE i = n + 1
    <3>1. x[i] = last /\ x[i - 1] = to /\ Append(q, e)[i] = e
      BY <2>1, <1>1, <1>2
    <3> QED BY <3>1
  <2>2. CASE i # n + 1
    <3>1. i \in 1..n /\ x[i] = w[i] /\ x[i - 1] = w[i - 1] /\ Append(q, e)[i] = q[i]
      BY <2>2, <1>2
    <3> QED BY <3>1, <1>1
  <2> QED BY <2>1, <2>2
<1> HIDE DEF x, last
<1>7. RowRun(Append(q, e), m, h, from, last)
  BY <1>2, <1>4, <1>5, <1>6 DEF RowRun
<1> QED BY <1>7 DEF last

LEMMA RunOfTheRest ==
  ASSUME NEW q \in Seq(RosterEvent), q # <<>>, NEW m, NEW h, NEW from, NEW to,
         RowRun(q, m, h, from, to)
  PROVE  RowRun(Tail(q), m, h, IF Head(q).of = m THEN RowAfter(Head(q), from, h) ELSE from, to)
<1> DEFINE n == Len(q)
<1>1. PICK w \in [0..n -> RosterRow] :
        /\ w[0] = from /\ w[n] = to
        /\ \A i \in 1..n : w[i] = IF q[i].of = m THEN RowAfter(q[i], w[i - 1], h) ELSE w[i - 1]
  BY DEF RowRun
<1>2. n \in Nat /\ n >= 1 /\ Len(Tail(q)) = n - 1 /\ Head(q) = q[1]
      /\ \A i \in 1..(n - 1) : Tail(q)[i] = q[i + 1]
  OBVIOUS
<1> DEFINE x == [i \in 0..(n - 1) |-> w[i + 1]]
<1>3. x \in [0..(n - 1) -> RosterRow]
  BY <1>1, <1>2
<1>4. x[0] = IF Head(q).of = m THEN RowAfter(Head(q), from, h) ELSE from
  <2>1. x[0] = w[1] /\ 1 \in 1..n
    BY <1>2
  <2> QED BY <2>1, <1>1, <1>2
<1>5. x[n - 1] = to
  BY <1>1, <1>2
<1>6. ASSUME NEW i \in 1..(n - 1)
      PROVE  x[i] = IF Tail(q)[i].of = m THEN RowAfter(Tail(q)[i], x[i - 1], h) ELSE x[i - 1]
  <2>1. i + 1 \in 1..n /\ x[i] = w[i + 1] /\ x[i - 1] = w[i] /\ Tail(q)[i] = q[i + 1]
        /\ (i + 1) - 1 = i
    BY <1>2
  <2> QED BY <2>1, <1>1
<1> HIDE DEF x
<1> QED BY <1>2, <1>3, <1>4, <1>5, <1>6 DEF RowRun

-----------------------------------------------------------------------------
LEMMA RosterInitially == RosterInit => RosterInductive
<1> SUFFICES ASSUME RosterInit PROVE RosterInductive
  OBVIOUS
<1>1. RosterTypeOK
  <2>1. viewer \in [Viewers -> ViewerPage]
    <3>1. [conn |-> "off", inbox |-> <<>>, rows |-> [m \in Folk |-> "none"]] \in ViewerPage
      BY DEF ViewerPage, RosterRow
    <3> QED BY <3>1 DEF RosterInit
  <2> QED BY <2>1 DEF RosterInit, RosterTypeOK, Standing, RosterOps
<1>2. StandingOK
  <2>1. \A m \in Folk, op \in RosterOps : ~Pending(m, op)
    BY DEF RosterInit, Pending, RosterOps
  <2>2. \A m \in Folk : RowOK(m)
    BY <2>1 DEF RosterInit, RowOK, OnTabs, RosterOps
  <2> QED BY <2>2 DEF StandingOK
<1>3. \A v \in Viewers, m \in Folk : PageIsDue(v, m)
  BY DEF PageIsDue, RosterInit
<1> QED BY <1>1, <1>2, <1>3 DEF RosterInductive

\* What a request in progress is, before and after one begins or ends.
LEMMA BeginPends ==
  ASSUME RosterTypeOK, NEW op \in RosterOps, NEW m \in Folk, NEW q \in RosterReqs, Begin(op, m, q)
  PROVE  /\ request' \in [Folk -> [RosterReqs -> RosterOps \cup {"none"}]]
         /\ \A k \in Folk \ {m} : request'[k] = request[k]
         /\ \A o \in RosterOps : Pending(m, o)' <=> Pending(m, o) \/ o = op
         /\ \A r \in RosterReqs : request'[m][r] # request[m][r] => r = q /\ request'[m][r] = op
<1>1. /\ request \in [Folk -> [RosterReqs -> RosterOps \cup {"none"}]]
      /\ request' = [request EXCEPT ![m][q] = op] /\ request[m][q] = "none"
  BY DEF Begin, RosterTypeOK
<1>2. request'[m] = [request[m] EXCEPT ![q] = op] /\ request[m] \in [RosterReqs -> RosterOps \cup {"none"}]
  BY <1>1
<1>3. \A o \in RosterOps : Pending(m, o)' <=> Pending(m, o) \/ o = op
  BY <1>1, <1>2 DEF Pending, RosterOps
<1> QED BY <1>1, <1>2, <1>3

LEMMA FinishPends ==
  ASSUME RosterTypeOK, NEW op \in RosterOps, NEW m \in Folk, NEW q \in RosterReqs, Finish(op, m, q)
  PROVE  /\ request' \in [Folk -> [RosterReqs -> RosterOps \cup {"none"}]]
         /\ \A k \in Folk \ {m} : request'[k] = request[k]
         /\ Pending(m, op)
         /\ \A o \in RosterOps : Pending(m, o)' => Pending(m, o)
         /\ \A o \in RosterOps \ {op} : Pending(m, o) => Pending(m, o)'
         /\ \A r \in RosterReqs : request'[m][r] = IF r = q THEN "none" ELSE request[m][r]
<1>1. /\ request \in [Folk -> [RosterReqs -> RosterOps \cup {"none"}]]
      /\ request' = [request EXCEPT ![m][q] = "none"] /\ request[m][q] = op
  BY DEF Finish, RosterTypeOK
<1>2. /\ request'[m] = [request[m] EXCEPT ![q] = "none"]
      /\ request[m] \in [RosterReqs -> RosterOps \cup {"none"}]
  BY <1>1
<1>3. \A r \in RosterReqs : request'[m][r] = IF r = q THEN "none" ELSE request[m][r]
  BY <1>2
<1>4. "none" \notin RosterOps
  BY DEF RosterOps
<1> QED BY <1>1, <1>3, <1>4 DEF Pending

\* A step that is not about m, or only widens what is due, leaves a page right that
\* hears nothing.
LEMMA QuietKeeps ==
  ASSUME NEW v \in Viewers, NEW m \in Folk, PageIsDue(v, m), viewer' = viewer,
         Due(v, m) \subseteq Due(v, m)',
         HostSees(v, m) => HostSees(v, m)' \/ Due(v, m)' = RosterRow
  PROVE  PageIsDue(v, m)'
BY DEF PageIsDue

\* What Tell does to a page.
LEMMA TellKeeps ==
  ASSUME RosterTypeOK, NEW type \in Told, NEW n \in Folk, Tell(type, n), member' = member,
         NEW v \in Viewers, NEW m \in Folk, PageIsDue(v, m),
         m # n => Due(v, m) \subseteq Due(v, m)',
         m = n => \A r \in RosterRow :
           LET next == RowAfter([type |-> type, of |-> n], r, v \in Hosts) IN
           /\ r \in Due(v, m) => next \in Due(v, m)'
           /\ next \in Due(v, m)' \cup {r} \/ (r = "none" /\ HostSees(v, m))
  PROVE  PageIsDue(v, m)'
<1> DEFINE e == [type |-> type, of |-> n]
           q == viewer[v].inbox
           h == v \in Hosts
           After(r) == IF e.of = m THEN RowAfter(e, r, h) ELSE r
<1>1. e \in RosterEvent /\ e.of = n /\ viewer[v] \in ViewerPage /\ q \in Seq(RosterEvent)
  BY DEF RosterEvent, RosterTypeOK, ViewerPage
<1>2. CASE viewer[v].conn = "off"
  BY <1>2 DEF Tell, PageIsDue
<1>3. CASE viewer[v].conn # "off"
  <2>1. /\ viewer'[v].conn = viewer[v].conn /\ viewer'[v].rows = viewer[v].rows
        /\ viewer'[v].inbox = Append(q, e)
    BY <1>1, <1>3 DEF Tell, ViewerPage
  <2>2. \A from, to : RowRun(q, m, h, from, to) => RowRun(Append(q, e), m, h, from, After(to))
    BY <1>1, RunOfOneMore
  <2>3. Due(v, m) \subseteq RosterRow
    BY DEF Due, RosterRow
  <2>4. \A r \in Due(v, m) : After(r) \in Due(v, m)'
    BY <1>1, <2>3
  <2>5. \A r \in RosterRow : After(r) \in Due(v, m)' \cup {r} \/ (r = "none" /\ HostSees(v, m))
    BY <1>1
  <2>6. \A r \in RosterRow : After(r) \in RosterRow
    BY RowAfterType
  <2>7. HostSees(v, m)' <=> HostSees(v, m)
    BY DEF HostSees
  <2> HIDE DEF After, e
  <2>8. CASE viewer[v].conn = "on"
    <3>1. PICK r \in Due(v, m) : RowRun(q, m, h, viewer[v].rows[m], r)
      BY <2>8 DEF PageIsDue
    <3>2. RowRun(Append(q, e), m, h, viewer[v].rows[m], After(r)) /\ After(r) \in Due(v, m)'
      BY <3>1, <2>2, <2>4
    <3> QED BY <3>2, <2>1, <2>8 DEF PageIsDue
  <2>9. CASE viewer[v].conn = "joining"
    <3>1. ASSUME NEW from \in RosterRow
          PROVE  \E r \in RosterRow :
                   /\ RowRun(Append(q, e), m, h, from, r)
                   /\ r \in Due(v, m)' \cup {from} \/ (from = "none" /\ HostSees(v, m)')
      <4>1. PICK r \in RosterRow :
              /\ RowRun(q, m, h, from, r)
              /\ r \in Due(v, m) \cup {from} \/ (from = "none" /\ HostSees(v, m))
        BY <2>9 DEF PageIsDue
      <4>2. RowRun(Append(q, e), m, h, from, After(r)) /\ After(r) \in RosterRow
        BY <4>1, <2>2, <2>6
      <4>3. After(r) \in Due(v, m)' \cup {from} \/ (from = "none" /\ HostSees(v, m)')
        BY <4>1, <2>4, <2>5, <2>7
      <4> QED BY <4>2, <4>3
    <3> QED BY <3>1, <2>1, <2>9 DEF PageIsDue
  <2>10. viewer[v].conn \in {"on", "joining"}
    BY <1>1, <1>3 DEF ViewerPage
  <2> QED BY <2>8, <2>9, <2>10
<1> QED BY <1>2, <1>3

LEMMA TellType ==
  ASSUME RosterTypeOK, NEW type \in Told, NEW n \in Folk, Tell(type, n)
  PROVE  viewer' \in [Viewers -> ViewerPage]
<1> DEFINE e == [type |-> type, of |-> n]
<1>1. e \in RosterEvent
  BY DEF RosterEvent
<1> HIDE DEF e
<1>2. ASSUME NEW v \in Viewers
      PROVE  [viewer[v] EXCEPT !.inbox = Append(@, e)] \in ViewerPage
  <2>1. viewer[v] \in ViewerPage
    BY DEF RosterTypeOK
  <2>2. Append(viewer[v].inbox, e) \in Seq(RosterEvent)
    BY <1>1, <2>1 DEF ViewerPage, RosterEvent
  <2> QED BY <2>1, <2>2 DEF ViewerPage, RosterEvent
<1>3. \A v \in Viewers : viewer[v] \in ViewerPage
  BY DEF RosterTypeOK
<1> QED BY <1>2, <1>3 DEF Tell, e

\* What is due of a member whom a step does not touch.
LEMMA OthersKeepDue ==
  ASSUME NEW v \in Viewers, NEW m \in Folk,
         member'[m] = member[m], request'[m] = request[m],
         \A t \in RoomTabs : TabFolk[t] = m =>
           /\ consumer'[t] = consumer[t]
           /\ t \in doomed' <=> t \in doomed
           /\ t \in survivor' <=> t \in survivor,
         m \in twofold' <=> m \in twofold, m \in ghost' <=> m \in ghost, missed \subseteq missed'
  PROVE  Due(v, m) \subseteq Due(v, m)' /\ (HostSees(v, m)' <=> HostSees(v, m))
<1>1. OnTabs(m)' = OnTabs(m)
  BY DEF OnTabs
<1>2. InTheRoom(m)' <=> InTheRoom(m)
  BY <1>1 DEF InTheRoom, OnTabs
<1>3. \A op \in RosterOps : Pending(m, op)' <=> Pending(m, op)
  BY DEF Pending
<1>4. Settled(m)' <=> Settled(m)
  BY <1>2, <1>3 DEF Settled, RosterOps
<1> QED BY <1>1, <1>3, <1>4 DEF Due, RosterRow, RosterOps, HostSees

LEMMA OthersKeepStanding ==
  ASSUME StandingOK, NEW n \in Folk, RowOK(n)',
         \A m \in Folk \ {n} :
           /\ member'[m] = member[m] /\ request'[m] = request[m]
           /\ \A t \in RoomTabs : TabFolk[t] = m =>
                /\ consumer'[t] = consumer[t]
                /\ t \in doomed' <=> t \in doomed
                /\ t \in survivor' <=> t \in survivor
  PROVE  StandingOK'
<1>1. ASSUME NEW m \in Folk \ {n} PROVE RowOK(m)'
  <2>1. OnTabs(m)' = OnTabs(m)
    BY DEF OnTabs
  <2>2. OnTabs(m) \subseteq doomed \cup survivor => OnTabs(m)' \subseteq doomed' \cup survivor'
    BY <2>1 DEF OnTabs
  <2>3. \A op \in RosterOps : Pending(m, op)' <=> Pending(m, op)
    BY DEF Pending
  <2>4. RowOK(m)
    BY DEF StandingOK
  <2> QED BY <2>1, <2>2, <2>3, <2>4 DEF RowOK, RosterOps
<1> QED BY <1>1 DEF StandingOK

\* A quiet step about n: what is due of n must not shrink.
LEMMA QuietStep ==
  ASSUME RosterInductive, NEW n \in Folk, viewer' = viewer, RosterTypeOK', RowOK(n)',
         \A m \in Folk \ {n} :
           /\ member'[m] = member[m] /\ request'[m] = request[m]
           /\ \A t \in RoomTabs : TabFolk[t] = m =>
                /\ consumer'[t] = consumer[t]
                /\ t \in doomed' <=> t \in doomed
                /\ t \in survivor' <=> t \in survivor
           /\ m \in twofold' <=> m \in twofold
           /\ m \in ghost' <=> m \in ghost,
         missed' = missed,
         \A v \in Viewers : Due(v, n) \subseteq Due(v, n)',
         \A v \in Viewers : HostSees(v, n) => HostSees(v, n)' \/ Due(v, n)' = RosterRow
  PROVE  RosterInductive'
<1>1. ASSUME NEW v \in Viewers, NEW m \in Folk PROVE PageIsDue(v, m)'
  <2>1. CASE m = n
    BY <2>1, QuietKeeps DEF RosterInductive
  <2>2. CASE m # n
    <3>1. Due(v, m) \subseteq Due(v, m)' /\ (HostSees(v, m)' <=> HostSees(v, m))
      BY <2>2, OthersKeepDue
    <3> QED BY <3>1, QuietKeeps DEF RosterInductive
  <2> QED BY <2>1, <2>2
<1>2. StandingOK'
  BY OthersKeepStanding DEF RosterInductive
<1> QED BY <1>1, <1>2 DEF RosterInductive

\* A step that tells of n: the event makes what is due of n.
LEMMA TellStep ==
  ASSUME RosterInductive, NEW type \in Told, NEW n \in Folk, Tell(type, n), member' = member,
         RosterTypeOK', RowOK(n)',
         \A m \in Folk \ {n} :
           /\ request'[m] = request[m]
           /\ \A t \in RoomTabs : TabFolk[t] = m =>
                /\ consumer'[t] = consumer[t]
                /\ t \in doomed' <=> t \in doomed
                /\ t \in survivor' <=> t \in survivor
           /\ m \in twofold' <=> m \in twofold
           /\ m \in ghost' <=> m \in ghost,
         missed' = missed,
         \A v \in Viewers, r \in RosterRow :
           LET next == RowAfter([type |-> type, of |-> n], r, v \in Hosts) IN
           /\ r \in Due(v, n) => next \in Due(v, n)'
           /\ next \in Due(v, n)' \cup {r} \/ (r = "none" /\ HostSees(v, n))
  PROVE  RosterInductive'
<1>1. ASSUME NEW v \in Viewers, NEW m \in Folk PROVE PageIsDue(v, m)'
  <2>1. m # n => Due(v, m) \subseteq Due(v, m)'
    BY OthersKeepDue
  <2> QED BY <2>1, TellKeeps DEF RosterInductive
<1>2. StandingOK'
  BY OthersKeepStanding DEF RosterInductive
<1> QED BY <1>1, <1>2 DEF RosterInductive

-----------------------------------------------------------------------------
\* Requests.

LEMMA JoinToldKeeps ==
  ASSUME RosterInductive, NEW op \in {"join", "wait"}, NEW n \in Folk, NEW q \in RosterReqs,
         JoinTold(op, n, q)
  PROVE  RosterInductive'
<1> DEFINE word == IF op = "wait" THEN "waiting_room_entry" ELSE "user_joined"
<1>0. /\ word \in Told /\ Tell(word, n) /\ op \in RosterOps /\ Begin(op, n, q) /\ RosterTypeOK
      /\ RowOK(n) /\ member[n] = "absent" /\ ~Pending(n, "join") /\ ~Pending(n, "wait")
      /\ UNCHANGED <<member, consumer, doomed, twofold, ghost, survivor, missed>>
  BY DEF JoinTold, Told, RosterOps, RosterInductive, StandingOK
<1>1. RosterTypeOK'
  BY <1>0, TellType, BeginPends DEF RosterTypeOK
<1>2. OnTabs(n) = {} /\ OnTabs(n)' = {} /\ ~Settled(n) /\ ~Settled(n)'
  BY <1>0 DEF RowOK, OnTabs, Settled, InTheRoom
<1>3. \A o \in RosterOps : Pending(n, o)' <=> Pending(n, o) \/ o = op
  BY <1>0, BeginPends
<1>4. RowOK(n)'
  <2>1. \A r \in RosterReqs : request[n][r] \notin {"join", "wait"}
    BY <1>0 DEF Pending
  <2>2. \A r, s \in RosterReqs :
          request'[n][r] \in {"join", "wait"} /\ request'[n][s] \in {"join", "wait"} => r = s
    BY <2>1, <1>0, BeginPends
  <2> QED BY <2>2, <1>0, <1>2, <1>3 DEF RowOK, RosterOps
<1>5. ASSUME NEW v \in Viewers, NEW r \in RosterRow
      PROVE  LET next == RowAfter([type |-> word, of |-> n], r, v \in Hosts) IN
             /\ r \in Due(v, n) => next \in Due(v, n)'
             /\ next \in Due(v, n)' \cup {r} \/ (r = "none" /\ HostSees(v, n))
  <2>1. ~Pending(n, "remove") /\ ~Pending(n, "deny")
    BY <1>0 DEF RowOK
  <2>2. CASE op = "wait"
    <3>1. Due(v, n) = IF n \in twofold \cup ghost THEN RosterRow ELSE {"none"}
      BY <1>0, <1>2, <2>1 DEF Due
    <3>2. ~Pending(n, "remove")' /\ ~Pending(n, "deny")' /\ ~Pending(n, "join")' /\ Pending(n, "wait")'
      BY <1>0, <1>3, <2>1, <2>2 DEF RosterOps
    <3>3. Due(v, n)' = IF n \in twofold THEN RosterRow
                      ELSE IF v \in Hosts
                        THEN IF <<v, n>> \in missed THEN RosterRow ELSE {"waiting"}
                      ELSE IF n \in ghost THEN RosterRow ELSE {"none"}
      BY <1>0, <1>2, <3>2 DEF Due
    <3>4. RowAfter([type |-> word, of |-> n], r, v \in Hosts) =
            IF v \in Hosts THEN "waiting" ELSE r
      BY <2>2 DEF RowAfter
    <3> QED BY <3>1, <3>3, <3>4 DEF RosterRow
  <2>3. CASE op = "join"
    <3>1. Pending(n, "join")'
      BY <1>3, <2>3 DEF RosterOps
    <3>2. Due(v, n)' = RosterRow
      BY <1>2, <3>1 DEF Due
    <3> QED BY <3>2, RowAfterType
  <2> QED BY <2>2, <2>3
<1> HIDE DEF word
<1> QED BY <1>0, <1>1, <1>4, <1>5, BeginPends, TellStep

LEMMA JoinKeeps ==
  ASSUME RosterInductive, NEW op, NEW n \in Folk, NEW q \in RosterReqs, join_classroom(op, n, q)
  PROVE  RosterInductive'
<1>0. /\ op \in {"join", "wait"} /\ op \in RosterOps /\ Finish(op, n, q) /\ RosterTypeOK /\ RowOK(n)
      /\ member' = [member EXCEPT ![n] = IF op = "wait" THEN "waiting" ELSE "active"]
      /\ UNCHANGED <<consumer, doomed, viewer, twofold, ghost, survivor, missed>>
  BY DEF join_classroom, Finish, RosterOps, RosterInductive, StandingOK
<1>1. RosterTypeOK'
  BY <1>0, FinishPends DEF RosterTypeOK, Standing, Finish
<1>2. /\ Pending(n, op) /\ request[n][q] = op
      /\ \A r \in RosterReqs : request'[n][r] = IF r = q THEN "none" ELSE request[n][r]
      /\ \A o \in RosterOps : Pending(n, o)' => Pending(n, o)
  BY <1>0, FinishPends DEF Finish
<1>3. ~Pending(n, "join")' /\ ~Pending(n, "wait")'
  BY <1>0, <1>2 DEF RowOK, Pending
<1>4. member[n] = "absent" /\ OnTabs(n) = {} /\ OnTabs(n)' = {} /\ ~Settled(n) /\ ~Settled(n)'
  BY <1>0, <1>2 DEF RowOK, OnTabs, Settled, InTheRoom
<1>5. \A o \in RosterOps \ {"join", "wait"} : ~Pending(n, o) /\ ~Pending(n, o)'
  BY <1>0, <1>2, <1>4 DEF RowOK, RosterOps
<1>6. member'[n] = IF op = "wait" THEN "waiting" ELSE "active"
  BY <1>0 DEF RosterTypeOK
<1>7. RowOK(n)'
  <2>1. \A r \in RosterReqs : request'[n][r] \notin {"join", "wait"}
    BY <1>3 DEF Pending
  <2> QED BY <2>1, <1>3, <1>4, <1>5, <1>6 DEF RowOK, RosterOps
<1>8. ASSUME NEW v \in Viewers
      PROVE  Due(v, n) \subseteq Due(v, n)' /\ ~HostSees(v, n)
  <2>1. ~HostSees(v, n)
    BY <1>4 DEF HostSees
  <2>2. /\ ~Pending(n, "remove") /\ ~Pending(n, "deny")
        /\ ~Pending(n, "remove")' /\ ~Pending(n, "deny")'
    BY <1>5 DEF RosterOps
  <2>3. CASE op = "join"
    <3>1. Due(v, n)' = RosterRow
      BY <2>3, <1>4, <1>6 DEF Due
    <3> QED BY <2>1, <3>1 DEF Due, RosterRow
  <2>4. CASE op = "wait"
    <3>1. ~Pending(n, "join") /\ Pending(n, "wait")
      BY <2>4, <1>0, <1>2 DEF RowOK, Pending
    <3> QED
      BY <2>1, <2>2, <2>4, <3>1, <1>0, <1>3, <1>4, <1>6 DEF Due, RosterRow
  <2> QED BY <1>0, <2>3, <2>4
<1>9. \A m \in Folk \ {n} : member'[m] = member[m] /\ request'[m] = request[m]
  BY <1>0, FinishPends DEF RosterTypeOK
<1> QED BY <1>0, <1>1, <1>7, <1>8, <1>9, QuietStep

LEMMA RejoinKeeps ==
  ASSUME RosterInductive, NEW n \in Folk, Rejoin(n)
  PROVE  RosterInductive'
<1>0. RosterTypeOK /\ RowOK(n)
  BY DEF RosterInductive, StandingOK
<1>1. RosterTypeOK'
  BY <1>0 DEF Rejoin, RosterTypeOK, Standing
<1>2. /\ member[n] = "inactive" /\ member' = [member EXCEPT ![n] = "active"]
      /\ UNCHANGED <<request, consumer, doomed, viewer, twofold, ghost, survivor, missed>>
      /\ OnTabs(n)' = OnTabs(n) /\ member'[n] = "active"
  BY <1>0 DEF Rejoin, OnTabs, RosterTypeOK
<1>3. \A o \in RosterOps : Pending(n, o)' <=> Pending(n, o)
  BY <1>2 DEF Pending
<1>4. RowOK(n)'
  BY <1>0, <1>2, <1>3 DEF RowOK, RosterOps
<1>5. ~Settled(n)
  BY <1>0, <1>2 DEF Settled, InTheRoom, RowOK
<1>6. ~Settled(n)'
  <2>1. InTheRoom(n)' <=> InTheRoom(n)
    BY <1>2 DEF InTheRoom
  <2> QED BY <2>1, <1>3, <1>5 DEF Settled, RosterOps
<1>7. ASSUME NEW v \in Viewers
      PROVE  Due(v, n) \subseteq Due(v, n)' /\ ~HostSees(v, n)
  BY <1>2, <1>5, <1>6 DEF Due, RosterRow, HostSees
<1>8. \A m \in Folk \ {n} : member'[m] = member[m] /\ request'[m] = request[m]
  BY <1>0, <1>2 DEF RosterTypeOK
<1> QED BY <1>1, <1>2, <1>4, <1>7, <1>8, QuietStep

LEMMA SavedKeeps ==
  ASSUME RosterInductive, NEW op, NEW n \in Folk, NEW q \in RosterReqs, Saved(op, n, q)
  PROVE  RosterInductive'
<1>0. /\ op \in {"approve", "deny", "remove", "mute"} /\ op \in RosterOps /\ Begin(op, n, q)
      /\ RosterTypeOK /\ RowOK(n) /\ member[n] # "absent"
      /\ member' = [member EXCEPT ![n] = SavedAs(op, @)]
      /\ ghost' = ghost \cup {m \in {n} : op = "deny" /\ member[m] = "active"}
      /\ UNCHANGED <<consumer, doomed, viewer, twofold, survivor, missed>>
  BY DEF Saved, RosterOps, RosterInductive, StandingOK
<1>1. member[n] \in {"waiting", "active", "inactive"} /\ member'[n] = SavedAs(op, member[n])
  BY <1>0 DEF RosterTypeOK, Standing
<1>2. RosterTypeOK'
  <2>1. SavedAs(op, member[n]) \in Standing
    BY <1>1 DEF SavedAs, Standing
  <2> QED BY <2>1, <1>0, BeginPends DEF RosterTypeOK, Begin
<1>3. OnTabs(n)' = OnTabs(n) /\ (InTheRoom(n)' <=> InTheRoom(n))
  BY <1>0 DEF InTheRoom, OnTabs
<1>4. \A o \in RosterOps : Pending(n, o)' <=> Pending(n, o) \/ o = op
  BY <1>0, BeginPends
<1>5. ~Pending(n, "join") /\ ~Pending(n, "wait") /\ ~Pending(n, "join")' /\ ~Pending(n, "wait")'
  BY <1>0, <1>4 DEF RowOK, RosterOps
<1>6. RowOK(n)'
  <2>1. \A r \in RosterReqs : request'[n][r] \notin {"join", "wait"}
    BY <1>5 DEF Pending
  <2> QED BY <2>1, <1>0, <1>1, <1>3, <1>4, <1>5 DEF RowOK, RosterOps, SavedAs
<1>7. member[n] = "waiting" => OnTabs(n) = {} /\ ~InTheRoom(n)
  BY <1>0 DEF RowOK, InTheRoom
<1>8. n \in ghost' <=> n \in ghost \/ (op = "deny" /\ member[n] = "active")
  BY <1>0
<1>9. Settled(n)' <=> Settled(n) /\ op \notin {"deny", "remove"}
  BY <1>3, <1>4 DEF Settled, RosterOps
<1>10. Settled(n) => OnTabs(n) # {}
  BY DEF Settled, InTheRoom
<1>11. /\ Pending(n, "remove")' <=> Pending(n, "remove") \/ op = "remove"
       /\ Pending(n, "deny")' <=> Pending(n, "deny") \/ op = "deny"
  BY <1>4 DEF RosterOps
<1>12. ASSUME NEW v \in Viewers
       PROVE  /\ Due(v, n) \subseteq Due(v, n)'
              /\ HostSees(v, n) => HostSees(v, n)' \/ Due(v, n)' = RosterRow
  <2>1. CASE op = "remove"
    <3>1. Due(v, n)' = RosterRow
      BY <2>1, <1>9, <1>11 DEF Due
    <3> QED BY <3>1 DEF Due, RosterRow
  <2>2. CASE op = "deny"
    BY <2>2, <1>0, <1>1, <1>3, <1>5, <1>7, <1>8, <1>9, <1>10, <1>11
    DEF Due, RosterRow, SavedAs, HostSees
  <2>3. CASE op \in {"approve", "mute"}
    BY <2>3, <1>0, <1>1, <1>3, <1>5, <1>7, <1>8, <1>9, <1>10, <1>11
    DEF Due, RosterRow, SavedAs, HostSees
  <2> QED BY <1>0, <2>1, <2>2, <2>3
<1>13. \A m \in Folk \ {n} : /\ member'[m] = member[m] /\ request'[m] = request[m]
                             /\ m \in ghost' <=> m \in ghost
  BY <1>0, BeginPends DEF RosterTypeOK
<1> QED BY <1>0, <1>2, <1>6, <1>12, <1>13, QuietStep

\* A row that appears: of somebody in the room, or of a ghost.
LEMMA AppearsKeeps ==
  ASSUME RosterInductive, NEW n \in Folk, NEW q \in RosterReqs,
         approve_waiting_room(n, q) \/ set_member_muted(n, q)
  PROVE  RosterInductive'
<1> DEFINE op   == IF approve_waiting_room(n, q) THEN "approve" ELSE "mute"
           type == IF approve_waiting_room(n, q) THEN "waiting_room_approved" ELSE "participant_muted"
<1>0. /\ op \in {"approve", "mute"} /\ op \in RosterOps /\ Finish(op, n, q) /\ RosterTypeOK /\ RowOK(n)
      /\ type \in Told /\ Tell(type, n)
      /\ type = "waiting_room_approved" <=> op = "approve"
      /\ type = "participant_muted" <=> op = "mute"
      /\ ghost' = ghost \cup {m \in {n} : member[m] # "active"}
      /\ UNCHANGED <<member, consumer, doomed, twofold, survivor, missed>>
  BY DEF approve_waiting_room, set_member_muted, RowAppears, Told, RosterOps, RosterInductive,
         StandingOK, Finish
<1> HIDE DEF op, type
<1>1. RosterTypeOK'
  BY <1>0, TellType, FinishPends DEF RosterTypeOK, Finish
<1>2. /\ Pending(n, op)
      /\ \A o \in RosterOps : Pending(n, o)' => Pending(n, o)
      /\ \A o \in RosterOps \ {op} : Pending(n, o)' <=> Pending(n, o)
      /\ \A r \in RosterReqs : request'[n][r] \in {"join", "wait"} => request'[n][r] = request[n][r]
  BY <1>0, FinishPends
<1>3. OnTabs(n)' = OnTabs(n) /\ (Settled(n)' <=> Settled(n))
  <2>1. OnTabs(n)' = OnTabs(n) /\ (InTheRoom(n)' <=> InTheRoom(n))
    BY <1>0 DEF InTheRoom, OnTabs
  <2> QED BY <2>1, <1>0, <1>2 DEF Settled, RosterOps
<1>4. RowOK(n)'
  BY <1>0, <1>2, <1>3 DEF RowOK, RosterOps
<1>5. member[n] \in {"waiting", "active", "inactive"} /\ (op = "approve" => member[n] # "waiting")
  BY <1>0, <1>2 DEF RowOK, RosterTypeOK, Standing
<1>6. n \in ghost' <=> n \in ghost \/ member[n] # "active"
  BY <1>0
<1>7. /\ Pending(n, "remove")' <=> Pending(n, "remove")
      /\ Pending(n, "deny")' <=> Pending(n, "deny")
      /\ Pending(n, "join")' <=> Pending(n, "join")
      /\ ~Pending(n, "wait") /\ ~Pending(n, "wait")'
  BY <1>0, <1>2, <1>5 DEF RosterOps, RowOK
<1>8. ASSUME NEW v \in Viewers, NEW r \in RosterRow
      PROVE  LET next == RowAfter([type |-> type, of |-> n], r, v \in Hosts) IN
             /\ r \in Due(v, n) => next \in Due(v, n)'
             /\ next \in Due(v, n)' \cup {r} \/ (r = "none" /\ HostSees(v, n))
  <2>1. Due(v, n)' = IF n \in twofold THEN RosterRow
                    ELSE IF Settled(n) THEN {"room"}
                    ELSE IF v \in Hosts /\ member[n] = "waiting" /\ OnTabs(n) = {}
                            /\ ~Pending(n, "join") /\ ~Pending(n, "remove") /\ <<v, n>> \notin missed
                      THEN {"waiting"}
                    ELSE RosterRow
    BY <1>0, <1>3, <1>5, <1>6, <1>7 DEF Due
  <2>2. Due(v, n) \subseteq Due(v, n)'
    BY <2>1, <1>0, <1>3, <1>5, <1>7 DEF Due, RosterRow
  <2>3. Due(v, n) = {"room"} => Due(v, n)' \in {{"room"}, RosterRow}
    BY <2>1, <1>0, <1>3, <1>5, <1>7 DEF Due, RosterRow
  <2>4. CASE op = "approve"
    <3>1. RowAfter([type |-> type, of |-> n], r, v \in Hosts) = IF v \in Hosts THEN "room" ELSE r
      BY <1>0, <2>4 DEF RowAfter
    <3>2. Due(v, n)' = {"room"} \/ Due(v, n)' = RosterRow
      BY <2>1, <2>4, <1>5
    <3> QED BY <2>2, <3>1, <3>2 DEF RosterRow
  <2>5. CASE op = "mute"
    <3>1. RowAfter([type |-> type, of |-> n], r, v \in Hosts) = IF r = "none" THEN "room" ELSE r
      BY <1>0, <2>5 DEF RowAfter
    <3>2. \/ Due(v, n)' = {"room"} \/ Due(v, n)' = RosterRow
          \/ Due(v, n)' = {"waiting"} /\ HostSees(v, n)
      BY <2>1 DEF HostSees
    <3> QED BY <2>2, <3>1, <3>2 DEF RosterRow
  <2> QED BY <1>0, <2>4, <2>5
<1>9. \A m \in Folk \ {n} : request'[m] = request[m] /\ (m \in ghost' <=> m \in ghost)
  BY <1>0, FinishPends
<1> QED BY <1>0, <1>1, <1>4, <1>8, <1>9, TellStep

LEMMA DenyKeeps ==
  ASSUME RosterInductive, NEW n \in Folk, NEW q \in RosterReqs, deny_waiting_room(n, q)
  PROVE  RosterInductive'
<1>0. /\ Finish("deny", n, q) /\ "deny" \in RosterOps /\ RosterTypeOK /\ RowOK(n)
      /\ Tell("waiting_room_denied", n) /\ "waiting_room_denied" \in Told
      /\ survivor' = survivor \cup
           {t \in OnTabs(n) : member[n] # "active" \/ consumer[t] \in {"on", "telling"}}
      /\ UNCHANGED <<member, consumer, doomed, twofold, ghost, missed>>
  BY DEF deny_waiting_room, Told, RosterOps, RosterInductive, StandingOK, Finish
<1>1. RosterTypeOK'
  BY <1>0, TellType, FinishPends DEF RosterTypeOK, Finish, OnTabs
<1>2. /\ Pending(n, "deny")
      /\ \A o \in RosterOps : Pending(n, o)' => Pending(n, o)
      /\ \A o \in RosterOps \ {"deny"} : Pending(n, o)' <=> Pending(n, o)
      /\ \A r \in RosterReqs : request'[n][r] \in {"join", "wait"} => request'[n][r] = request[n][r]
  BY <1>0, FinishPends
<1>3. /\ OnTabs(n)' = OnTabs(n) /\ ~InTheRoom(n)'
      /\ member[n] # "active" => OnTabs(n)' \subseteq doomed' \cup survivor'
  BY <1>0 DEF InTheRoom, OnTabs
<1>4. member[n] \in {"active", "inactive"} /\ ~Settled(n)' /\ ~Settled(n)
  BY <1>0, <1>2, <1>3 DEF RowOK, Settled
<1>5. RowOK(n)'
  BY <1>0, <1>2, <1>3, <1>4 DEF RowOK, RosterOps
<1>6. /\ Pending(n, "remove")' <=> Pending(n, "remove")
      /\ Pending(n, "join")' <=> Pending(n, "join")
      /\ ~Pending(n, "wait") /\ ~Pending(n, "wait")'
  BY <1>0, <1>2, <1>4 DEF RosterOps, RowOK
<1>7. ASSUME NEW v \in Viewers, NEW r \in RosterRow
      PROVE  LET next == RowAfter([type |-> "waiting_room_denied", of |-> n], r, v \in Hosts) IN
             /\ r \in Due(v, n) => next \in Due(v, n)'
             /\ next \in Due(v, n)' \cup {r} \/ (r = "none" /\ HostSees(v, n))
  <2>1. "none" \in Due(v, n)'
    BY <1>0, <1>4, <1>6 DEF Due, RosterRow
  <2>2. v \notin Hosts => Due(v, n) \subseteq Due(v, n)'
    BY <1>0, <1>3, <1>4, <1>6 DEF Due, RosterRow
  <2>3. RowAfter([type |-> "waiting_room_denied", of |-> n], r, v \in Hosts) =
          IF v \in Hosts THEN "none" ELSE r
    BY DEF RowAfter
  <2> QED BY <2>1, <2>2, <2>3
<1>8. \A m \in Folk \ {n} :
        /\ request'[m] = request[m]
        /\ \A t \in RoomTabs : TabFolk[t] = m => (t \in survivor' <=> t \in survivor)
  BY <1>0, FinishPends DEF OnTabs
<1> QED BY <1>0, <1>1, <1>5, <1>7, <1>8, TellStep

LEMMA RemoveKeeps ==
  ASSUME RosterInductive, NEW n \in Folk, NEW q \in RosterReqs, remove_member(n, q)
  PROVE  RosterInductive'
<1>0. /\ Finish("remove", n, q) /\ "remove" \in RosterOps /\ RosterTypeOK /\ RowOK(n)
      /\ Tell("participant_removed", n) /\ "participant_removed" \in Told
      /\ doomed' = doomed \cup {t \in OnTabs(n) : consumer[t] # "loaded"}
      /\ survivor' = survivor \cup {t \in OnTabs(n) : consumer[t] = "loaded"}
      /\ ghost' = ghost \ {n}
      /\ UNCHANGED <<member, consumer, twofold, missed>>
  BY DEF remove_member, Told, RosterOps, RosterInductive, StandingOK, Finish
<1>1. RosterTypeOK'
  BY <1>0, TellType, FinishPends DEF RosterTypeOK, Finish, OnTabs
<1>2. /\ Pending(n, "remove")
      /\ \A o \in RosterOps : Pending(n, o)' => Pending(n, o)
      /\ \A r \in RosterReqs : request'[n][r] \in {"join", "wait"} => request'[n][r] = request[n][r]
  BY <1>0, FinishPends
<1>3. OnTabs(n)' = OnTabs(n) /\ OnTabs(n)' \subseteq doomed' \cup survivor' /\ ~InTheRoom(n)'
  BY <1>0 DEF InTheRoom, OnTabs
<1>4. member[n] \in {"active", "inactive"} /\ ~Settled(n)' /\ ~Pending(n, "wait")'
  BY <1>0, <1>2, <1>3 DEF RowOK, Settled, RosterOps
<1>5. RowOK(n)'
  BY <1>0, <1>2, <1>3, <1>4 DEF RowOK, RosterOps
<1>6. ASSUME NEW v \in Viewers, NEW r \in RosterRow
      PROVE  LET next == RowAfter([type |-> "participant_removed", of |-> n], r, v \in Hosts) IN
             /\ r \in Due(v, n) => next \in Due(v, n)'
             /\ next \in Due(v, n)' \cup {r} \/ (r = "none" /\ HostSees(v, n))
  <2>1. "none" \in Due(v, n)'
    BY <1>0, <1>4 DEF Due, RosterRow
  <2> QED BY <2>1 DEF RowAfter
<1>7. \A m \in Folk \ {n} :
        /\ request'[m] = request[m] /\ (m \in ghost' <=> m \in ghost)
        /\ \A t \in RoomTabs : TabFolk[t] = m =>
             /\ t \in survivor' <=> t \in survivor
             /\ t \in doomed' <=> t \in doomed
  BY <1>0, FinishPends DEF OnTabs
<1> QED BY <1>0, <1>1, <1>5, <1>6, <1>7, TellStep

-----------------------------------------------------------------------------
\* Consumers.

LEMMA ConsumerQuietKeeps ==
  ASSUME RosterInductive, NEW t \in RoomTabs,
         ConsumerLoads(t) \/ ConsumerJoins(t) \/ ConsumerHears(t)
  PROVE  RosterInductive'
<1> DEFINE n == TabFolk[t]
           next == IF ConsumerLoads(t) THEN "loaded"
                   ELSE IF ConsumerJoins(t) THEN "joined" ELSE "telling"
<1>0. n \in Folk
  BY RosterAssumption
<1>1. /\ consumer' = [consumer EXCEPT ![t] = next] /\ RosterTypeOK /\ RowOK(n)
      /\ next \in {"loaded", "joined", "telling"}
      /\ next = "loaded" => member[n] = "active" /\ consumer[t] = "off"
      /\ next = "joined" => consumer[t] = "loaded"
      /\ next = "telling" => consumer[t] = "on"
      /\ UNCHANGED <<member, request, doomed, viewer, twofold, ghost, survivor, missed>>
  BY <1>0 DEF ConsumerLoads, ConsumerJoins, ConsumerHears, RosterInductive, StandingOK
<1> HIDE DEF next
<1>2. RosterTypeOK'
  BY <1>1 DEF RosterTypeOK
<1>3. /\ OnTabs(n) \subseteq OnTabs(n)'
      /\ InTheRoom(n)' <=> InTheRoom(n)
      /\ next # "loaded" => OnTabs(n)' = OnTabs(n)
  BY <1>1 DEF InTheRoom, OnTabs, RosterTypeOK
<1>4. \A u \in RoomTabs : TabFolk[u] # n => consumer'[u] = consumer[u]
  BY <1>1 DEF RosterTypeOK
<1>5. \A o \in RosterOps : Pending(n, o)' <=> Pending(n, o)
  BY <1>1 DEF Pending
<1>6. RowOK(n)'
  BY <1>1, <1>3, <1>5 DEF RowOK, RosterOps
<1>7. Settled(n)' <=> Settled(n)
  BY <1>3, <1>5 DEF Settled, RosterOps
<1>8. ASSUME NEW v \in Viewers PROVE Due(v, n) \subseteq Due(v, n)' /\ (HostSees(v, n)' <=> HostSees(v, n))
  BY <1>1, <1>3, <1>5, <1>7 DEF Due, RosterRow, RosterOps, HostSees
<1> QED BY <1>0, <1>1, <1>2, <1>4, <1>6, <1>8, QuietStep

\* connect and receive_json.
LEMMA ConsumerTellsKeeps ==
  ASSUME RosterInductive, NEW t \in RoomTabs, connect(t) \/ receive_json(t)
  PROVE  RosterInductive'
<1> DEFINE n == TabFolk[t]
           type == IF connect(t) THEN "user_joined" ELSE "media_state"
<1>0. n \in Folk
  BY RosterAssumption
<1>1. /\ consumer' = [consumer EXCEPT ![t] = "on"] /\ RosterTypeOK /\ RowOK(n)
      /\ consumer[t] \in {"joined", "telling"}
      /\ type \in {"user_joined", "media_state"} /\ type \in Told
      /\ Tell(type, n)
      /\ UNCHANGED <<member, request, doomed, twofold, ghost, survivor, missed>>
  BY <1>0 DEF connect, receive_json, Told, RosterInductive, StandingOK
<1> HIDE DEF type
<1>2. RosterTypeOK'
  BY <1>0, <1>1, TellType DEF RosterTypeOK
<1>3. OnTabs(n)' = OnTabs(n) /\ OnTabs(n) # {}
  BY <1>1 DEF OnTabs, RosterTypeOK
<1>4. \A u \in RoomTabs : TabFolk[u] # n => consumer'[u] = consumer[u]
  BY <1>1 DEF RosterTypeOK
<1>5. \A o \in RosterOps : Pending(n, o)' <=> Pending(n, o)
  BY <1>1 DEF Pending
<1>6. RowOK(n)'
  BY <1>1, <1>3, <1>5 DEF RowOK, RosterOps
<1>7. ASSUME NEW v \in Viewers, NEW r \in RosterRow
      PROVE  LET next == RowAfter([type |-> type, of |-> n], r, v \in Hosts) IN
             /\ r \in Due(v, n) => next \in Due(v, n)'
             /\ next \in Due(v, n)' \cup {r} \/ (r = "none" /\ HostSees(v, n))
  <2>1. "room" \in Due(v, n)'
    BY <1>3 DEF Due, RosterRow
  <2>2. RowAfter([type |-> type, of |-> n], r, v \in Hosts) = "room"
    BY <1>1 DEF RowAfter
  <2> QED BY <2>1, <2>2
<1> QED BY <1>0, <1>1, <1>2, <1>4, <1>6, <1>7, TellStep

LEMMA DisconnectKeeps ==
  ASSUME RosterInductive, NEW t \in RoomTabs, disconnect(t)
  PROVE  RosterInductive'
<1> DEFINE n == TabFolk[t]
<1>0. n \in Folk
  BY RosterAssumption
<1>1. /\ consumer[t] = "on" /\ consumer' = [consumer EXCEPT ![t] = "off"]
      /\ RosterTypeOK /\ RowOK(n)
      /\ Tell("user_left", n) /\ "user_left" \in Told
      /\ doomed' = doomed \ {t} /\ survivor' = survivor \ {t} /\ ghost' = ghost \ {n}
      /\ twofold' = twofold \cup (IF OnTabs(n) # {t} THEN {n} ELSE {})
      /\ UNCHANGED <<member, request, missed>>
  BY <1>0 DEF disconnect, Told, RosterInductive, StandingOK
<1>2. RosterTypeOK'
  BY <1>0, <1>1, TellType DEF RosterTypeOK
<1>3. OnTabs(n)' = OnTabs(n) \ {t} /\ t \in OnTabs(n)
  BY <1>1 DEF OnTabs, RosterTypeOK
<1>4. \A u \in RoomTabs : TabFolk[u] # n =>
         /\ consumer'[u] = consumer[u]
         /\ u \in doomed' <=> u \in doomed
         /\ u \in survivor' <=> u \in survivor
  BY <1>1 DEF RosterTypeOK
<1>5. \A o \in RosterOps : Pending(n, o)' <=> Pending(n, o)
  BY <1>1 DEF Pending
<1>6. member[n] \notin {"absent", "waiting"}
  BY <1>1, <1>3 DEF RowOK
<1>7. RowOK(n)'
  BY <1>1, <1>3, <1>5, <1>6 DEF RowOK, RosterOps
<1>8. ASSUME NEW v \in Viewers, NEW r \in RosterRow
      PROVE  LET next == RowAfter([type |-> "user_left", of |-> n], r, v \in Hosts) IN
             /\ r \in Due(v, n) => next \in Due(v, n)'
             /\ next \in Due(v, n)' \cup {r} \/ (r = "none" /\ HostSees(v, n))
  <2>1. "none" \in Due(v, n)'
    <3>1. n \notin twofold' => OnTabs(n)' = {}
      BY <1>1, <1>3
    <3>2. n \notin twofold' => ~Settled(n)'
      BY <3>1 DEF InTheRoom, Settled
    <3>3. ~Pending(n, "wait")'
      BY <1>1, <1>5, <1>6 DEF RowOK, RosterOps
    <3> QED BY <1>1, <1>6, <3>1, <3>2, <3>3 DEF Due, RosterRow
  <2> QED BY <2>1 DEF RowAfter
<1>9. \A m \in Folk \ {n} : (m \in twofold' <=> m \in twofold) /\ (m \in ghost' <=> m \in ghost)
  BY <1>1
<1> QED BY <1>0, <1>1, <1>2, <1>4, <1>7, <1>8, <1>9, TellStep

-----------------------------------------------------------------------------
\* Pages.

\* A step of a page changes nothing that is due.
LEMMA RosterPageStep ==
  ASSUME RosterInductive, NEW v \in Viewers, NEW page \in ViewerPage,
         viewer' = [viewer EXCEPT ![v] = page],
         UNCHANGED <<member, request, consumer, doomed, survivor, twofold, ghost>>,
         missed \subseteq missed',
         \A m \in Folk : PageIsDue(v, m)'
  PROVE  RosterInductive'
<1>1. RosterTypeOK'
  BY DEF RosterInductive, RosterTypeOK
<1>2. StandingOK'
  <2>1. \A m \in Folk : OnTabs(m)' = OnTabs(m)
    BY DEF OnTabs
  <2>2. \A m \in Folk, o \in RosterOps : Pending(m, o)' <=> Pending(m, o)
    BY DEF Pending
  <2>3. ASSUME NEW m \in Folk PROVE RowOK(m)'
    <3>1. RowOK(m)
      BY DEF RosterInductive, StandingOK
    <3> QED BY <3>1, <2>1, <2>2 DEF RowOK, RosterOps
  <2> QED BY <2>3 DEF StandingOK
<1>3. ASSUME NEW u \in Viewers, NEW m \in Folk PROVE PageIsDue(u, m)'
  <2>1. CASE u = v
    BY <2>1
  <2>2. CASE u # v
    <3>1. Due(u, m) \subseteq Due(u, m)' /\ (HostSees(u, m)' <=> HostSees(u, m))
      BY OthersKeepDue
    <3>2. viewer'[u] = viewer[u]
      BY <2>2 DEF RosterInductive, RosterTypeOK
    <3> QED BY <3>1, <3>2 DEF PageIsDue, RosterInductive
  <2> QED BY <2>1, <2>2
<1> QED BY <1>1, <1>2, <1>3 DEF RosterInductive

LEMMA ViewerJoinsKeeps ==
  ASSUME RosterInductive, NEW v \in Viewers, ViewerJoins(v)
  PROVE  RosterInductive'
<1> DEFINE page == [conn |-> "joining", inbox |-> <<>>, rows |-> viewer[v].rows]
<1>1. viewer \in [Viewers -> ViewerPage]
  BY DEF RosterInductive, RosterTypeOK
<1>2. page \in ViewerPage
  BY <1>1 DEF ViewerPage
<1>3. viewer' = [viewer EXCEPT ![v] = page]
  BY DEF ViewerJoins
<1>4. viewer'[v] = page
  BY <1>1, <1>3
<1>5. ASSUME NEW m \in Folk PROVE PageIsDue(v, m)'
  <2>1. \A from \in RosterRow : RowRun(<<>>, m, v \in Hosts, from, from)
    BY RunOfNothing
  <2> QED BY <2>1, <1>4 DEF PageIsDue
<1> HIDE DEF page
<1> QED BY <1>2, <1>3, <1>5, RosterPageStep DEF ViewerJoins

LEMMA SnapshotKeeps ==
  ASSUME RosterInductive, NEW v \in Viewers, _snapshot(v)
  PROVE  RosterInductive'
<1> DEFINE page == [conn |-> "on", inbox |-> viewer[v].inbox,
                    rows |-> [m \in Folk |-> participant_list(v, m)]]
<1>1. viewer \in [Viewers -> ViewerPage] /\ viewer[v].conn = "joining"
  BY DEF RosterInductive, RosterTypeOK, _snapshot
<1>2. page \in ViewerPage
  BY <1>1 DEF ViewerPage, participant_list, RosterRow
<1>3. viewer' = [viewer EXCEPT ![v] = page]
  BY DEF _snapshot
<1>4. viewer'[v] = page
  BY <1>1, <1>3
<1>5. ASSUME NEW m \in Folk PROVE PageIsDue(v, m)'
  <2> DEFINE from == participant_list(v, m)
  <2>0. from \in RosterRow
    BY DEF participant_list, RosterRow
  <2>1. PICK r \in RosterRow :
          /\ RowRun(viewer[v].inbox, m, v \in Hosts, from, r)
          /\ r \in Due(v, m) \cup {from} \/ (from = "none" /\ HostSees(v, m))
    BY <1>1, <2>0 DEF RosterInductive, PageIsDue
  <2>2. Due(v, m) \subseteq Due(v, m)'
    BY OthersKeepDue DEF _snapshot
  <2>3. from \in Due(v, m)'
    <3>1. /\ OnTabs(m)' = OnTabs(m)
          /\ UNCHANGED <<member, request, twofold, ghost, doomed, survivor, consumer>>
          /\ RowOK(m) /\ member[m] \in Standing
      BY DEF _snapshot, OnTabs, RosterInductive, StandingOK, RosterTypeOK
    <3>2. \A o \in RosterOps : Pending(m, o)' <=> Pending(m, o)
      BY <3>1 DEF Pending
    <3>3. Settled(m)' <=> Settled(m)
      BY <3>1, <3>2 DEF Settled, InTheRoom, RosterOps
    <3>4. Settled(m) => member[m] = "active"
      BY <3>1 DEF Settled, InTheRoom, RowOK, Standing
    <3>5. Pending(m, "wait") => <<v, m>> \in missed' /\ member[m] = "absent"
      BY <3>1 DEF _snapshot, RowOK
    <3>6. (Pending(m, "wait")' <=> Pending(m, "wait")) /\ (Pending(m, "deny")' <=> Pending(m, "deny"))
      BY <3>2 DEF RosterOps
    <3> QED BY <3>1, <3>3, <3>4, <3>5, <3>6, <2>0 DEF Due, participant_list, RosterRow, Standing
  <2>5. HostSees(v, m) => from # "none"
    BY DEF HostSees, participant_list
  <2>4. viewer'[v].conn = "on" /\ viewer'[v].inbox = viewer[v].inbox /\ viewer'[v].rows[m] = from
    BY <1>4
  <2> HIDE DEF from
  <2> QED BY <2>1, <2>2, <2>3, <2>4, <2>5 DEF PageIsDue
<1> HIDE DEF page
<1> QED BY <1>2, <1>3, <1>5, RosterPageStep DEF _snapshot

LEMMA EventKeeps ==
  ASSUME RosterInductive, NEW v \in Viewers, handleEvent(v)
  PROVE  RosterInductive'
<1> DEFINE q == viewer[v].inbox
           e == Head(q)
           rows == [viewer[v].rows EXCEPT ![e.of] = RowAfter(e, @, v \in Hosts)]
           page == [conn |-> "on", inbox |-> Tail(q), rows |-> rows]
<1>1. viewer \in [Viewers -> ViewerPage] /\ viewer[v].conn = "on" /\ q # <<>>
  BY DEF RosterInductive, RosterTypeOK, handleEvent
<1>2. q \in Seq(RosterEvent) /\ e \in RosterEvent /\ Tail(q) \in Seq(RosterEvent)
      /\ viewer[v].rows \in [Folk -> RosterRow]
  <2>1. viewer[v] \in ViewerPage
    BY <1>1
  <2>2. q \in Seq(RosterEvent) /\ viewer[v].rows \in [Folk -> RosterRow]
    BY <2>1 DEF ViewerPage, RosterEvent
  <2> QED BY <1>1, <2>2
<1>3. e.of \in Folk
  BY <1>2 DEF RosterEvent
<1>4. rows \in [Folk -> RosterRow]
  BY <1>2, <1>3, RowAfterType
<1>5. page \in ViewerPage
  BY <1>2, <1>4 DEF ViewerPage, RosterEvent
<1>6. viewer' = [viewer EXCEPT ![v] = page]
  BY DEF handleEvent
<1>7. viewer'[v] = page
  BY <1>1, <1>6
<1>8. ASSUME NEW m \in Folk PROVE PageIsDue(v, m)'
  <2>1. PICK r \in Due(v, m) : RowRun(q, m, v \in Hosts, viewer[v].rows[m], r)
    BY <1>1 DEF RosterInductive, PageIsDue
  <2>2. RowRun(Tail(q), m, v \in Hosts,
               IF e.of = m THEN RowAfter(e, viewer[v].rows[m], v \in Hosts)
               ELSE viewer[v].rows[m], r)
    BY <2>1, <1>1, <1>2, RunOfTheRest
  <2>3. rows[m] = IF e.of = m THEN RowAfter(e, viewer[v].rows[m], v \in Hosts)
                  ELSE viewer[v].rows[m]
    BY <1>2, <1>3
  <2>4. r \in Due(v, m)'
    BY <2>1, OthersKeepDue DEF handleEvent
  <2>5. viewer'[v].conn = "on" /\ viewer'[v].inbox = Tail(q) /\ viewer'[v].rows[m] = rows[m]
    BY <1>7
  <2> HIDE DEF rows, e, q
  <2> QED BY <2>2, <2>3, <2>4, <2>5 DEF PageIsDue
<1> HIDE DEF page
<1> QED BY <1>5, <1>6, <1>8, RosterPageStep DEF handleEvent

-----------------------------------------------------------------------------
LEMMA RosterStep == RosterInductive /\ [RosterNext]_rosterVars => RosterInductive'
<1> SUFFICES ASSUME RosterInductive, [RosterNext]_rosterVars PROVE RosterInductive'
  OBVIOUS
<1>1. ASSUME NEW m \in Folk, NEW q \in RosterReqs, NEW op \in {"join", "wait"}, JoinTold(op, m, q)
      PROVE  RosterInductive'
  BY <1>1, JoinToldKeeps
<1>2. ASSUME NEW m \in Folk, NEW q \in RosterReqs, NEW op \in {"join", "wait"}, join_classroom(op, m, q)
      PROVE  RosterInductive'
  BY <1>2, JoinKeeps
<1>3. ASSUME NEW m \in Folk, Rejoin(m) PROVE RosterInductive'
  BY <1>3, RejoinKeeps
<1>4. ASSUME NEW m \in Folk, NEW q \in RosterReqs, NEW op \in {"approve", "deny", "remove", "mute"},
             Saved(op, m, q)
      PROVE  RosterInductive'
  BY <1>4, SavedKeeps
<1>5. ASSUME NEW m \in Folk, NEW q \in RosterReqs, approve_waiting_room(m, q) \/ set_member_muted(m, q)
      PROVE  RosterInductive'
  BY <1>5, AppearsKeeps
<1>6. ASSUME NEW m \in Folk, NEW q \in RosterReqs, deny_waiting_room(m, q) PROVE RosterInductive'
  BY <1>6, DenyKeeps
<1>7. ASSUME NEW m \in Folk, NEW q \in RosterReqs, remove_member(m, q) PROVE RosterInductive'
  BY <1>7, RemoveKeeps
<1>10. ASSUME NEW t \in RoomTabs, ConsumerLoads(t) \/ ConsumerJoins(t) \/ ConsumerHears(t)
       PROVE  RosterInductive'
  BY <1>10, ConsumerQuietKeeps
<1>11. ASSUME NEW t \in RoomTabs, connect(t) \/ receive_json(t) PROVE RosterInductive'
  BY <1>11, ConsumerTellsKeeps
<1>12. ASSUME NEW t \in RoomTabs, disconnect(t) PROVE RosterInductive'
  BY <1>12, DisconnectKeeps
<1>13. ASSUME NEW v \in Viewers, ViewerJoins(v) PROVE RosterInductive'
  BY <1>13, ViewerJoinsKeeps
<1>14. ASSUME NEW v \in Viewers, _snapshot(v) PROVE RosterInductive'
  BY <1>14, SnapshotKeeps
<1>15. ASSUME NEW v \in Viewers, handleEvent(v) PROVE RosterInductive'
  BY <1>15, EventKeeps
<1>16. CASE UNCHANGED rosterVars
  <2>1. ASSUME NEW v \in Viewers, NEW m \in Folk PROVE PageIsDue(v, m)'
    <3>1. Due(v, m) \subseteq Due(v, m)' /\ (HostSees(v, m)' <=> HostSees(v, m))
      BY <1>16, OthersKeepDue DEF rosterVars
    <3> QED BY <1>16, <3>1, QuietKeeps DEF rosterVars, RosterInductive
  <2>2. ASSUME NEW m \in Folk PROVE RowOK(m)'
    <3>1. RowOK(m) /\ OnTabs(m)' = OnTabs(m)
      BY <1>16 DEF RosterInductive, StandingOK, rosterVars, OnTabs
    <3>2. \A o \in RosterOps : Pending(m, o)' <=> Pending(m, o)
      BY <1>16 DEF Pending, rosterVars
    <3> QED BY <1>16, <3>1, <3>2 DEF RowOK, RosterOps, rosterVars
  <2>3. RosterTypeOK'
    BY <1>16 DEF rosterVars, RosterInductive, RosterTypeOK
  <2> QED BY <2>1, <2>2, <2>3 DEF RosterInductive, StandingOK
<1> QED
  BY <1>1, <1>2, <1>3, <1>4, <1>5, <1>6, <1>7, <1>10, <1>11, <1>12, <1>13, <1>14,
     <1>15, <1>16 DEF RosterNext

LEMMA RosterFollows == RosterInductive => RosterIsRight
<1> SUFFICES ASSUME RosterInductive, NEW v \in Viewers, NEW m \in Folk,
                    viewer[v].conn = "on", viewer[v].inbox = <<>>, m \notin twofold,
                    \A q \in RosterReqs : request[m][q] = "none"
             PROVE  LET shown == viewer[v].rows[m]
                        gone  == OnTabs(m) = {}
                    IN /\ InTheRoom(m) /\ member[m] = "active" => shown = "room"
                       /\ gone /\ member[m] \in {"absent", "inactive"} =>
                            shown = "none" \/ m \in ghost
                       /\ gone /\ member[m] = "waiting" /\ v \in Hosts =>
                            shown = "waiting" \/ <<v, m>> \in missed
  BY DEF RosterIsRight
<1>1. viewer[v].rows[m] \in RosterRow
  BY DEF RosterInductive, RosterTypeOK, ViewerPage
<1>2. viewer[v].rows[m] \in Due(v, m)
  <2>1. PICK r \in Due(v, m) : RowRun(<<>>, m, v \in Hosts, viewer[v].rows[m], r)
    BY DEF RosterInductive, PageIsDue
  <2>2. r = viewer[v].rows[m]
    BY <1>1, <2>1, RunOfNothing
  <2> QED BY <2>1, <2>2
<1>3. \A o \in RosterOps : ~Pending(m, o)
  BY DEF Pending, RosterOps
<1>4. Settled(m) <=> InTheRoom(m)
  BY <1>3 DEF Settled, RosterOps
<1>5. OnTabs(m) = {} => ~InTheRoom(m)
  BY DEF InTheRoom
<1> QED BY <1>2, <1>3, <1>4, <1>5 DEF Due, RosterOps

\* Rows, consumers and pages keep their types.
THEOREM RosterTypeCorrect == RosterSpec => []RosterTypeOK
<1>1. RosterInductive => RosterTypeOK
  BY DEF RosterInductive
<1> QED BY <1>1, RosterInitially, RosterStep, PTL DEF RosterSpec

\* A page that has handled everything shows who is connected, to hosts who waits, and nobody
\* who has gone, for any members, tabs and pages and whatever requests, connections and
\* reconnections crossed.
THEOREM PagesShowTheRoom == RosterSpec => []RosterIsRight
BY RosterInitially, RosterStep, RosterFollows, PTL DEF RosterSpec
=============================================================================
