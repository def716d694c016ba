-------------------------------- MODULE Quiz --------------------------------
(***************************************************************************)
(* Live quizzes: quizzes/services.py behind views_room.py, and QuizClient  *)
(* of quiz.js in every page.  A run is known by its id; a quiz is reduced  *)
(* to one question with two options.  Every page hears the room group and  *)
(* gets the run in progress with the snapshot of its connection.           *)
(***************************************************************************)
EXTENDS Naturals, SequencesExt

CONSTANTS
  QuizHosts, Pupils,   \* who may start and end a quiz, who answers
  MaxRuns,             \* bound on the runs
  QuizPlans            \* bounds on a behaviour, see quizLeft

ASSUME QuizAssumption ==
  /\ QuizHosts \cap Pupils = {}
  /\ MaxRuns \in Nat
  /\ QuizPlans \subseteq [who : SUBSET (QuizHosts \cup Pupils), runs : 0..MaxRuns,
                           clicks : Nat, drops : Nat]

QuizPerson == QuizHosts \cup Pupils
RunId      == 1..MaxRuns
Option     == {"a", "b"}

VARIABLES
  runs,        \* sequence over run ids: is the run active
  starting,    \* [QuizHosts -> start_quiz in progress]
  ending,      \* [QuizHosts -> end_quiz in progress]
  answers,     \* [RunId -> [Pupils -> option recorded or "none"]]
  requests,    \* answers on the way from a page, or on the way back
  qpage,       \* [QuizPerson -> QuizClient and its socket]
  quizLeft,    \* who is there, and the starts, clicks and lost sockets still to come
  crossed      \* history: a start or an end began while another was in progress

quizVars == <<runs, starting, ending, answers, requests, qpage, quizLeft, crossed>>

Started(r) == [type |-> "quiz_started", run |-> r]
Ended(r)   == [type |-> "quiz_ended", run |-> r]
QuizEvent  == [type : {"quiz_started", "quiz_ended"}, run : RunId]

QuizIdle    == [phase |-> "idle", run |-> 0, seen |-> {}, alone |-> TRUE]
QuizRequest == [by : Pupils, run : RunId, option : Option, phase : {"sent", "checked", "ok", "error"}]

QuizPage == [
  conn  : {"off", "joining", "on"},   \* presence socket: not in the group, before the snapshot, after
  inbox : Seq(QuizEvent),
  run   : 0..MaxRuns,                 \* runId
  live  : BOOLEAN,                    \* runId is set and not ended
  mark  : Option \cup {"none"},       \* answers[q]
  gap   : BOOLEAN,                    \* history: the socket was lost
  twice : BOOLEAN]                    \* history: clicked again before the reply

ActiveRuns == {r \in DOMAIN runs : runs[r]}

\* active_run: the newest one.
active_run == IF ActiveRuns = {} THEN 0 ELSE CHOOSE r \in ActiveRuns : \A s \in ActiveRuns : s <= r

Busy == {h \in QuizHosts : starting[h].phase # "idle" \/ ending[h].phase # "idle"}

\* broadcast: every channel of the room group.
QuizBroadcast(e) ==
  qpage' = [p \in QuizPerson |->
              IF qpage[p].conn = "off" THEN qpage[p]
              ELSE [qpage[p] EXCEPT !.inbox = Append(@, e)]]

-----------------------------------------------------------------------------
(* start_quiz, answer_question and end_quiz.                               *)

\* The transaction sees the runs active now (READ COMMITTED), and not the
\* one another host is about to commit.
\* (mutant: only the newest dangling run is closed)
CloseNewest(h) ==
  /\ h \notin Busy /\ h \in quizLeft.who /\ quizLeft.runs > 0
  /\ quizLeft' = [quizLeft EXCEPT !.runs = @ - 1]
  /\ starting' = [g \in QuizHosts |->
       IF g = h THEN [phase |-> "close", run |-> 0, seen |-> {active_run} \ {0},
                      alone |-> \A o \in QuizHosts : starting[o].phase = "idle"]
       ELSE [starting[g] EXCEPT !.alone = FALSE]]
  /\ crossed' = (crossed \/ Busy # {})
  /\ UNCHANGED <<runs, ending, answers, requests, qpage>>

CloseDangling(h) ==
  /\ h \notin Busy /\ h \in quizLeft.who /\ quizLeft.runs > 0
  /\ quizLeft' = [quizLeft EXCEPT !.runs = @ - 1]
  /\ starting' = [g \in QuizHosts |->
       IF g = h THEN [phase |-> "close", run |-> 0, seen |-> ActiveRuns,
                      alone |-> \A o \in QuizHosts : starting[o].phase = "idle"]
       ELSE [starting[g] EXCEPT !.alone = FALSE]]
  /\ crossed' = (crossed \/ Busy # {})
  /\ UNCHANGED <<runs, ending, answers, requests, qpage>>

CommitRun(h) ==
  /\ starting[h].phase = "close"
  /\ runs' = Append([r \in DOMAIN runs |-> runs[r] /\ r \notin starting[h].seen], TRUE)
  /\ starting' = [starting EXCEPT ![h].phase = "created", ![h].run = Len(runs) + 1]
  /\ UNCHANGED <<ending, answers, requests, qpage, quizLeft, crossed>>

AnnounceStart(h) ==
  /\ starting[h].phase = "created"
  /\ QuizBroadcast(Started(starting[h].run))
  /\ starting' = [starting EXCEPT ![h] = QuizIdle]
  /\ UNCHANGED <<runs, ending, answers, requests, quizLeft, crossed>>

\* The end button sends the run of the host's page; an ended run is refused.
CheckEnd(h) ==
  LET r == qpage[h].run IN
  /\ h \notin Busy /\ qpage[h].live /\ r \in ActiveRuns
  /\ ending' = [ending EXCEPT ![h].phase = "active", ![h].run = r]
  /\ crossed' = (crossed \/ Busy # {})
  /\ UNCHANGED <<runs, starting, answers, requests, qpage, quizLeft>>

SaveEnd(h) ==
  /\ ending[h].phase = "active"
  /\ runs' = [runs EXCEPT ![ending[h].run] = FALSE]
  /\ ending' = [ending EXCEPT ![h].phase = "ended"]
  /\ UNCHANGED <<starting, answers, requests, qpage, quizLeft, crossed>>

AnnounceEnd(h) ==
  /\ ending[h].phase = "ended"
  /\ QuizBroadcast(Ended(ending[h].run))
  /\ ending' = [ending EXCEPT ![h] = QuizIdle]
  /\ UNCHANGED <<runs, starting, answers, requests, quizLeft, crossed>>

\* The run is checked and then the answer stored; in between the run may end.
CheckAnswer(m) ==
  /\ m.phase = "sent"
  /\ requests' = (requests \ {m}) \cup
       {[m EXCEPT !.phase = IF m.run \in ActiveRuns THEN "checked" ELSE "error"]}
  /\ UNCHANGED <<runs, starting, ending, answers, qpage, quizLeft, crossed>>

\* update_or_create on (run, member, question), then quiz_answered for the
\* progress line, which changes nothing else.
StoreAnswer(m) ==
  /\ m.phase = "checked"
  /\ answers' = [answers EXCEPT ![m.run][m.by] = m.option]
  /\ requests' = (requests \ {m}) \cup {[m EXCEPT !.phase = "ok"]}
  /\ UNCHANGED <<runs, starting, ending, qpage, quizLeft, crossed>>

-----------------------------------------------------------------------------
(* QuizClient.                                                             *)

\* A repeated announcement of the run on the page is skipped; the snapshot of a
\* new socket repeats it.
\* (mutant: a page keeps the run it is busy with)
handleStartedBusy(P, r) ==
  IF P.live THEN P
  ELSE [P EXCEPT !.run = r, !.live = TRUE, !.mark = "none", !.twice = FALSE]

handleStarted(P, r) ==
  IF P.run = r /\ P.live THEN P
  ELSE [P EXCEPT !.run = r, !.live = TRUE, !.mark = "none", !.twice = FALSE]

handleEnded(P, r) == IF P.run = r THEN [P EXCEPT !.live = FALSE] ELSE P

QuizHear(p) ==
  LET e == Head(qpage[p].inbox)
      P == [qpage[p] EXCEPT !.inbox = Tail(@)]
  IN /\ qpage[p].conn = "on" /\ qpage[p].inbox # <<>>
     /\ qpage' = [qpage EXCEPT ![p] =
          IF e.type = "quiz_started" THEN handleStarted(P, e.run) ELSE handleEnded(P, e.run)]
     /\ UNCHANGED <<runs, starting, ending, answers, requests, quizLeft, crossed>>

QuizJoin(p) ==
  /\ qpage[p].conn = "off" /\ p \in quizLeft.who
  /\ qpage' = [qpage EXCEPT ![p].conn = "joining"]
  /\ UNCHANGED <<runs, starting, ending, answers, requests, quizLeft, crossed>>

\* _snapshot and applyClassroomState: only a run in progress is mentioned.
QuizSnapshot(p) ==
  /\ qpage[p].conn = "joining"
  /\ qpage' = [qpage EXCEPT ![p] =
       LET P == [@ EXCEPT !.conn = "on"]
       IN IF active_run = 0 THEN P ELSE handleStarted(P, active_run)]
  /\ UNCHANGED <<runs, starting, ending, answers, requests, quizLeft, crossed>>

QuizDrop(p) ==
  /\ qpage[p].conn = "on" /\ quizLeft.drops > 0
  /\ quizLeft' = [quizLeft EXCEPT !.drops = @ - 1]
  /\ qpage' = [qpage EXCEPT ![p].conn = "off", ![p].inbox = <<>>, ![p].gap = TRUE]
  /\ UNCHANGED <<runs, starting, ending, answers, requests, crossed>>

\* _answer: marked at once, before the server has it.
_answer(p, o) ==
  LET P == qpage[p] IN
  /\ P.live /\ P.mark # o
  /\ quizLeft.clicks > 0
  /\ ~\E m \in requests : m.by = p /\ m.run = P.run /\ m.option = o
  /\ quizLeft' = [quizLeft EXCEPT !.clicks = @ - 1]
  /\ requests' = requests \cup {[by |-> p, run |-> P.run, option |-> o, phase |-> "sent"]}
  /\ qpage' = [qpage EXCEPT ![p].mark = o, ![p].twice = @ \/ \E m \in requests : m.by = p]
  /\ UNCHANGED <<runs, starting, ending, answers, crossed>>

\* The reply: an error unmarks the question, whatever is marked by now.  A reply
\* can get lost, which looks like an error.
\* (mutant: errors are ignored)
ReplyIgnored(m) ==
  /\ m.phase \in {"ok", "error"}
  /\ requests' = requests \ {m}
  /\ UNCHANGED <<runs, starting, ending, answers, qpage, quizLeft, crossed>>

Reply(m) ==
  /\ m.phase \in {"ok", "error"}
  /\ requests' = requests \ {m}
  /\ \/ m.phase = "ok" /\ UNCHANGED qpage
     \/ qpage' = [qpage EXCEPT ![m.by].mark = "none"]
  /\ UNCHANGED <<runs, starting, ending, answers, quizLeft, crossed>>

-----------------------------------------------------------------------------
QuizInit ==
  /\ runs = <<>>
  /\ starting = [h \in QuizHosts |-> QuizIdle]
  /\ ending = [h \in QuizHosts |-> QuizIdle]
  /\ answers = [r \in RunId |-> [p \in Pupils |-> "none"]]
  /\ requests = {}
  /\ qpage = [p \in QuizPerson |-> [conn |-> "off", inbox |-> <<>>, run |-> 0, live |-> FALSE,
                                    mark |-> "none", gap |-> FALSE, twice |-> FALSE]]
  /\ quizLeft \in QuizPlans
  /\ crossed = FALSE

QuizNext ==
  \/ \E h \in QuizHosts :
       \/ CloseDangling(h) \/ CommitRun(h) \/ AnnounceStart(h)
       \/ CheckEnd(h) \/ SaveEnd(h) \/ AnnounceEnd(h)
  \/ \E p \in QuizPerson : QuizHear(p) \/ QuizJoin(p) \/ QuizSnapshot(p) \/ QuizDrop(p)
  \/ \E p \in Pupils, o \in Option : _answer(p, o)
  \/ \E m \in requests : CheckAnswer(m) \/ StoreAnswer(m) \/ Reply(m)

QuizSpec == QuizInit /\ [][QuizNext]_quizVars

-----------------------------------------------------------------------------
(* Properties.                                                             *)

QuizTypeOK ==
  /\ runs \in Seq(BOOLEAN) /\ Len(runs) <= MaxRuns
  /\ answers \in [RunId -> [Pupils -> Option \cup {"none"}]]
  /\ requests \subseteq QuizRequest
  /\ qpage \in [QuizPerson -> QuizPage]
  /\ \A h \in QuizHosts : starting[h].seen \subseteq DOMAIN runs /\ ending[h].run \in 0..Len(runs)

\* "one live quiz per classroom": a start that overlaps no other start leaves its own
\* run as the only live one, dangling runs of earlier overlaps included.
OneRunAfterStart ==
  [][\A h \in QuizHosts :
       starting[h].phase = "close" /\ starting[h].alone /\ starting'[h].phase = "created" =>
         {r \in DOMAIN runs' : runs'[r]} = {starting'[h].run}]_quizVars

\* A page that has kept its socket and has heard everything shows the live run, and
\* none if there is none, provided no start or end overlapped with another.
QuizFollowed ==
  ~crossed /\ Busy = {} =>
    \A p \in QuizPerson :
      qpage[p].conn = "on" /\ qpage[p].inbox = <<>> /\ ~qpage[p].gap =>
        (IF qpage[p].live THEN qpage[p].run ELSE 0) = active_run

\* What a pupil sees selected is what is recorded, errors and lost replies included,
\* once the reply is there; unless the pupil clicked again before it came.
MarkedIsRecorded ==
  \A p \in Pupils :
    LET P == qpage[p] IN
    P.mark # "none" /\ ~P.twice /\ (~\E m \in requests : m.by = p) =>
      answers[P.run][p] = P.mark
=============================================================================
