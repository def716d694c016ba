--------------------------- MODULE ExerciseProofs ---------------------------
(***************************************************************************)
(* What holds of quizzes and of answers to an assignment, for any number of*)
(* hosts, pupils, runs, requests, grades and crashes.                      *)
(***************************************************************************)
EXTENDS Quiz, Grades, FiniteSetTheorems, WellFoundedInduction, TLAPS

-----------------------------------------------------------------------------
(* The runs of a quiz: "one live quiz per classroom", as far as start_quiz *)
(* keeps it.  The pages play no part in it.                                *)

QuizCall == [phase : {"idle", "close", "created", "active", "ended"}, run : Nat,
             seen : SUBSET Nat, alone : BOOLEAN]

RunsOK ==
  /\ runs \in Seq(BOOLEAN)
  /\ starting \in [QuizHosts -> QuizCall]
  /\ ending \in [QuizHosts -> QuizCall]
  /\ \A h \in QuizHosts : starting[h].phase \in {"idle", "close", "created"}

\* A start that is alone has seen every live run, and nobody else is starting one.
\* It stays so until the commit: ending makes no run live, and whoever starts
\* meanwhile takes "alone" away.
AloneSeesAll ==
  \A h \in QuizHosts :
    starting[h].phase = "close" /\ starting[h].alone =>
      /\ ActiveRuns \subseteq starting[h].seen
      /\ \A g \in QuizHosts : g # h => starting[g].phase = "idle"

StartInv == RunsOK /\ AloneSeesAll

-----------------------------------------------------------------------------
\* A function on an initial segment of the numbers is a sequence.
LEMMA Rows ==
  ASSUME NEW seq \in Seq(BOOLEAN), NEW f, f \in [DOMAIN seq -> BOOLEAN]
  PROVE  f \in Seq(BOOLEAN) /\ Len(f) = Len(seq) /\ DOMAIN f = 1..Len(seq)
<1>1. Len(seq) \in Nat /\ DOMAIN seq = 1..Len(seq)
  OBVIOUS
<1>2. f \in [1..Len(seq) -> BOOLEAN]
  BY <1>1
<1> QED BY <1>1, <1>2

\* Append, also of Booleans.
LEMMA AppendRow ==
  ASSUME NEW S, NEW seq \in Seq(S), NEW row \in S
  PROVE  /\ Append(seq, row) \in Seq(S)
         /\ Len(Append(seq, row)) = Len(seq) + 1
         /\ \A r \in 1..Len(seq) : Append(seq, row)[r] = seq[r]
         /\ Append(seq, row)[Len(seq) + 1] = row
  OBVIOUS

LEMMA StartInvInit == QuizInit => StartInv
  BY DEF QuizInit, StartInv, RunsOK, QuizCall, QuizIdle, AloneSeesAll

LEMMA CloseDanglingInv ==
  ASSUME StartInv, NEW h \in QuizHosts, CloseDangling(h)
  PROVE  StartInv'
<1> DEFINE mine == [phase |-> "close", run |-> 0, seen |-> ActiveRuns,
                    alone |-> \A o \in QuizHosts : starting[o].phase = "idle"]
<1>1. /\ starting' = [g \in QuizHosts |-> IF g = h THEN mine ELSE [starting[g] EXCEPT !.alone = FALSE]]
      /\ UNCHANGED <<runs, ending>>
  BY DEF CloseDangling
<1>2. ActiveRuns \subseteq Nat
  BY DEF ActiveRuns, StartInv, RunsOK
<1>3. mine \in QuizCall
  BY <1>2, Zenon DEF QuizCall
<1> HIDE DEF mine
<1>4. /\ starting' \in [QuizHosts -> QuizCall]
      /\ starting'[h] = mine
      /\ \A g \in QuizHosts : g # h => starting'[g].phase = starting[g].phase /\ ~starting'[g].alone
  BY <1>1, <1>3 DEF StartInv, RunsOK, QuizCall
<1>5. /\ mine.phase = "close" /\ mine.seen = ActiveRuns
      /\ mine.alone => \A o \in QuizHosts : starting[o].phase = "idle"
  BY DEF mine
<1>6. ActiveRuns' = ActiveRuns
  BY <1>1 DEF ActiveRuns
<1> QED BY <1>1, <1>4, <1>5, <1>6 DEF StartInv, RunsOK, AloneSeesAll

\* What the commit makes of the runs: the ones it has seen end, and one begins.
LEMMA Committed ==
  ASSUME StartInv, NEW h \in QuizHosts, CommitRun(h)
  PROVE  /\ runs' \in Seq(BOOLEAN)
         /\ ActiveRuns' = (ActiveRuns \ starting[h].seen) \cup {Len(runs) + 1}
         /\ starting'[h].run = Len(runs) + 1
         /\ Len(runs') = Len(runs) + 1 /\ DOMAIN runs' = 1..(Len(runs) + 1)
<1> DEFINE closed == [r \in DOMAIN runs |-> runs[r] /\ r \notin starting[h].seen]
<1>1. runs' = Append(closed, TRUE) /\ starting' = [starting EXCEPT ![h].phase = "created",
                                                                ![h].run = Len(runs) + 1]
  BY DEF CommitRun
<1>2. closed \in [DOMAIN runs -> BOOLEAN] /\ \A r \in DOMAIN runs :
        closed[r] = (runs[r] /\ r \notin starting[h].seen)
  BY DEF StartInv, RunsOK
<1> HIDE DEF closed
<1>3. /\ closed \in Seq(BOOLEAN) /\ Len(closed) = Len(runs) /\ DOMAIN closed = 1..Len(runs)
      /\ Len(runs) \in Nat /\ DOMAIN runs = 1..Len(runs)
  BY <1>2, Rows DEF StartInv, RunsOK
<1>4. /\ runs' \in Seq(BOOLEAN) /\ DOMAIN runs' = 1..(Len(runs) + 1)
      /\ runs'[Len(runs) + 1] = TRUE /\ Len(runs') = Len(runs) + 1
      /\ \A r \in 1..Len(runs) : runs'[r] = closed[r]
  <2>1. /\ Append(closed, TRUE) \in Seq(BOOLEAN)
        /\ Len(Append(closed, TRUE)) = Len(closed) + 1
        /\ \A r \in 1..Len(closed) : Append(closed, TRUE)[r] = closed[r]
        /\ Append(closed, TRUE)[Len(closed) + 1] = TRUE
    <3>1. TRUE \in BOOLEAN /\ closed \in Seq(BOOLEAN)
      BY <1>3
    <3> QED BY <3>1, AppendRow, Zenon
  <2>2. \A q \in Seq(BOOLEAN) : DOMAIN q = 1..Len(q)
    OBVIOUS
  <2> QED BY <1>1, <1>3, <2>1, <2>2
<1>5. ActiveRuns' = (ActiveRuns \ starting[h].seen) \cup {Len(runs) + 1}
  <2>1. \A r \in ActiveRuns' : r \in (ActiveRuns \ starting[h].seen) \cup {Len(runs) + 1}
    BY <1>2, <1>3, <1>4 DEF ActiveRuns
  <2>2. \A r \in (ActiveRuns \ starting[h].seen) \cup {Len(runs) + 1} : r \in ActiveRuns'
    BY <1>2, <1>3, <1>4 DEF ActiveRuns
  <2> QED BY <2>1, <2>2
<1> QED BY <1>1, <1>4, <1>5 DEF StartInv, RunsOK, QuizCall

LEMMA CommitRunInv ==
  ASSUME StartInv, NEW h \in QuizHosts, CommitRun(h)
  PROVE  StartInv'
<1>1. /\ starting[h].phase = "close" /\ UNCHANGED ending
      /\ starting' = [starting EXCEPT ![h].phase = "created", ![h].run = Len(runs) + 1]
  BY DEF CommitRun
<1>2. Len(runs) + 1 \in Nat
  BY DEF StartInv, RunsOK
<1>3. /\ starting' \in [QuizHosts -> QuizCall]
      /\ starting'[h].phase = "created"
      /\ \A g \in QuizHosts : g # h => starting'[g] = starting[g]
  <2> DEFINE mine == [starting[h] EXCEPT !.phase = "created", !.run = Len(runs) + 1]
  <2>1. starting \in [QuizHosts -> QuizCall] /\ starting' = [starting EXCEPT ![h] = mine]
    BY <1>1 DEF StartInv, RunsOK
  <2>2. mine \in QuizCall /\ mine.phase = "created"
    BY <1>2, <2>1 DEF QuizCall
  <2> HIDE DEF mine
  <2> QED BY <2>1, <2>2
<1>4. RunsOK'
  BY <1>1, <1>3, Committed DEF StartInv, RunsOK
\* Nobody else is alone while h is committing.
<1>5. AloneSeesAll'
  BY <1>1, <1>3 DEF StartInv, AloneSeesAll
<1> QED BY <1>4, <1>5 DEF StartInv

LEMMA AnnounceStartInv ==
  ASSUME StartInv, NEW h \in QuizHosts, AnnounceStart(h)
  PROVE  StartInv'
<1>1. starting' = [starting EXCEPT ![h] = QuizIdle] /\ UNCHANGED <<runs, ending>>
  BY DEF AnnounceStart
<1>2. QuizIdle \in QuizCall /\ QuizIdle.phase = "idle"
  BY DEF QuizIdle, QuizCall
<1>3. /\ starting' \in [QuizHosts -> QuizCall]
      /\ starting'[h] = QuizIdle
      /\ \A g \in QuizHosts : g # h => starting'[g] = starting[g]
  BY <1>1, <1>2 DEF StartInv, RunsOK
<1>4. RunsOK' /\ ActiveRuns' = ActiveRuns
  BY <1>1, <1>2, <1>3 DEF StartInv, RunsOK, ActiveRuns
<1>5. AloneSeesAll'
  BY <1>2, <1>3, <1>4 DEF StartInv, AloneSeesAll
<1> QED BY <1>4, <1>5 DEF StartInv

LEMMA EndingInv ==
  ASSUME StartInv, NEW h \in QuizHosts, CheckEnd(h) \/ SaveEnd(h) \/ AnnounceEnd(h)
  PROVE  StartInv'
<1>1. UNCHANGED starting
  BY DEF CheckEnd, SaveEnd, AnnounceEnd
<1>2. ending' \in [QuizHosts -> QuizCall]
  <2>1. CASE CheckEnd(h)
    <3>1. /\ ending' = [ending EXCEPT ![h].phase = "active", ![h].run = qpage[h].run]
          /\ qpage[h].run \in Nat
      BY <2>1 DEF CheckEnd, ActiveRuns, StartInv, RunsOK
    <3> DEFINE mine == [ending[h] EXCEPT !.phase = "active", !.run = qpage[h].run]
    <3>2. ending \in [QuizHosts -> QuizCall] /\ ending' = [ending EXCEPT ![h] = mine]
      BY <3>1 DEF StartInv, RunsOK
    <3>3. mine \in QuizCall
      BY <3>1, <3>2 DEF QuizCall
    <3> HIDE DEF mine
    <3> QED BY <3>2, <3>3
  <2>2. CASE SaveEnd(h)
    BY <2>2 DEF SaveEnd, StartInv, RunsOK, QuizCall
  <2>3. CASE AnnounceEnd(h)
    <3>1. QuizIdle \in QuizCall
      BY DEF QuizIdle, QuizCall
    <3> QED BY <2>3, <3>1 DEF AnnounceEnd, StartInv, RunsOK
  <2> QED BY <2>1, <2>2, <2>3
<1>3. runs' \in Seq(BOOLEAN) /\ ActiveRuns' \subseteq ActiveRuns
  <2>1. CASE SaveEnd(h)
    <3> DEFINE e == ending[h].run
    <3>1. runs' = [runs EXCEPT ![e] = FALSE]
      BY <2>1 DEF SaveEnd
    <3>2. runs' \in [DOMAIN runs -> BOOLEAN] /\ DOMAIN runs' = DOMAIN runs
          /\ \A r \in DOMAIN runs : runs'[r] => runs[r]
      <4>1. runs \in [DOMAIN runs -> BOOLEAN]
        BY DEF StartInv, RunsOK
      <4> QED BY <3>1, <4>1
    <3> QED BY <3>2, Rows DEF StartInv, RunsOK, ActiveRuns
  <2>2. CASE CheckEnd(h) \/ AnnounceEnd(h)
    BY <2>2 DEF CheckEnd, AnnounceEnd, StartInv, RunsOK, ActiveRuns
  <2> QED BY <2>1, <2>2
<1> QED BY <1>1, <1>2, <1>3 DEF StartInv, RunsOK, AloneSeesAll

\* The pages and the answers leave runs and requests of hosts alone.
LEMMA StartInvNext == StartInv /\ [QuizNext]_quizVars => StartInv'
<1> SUFFICES ASSUME StartInv, [QuizNext]_quizVars PROVE StartInv'
  OBVIOUS
<1>1. ASSUME UNCHANGED <<runs, starting, ending>> PROVE StartInv'
  BY <1>1 DEF StartInv, RunsOK, AloneSeesAll, ActiveRuns
<1>2. CASE UNCHANGED quizVars
  BY <1>1, <1>2 DEF quizVars
<1>3. CASE \E p \in QuizPerson : QuizHear(p) \/ QuizJoin(p) \/ QuizSnapshot(p) \/ QuizDrop(p)
  BY <1>1, <1>3 DEF QuizHear, QuizJoin, QuizSnapshot, QuizDrop
<1>4. CASE \E p \in Pupils, o \in Option : _answer(p, o)
  BY <1>1, <1>4 DEF _answer
<1>5. CASE \E m \in requests : CheckAnswer(m) \/ StoreAnswer(m) \/ Reply(m)
  BY <1>1, <1>5 DEF CheckAnswer, StoreAnswer, Reply
<1> QED BY <1>2, <1>3, <1>4, <1>5, CloseDanglingInv, CommitRunInv, AnnounceStartInv, EndingInv
        DEF QuizNext

THEOREM StartInductive == QuizSpec => []StartInv
  BY StartInvInit, StartInvNext, PTL DEF QuizSpec

-----------------------------------------------------------------------------
\* A step that brings a start from its transaction to its announcement is its commit.
LEMMA OnlyTheCommit ==
  ASSUME StartInv, [QuizNext]_quizVars, NEW h \in QuizHosts,
         starting[h].phase = "close", starting'[h].phase = "created"
  PROVE  CommitRun(h)
<1>1. ASSUME NEW g \in QuizHosts, CloseDangling(g) PROVE FALSE
  <2>1. starting'[h].phase = "close"
    BY <1>1 DEF CloseDangling, StartInv, RunsOK, QuizCall
  <2> QED BY <2>1
<1>2. ASSUME NEW g \in QuizHosts, CommitRun(g) PROVE g = h
  BY <1>2 DEF CommitRun, StartInv, RunsOK
<1>3. ASSUME NEW g \in QuizHosts, AnnounceStart(g) PROVE FALSE
  BY <1>3 DEF AnnounceStart, StartInv, RunsOK, QuizIdle
<1>4. UNCHANGED starting => FALSE
  OBVIOUS
<1> QED BY <1>1, <1>2, <1>3, <1>4
        DEF QuizNext, quizVars, CheckEnd, SaveEnd, AnnounceEnd, QuizHear, QuizJoin, QuizSnapshot,
            QuizDrop, _answer, CheckAnswer, StoreAnswer, Reply

LEMMA OneRunStep ==
  ASSUME StartInv, [QuizNext]_quizVars, NEW h \in QuizHosts,
         starting[h].phase = "close", starting[h].alone, starting'[h].phase = "created"
  PROVE  {r \in DOMAIN runs' : runs'[r]} = {starting'[h].run}
<1>1. CommitRun(h)
  BY OnlyTheCommit
<1>2. ActiveRuns \subseteq starting[h].seen
  BY DEF StartInv, AloneSeesAll
<1> QED BY <1>1, <1>2, Committed DEF ActiveRuns

\* start_quiz closes every dangling run and makes its own the only live one, for any
\* number of hosts, unless another start_quiz overlapped it.
THEOREM OneQuiz == QuizSpec => OneRunAfterStart
<1>1. StartInv /\ [QuizNext]_quizVars =>
        [\A h \in QuizHosts :
           starting[h].phase = "close" /\ starting[h].alone /\ starting'[h].phase = "created" =>
             {r \in DOMAIN runs' : runs'[r]} = {starting'[h].run}]_quizVars
  BY OneRunStep
<1> QED BY <1>1, StartInductive, PTL DEF QuizSpec, OneRunAfterStart

-----------------------------------------------------------------------------
(* The pages: every one follows the quiz, and a mark somebody was shown is *)
(* the one that is recorded.                                               *)

Closing == {h \in QuizHosts : starting[h].phase = "close"}

\* Every start that has not committed yet has its number among the MaxRuns.
RunTables ==
  /\ StartInv /\ Len(runs) <= MaxRuns
  /\ quizLeft \in [who : SUBSET QuizPerson, runs : Nat, clicks : Nat, drops : Nat]
  /\ IsFiniteSet(Closing) /\ Len(runs) + Cardinality(Closing) + quizLeft.runs <= MaxRuns
  /\ crossed \in BOOLEAN
  /\ \A h \in QuizHosts :
       /\ starting[h].phase = "created" => starting[h].run \in DOMAIN runs
       /\ starting[h].seen \subseteq DOMAIN runs
       /\ ending[h].run \in 0..Len(runs)
       /\ ending[h].phase \in {"idle", "active", "ended"}
       /\ ending[h].phase # "idle" => ending[h].run \in DOMAIN runs

\* A page that shows a run or a mark knows the run.
Numbered(P) == P.live \/ P.mark # "none" => P.run # 0

PageTables ==
  /\ answers \in [RunId -> [Pupils -> Option \cup {"none"}]]
  /\ requests \subseteq QuizRequest
  /\ qpage \in [QuizPerson -> QuizPage]
  /\ \A p \in QuizPerson : Numbered(qpage[p])

QuizTables == RunTables /\ PageTables

Shown(P) == IF P.live THEN P.run ELSE 0

\* Until two of them overlap, one host at a time starts or ends the one run there is.
OneHost ==
  /\ \A g, h \in Busy : g = h
  /\ \A r, s \in ActiveRuns : r = s
  /\ \A h \in QuizHosts :
       /\ starting[h].phase # "idle" => ending[h].phase = "idle"
       /\ starting[h].phase = "close" => starting[h].seen = ActiveRuns
       /\ starting[h].phase = "created" => ActiveRuns = {starting[h].run}
       /\ ending[h].phase = "active" => ActiveRuns = {ending[h].run}
       /\ ending[h].phase = "ended" => ActiveRuns = {}

\* No run has begun that is not announced.
AllAnnounced == \A h \in QuizHosts : starting[h].phase # "created"

\* The run the pages were told of last, until they are told that it ended.
AnnouncedRun ==
  IF \E h \in QuizHosts : ending[h].phase = "ended"
    THEN ending[CHOOSE h \in QuizHosts : ending[h].phase = "ended"].run ELSE active_run

\* What is on its way to a page, and what it shows when that has come, if the last
\* word of the server was that run r began or, for r = 0, that a run ended.
PageWord(P, r, over) ==
  /\ P.inbox # <<>> =>
       IF r = 0 THEN P.inbox[Len(P.inbox)].type = "quiz_ended" ELSE P.inbox[Len(P.inbox)] = Started(r)
  /\ P.conn = "on" /\ P.inbox = <<>> => Shown(P) = r \/ (over /\ Shown(P) = 0)
  /\ P.conn = "on" /\ Len(P.inbox) = 1 /\ P.inbox[1].type = "quiz_ended" /\ P.live =>
       P.run = P.inbox[1].run

\* An end is announced after its own start; a page begins with nothing.
PageChain(P) ==
  /\ \A k \in 2..Len(P.inbox) :
       P.inbox[k].type = "quiz_ended" => P.inbox[k - 1] = Started(P.inbox[k].run)
  /\ P.conn # "on" => ~P.live

FollowInv ==
  /\ \A p \in QuizPerson : qpage[p].conn = "off" => qpage[p].inbox = <<>>
  /\ ~crossed =>
       /\ OneHost
       /\ \A p \in QuizPerson : ~qpage[p].gap =>
            /\ PageChain(qpage[p])
            /\ AllAnnounced => PageWord(qpage[p], AnnouncedRun, active_run = 0)

\* While a mark has not been changed before its reply, what is on the way for the pupil
\* is that mark, and what has been stored is.
MarkInv ==
  \A p \in Pupils :
    LET P == qpage[p] IN
    P.mark # "none" /\ ~P.twice =>
      /\ \A m \in requests : m.by = p =>
           /\ m.run = P.run /\ m.option = P.mark
           /\ m.phase = "ok" => answers[P.run][p] = P.mark
      /\ (~\E m \in requests : m.by = p) => answers[P.run][p] = P.mark

QuizInv == QuizTables /\ FollowInv /\ MarkInv

-----------------------------------------------------------------------------
(* The tables.                                                             *)

LEMMA TypeInParts == QuizTables => QuizTypeOK
BY DEF QuizTables, RunTables, PageTables, QuizTypeOK, StartInv, RunsOK

LEMMA Numbers ==
  ASSUME RunTables
  PROVE  /\ Len(runs) \in Nat /\ MaxRuns \in Nat /\ Cardinality(Closing) \in Nat /\ quizLeft.runs \in Nat
         /\ DOMAIN runs = 1..Len(runs) /\ 1..Len(runs) \subseteq RunId /\ ActiveRuns \subseteq 1..Len(runs)
         /\ starting \in [QuizHosts -> QuizCall] /\ ending \in [QuizHosts -> QuizCall]
<1>1. Len(runs) \in Nat /\ DOMAIN runs = 1..Len(runs)
  BY DEF RunTables, StartInv, RunsOK
<1>2. 1..Len(runs) \subseteq RunId
  BY <1>1, QuizAssumption DEF RunId, RunTables
<1>3. Cardinality(Closing) \in Nat
  BY FS_CardinalityType DEF RunTables
<1> QED BY <1>1, <1>2, <1>3, QuizAssumption DEF RunTables, StartInv, RunsOK, ActiveRuns

\* A set of run ids has a largest element, so active_run is a run.
LEMMA Largest ==
  ASSUME NEW n \in Nat, NEW S \in SUBSET (1..n), S # {}
  PROVE  \E x \in S : \A y \in S : y <= x
<1> DEFINE T == {n - x : x \in S}
<1>1. \A x \in S : n - x \in Nat /\ n - (n - x) = x
  OBVIOUS
<1>2. T \subseteq Nat /\ T # {}
  BY <1>1
<1> HIDE DEF T
<1>3. PICK t \in T : \A u \in T : ~(<<u, t>> \in OpToRel(<, Nat))
  <2> DEFINE R == OpToRel(<, Nat)
  <2>1. IsWellFoundedOn(R, Nat)
    BY NatLessThanWellFounded
  <2> HIDE DEF R
  <2>2. \E t \in T : \A u \in T : ~(<<u, t>> \in R)
    BY <1>2, <2>1, WFMin
  <2> QED BY <2>2 DEF R
<1>4. \A u \in T : ~(u < t)
  BY <1>2, <1>3 DEF OpToRel
<1>5. PICK x \in S : t = n - x
  BY <1>3 DEF T
<1>6. \A y \in S : n - y \in T
  BY DEF T
<1> QED BY <1>2, <1>4, <1>5, <1>6

LEMMA ActiveRun ==
  ASSUME RunTables
  PROVE  /\ ActiveRuns = {} => active_run = 0
         /\ ActiveRuns # {} => active_run \in ActiveRuns
         /\ active_run \in 0..Len(runs) /\ (active_run = 0 <=> ActiveRuns = {})
<1>1. Len(runs) \in Nat /\ ActiveRuns \subseteq 1..Len(runs)
  BY Numbers
<1>2. CASE ActiveRuns = {}
  BY <1>1, <1>2 DEF active_run
<1>3. CASE ActiveRuns # {}
  <2>1. \E r \in ActiveRuns : \A s \in ActiveRuns : s <= r
    BY <1>1, <1>3, Largest
  <2>2. active_run \in ActiveRuns
    BY <1>3, <2>1 DEF active_run
  <2> QED BY <1>1, <1>3, <2>2
<1> QED BY <1>2, <1>3

LEMMA QuizEvents ==
  ASSUME NEW r \in RunId
  PROVE  /\ Started(r) \in QuizEvent /\ Started(r).type = "quiz_started" /\ Started(r).run = r
         /\ Ended(r) \in QuizEvent /\ Ended(r).type = "quiz_ended" /\ Ended(r).run = r
BY DEF Started, Ended, QuizEvent

LEMMA KeepsRunTables ==
  ASSUME RunTables, PageTables, QuizNext
  PROVE  RunTables'
<1>0. StartInv'
  BY StartInvNext DEF RunTables
<1>n. /\ Len(runs) \in Nat /\ MaxRuns \in Nat /\ Cardinality(Closing) \in Nat /\ quizLeft.runs \in Nat
      /\ DOMAIN runs = 1..Len(runs) /\ 1..Len(runs) \subseteq RunId /\ ActiveRuns \subseteq 1..Len(runs)
      /\ starting \in [QuizHosts -> QuizCall] /\ ending \in [QuizHosts -> QuizCall]
  BY Numbers
<1>1. ASSUME NEW h \in QuizHosts, CloseDangling(h) PROVE RunTables'
  <2> DEFINE mine == [phase |-> "close", run |-> 0, seen |-> ActiveRuns,
                      alone |-> \A o \in QuizHosts : starting[o].phase = "idle"]
  <2>1. /\ starting' = [g \in QuizHosts |-> IF g = h THEN mine ELSE [starting[g] EXCEPT !.alone = FALSE]]
        /\ h \notin Busy /\ quizLeft.runs > 0 /\ quizLeft' = [quizLeft EXCEPT !.runs = @ - 1]
        /\ crossed' = (crossed \/ Busy # {}) /\ UNCHANGED <<runs, ending>>
    BY <1>1 DEF CloseDangling
  <2>2. mine.phase = "close" /\ mine.seen = ActiveRuns
    OBVIOUS
  <2> HIDE DEF mine
  <2>3. /\ starting'[h].phase = "close" /\ starting'[h].seen = ActiveRuns
        /\ \A g \in QuizHosts : g # h => /\ starting'[g].phase = starting[g].phase
                                         /\ starting'[g].seen = starting[g].seen
                                         /\ starting'[g].run = starting[g].run
    BY <1>n, <2>1, <2>2 DEF QuizCall
  <2>4. Closing' = Closing \cup {h} /\ h \notin Closing
    BY <2>1, <2>3 DEF Closing, Busy
  <2>5. IsFiniteSet(Closing') /\ Cardinality(Closing') = Cardinality(Closing) + 1
    BY <2>4, FS_AddElement DEF RunTables
  <2>6. /\ quizLeft' \in [who : SUBSET QuizPerson, runs : Nat, clicks : Nat, drops : Nat]
        /\ quizLeft'.runs = quizLeft.runs - 1
    <3>1. quizLeft.runs - 1 \in Nat
      BY <1>n, <2>1
    <3> QED BY <2>1, <3>1 DEF RunTables
  <2>7. Len(runs') + Cardinality(Closing') + quizLeft'.runs <= MaxRuns
    BY <1>n, <2>1, <2>5, <2>6 DEF RunTables
  <2>8. crossed' \in BOOLEAN
    BY <2>1 DEF RunTables
  <2>9. ASSUME NEW g \in QuizHosts
        PROVE  /\ starting'[g].phase = "created" => starting'[g].run \in DOMAIN runs'
               /\ starting'[g].seen \subseteq DOMAIN runs'
    BY <1>n, <2>1, <2>3 DEF RunTables
  <2> QED BY <1>0, <1>n, <2>1, <2>5, <2>6, <2>7, <2>8, <2>9 DEF RunTables
<1>2. ASSUME NEW h \in QuizHosts, CommitRun(h) PROVE RunTables'
  <2>1. /\ starting' = [starting EXCEPT ![h].phase = "created", ![h].run = Len(runs) + 1]
        /\ starting[h].phase = "close" /\ UNCHANGED <<ending, quizLeft, crossed>>
    BY <1>2 DEF CommitRun
  <2>2. /\ Len(runs') = Len(runs) + 1 /\ DOMAIN runs' = 1..(Len(runs) + 1)
        /\ starting'[h].run = Len(runs) + 1
    BY <1>2, Committed DEF RunTables
  <2>3. /\ starting'[h].phase = "created" /\ starting'[h].seen = starting[h].seen
        /\ \A g \in QuizHosts : g # h => starting'[g] = starting[g]
    BY <1>n, <2>1 DEF QuizCall
  <2>4. Closing' = Closing \ {h} /\ h \in Closing
    BY <2>1, <2>3 DEF Closing
  <2>5. IsFiniteSet(Closing') /\ Cardinality(Closing') = Cardinality(Closing) - 1
    BY <2>4, FS_RemoveElement DEF RunTables
  <2>6. Len(runs') + Cardinality(Closing') + quizLeft'.runs <= MaxRuns
    BY <1>n, <2>1, <2>2, <2>5 DEF RunTables
  <2>7. Cardinality(Closing') \in Nat
    BY <2>5, FS_CardinalityType
  <2>8. Len(runs') <= MaxRuns
    BY <1>n, <2>1, <2>2, <2>6, <2>7
  <2>9. DOMAIN runs \subseteq DOMAIN runs' /\ 0..Len(runs) \subseteq 0..Len(runs')
        /\ Len(runs) + 1 \in DOMAIN runs'
    BY <1>n, <2>2
  <2>10. ASSUME NEW g \in QuizHosts
         PROVE  /\ starting'[g].phase = "created" => starting'[g].run \in DOMAIN runs'
                /\ starting'[g].seen \subseteq DOMAIN runs'
                /\ ending'[g].run \in 0..Len(runs')
                /\ ending'[g].phase \in {"idle", "active", "ended"}
                /\ ending'[g].phase # "idle" => ending'[g].run \in DOMAIN runs'
    BY <2>1, <2>2, <2>3, <2>9 DEF RunTables
  <2> QED BY <1>0, <2>1, <2>5, <2>6, <2>8, <2>10 DEF RunTables
<1>3. ASSUME NEW h \in QuizHosts, AnnounceStart(h) PROVE RunTables'
  <2>1. /\ starting' = [starting EXCEPT ![h] = QuizIdle] /\ starting[h].phase = "created"
        /\ UNCHANGED <<runs, ending, quizLeft, crossed>>
    BY <1>3 DEF AnnounceStart
  <2>2. /\ starting'[h].phase = "idle" /\ starting'[h].seen = {}
        /\ \A g \in QuizHosts : g # h => starting'[g] = starting[g]
    BY <1>n, <2>1 DEF QuizIdle
  <2>3. Closing' = Closing
    BY <2>1, <2>2 DEF Closing
  <2>4. ASSUME NEW g \in QuizHosts
        PROVE  /\ starting'[g].phase = "created" => starting'[g].run \in DOMAIN runs'
               /\ starting'[g].seen \subseteq DOMAIN runs'
    BY <2>1, <2>2 DEF RunTables
  <2> QED BY <1>0, <2>1, <2>3, <2>4 DEF RunTables
<1>4. ASSUME NEW h \in QuizHosts, CheckEnd(h) PROVE RunTables'
  <2>1. /\ ending' = [ending EXCEPT ![h].phase = "active", ![h].run = qpage[h].run]
        /\ qpage[h].run \in ActiveRuns
        /\ crossed' = (crossed \/ Busy # {}) /\ UNCHANGED <<runs, starting, quizLeft>>
    BY <1>4 DEF CheckEnd
  <2>2. /\ ending'[h].phase = "active" /\ ending'[h].run = qpage[h].run
        /\ \A g \in QuizHosts : g # h => ending'[g] = ending[g]
    BY <1>n, <2>1 DEF QuizCall
  <2>3. qpage[h].run \in DOMAIN runs /\ qpage[h].run \in 0..Len(runs)
    BY <1>n, <2>1
  <2>4. Closing' = Closing
    BY <2>1 DEF Closing
  <2>5. ASSUME NEW g \in QuizHosts
        PROVE  /\ ending'[g].run \in 0..Len(runs')
               /\ ending'[g].phase \in {"idle", "active", "ended"}
               /\ ending'[g].phase # "idle" => ending'[g].run \in DOMAIN runs'
    BY <2>1, <2>2, <2>3 DEF RunTables
  <2> QED BY <1>0, <2>1, <2>4, <2>5 DEF RunTables
<1>5. ASSUME NEW h \in QuizHosts, SaveEnd(h) PROVE RunTables'
  <2>1. /\ runs' = [runs EXCEPT ![ending[h].run] = FALSE]
        /\ ending' = [ending EXCEPT ![h].phase = "ended"] /\ ending[h].phase = "active"
        /\ UNCHANGED <<starting, quizLeft, crossed>>
    BY <1>5 DEF SaveEnd
  <2>2. /\ ending'[h].phase = "ended" /\ ending'[h].run = ending[h].run
        /\ \A g \in QuizHosts : g # h => ending'[g] = ending[g]
    BY <1>n, <2>1 DEF QuizCall
  <2>3. runs' \in [DOMAIN runs -> BOOLEAN] /\ DOMAIN runs' = DOMAIN runs
    <3>1. runs \in [DOMAIN runs -> BOOLEAN]
      BY DEF RunTables, StartInv, RunsOK
    <3> QED BY <2>1, <3>1
  <2>4. Len(runs') = Len(runs)
    BY <2>3, Rows DEF RunTables, StartInv, RunsOK
  <2>5. Closing' = Closing
    BY <2>1 DEF Closing
  <2>6. ASSUME NEW g \in QuizHosts
        PROVE  /\ ending'[g].run \in 0..Len(runs')
               /\ ending'[g].phase \in {"idle", "active", "ended"}
               /\ ending'[g].phase # "idle" => ending'[g].run \in DOMAIN runs'
    BY <2>1, <2>2, <2>3, <2>4 DEF RunTables
  <2> QED BY <1>0, <2>1, <2>3, <2>4, <2>5, <2>6 DEF RunTables
<1>6. ASSUME NEW h \in QuizHosts, AnnounceEnd(h) PROVE RunTables'
  <2>1. /\ ending' = [ending EXCEPT ![h] = QuizIdle]
        /\ UNCHANGED <<runs, starting, quizLeft, crossed>>
    BY <1>6 DEF AnnounceEnd
  <2>2. /\ ending'[h].phase = "idle" /\ ending'[h].run = 0
        /\ \A g \in QuizHosts : g # h => ending'[g] = ending[g]
    BY <1>n, <2>1 DEF QuizIdle
  <2>3. Closing' = Closing
    BY <2>1 DEF Closing
  <2>4. ASSUME NEW g \in QuizHosts
        PROVE  /\ ending'[g].run \in 0..Len(runs')
               /\ ending'[g].phase \in {"idle", "active", "ended"}
               /\ ending'[g].phase # "idle" => ending'[g].run \in DOMAIN runs'
    BY <1>n, <2>1, <2>2 DEF RunTables
  <2> QED BY <1>0, <2>1, <2>3, <2>4 DEF RunTables
<1>7. ASSUME UNCHANGED <<runs, starting, ending, crossed>>,
             quizLeft' \in [who : SUBSET QuizPerson, runs : Nat, clicks : Nat, drops : Nat],
             quizLeft'.runs = quizLeft.runs
      PROVE  RunTables'
  <2>1. Closing' = Closing
    BY <1>7 DEF Closing
  <2> QED BY <1>0, <1>7, <2>1 DEF RunTables
<1>8. CASE \E p \in QuizPerson : QuizHear(p) \/ QuizJoin(p) \/ QuizSnapshot(p) \/ QuizDrop(p)
  <2>1. CASE \E p \in QuizPerson : QuizDrop(p)
    BY <1>7, <2>1 DEF QuizDrop, RunTables
  <2>2. CASE \E p \in QuizPerson : QuizHear(p) \/ QuizJoin(p) \/ QuizSnapshot(p)
    BY <1>7, <2>2 DEF QuizHear, QuizJoin, QuizSnapshot, RunTables
  <2> QED BY <1>8, <2>1, <2>2
<1>9. CASE \E p \in Pupils, o \in Option : _answer(p, o)
  BY <1>7, <1>9 DEF _answer, RunTables
<1>10. CASE \E m \in requests : CheckAnswer(m) \/ StoreAnswer(m) \/ Reply(m)
  BY <1>7, <1>10 DEF CheckAnswer, StoreAnswer, Reply, RunTables
<1> QED BY <1>1, <1>2, <1>3, <1>4, <1>5, <1>6, <1>8, <1>9, <1>10 DEF QuizNext

LEMMA PageParts ==
  ASSUME NEW P \in QuizPage
  PROVE  /\ P.conn \in {"off", "joining", "on"} /\ P.inbox \in Seq(QuizEvent) /\ P.run \in 0..MaxRuns
         /\ P.live \in BOOLEAN /\ P.mark \in Option \cup {"none"} /\ P.gap \in BOOLEAN /\ P.twice \in BOOLEAN
BY DEF QuizPage

\* What an announcement makes of a page: only its inbox changes, if it has a socket.
LEMMA Broadcast ==
  ASSUME PageTables, NEW e \in QuizEvent, QuizBroadcast(e)
  PROVE  /\ qpage' \in [QuizPerson -> QuizPage]
         /\ \A p \in QuizPerson :
              /\ qpage'[p].conn = qpage[p].conn /\ qpage'[p].run = qpage[p].run
              /\ qpage'[p].live = qpage[p].live /\ qpage'[p].mark = qpage[p].mark
              /\ qpage'[p].gap = qpage[p].gap /\ qpage'[p].twice = qpage[p].twice
              /\ qpage'[p].inbox = IF qpage[p].conn = "off" THEN qpage[p].inbox
                                   ELSE Append(qpage[p].inbox, e)
<1> SUFFICES ASSUME NEW p \in QuizPerson
             PROVE  /\ qpage'[p] \in QuizPage
                    /\ qpage'[p].conn = qpage[p].conn /\ qpage'[p].run = qpage[p].run
                    /\ qpage'[p].live = qpage[p].live /\ qpage'[p].mark = qpage[p].mark
                    /\ qpage'[p].gap = qpage[p].gap /\ qpage'[p].twice = qpage[p].twice
                    /\ qpage'[p].inbox = IF qpage[p].conn = "off" THEN qpage[p].inbox
                                         ELSE Append(qpage[p].inbox, e)
  BY DEF QuizBroadcast
<1>1. qpage[p] \in QuizPage /\ qpage'[p] = IF qpage[p].conn = "off" THEN qpage[p]
                                           ELSE [qpage[p] EXCEPT !.inbox = Append(qpage[p].inbox, e)]
  BY DEF QuizBroadcast, PageTables
<1>2. Append(qpage[p].inbox, e) \in Seq(QuizEvent)
  BY <1>1, PageParts
<1> QED BY <1>1, <1>2 DEF QuizPage

\* handleStarted and handleEnded on a typed page.
LEMMA Handlers ==
  ASSUME NEW P \in QuizPage, NEW r \in RunId
  PROVE  /\ handleStarted(P, r) \in QuizPage /\ handleEnded(P, r) \in QuizPage
         /\ LET H == handleStarted(P, r) IN
              /\ H.conn = P.conn /\ H.inbox = P.inbox /\ H.gap = P.gap /\ H.run = r /\ H.live
              /\ H = P \/ H.mark = "none"
              /\ Numbered(H)
         /\ LET H == handleEnded(P, r) IN
              /\ H.conn = P.conn /\ H.inbox = P.inbox /\ H.gap = P.gap /\ H.run = P.run
              /\ H.mark = P.mark /\ H.twice = P.twice
              /\ H.live = (P.live /\ P.run # r)
              /\ Numbered(P) => Numbered(H)
<1>1. r \in 0..MaxRuns /\ r # 0
  BY QuizAssumption DEF RunId
<1> QED BY <1>1 DEF handleStarted, handleEnded, QuizPage, Numbered

LEMMA TakeEvent ==
  ASSUME NEW s \in Seq(QuizEvent), s # <<>>
  PROVE  /\ Head(s) \in QuizEvent /\ Tail(s) \in Seq(QuizEvent) /\ Head(s) = s[1]
         /\ Len(s) \in Nat \ {0} /\ Len(Tail(s)) = Len(s) - 1
         /\ \A k \in 1..Len(Tail(s)) : Tail(s)[k] = s[k + 1]
OBVIOUS

\* A page hears an event, or gets its snapshot.
LEMMA Heard ==
  ASSUME PageTables, NEW p \in QuizPerson, QuizHear(p)
  PROVE  LET P == qpage[p]
             e == Head(P.inbox)
             Q == [P EXCEPT !.inbox = Tail(P.inbox)]
             H == IF e.type = "quiz_started" THEN handleStarted(Q, e.run) ELSE handleEnded(Q, e.run)
         IN  /\ P \in QuizPage /\ e \in QuizEvent /\ Q \in QuizPage /\ H \in QuizPage /\ Numbered(H)
             /\ qpage' = [qpage EXCEPT ![p] = H]
<1> DEFINE P == qpage[p]
           e == Head(P.inbox)
           Q == [P EXCEPT !.inbox = Tail(P.inbox)]
           H == IF e.type = "quiz_started" THEN handleStarted(Q, e.run) ELSE handleEnded(Q, e.run)
<1>1. P \in QuizPage /\ P.inbox # <<>>
  BY DEF PageTables, QuizHear
<1>2. e \in QuizEvent /\ Tail(P.inbox) \in Seq(QuizEvent)
  BY <1>1, PageParts, TakeEvent
<1>3. Q \in QuizPage /\ Numbered(Q)
  BY <1>1, <1>2 DEF QuizPage, PageTables, Numbered
<1>4. e.run \in RunId
  BY <1>2 DEF QuizEvent
<1>5. qpage' = [qpage EXCEPT ![p] = H]
  BY DEF QuizHear
<1> HIDE DEF P, e, Q
<1>6. H \in QuizPage /\ Numbered(H)
  BY <1>3, <1>4, Handlers
<1> QED BY <1>1, <1>2, <1>3, <1>5, <1>6 DEF P, e, Q

LEMMA GotSnapshot ==
  ASSUME RunTables, PageTables, NEW p \in QuizPerson, QuizSnapshot(p)
  PROVE  LET P == qpage[p]
             Q == [P EXCEPT !.conn = "on"]
             H == IF active_run = 0 THEN Q ELSE handleStarted(Q, active_run)
         IN  /\ P \in QuizPage /\ Q \in QuizPage /\ H \in QuizPage /\ Numbered(H)
             /\ active_run # 0 => active_run \in RunId
             /\ qpage' = [qpage EXCEPT ![p] = H]
<1> DEFINE P == qpage[p]
           Q == [P EXCEPT !.conn = "on"]
           H == IF active_run = 0 THEN Q ELSE handleStarted(Q, active_run)
<1>1. P \in QuizPage /\ Q \in QuizPage /\ Numbered(Q)
  BY DEF PageTables, QuizPage, Numbered
<1>2. active_run # 0 => active_run \in RunId
  BY ActiveRun, Numbers
<1>3. qpage' = [qpage EXCEPT ![p] = H]
  BY DEF QuizSnapshot
<1> HIDE DEF P, Q
<1>4. H \in QuizPage /\ Numbered(H)
  BY <1>1, <1>2, Handlers
<1> QED BY <1>1, <1>2, <1>3, <1>4 DEF P, Q

LEMMA KeepsTablesOnPage ==
  ASSUME PageTables, NEW p \in QuizPerson, NEW P \in QuizPage, Numbered(P),
         qpage' = [qpage EXCEPT ![p] = P],
         answers' \in [RunId -> [Pupils -> Option \cup {"none"}]], requests' \subseteq QuizRequest
  PROVE  PageTables'
<1>1. qpage' \in [QuizPerson -> QuizPage]
  BY DEF PageTables
<1>2. ASSUME NEW q \in QuizPerson PROVE Numbered(qpage'[q])
  BY DEF PageTables
<1>3. \A q \in QuizPerson : Numbered(qpage[q])'
  BY <1>2 DEF Numbered
<1> QED BY <1>1, <1>3 DEF PageTables

LEMMA KeepsTablesOnWord ==
  ASSUME PageTables, NEW e \in QuizEvent, QuizBroadcast(e), UNCHANGED <<answers, requests>>
  PROVE  PageTables'
BY Broadcast DEF PageTables, Numbered

LEMMA KeepsPageTables ==
  ASSUME RunTables, PageTables, QuizNext
  PROVE  PageTables'
<1>t. /\ answers \in [RunId -> [Pupils -> Option \cup {"none"}]] /\ requests \subseteq QuizRequest
      /\ qpage \in [QuizPerson -> QuizPage] /\ \A p \in QuizPerson : Numbered(qpage[p])
      /\ Pupils \subseteq QuizPerson
  BY DEF PageTables, QuizPerson
<1>1. ASSUME NEW h \in QuizHosts, AnnounceStart(h) PROVE PageTables'
  <2>1. starting[h].run \in RunId
    BY <1>1, Numbers DEF AnnounceStart, RunTables
  <2> QED BY <1>1, <2>1, QuizEvents, KeepsTablesOnWord DEF AnnounceStart
<1>2. ASSUME NEW h \in QuizHosts, AnnounceEnd(h) PROVE PageTables'
  <2>1. ending[h].run \in RunId
    BY <1>2, Numbers DEF AnnounceEnd, RunTables
  <2> QED BY <1>2, <2>1, QuizEvents, KeepsTablesOnWord DEF AnnounceEnd
<1>3. ASSUME NEW h \in QuizHosts, CloseDangling(h) \/ CommitRun(h) \/ CheckEnd(h) \/ SaveEnd(h)
      PROVE  PageTables'
  BY <1>3 DEF CloseDangling, CommitRun, CheckEnd, SaveEnd, PageTables, Numbered
<1>4. ASSUME NEW p \in QuizPerson, QuizHear(p) PROVE PageTables'
  BY <1>t, <1>4, Heard, KeepsTablesOnPage DEF QuizHear
<1>5. ASSUME NEW p \in QuizPerson, QuizSnapshot(p) PROVE PageTables'
  BY <1>t, <1>5, GotSnapshot, KeepsTablesOnPage DEF QuizSnapshot
<1>6. ASSUME NEW p \in QuizPerson, QuizJoin(p) PROVE PageTables'
  <2> DEFINE P == [qpage[p] EXCEPT !.conn = "joining"]
  <2>1. P \in QuizPage /\ Numbered(P) /\ qpage' = [qpage EXCEPT ![p] = P]
    BY <1>t, <1>6 DEF QuizJoin, QuizPage, Numbered
  <2> QED BY <1>t, <1>6, <2>1, KeepsTablesOnPage DEF QuizJoin
<1>7. ASSUME NEW p \in QuizPerson, QuizDrop(p) PROVE PageTables'
  <2> DEFINE P == [qpage[p] EXCEPT !.conn = "off", !.inbox = <<>>, !.gap = TRUE]
  <2>1. qpage' = [qpage EXCEPT ![p] = P]
    BY <1>t, <1>7 DEF QuizDrop
  <2>2. <<>> \in Seq(QuizEvent)
    OBVIOUS
  <2>3. P \in QuizPage /\ Numbered(P)
    BY <1>t, <2>2 DEF QuizPage, Numbered
  <2> QED BY <1>t, <1>7, <2>1, <2>3, KeepsTablesOnPage DEF QuizDrop
<1>8. ASSUME NEW p \in Pupils, NEW o \in Option, _answer(p, o) PROVE PageTables'
  <2> DEFINE more == \E m \in requests : m.by = p
             P == [qpage[p] EXCEPT !.mark = o, !.twice = @ \/ more]
             new == [by |-> p, run |-> qpage[p].run, option |-> o, phase |-> "sent"]
  <2>1. /\ qpage' = [qpage EXCEPT ![p] = P] /\ qpage[p].live
        /\ requests' = requests \cup {new} /\ UNCHANGED answers
    BY <1>t, <1>8 DEF _answer
  <2>2. qpage[p].run \in RunId
    BY <1>t, <2>1, QuizAssumption DEF QuizPage, Numbered, RunId
  <2>3. new \in QuizRequest
    BY <2>2 DEF QuizRequest
  <2>4. more \in BOOLEAN /\ qpage[p].twice \in BOOLEAN
    BY <1>t, PageParts
  <2> HIDE DEF more
  <2>5. (qpage[p].twice \/ more) \in BOOLEAN
    BY <2>4
  <2>6. P \in QuizPage
    BY <1>t, <2>5 DEF QuizPage
  <2>7. Numbered(P)
    <3>1. P.run = qpage[p].run
      BY <1>t DEF QuizPage
    <3> QED BY <2>2, <3>1, QuizAssumption DEF Numbered, RunId
  <2> QED BY <1>t, <2>1, <2>3, <2>6, <2>7, KeepsTablesOnPage
<1>9. ASSUME NEW m \in requests, CheckAnswer(m) PROVE PageTables'
  BY <1>9 DEF CheckAnswer, PageTables, QuizRequest, Numbered
<1>10. ASSUME NEW m \in requests, StoreAnswer(m) PROVE PageTables'
  BY <1>10 DEF StoreAnswer, PageTables, QuizRequest, Numbered
<1>11. ASSUME NEW m \in requests, Reply(m) PROVE PageTables'
  <2>1. requests' \subseteq QuizRequest /\ UNCHANGED answers
    BY <1>t, <1>11 DEF Reply
  <2>2. CASE UNCHANGED qpage
    BY <2>1, <2>2 DEF PageTables, Numbered
  <2>3. CASE qpage' = [qpage EXCEPT ![m.by].mark = "none"]
    <3> DEFINE P == [qpage[m.by] EXCEPT !.mark = "none"]
    <3>1. m.by \in QuizPerson
      BY <1>t DEF QuizRequest
    <3>2. qpage' = [qpage EXCEPT ![m.by] = P]
      BY <2>3
    <3>3. qpage[m.by] \in QuizPage /\ Numbered(qpage[m.by])
      BY <1>t, <3>1
    <3>4. P \in QuizPage /\ Numbered(P)
      BY <3>3 DEF QuizPage, Numbered
    <3> QED BY <1>t, <2>1, <3>1, <3>2, <3>4, KeepsTablesOnPage
  <2> QED BY <1>11, <2>2, <2>3 DEF Reply
<1> QED BY <1>1, <1>2, <1>3, <1>4, <1>5, <1>6, <1>7, <1>8, <1>9, <1>10, <1>11 DEF QuizNext

-----------------------------------------------------------------------------
(* What is marked is what is recorded.                                     *)

\* A page that is unmarked or keeps its mark, with the requests and the answers as they are.
LEMMA MarkStays ==
  ASSUME MarkInv, PageTables, UNCHANGED <<requests, answers>>,
         \A p \in Pupils : \/ qpage'[p].mark = "none"
                           \/ /\ qpage'[p].mark = qpage[p].mark /\ qpage'[p].run = qpage[p].run
                              /\ qpage'[p].twice = qpage[p].twice
  PROVE  MarkInv'
BY DEF MarkInv

LEMMA KeepsMark ==
  ASSUME RunTables, PageTables, MarkInv, QuizNext
  PROVE  MarkInv'
<1>t. /\ answers \in [RunId -> [Pupils -> Option \cup {"none"}]] /\ requests \subseteq QuizRequest
      /\ qpage \in [QuizPerson -> QuizPage] /\ \A p \in QuizPerson : Numbered(qpage[p])
      /\ Pupils \subseteq QuizPerson
  BY DEF PageTables, QuizPerson
<1>1. ASSUME NEW h \in QuizHosts, AnnounceStart(h) \/ AnnounceEnd(h) PROVE MarkInv'
  <2>1. starting[h].phase = "created" => starting[h].run \in RunId
    BY Numbers DEF RunTables
  <2>2. ending[h].phase = "ended" => ending[h].run \in RunId
    BY Numbers DEF RunTables
  <2>3. PICK e \in QuizEvent : QuizBroadcast(e)
    BY <1>1, <2>1, <2>2, QuizEvents DEF AnnounceStart, AnnounceEnd
  <2> QED BY <1>t, <1>1, <2>3, Broadcast, MarkStays DEF AnnounceStart, AnnounceEnd
<1>2. ASSUME NEW h \in QuizHosts, CloseDangling(h) \/ CommitRun(h) \/ CheckEnd(h) \/ SaveEnd(h)
      PROVE  MarkInv'
  BY <1>2, MarkStays DEF CloseDangling, CommitRun, CheckEnd, SaveEnd
<1>3. ASSUME NEW q \in QuizPerson, NEW H \in QuizPage, qpage' = [qpage EXCEPT ![q] = H],
             \/ H.mark = "none"
             \/ H.mark = qpage[q].mark /\ H.run = qpage[q].run /\ H.twice = qpage[q].twice,
             UNCHANGED <<requests, answers>>
      PROVE  MarkInv'
  <2>1. \A p \in QuizPerson : qpage'[p] = IF p = q THEN H ELSE qpage[p]
    BY <1>t, <1>3
  <2> QED BY <1>t, <1>3, <2>1, MarkStays
<1>4. ASSUME NEW p \in QuizPerson, QuizHear(p) PROVE MarkInv'
  <2> DEFINE P == qpage[p]
             e == Head(P.inbox)
             Q == [P EXCEPT !.inbox = Tail(P.inbox)]
             H == IF e.type = "quiz_started" THEN handleStarted(Q, e.run) ELSE handleEnded(Q, e.run)
  <2>1. /\ P \in QuizPage /\ e \in QuizEvent /\ Q \in QuizPage /\ H \in QuizPage
        /\ qpage' = [qpage EXCEPT ![p] = H] /\ UNCHANGED <<requests, answers>>
    BY <1>4, Heard DEF QuizHear
  <2>2. Q.mark = P.mark /\ Q.run = P.run /\ Q.twice = P.twice /\ e.run \in RunId
    BY <2>1 DEF QuizPage, QuizEvent
  <2>3. H.mark = "none" \/ (H.mark = P.mark /\ H.run = P.run /\ H.twice = P.twice)
    <3> HIDE DEF P, Q, e
    <3> QED BY <2>1, <2>2, Handlers
  <2> HIDE DEF e, Q, H
  <2> QED BY <1>3, <2>1, <2>3
<1>5. ASSUME NEW p \in QuizPerson, QuizSnapshot(p) PROVE MarkInv'
  <2> DEFINE P == qpage[p]
             Q == [P EXCEPT !.conn = "on"]
             H == IF active_run = 0 THEN Q ELSE handleStarted(Q, active_run)
  <2>1. /\ P \in QuizPage /\ Q \in QuizPage /\ H \in QuizPage
        /\ active_run # 0 => active_run \in RunId
        /\ qpage' = [qpage EXCEPT ![p] = H] /\ UNCHANGED <<requests, answers>>
    BY <1>5, GotSnapshot DEF QuizSnapshot
  <2>2. Q.mark = P.mark /\ Q.run = P.run /\ Q.twice = P.twice
    BY <2>1 DEF QuizPage
  <2>3. H.mark = "none" \/ (H.mark = P.mark /\ H.run = P.run /\ H.twice = P.twice)
    <3> HIDE DEF P, Q
    <3> QED BY <2>1, <2>2, Handlers
  <2> HIDE DEF Q, H
  <2> QED BY <1>3, <2>1, <2>3
<1>6. ASSUME NEW p \in QuizPerson, QuizJoin(p) \/ QuizDrop(p) PROVE MarkInv'
  <2> DEFINE Joined == [qpage[p] EXCEPT !.conn = "joining"]
             Lost   == [qpage[p] EXCEPT !.conn = "off", !.inbox = <<>>, !.gap = TRUE]
  <2>0. qpage' = [qpage EXCEPT ![p] = Joined] \/ qpage' = [qpage EXCEPT ![p] = Lost]
    BY <1>t, <1>6 DEF QuizJoin, QuizDrop
  <2>2. /\ Joined.mark = qpage[p].mark /\ Joined.run = qpage[p].run /\ Joined.twice = qpage[p].twice
        /\ Lost.mark = qpage[p].mark /\ Lost.run = qpage[p].run /\ Lost.twice = qpage[p].twice
    BY <1>t DEF QuizPage
  <2> HIDE DEF Joined, Lost
  <2>1. \A q \in QuizPerson : /\ qpage'[q].mark = qpage[q].mark /\ qpage'[q].run = qpage[q].run
                             /\ qpage'[q].twice = qpage[q].twice
    BY <1>t, <2>0, <2>2
  <2> QED BY <1>t, <1>6, <2>1, MarkStays DEF QuizJoin, QuizDrop
<1>7. ASSUME NEW p \in Pupils, NEW o \in Option, _answer(p, o) PROVE MarkInv'
  <2> DEFINE more == \E m \in requests : m.by = p
             new == [by |-> p, run |-> qpage[p].run, option |-> o, phase |-> "sent"]
  <2>1. /\ requests' = requests \cup {new} /\ UNCHANGED answers
        /\ qpage' = [qpage EXCEPT ![p].mark = o, ![p].twice = @ \/ more]
    BY <1>7 DEF _answer
  <2>2. new.by = p /\ new.run = qpage[p].run /\ new.option = o /\ new.phase = "sent"
    OBVIOUS
  <2> HIDE DEF new
  <2> SUFFICES ASSUME NEW q \in Pupils, qpage'[q].mark # "none", ~qpage'[q].twice
               PROVE  /\ \A m \in requests' : m.by = q =>
                           /\ m.run = qpage'[q].run /\ m.option = qpage'[q].mark
                           /\ m.phase = "ok" => answers'[qpage'[q].run][q] = qpage'[q].mark
                      /\ (~\E m \in requests' : m.by = q) => answers'[qpage'[q].run][q] = qpage'[q].mark
    BY DEF MarkInv
  <2>3. CASE q # p
    <3>1. qpage'[q] = qpage[q]
      BY <1>t, <2>1, <2>3
    <3> QED BY <2>1, <2>2, <2>3, <3>1 DEF MarkInv
  <2>4. CASE q = p
    <3>1. qpage'[p].mark = o /\ qpage'[p].run = qpage[p].run
      BY <1>t, <2>1 DEF QuizPage
    <3>2. qpage'[p].twice = (qpage[p].twice \/ more)
      <4> HIDE DEF more
      <4> QED BY <1>t, <2>1 DEF QuizPage
    <3>3. ~more
      <4> HIDE DEF more
      <4> QED BY <2>4, <3>2
    <3> QED BY <2>1, <2>2, <2>4, <3>1, <3>3
  <2> QED BY <2>3, <2>4
<1>8. ASSUME NEW m \in requests, CheckAnswer(m) PROVE MarkInv'
  <2> DEFINE n == [m EXCEPT !.phase = IF m.run \in ActiveRuns THEN "checked" ELSE "error"]
  <2>1. requests' = (requests \ {m}) \cup {n} /\ UNCHANGED <<qpage, answers>>
    BY <1>8 DEF CheckAnswer
  <2>2. n.by = m.by /\ n.run = m.run /\ n.option = m.option /\ n.phase # "ok"
    BY <1>t DEF QuizRequest
  <2> HIDE DEF n
  <2> QED BY <2>1, <2>2 DEF MarkInv
<1>9. ASSUME NEW m \in requests, StoreAnswer(m) PROVE MarkInv'
  <2> DEFINE n == [m EXCEPT !.phase = "ok"]
  <2>1. /\ requests' = (requests \ {m}) \cup {n} /\ UNCHANGED qpage
        /\ answers' = [answers EXCEPT ![m.run][m.by] = m.option]
    BY <1>9 DEF StoreAnswer
  <2>2. n.by = m.by /\ n.run = m.run /\ n.option = m.option /\ m \in QuizRequest
    BY <1>t DEF QuizRequest
  <2> HIDE DEF n
  <2>3. m.run \in RunId /\ m.by \in Pupils /\ answers'[m.run][m.by] = m.option
    BY <1>t, <2>1, <2>2 DEF QuizRequest
  <2>4. \A q \in Pupils : q # m.by => \A r \in RunId : answers'[r][q] = answers[r][q]
    BY <1>t, <2>1, <2>3
  <2>5. \A q \in Pupils : qpage[q].mark # "none" => qpage[q].run \in RunId
    BY <1>t, QuizAssumption DEF QuizPage, Numbered, RunId
  <2> SUFFICES ASSUME NEW q \in Pupils, qpage[q].mark # "none", ~qpage[q].twice
               PROVE  /\ \A k \in requests' : k.by = q =>
                           /\ k.run = qpage[q].run /\ k.option = qpage[q].mark
                           /\ k.phase = "ok" => answers'[qpage[q].run][q] = qpage[q].mark
                      /\ (~\E k \in requests' : k.by = q) => answers'[qpage[q].run][q] = qpage[q].mark
    BY <2>1 DEF MarkInv
  <2>6. CASE q # m.by
    BY <2>1, <2>2, <2>4, <2>5, <2>6 DEF MarkInv
  <2>7. CASE q = m.by
    <3>1. m.run = qpage[q].run /\ m.option = qpage[q].mark
      BY <2>7 DEF MarkInv
    <3>2. answers'[qpage[q].run][q] = qpage[q].mark
      BY <2>3, <2>7, <3>1
    <3> QED BY <2>1, <2>2, <3>1, <3>2 DEF MarkInv
  <2> QED BY <2>6, <2>7
<1>10. ASSUME NEW m \in requests, Reply(m) PROVE MarkInv'
  <2>1. requests' = requests \ {m} /\ UNCHANGED answers /\ m.phase \in {"ok", "error"}
        /\ m.by \in Pupils
    BY <1>t, <1>10 DEF Reply, QuizRequest
  <2>2. CASE m.phase = "ok" /\ UNCHANGED qpage
    BY <2>1, <2>2 DEF MarkInv
  <2>3. CASE qpage' = [qpage EXCEPT ![m.by].mark = "none"]
    <3>1. qpage'[m.by].mark = "none" /\ \A q \in Pupils : q # m.by => qpage'[q] = qpage[q]
      BY <1>t, <2>1, <2>3 DEF QuizPage
    <3> QED BY <2>1, <3>1 DEF MarkInv
  <2> QED BY <1>10, <2>2, <2>3 DEF Reply
<1> QED BY <1>1, <1>2, <1>4, <1>5, <1>6, <1>7, <1>8, <1>9, <1>10 DEF QuizNext

-----------------------------------------------------------------------------
(* Pages that hear everything follow the quiz.                             *)

\* The run that counts, one host at a time.
LEMMA TheRun ==
  ASSUME RunTables, OneHost
  PROVE  /\ \A h \in QuizHosts : ending[h].phase = "ended" =>
              AnnouncedRun = ending[h].run /\ active_run = 0 /\ ending[h].run # 0
         /\ (\A h \in QuizHosts : ending[h].phase # "ended") => AnnouncedRun = active_run
         /\ \A r : ActiveRuns = {r} => active_run = r /\ r # 0
         /\ AnnouncedRun = 0 => active_run = 0
<1>1. \A r : ActiveRuns = {r} => active_run = r /\ r # 0
  BY ActiveRun, Numbers
<1>2. (\A h \in QuizHosts : ending[h].phase # "ended") => AnnouncedRun = active_run
  BY DEF AnnouncedRun
<1>3. ASSUME NEW h \in QuizHosts, ending[h].phase = "ended"
      PROVE  AnnouncedRun = ending[h].run /\ active_run = 0 /\ ending[h].run # 0
  <2> DEFINE g == CHOOSE x \in QuizHosts : ending[x].phase = "ended"
  <2>1. g \in QuizHosts /\ ending[g].phase = "ended" /\ AnnouncedRun = ending[g].run
    BY <1>3 DEF AnnouncedRun
  <2> HIDE DEF g
  <2>2. g = h
    BY <1>3, <2>1 DEF OneHost, Busy
  <2>3. active_run = 0
    BY <1>3, ActiveRun DEF OneHost
  <2>4. ending[h].run # 0
    BY <1>3, Numbers DEF RunTables
  <2> QED BY <2>1, <2>2, <2>3, <2>4
<1> QED BY <1>1, <1>2, <1>3

LEMMA KeepsOneHost ==
  ASSUME RunTables, ~crossed => OneHost, QuizNext, ~crossed'
  PROVE  OneHost' /\ OneHost /\ ~crossed
<1>n. /\ Len(runs) \in Nat /\ DOMAIN runs = 1..Len(runs) /\ ActiveRuns \subseteq 1..Len(runs)
      /\ starting \in [QuizHosts -> QuizCall] /\ ending \in [QuizHosts -> QuizCall]
  BY Numbers
<1>0. ~crossed /\ OneHost
  <2>1. ASSUME NEW h \in QuizHosts, CloseDangling(h) \/ CheckEnd(h) PROVE crossed' = (crossed \/ Busy # {})
    BY <2>1 DEF CloseDangling, CheckEnd
  <2>2. ASSUME NEW h \in QuizHosts, CommitRun(h) \/ AnnounceStart(h) \/ SaveEnd(h) \/ AnnounceEnd(h)
        PROVE  crossed' = crossed
    BY <2>2 DEF CommitRun, AnnounceStart, SaveEnd, AnnounceEnd
  <2>3. ASSUME NEW p \in QuizPerson, QuizHear(p) \/ QuizJoin(p) \/ QuizSnapshot(p) \/ QuizDrop(p)
        PROVE  crossed' = crossed
    BY <2>3 DEF QuizHear, QuizJoin, QuizSnapshot, QuizDrop
  <2>4. ASSUME NEW p \in Pupils, NEW o \in Option, _answer(p, o) PROVE crossed' = crossed
    BY <2>4 DEF _answer
  <2>5. ASSUME NEW m \in requests, CheckAnswer(m) \/ StoreAnswer(m) \/ Reply(m) PROVE crossed' = crossed
    BY <2>5 DEF CheckAnswer, StoreAnswer, Reply
  <2> QED BY <2>1, <2>2, <2>3, <2>4, <2>5 DEF QuizNext
<1>1. ASSUME NEW h \in QuizHosts, CloseDangling(h) PROVE OneHost'
  <2> DEFINE mine == [phase |-> "close", run |-> 0, seen |-> ActiveRuns,
                      alone |-> \A o \in QuizHosts : starting[o].phase = "idle"]
  <2>1. /\ starting' = [g \in QuizHosts |-> IF g = h THEN mine ELSE [starting[g] EXCEPT !.alone = FALSE]]
        /\ crossed' = (crossed \/ Busy # {}) /\ UNCHANGED <<runs, ending>>
    BY <1>1 DEF CloseDangling
  <2>2. mine.phase = "close" /\ mine.seen = ActiveRuns
    OBVIOUS
  <2> HIDE DEF mine
  <2>3. Busy = {} /\ ActiveRuns' = ActiveRuns
    BY <2>1 DEF ActiveRuns
  <2>4. /\ starting'[h].phase = "close" /\ starting'[h].seen = ActiveRuns
        /\ \A g \in QuizHosts : g # h => starting'[g].phase = "idle"
        /\ \A g \in QuizHosts : ending'[g].phase = "idle"
    BY <1>n, <2>1, <2>2, <2>3 DEF QuizCall, Busy
  <2> QED BY <1>0, <2>3, <2>4 DEF OneHost, Busy
<1>2. ASSUME NEW h \in QuizHosts, CommitRun(h) PROVE OneHost'
  <2>1. /\ starting' = [starting EXCEPT ![h].phase = "created", ![h].run = Len(runs) + 1]
        /\ starting[h].phase = "close" /\ UNCHANGED ending
    BY <1>2 DEF CommitRun
  <2>2. ActiveRuns' = {Len(runs) + 1}
    BY <1>0, <1>2, <2>1, Committed DEF OneHost, RunTables
  <2>3. /\ starting'[h].phase = "created" /\ starting'[h].run = Len(runs) + 1
        /\ \A g \in QuizHosts : g # h => starting'[g] = starting[g]
    BY <1>n, <2>1 DEF QuizCall
  <2>4. \A g \in QuizHosts : /\ g # h => starting[g].phase = "idle"
                             /\ ending[g].phase = "idle"
    BY <1>0, <2>1 DEF OneHost, Busy
  <2> QED BY <2>1, <2>2, <2>3, <2>4, ZenonT(30) DEF OneHost, Busy
<1>3. ASSUME NEW h \in QuizHosts, AnnounceStart(h) PROVE OneHost'
  <2>1. /\ starting' = [starting EXCEPT ![h] = QuizIdle] /\ starting[h].phase = "created"
        /\ UNCHANGED <<runs, ending>>
    BY <1>3 DEF AnnounceStart
  <2>2. /\ starting'[h].phase = "idle"
        /\ \A g \in QuizHosts : g # h => starting'[g] = starting[g]
    BY <1>n, <2>1 DEF QuizIdle
  <2>3. ActiveRuns' = ActiveRuns
    BY <2>1 DEF ActiveRuns
  <2> QED BY <1>0, <2>1, <2>2, <2>3 DEF OneHost, Busy
<1>4. ASSUME NEW h \in QuizHosts, CheckEnd(h) PROVE OneHost'
  <2>1. /\ ending' = [ending EXCEPT ![h].phase = "active", ![h].run = qpage[h].run]
        /\ qpage[h].run \in ActiveRuns
        /\ crossed' = (crossed \/ Busy # {}) /\ UNCHANGED <<runs, starting>>
    BY <1>4 DEF CheckEnd
  <2>2. /\ ending'[h].phase = "active" /\ ending'[h].run = qpage[h].run
        /\ \A g \in QuizHosts : g # h => ending'[g] = ending[g]
    BY <1>n, <2>1 DEF QuizCall
  <2>3. Busy = {} /\ ActiveRuns' = ActiveRuns /\ ActiveRuns = {qpage[h].run}
    BY <1>0, <2>1 DEF ActiveRuns, OneHost
  <2>4. \A g \in QuizHosts : starting'[g].phase = "idle" /\ (g # h => ending'[g].phase = "idle")
    BY <2>1, <2>2, <2>3, ZenonT(30) DEF Busy
  <2> QED BY <2>2, <2>3, <2>4 DEF OneHost, Busy
<1>5. ASSUME NEW h \in QuizHosts, SaveEnd(h) PROVE OneHost'
  <2>1. /\ runs' = [runs EXCEPT ![ending[h].run] = FALSE]
        /\ ending' = [ending EXCEPT ![h].phase = "ended"] /\ ending[h].phase = "active"
        /\ UNCHANGED starting
    BY <1>5 DEF SaveEnd
  <2>2. /\ ending'[h].phase = "ended" /\ ending'[h].run = ending[h].run
        /\ \A g \in QuizHosts : g # h => ending'[g] = ending[g]
    BY <1>n, <2>1 DEF QuizCall
  <2>3. ActiveRuns = {ending[h].run}
    BY <1>0, <2>1 DEF OneHost
  <2>4. ActiveRuns' = {}
    <3>1. runs \in [DOMAIN runs -> BOOLEAN]
      BY DEF RunTables, StartInv, RunsOK
    <3> QED BY <2>1, <2>3, <3>1 DEF ActiveRuns
  <2>5. \A g \in QuizHosts : starting[g].phase = "idle" /\ (g # h => ending[g].phase = "idle")
    BY <1>0, <2>1 DEF OneHost, Busy
  <2> QED BY <2>1, <2>2, <2>4, <2>5 DEF OneHost, Busy
<1>6. ASSUME NEW h \in QuizHosts, AnnounceEnd(h) PROVE OneHost'
  <2>1. /\ ending' = [ending EXCEPT ![h] = QuizIdle] /\ UNCHANGED <<runs, starting>>
    BY <1>6 DEF AnnounceEnd
  <2>2. /\ ending'[h].phase = "idle"
        /\ \A g \in QuizHosts : g # h => ending'[g] = ending[g]
    BY <1>n, <2>1 DEF QuizIdle
  <2>3. ActiveRuns' = ActiveRuns
    BY <2>1 DEF ActiveRuns
  <2> QED BY <1>0, <2>1, <2>2, <2>3 DEF OneHost, Busy
<1>7. ASSUME UNCHANGED <<runs, starting, ending>> PROVE OneHost'
  BY <1>0, <1>7 DEF OneHost, Busy, ActiveRuns
<1>8. CASE \E p \in QuizPerson : QuizHear(p) \/ QuizJoin(p) \/ QuizSnapshot(p) \/ QuizDrop(p)
  BY <1>7, <1>8 DEF QuizHear, QuizJoin, QuizSnapshot, QuizDrop
<1>9. CASE \E p \in Pupils, o \in Option : _answer(p, o)
  BY <1>7, <1>9 DEF _answer
<1>10. CASE \E m \in requests : CheckAnswer(m) \/ StoreAnswer(m) \/ Reply(m)
  BY <1>7, <1>10 DEF CheckAnswer, StoreAnswer, Reply
<1> QED BY <1>0, <1>1, <1>2, <1>3, <1>4, <1>5, <1>6, <1>8, <1>9, <1>10 DEF QuizNext

\* What a page has heard, and what it knows of the run that counts.
Follows(P) == PageChain(P) /\ (AllAnnounced => PageWord(P, AnnouncedRun, active_run = 0))

LEMMA SamePage ==
  ASSUME NEW P, NEW Q, Q.conn = P.conn, Q.inbox = P.inbox, Q.live = P.live, Q.run = P.run
  PROVE  /\ PageChain(P) => PageChain(Q)
         /\ \A r, over : PageWord(P, r, over) => PageWord(Q, r, over)
BY DEF PageChain, PageWord, Shown

LEMMA AddEvent ==
  ASSUME NEW s \in Seq(QuizEvent), NEW e \in QuizEvent
  PROVE  /\ Append(s, e) \in Seq(QuizEvent) /\ Len(s) \in Nat /\ Len(Append(s, e)) = Len(s) + 1
         /\ Append(s, e) # <<>> /\ Append(s, e)[Len(s) + 1] = e
         /\ \A k \in 1..Len(s) : Append(s, e)[k] = s[k]
         /\ (s # <<>> <=> Len(s) # 0)
OBVIOUS

\* A page is told that run r began, or, after the word that it began, that it ended.
LEMMA ToldStart ==
  ASSUME NEW P \in QuizPage, NEW Q \in QuizPage, NEW r \in RunId, PageChain(P), P.conn # "off",
         Q.conn = P.conn, Q.live = P.live, Q.run = P.run, Q.inbox = Append(P.inbox, Started(r))
  PROVE  PageChain(Q) /\ \A over : PageWord(Q, r, over)
<1>1. P.inbox \in Seq(QuizEvent) /\ Started(r) \in QuizEvent /\ Started(r).type = "quiz_started" /\ r # 0
  BY QuizEvents, PageParts, QuizAssumption DEF RunId
<1> DEFINE t == Append(P.inbox, Started(r))
<1>2. /\ Len(P.inbox) \in Nat /\ Len(t) = Len(P.inbox) + 1 /\ t # <<>>
      /\ t[Len(P.inbox) + 1] = Started(r) /\ \A k \in 1..Len(P.inbox) : t[k] = P.inbox[k]
  BY <1>1, AddEvent
<1> HIDE DEF t
<1>3. PageChain(Q)
  <2>1. ASSUME NEW k \in 2..Len(t), t[k].type = "quiz_ended" PROVE t[k - 1] = Started(t[k].run)
    <3>1. k # Len(P.inbox) + 1
      BY <1>1, <1>2, <2>1
    <3>2. k \in 2..Len(P.inbox) /\ k - 1 \in 1..Len(P.inbox) /\ k \in 1..Len(P.inbox)
      BY <1>2, <3>1
    <3> QED BY <1>2, <2>1, <3>2 DEF PageChain
  <2> QED BY <2>1 DEF PageChain, t
<1>4. ASSUME NEW over PROVE PageWord(Q, r, over)
  <2>1. Q.inbox = t /\ Q.inbox # <<>> /\ Q.inbox[Len(Q.inbox)] = Started(r)
    BY <1>2 DEF t
  <2> QED BY <1>1, <2>1 DEF PageWord
<1> QED BY <1>3, <1>4

LEMMA ToldEnd ==
  ASSUME NEW P \in QuizPage, NEW Q \in QuizPage, NEW r \in RunId, PageChain(P), P.conn # "off",
         Numbered(P), NEW over, PageWord(P, r, over),
         Q.conn = P.conn, Q.live = P.live, Q.run = P.run, Q.inbox = Append(P.inbox, Ended(r))
  PROVE  PageChain(Q) /\ PageWord(Q, 0, TRUE)
<1>1. /\ P.inbox \in Seq(QuizEvent) /\ r # 0
      /\ Ended(r) \in QuizEvent /\ Ended(r).type = "quiz_ended" /\ Ended(r).run = r
  BY QuizEvents, PageParts, QuizAssumption DEF RunId
<1> DEFINE t == Append(P.inbox, Ended(r))
<1>2. /\ Len(P.inbox) \in Nat /\ Len(t) = Len(P.inbox) + 1 /\ t # <<>>
      /\ t[Len(P.inbox) + 1] = Ended(r) /\ \A k \in 1..Len(P.inbox) : t[k] = P.inbox[k]
      /\ (P.inbox # <<>> <=> Len(P.inbox) # 0)
  BY <1>1, AddEvent
<1> HIDE DEF t
<1>3. PageChain(Q)
  <2>1. ASSUME NEW k \in 2..Len(t), t[k].type = "quiz_ended" PROVE t[k - 1] = Started(t[k].run)
    <3>1. CASE k = Len(P.inbox) + 1
      <4>1. Len(P.inbox) # 0 /\ k - 1 = Len(P.inbox) /\ k - 1 \in 1..Len(P.inbox)
        BY <1>2, <3>1
      <4>2. P.inbox[Len(P.inbox)] = Started(r)
        BY <1>1, <1>2, <4>1 DEF PageWord
      <4> QED BY <1>1, <1>2, <3>1, <4>1, <4>2
    <3>2. CASE k # Len(P.inbox) + 1
      <4>1. k \in 2..Len(P.inbox) /\ k - 1 \in 1..Len(P.inbox) /\ k \in 1..Len(P.inbox)
        BY <1>2, <3>2
      <4> QED BY <1>2, <2>1, <4>1 DEF PageChain
    <3> QED BY <3>1, <3>2
  <2> QED BY <2>1 DEF PageChain, t
<1>4. PageWord(Q, 0, TRUE)
  <2>1. Q.inbox = t /\ Q.inbox # <<>> /\ Q.inbox[Len(Q.inbox)] = Ended(r)
    BY <1>2 DEF t
  <2>2. ASSUME Q.conn = "on", Len(Q.inbox) = 1, Q.live PROVE Q.run = Q.inbox[1].run
    <3>0. Len(P.inbox) = 0
      <4>1. Len(t) = 1
        BY <2>1, <2>2
      <4>2. \A n \in Nat : n + 1 = 1 => n = 0
        OBVIOUS
      <4> QED BY <1>2, <4>1, <4>2
    <3>1. P.inbox = <<>> /\ P.conn = "on" /\ P.live
      BY <1>2, <2>2, <3>0
    <3>2. Shown(P) = r
      BY <1>1, <3>1 DEF PageWord, Shown, Numbered
    <3> QED BY <1>1, <2>1, <2>2, <3>1, <3>2 DEF Shown
  <2> QED BY <1>1, <2>1, <2>2 DEF PageWord
<1> QED BY <1>3, <1>4

LEMMA HearsOne ==
  ASSUME NEW P \in QuizPage, NEW Q \in QuizPage, NEW H, P.inbox # <<>>, P.conn = "on", PageChain(P),
         Q.inbox = Tail(P.inbox), Q.conn = P.conn, Q.run = P.run, Q.live = P.live,
         H = IF P.inbox[1].type = "quiz_started" THEN handleStarted(Q, P.inbox[1].run)
                                                  ELSE handleEnded(Q, P.inbox[1].run),
         NEW r \in Nat, NEW over
  PROVE  PageChain(H) /\ (PageWord(P, r, over) => PageWord(H, r, over))
<1> DEFINE s == P.inbox
           t == Tail(P.inbox)
<1>1. /\ s \in Seq(QuizEvent) /\ s[1] \in QuizEvent /\ t \in Seq(QuizEvent)
      /\ Len(s) \in Nat \ {0} /\ Len(t) = Len(s) - 1
      /\ \A k \in 1..Len(t) : t[k] = s[k + 1]
  BY PageParts, TakeEvent
<1>2. /\ s[1].run \in RunId /\ s[1].run # 0
      /\ s[1].type = "quiz_started" <=> s[1] = Started(s[1].run)
      /\ s[1].type # "quiz_started" <=> s[1].type = "quiz_ended"
      /\ \A x \in RunId : Started(x).run = x /\ Started(x).type = "quiz_started"
  BY <1>1, QuizAssumption DEF QuizEvent, Started, RunId
<1>3. /\ H.conn = "on" /\ H.inbox = t
      /\ s[1].type = "quiz_started" => H.run = s[1].run /\ H.live
      /\ s[1].type # "quiz_started" => H.run = P.run /\ H.live = (P.live /\ P.run # s[1].run)
  BY <1>2, Handlers
<1>4. \A k \in 2..Len(s) : s[k].type = "quiz_ended" => s[k - 1] = Started(s[k].run)
  BY DEF PageChain
<1>6. /\ H.inbox # <<>> <=> t # <<>>
      /\ Len(P.inbox) = Len(s)
  BY <1>3
<1>7. PageWord(P, r, over) =>
        /\ IF r = 0 THEN s[Len(s)].type = "quiz_ended" ELSE s[Len(s)] = Started(r)
        /\ Len(s) = 1 /\ s[1].type = "quiz_ended" /\ P.live => P.run = s[1].run
  BY DEF PageWord
<1> HIDE DEF s, t
<1>5. /\ t = <<>> <=> Len(t) = 0
      /\ \A k \in 1..Len(t) : t[k] \in QuizEvent
  BY <1>1
<1>8. PageChain(H)
  <2>1. ASSUME NEW k \in 2..Len(t), t[k].type = "quiz_ended" PROVE t[k - 1] = Started(t[k].run)
    <3>1. k \in 1..Len(t) /\ k - 1 \in 1..Len(t) /\ k + 1 \in 2..Len(s) /\ (k - 1) + 1 = k /\ (k + 1) - 1 = k
      BY <1>1
    <3>2. t[k] = s[k + 1] /\ t[k - 1] = s[k]
      BY <1>1, <3>1
    <3> QED BY <1>4, <2>1, <3>1, <3>2
  <2> QED BY <1>3, <2>1 DEF PageChain
<1>9. ASSUME PageWord(P, r, over) PROVE PageWord(H, r, over)
  <2>1. CASE Len(t) = 0
    <3>1. t = <<>> /\ Len(s) = 1
      BY <1>1, <1>5, <2>1
    <3>2. Shown(H) = r
      <4>1. CASE r = 0
        <5>1. s[1].type = "quiz_ended" /\ ~H.live
          BY <1>2, <1>3, <1>7, <1>9, <3>1, <4>1
        <5> QED BY <4>1, <5>1 DEF Shown
      <4>2. CASE r # 0
        <5>1. s[1] = Started(r)
          BY <1>7, <1>9, <3>1, <4>2
        <5>2. s[1].type = "quiz_started" /\ s[1].run = r
          BY <5>1 DEF Started
        <5> QED BY <1>3, <5>2 DEF Shown
      <4> QED BY <4>1, <4>2
    <3>3. H.inbox = <<>> /\ Len(H.inbox) # 1
      <4>1. Len(t) # 1
        BY <2>1
      <4> QED BY <1>3, <3>1, <4>1, Zenon
    <3> QED BY <3>2, <3>3, Zenon DEF PageWord
  <2>2. CASE Len(t) # 0
    <3>1. Len(t) \in 1..Len(t) /\ Len(t) + 1 = Len(s) /\ t # <<>>
      BY <1>1, <1>5, <2>2
    <3>2. t[Len(t)] = s[Len(s)]
      BY <1>1, <3>1
    <3>3. ASSUME Len(t) = 1, t[1].type = "quiz_ended" PROVE H.run = t[1].run
      <4>1. Len(s) = 2 /\ t[1] = s[2] /\ 2 \in 2..Len(s) /\ 2 - 1 = 1 /\ t[1] \in QuizEvent
        <5>1. Len(s) = 2 /\ 1 \in 1..Len(t) /\ 1 + 1 = 2
          BY <3>1, <3>3
        <5> QED BY <1>1, <1>5, <5>1
      <4>2. s[1] = Started(t[1].run) /\ t[1].run \in RunId
        BY <1>4, <3>3, <4>1 DEF QuizEvent
      <4> QED BY <1>2, <1>3, <4>2
    <3> QED BY <1>3, <1>7, <1>9, <3>1, <3>2, <3>3 DEF PageWord
  <2> QED BY <2>1, <2>2
<1> QED BY <1>8, <1>9

\* The pages that are not connected have nothing on its way.
LEMMA KeepsOff ==
  ASSUME RunTables, PageTables, QuizNext,
         \A p \in QuizPerson : qpage[p].conn = "off" => qpage[p].inbox = <<>>
  PROVE  \A p \in QuizPerson : qpage'[p].conn = "off" => qpage'[p].inbox = <<>>
<1>t. qpage \in [QuizPerson -> QuizPage] /\ Pupils \subseteq QuizPerson /\ requests \subseteq QuizRequest
  BY DEF PageTables, QuizPerson
<1>0. ASSUME NEW p \in QuizPerson, NEW P, qpage' = [qpage EXCEPT ![p] = P],
             P.conn = "off" => P.inbox = <<>>
      PROVE  \A q \in QuizPerson : qpage'[q].conn = "off" => qpage'[q].inbox = <<>>
  BY <1>t, <1>0
<1>1. ASSUME NEW h \in QuizHosts, AnnounceStart(h) \/ AnnounceEnd(h)
      PROVE  \A q \in QuizPerson : qpage'[q].conn = "off" => qpage'[q].inbox = <<>>
  <2>1. starting[h].phase = "created" => starting[h].run \in RunId
    BY Numbers DEF RunTables
  <2>2. ending[h].phase = "ended" => ending[h].run \in RunId
    BY Numbers DEF RunTables
  <2>3. PICK e \in QuizEvent : QuizBroadcast(e)
    BY <1>1, <2>1, <2>2, QuizEvents DEF AnnounceStart, AnnounceEnd
  <2> QED BY <1>t, <2>3, Broadcast
<1>2. ASSUME NEW h \in QuizHosts, CloseDangling(h) \/ CommitRun(h) \/ CheckEnd(h) \/ SaveEnd(h)
      PROVE  UNCHANGED qpage
  BY <1>2 DEF CloseDangling, CommitRun, CheckEnd, SaveEnd
<1>3. ASSUME NEW p \in QuizPerson, QuizHear(p)
      PROVE  \A q \in QuizPerson : qpage'[q].conn = "off" => qpage'[q].inbox = <<>>
  <2> DEFINE P == qpage[p]
             e == Head(P.inbox)
             Q == [P EXCEPT !.inbox = Tail(P.inbox)]
             H == IF e.type = "quiz_started" THEN handleStarted(Q, e.run) ELSE handleEnded(Q, e.run)
  <2>1. /\ P \in QuizPage /\ e \in QuizEvent /\ Q \in QuizPage /\ qpage' = [qpage EXCEPT ![p] = H]
        /\ P.conn = "on"
    BY <1>3, Heard DEF QuizHear
  <2>2. e.run \in RunId /\ Q.conn = "on"
    BY <2>1 DEF QuizEvent, QuizPage
  <2>3. H.conn = "on"
    <3> HIDE DEF Q, e
    <3> QED BY <2>1, <2>2, Handlers
  <2> HIDE DEF H
  <2> QED BY <1>0, <2>1, <2>3
<1>4. ASSUME NEW p \in QuizPerson, QuizSnapshot(p)
      PROVE  \A q \in QuizPerson : qpage'[q].conn = "off" => qpage'[q].inbox = <<>>
  <2> DEFINE P == qpage[p]
             Q == [P EXCEPT !.conn = "on"]
             H == IF active_run = 0 THEN Q ELSE handleStarted(Q, active_run)
  <2>1. /\ P \in QuizPage /\ Q \in QuizPage
        /\ active_run # 0 => active_run \in RunId
        /\ qpage' = [qpage EXCEPT ![p] = H]
    BY <1>4, GotSnapshot
  <2>2. Q.conn = "on"
    BY <2>1 DEF QuizPage
  <2>3. H.conn = "on"
    <3> HIDE DEF Q
    <3> QED BY <2>1, <2>2, Handlers
  <2> HIDE DEF H
  <2> QED BY <1>0, <2>1, <2>3
<1>5. ASSUME NEW p \in QuizPerson, QuizJoin(p)
      PROVE  \A q \in QuizPerson : qpage'[q].conn = "off" => qpage'[q].inbox = <<>>
  <2> DEFINE P == [qpage[p] EXCEPT !.conn = "joining"]
  <2>1. qpage' = [qpage EXCEPT ![p] = P] /\ P.conn = "joining"
    BY <1>t, <1>5 DEF QuizJoin, QuizPage
  <2> HIDE DEF P
  <2> QED BY <1>0, <2>1
<1>6. ASSUME NEW p \in QuizPerson, QuizDrop(p)
      PROVE  \A q \in QuizPerson : qpage'[q].conn = "off" => qpage'[q].inbox = <<>>
  <2> DEFINE P == [qpage[p] EXCEPT !.conn = "off", !.inbox = <<>>, !.gap = TRUE]
  <2>1. qpage' = [qpage EXCEPT ![p] = P] /\ P.inbox = <<>>
    BY <1>t, <1>6 DEF QuizDrop, QuizPage
  <2> HIDE DEF P
  <2> QED BY <1>0, <2>1
<1>7. ASSUME NEW p \in Pupils, NEW o \in Option, _answer(p, o)
      PROVE  \A q \in QuizPerson : qpage'[q].conn = "off" => qpage'[q].inbox = <<>>
  <2> DEFINE more == \E m \in requests : m.by = p
             P == [qpage[p] EXCEPT !.mark = o, !.twice = @ \/ more]
  <2>1. qpage' = [qpage EXCEPT ![p] = P] /\ p \in QuizPerson /\ qpage[p] \in QuizPage
    BY <1>t, <1>7 DEF _answer
  <2>2. P.conn = qpage[p].conn /\ P.inbox = qpage[p].inbox
    BY <2>1 DEF QuizPage
  <2> HIDE DEF P
  <2> QED BY <1>0, <2>1, <2>2
<1>8. ASSUME NEW m \in requests, CheckAnswer(m) \/ StoreAnswer(m) PROVE UNCHANGED qpage
  BY <1>8 DEF CheckAnswer, StoreAnswer
<1>9. ASSUME NEW m \in requests, Reply(m)
      PROVE  \A q \in QuizPerson : qpage'[q].conn = "off" => qpage'[q].inbox = <<>>
  <2> DEFINE P == [qpage[m.by] EXCEPT !.mark = "none"]
  <2>1. m.by \in QuizPerson
    BY <1>t DEF QuizRequest
  <2>2. qpage' = [qpage EXCEPT ![m.by] = P] \/ UNCHANGED qpage
    BY <1>9, <2>1 DEF Reply
  <2>3. P.conn = qpage[m.by].conn /\ P.inbox = qpage[m.by].inbox
    BY <1>t, <2>1 DEF QuizPage
  <2> HIDE DEF P
  <2> QED BY <1>0, <2>1, <2>2, <2>3
<1> QED BY <1>1, <1>2, <1>3, <1>4, <1>5, <1>6, <1>7, <1>8, <1>9 DEF QuizNext

LEMMA KeepsFollow ==
  ASSUME RunTables, PageTables, FollowInv, QuizNext
  PROVE  FollowInv'
<1>t. /\ qpage \in [QuizPerson -> QuizPage] /\ \A p \in QuizPerson : Numbered(qpage[p])
      /\ Pupils \subseteq QuizPerson /\ requests \subseteq QuizRequest
      /\ starting \in [QuizHosts -> QuizCall] /\ ending \in [QuizHosts -> QuizCall]
  BY Numbers DEF PageTables, QuizPerson
<1>1. \A p \in QuizPerson : qpage'[p].conn = "off" => qpage'[p].inbox = <<>>
  BY KeepsOff DEF FollowInv
<1> SUFFICES ASSUME ~crossed'
             PROVE  /\ OneHost'
                    /\ \A p \in QuizPerson : ~qpage'[p].gap =>
                         /\ PageChain(qpage'[p])
                         /\ AllAnnounced' => PageWord(qpage'[p], AnnouncedRun', active_run' = 0)
  BY <1>1 DEF FollowInv, PageChain, PageWord
<1>2. OneHost' /\ OneHost /\ ~crossed
  BY KeepsOneHost DEF FollowInv
<1>3. \A p \in QuizPerson : ~qpage[p].gap => Follows(qpage[p])
  BY <1>2 DEF FollowInv, Follows
<1>4. \A p \in QuizPerson : qpage[p].conn = "off" => qpage[p].inbox = <<>>
  BY DEF FollowInv
<1> SUFFICES ASSUME NEW p \in QuizPerson, ~qpage'[p].gap
             PROVE  /\ PageChain(qpage'[p])
                    /\ AllAnnounced' => PageWord(qpage'[p], AnnouncedRun', active_run' = 0)
  BY <1>2
<1>5. ASSUME NEW h \in QuizHosts, CloseDangling(h)
      PROVE  /\ PageChain(qpage'[p])
             /\ AllAnnounced' => PageWord(qpage'[p], AnnouncedRun', active_run' = 0)
  <2>1. /\ crossed' = (crossed \/ Busy # {}) /\ UNCHANGED <<runs, ending, qpage>>
    BY <1>5 DEF CloseDangling
  <2>2. AllAnnounced
    BY <2>1 DEF Busy, AllAnnounced
  <2>3. AnnouncedRun' = AnnouncedRun /\ active_run' = active_run
    BY <2>1 DEF AnnouncedRun, active_run, ActiveRuns
  <2> QED BY <1>3, <2>1, <2>2, <2>3 DEF Follows
<1>6. ASSUME NEW h \in QuizHosts, CommitRun(h)
      PROVE  /\ PageChain(qpage'[p])
             /\ AllAnnounced' => PageWord(qpage'[p], AnnouncedRun', active_run' = 0)
  <2>1. UNCHANGED qpage /\ starting' = [starting EXCEPT ![h].phase = "created", ![h].run = Len(runs) + 1]
    BY <1>6 DEF CommitRun
  <2>2. starting'[h].phase = "created"
    BY <1>t, <2>1 DEF QuizCall
  <2> QED BY <1>3, <2>1, <2>2 DEF Follows, AllAnnounced
<1>7. ASSUME NEW h \in QuizHosts, AnnounceStart(h)
      PROVE  /\ PageChain(qpage'[p])
             /\ AllAnnounced' => PageWord(qpage'[p], AnnouncedRun', active_run' = 0)
  <2> DEFINE r == starting[h].run
  <2>1. /\ QuizBroadcast(Started(r)) /\ starting[h].phase = "created" /\ UNCHANGED <<runs, ending>>
    BY <1>7 DEF AnnounceStart
  <2>2. r \in RunId /\ Started(r) \in QuizEvent
    BY <2>1, Numbers, QuizEvents DEF RunTables
  <2>3. ActiveRuns = {r} /\ \A g \in QuizHosts : ending[g].phase # "ended"
    BY <1>2, <2>1 DEF OneHost, Busy
  <2>4. AnnouncedRun' = r
    <3>1. AnnouncedRun = r
      BY <1>2, <2>3, TheRun
    <3> QED BY <2>1, <3>1 DEF AnnouncedRun, active_run, ActiveRuns
  <2>5. /\ qpage'[p] \in QuizPage /\ qpage[p] \in QuizPage
        /\ qpage'[p].conn = qpage[p].conn /\ qpage'[p].run = qpage[p].run
        /\ qpage'[p].live = qpage[p].live /\ qpage'[p].gap = qpage[p].gap
        /\ qpage'[p].inbox = IF qpage[p].conn = "off" THEN qpage[p].inbox
                             ELSE Append(qpage[p].inbox, Started(r))
    BY <1>t, <2>1, <2>2, Broadcast
  <2> HIDE DEF r
  <2>6. CASE qpage[p].conn = "off"
    BY <1>3, <1>4, <2>5, <2>6, SamePage DEF Follows, PageWord
  <2>7. CASE qpage[p].conn # "off"
    BY <1>3, <2>2, <2>4, <2>5, <2>7, ToldStart DEF Follows
  <2> QED BY <2>6, <2>7
<1>8. ASSUME NEW h \in QuizHosts, CheckEnd(h)
      PROVE  /\ PageChain(qpage'[p])
             /\ AllAnnounced' => PageWord(qpage'[p], AnnouncedRun', active_run' = 0)
  <2>1. /\ crossed' = (crossed \/ Busy # {}) /\ UNCHANGED <<runs, starting, qpage>>
        /\ ending' = [ending EXCEPT ![h].phase = "active", ![h].run = qpage[h].run]
    BY <1>8 DEF CheckEnd
  <2>2. \A g \in QuizHosts : ending[g].phase # "ended" /\ ending'[g].phase # "ended"
    BY <1>t, <2>1, ZenonT(30) DEF Busy, QuizCall
  <2>3. active_run' = active_run
    BY <2>1 DEF active_run, ActiveRuns
  <2>4. AnnouncedRun' = AnnouncedRun
    BY <2>2, <2>3 DEF AnnouncedRun
  <2> QED BY <1>3, <2>1, <2>3, <2>4 DEF Follows, AllAnnounced
<1>9. ASSUME NEW h \in QuizHosts, SaveEnd(h)
      PROVE  /\ PageChain(qpage'[p])
             /\ AllAnnounced' => PageWord(qpage'[p], AnnouncedRun', active_run' = 0)
  <2>1. /\ ending' = [ending EXCEPT ![h].phase = "ended"] /\ ending[h].phase = "active"
        /\ UNCHANGED <<starting, qpage>>
    BY <1>9 DEF SaveEnd
  <2>2. /\ ending'[h].phase = "ended" /\ ending'[h].run = ending[h].run
        /\ \A g \in QuizHosts : g # h => ending'[g] = ending[g] /\ ending[g].phase = "idle"
    BY <1>t, <1>2, <2>1 DEF QuizCall, OneHost, Busy
  <2>3. AnnouncedRun = ending[h].run
    <3>1. ActiveRuns = {ending[h].run} /\ \A g \in QuizHosts : ending[g].phase # "ended"
      BY <1>2, <2>1, <2>2 DEF OneHost
    <3> QED BY <1>2, <3>1, TheRun
  <2>4. AnnouncedRun' = ending[h].run
    <3> DEFINE g == CHOOSE x \in QuizHosts : ending'[x].phase = "ended"
    <3>1. g \in QuizHosts /\ ending'[g].phase = "ended" /\ AnnouncedRun' = ending'[g].run
      BY <2>2 DEF AnnouncedRun
    <3> HIDE DEF g
    <3>2. g = h
      BY <2>2, <3>1
    <3> QED BY <2>2, <3>1, <3>2
  <2>5. active_run' = 0
    <3>1. ActiveRuns' = {}
      BY <1>2, <2>2 DEF OneHost
    <3> QED BY <3>1 DEF active_run
  <2> QED BY <1>3, <2>1, <2>3, <2>4, <2>5 DEF Follows, AllAnnounced, PageWord
<1>10. ASSUME NEW h \in QuizHosts, AnnounceEnd(h)
      PROVE  /\ PageChain(qpage'[p])
             /\ AllAnnounced' => PageWord(qpage'[p], AnnouncedRun', active_run' = 0)
  <2> DEFINE r == ending[h].run
  <2>1. /\ QuizBroadcast(Ended(r)) /\ ending[h].phase = "ended" /\ UNCHANGED <<runs, starting>>
        /\ ending' = [ending EXCEPT ![h] = QuizIdle]
    BY <1>10 DEF AnnounceEnd
  <2>2. r \in RunId /\ Ended(r) \in QuizEvent
    BY <2>1, Numbers, QuizEvents DEF RunTables
  <2>3. AnnouncedRun = r /\ active_run = 0
    BY <1>2, <2>1, TheRun
  <2>4. AnnouncedRun' = 0 /\ active_run' = 0
    <3>1. active_run' = active_run
      BY <2>1 DEF active_run, ActiveRuns
    <3>2. \A g \in QuizHosts : ending'[g].phase # "ended"
      BY <1>t, <1>2, <2>1 DEF OneHost, Busy, QuizIdle
    <3> QED BY <2>3, <3>1, <3>2 DEF AnnouncedRun
  <2>5. /\ qpage'[p] \in QuizPage /\ qpage[p] \in QuizPage
        /\ qpage'[p].conn = qpage[p].conn /\ qpage'[p].run = qpage[p].run
        /\ qpage'[p].live = qpage[p].live /\ qpage'[p].gap = qpage[p].gap
        /\ qpage'[p].inbox = IF qpage[p].conn = "off" THEN qpage[p].inbox
                             ELSE Append(qpage[p].inbox, Ended(r))
    BY <1>t, <2>1, <2>2, Broadcast
  <2>6. AllAnnounced
    BY <1>2, <2>1 DEF OneHost, Busy, AllAnnounced
  <2> HIDE DEF r
  <2>7. CASE qpage[p].conn = "off"
    BY <1>3, <1>4, <2>5, <2>7, SamePage DEF Follows, PageWord
  <2>8. CASE qpage[p].conn # "off"
    <3>1. PageChain(qpage[p]) /\ PageWord(qpage[p], r, TRUE)
      BY <1>3, <2>3, <2>5, <2>6 DEF Follows, PageWord
    <3>2. PageChain(qpage'[p]) /\ PageWord(qpage'[p], 0, TRUE)
      BY <1>t, <2>2, <2>5, <2>8, <3>1, ToldEnd
    <3> QED BY <2>4, <3>2 DEF PageWord
  <2> QED BY <2>7, <2>8
\* The steps of the pages: the runs are as they were.
<1>11. ASSUME UNCHANGED <<runs, starting, ending>>,
              ~qpage[p].gap /\ Follows(qpage[p]) =>
                /\ PageChain(qpage'[p])
                /\ AllAnnounced => PageWord(qpage'[p], AnnouncedRun, active_run = 0),
              ~qpage[p].gap
       PROVE  /\ PageChain(qpage'[p])
              /\ AllAnnounced' => PageWord(qpage'[p], AnnouncedRun', active_run' = 0)
  <2>1. AnnouncedRun' = AnnouncedRun /\ active_run' = active_run /\ (AllAnnounced' <=> AllAnnounced)
    BY <1>11 DEF AnnouncedRun, active_run, ActiveRuns, AllAnnounced
  <2> QED BY <1>3, <1>11, <2>1
<1>12. ASSUME UNCHANGED <<runs, starting, ending>>, qpage'[p].conn = qpage[p].conn,
              qpage'[p].inbox = qpage[p].inbox, qpage'[p].live = qpage[p].live,
              qpage'[p].run = qpage[p].run, qpage'[p].gap = qpage[p].gap
       PROVE  /\ PageChain(qpage'[p])
              /\ AllAnnounced' => PageWord(qpage'[p], AnnouncedRun', active_run' = 0)
  BY <1>11, <1>12, SamePage DEF Follows
<1>13. ASSUME NEW q \in QuizPerson, QuizHear(q)
       PROVE  /\ PageChain(qpage'[p])
              /\ AllAnnounced' => PageWord(qpage'[p], AnnouncedRun', active_run' = 0)
  <2> DEFINE P == qpage[q]
             e == Head(P.inbox)
             Q == [P EXCEPT !.inbox = Tail(P.inbox)]
             H == IF e.type = "quiz_started" THEN handleStarted(Q, e.run) ELSE handleEnded(Q, e.run)
  <2>1. /\ P \in QuizPage /\ e \in QuizEvent /\ Q \in QuizPage /\ H \in QuizPage
        /\ qpage' = [qpage EXCEPT ![q] = H] /\ P.conn = "on" /\ P.inbox # <<>>
        /\ UNCHANGED <<runs, starting, ending>>
    BY <1>13, Heard DEF QuizHear
  <2>2. CASE p # q
    BY <1>t, <1>12, <2>1, <2>2
  <2>3. CASE p = q
    <3>1. qpage'[p] = H
      BY <1>t, <2>1, <2>3
    <3>2. /\ e = P.inbox[1] /\ e.run \in RunId
          /\ Q.inbox = Tail(P.inbox) /\ Q.conn = P.conn /\ Q.run = P.run /\ Q.live = P.live /\ Q.gap = P.gap
      <4>1. P.inbox \in Seq(QuizEvent)
        BY <2>1, PageParts
      <4> QED BY <2>1, <4>1, TakeEvent DEF QuizPage, QuizEvent
    <3>3. H = IF P.inbox[1].type = "quiz_started" THEN handleStarted(Q, P.inbox[1].run)
                                                  ELSE handleEnded(Q, P.inbox[1].run)
      BY <3>2
    <3>4. H.gap = P.gap
      <4> HIDE DEF Q, e, P
      <4> QED BY <2>1, <3>2, Handlers
    <3>5. AnnouncedRun \in Nat
      <4>1. active_run \in Nat
        BY Numbers, ActiveRun
      <4>2. \A h \in QuizHosts : ending[h].run \in Nat
        BY <1>t DEF QuizCall
      <4> QED BY <4>1, <4>2 DEF AnnouncedRun
    <3> HIDE DEF Q, e, H
    <3>6. Follows(P) => /\ PageChain(H)
                        /\ AllAnnounced => PageWord(H, AnnouncedRun, active_run = 0)
      <4> HIDE DEF P
      <4>1. ASSUME NEW over, PageChain(P)
            PROVE  PageChain(H) /\ (PageWord(P, AnnouncedRun, over) => PageWord(H, AnnouncedRun, over))
        BY <2>1, <3>2, <3>3, <3>5, <4>1, HearsOne
      <4> QED BY <4>1 DEF Follows
    <3> QED BY <1>11, <2>1, <2>3, <3>1, <3>4, <3>6
  <2> QED BY <2>2, <2>3
<1>14. ASSUME NEW q \in QuizPerson, QuizSnapshot(q)
       PROVE  /\ PageChain(qpage'[p])
              /\ AllAnnounced' => PageWord(qpage'[p], AnnouncedRun', active_run' = 0)
  <2> DEFINE P == qpage[q]
             Q == [P EXCEPT !.conn = "on"]
             H == IF active_run = 0 THEN Q ELSE handleStarted(Q, active_run)
  <2>1. /\ P \in QuizPage /\ Q \in QuizPage /\ H \in QuizPage
        /\ active_run # 0 => active_run \in RunId
        /\ qpage' = [qpage EXCEPT ![q] = H]
    BY <1>14, GotSnapshot
  <2>2. P.conn = "joining" /\ UNCHANGED <<runs, starting, ending>>
    BY <1>14 DEF QuizSnapshot
  <2>3. CASE p # q
    BY <1>t, <1>12, <2>1, <2>2, <2>3
  <2>4. CASE p = q
    <3>1. qpage'[p] = H
      BY <1>t, <2>1, <2>4
    <3>2. Q.inbox = P.inbox /\ Q.conn = "on" /\ Q.live = P.live /\ Q.gap = P.gap
      BY <2>1 DEF QuizPage
    <3> HIDE DEF Q
    <3>3. /\ H.inbox = P.inbox /\ H.conn = "on" /\ H.gap = P.gap
          /\ active_run = 0 => H.live = P.live
          /\ active_run # 0 => H.live /\ H.run = active_run
      <4> HIDE DEF P
      <4> QED BY <2>1, <3>2, Handlers
    <3> HIDE DEF H
    <3>4. /\ \A h \in QuizHosts : ending[h].phase = "ended" => active_run = 0
          /\ (\A h \in QuizHosts : ending[h].phase # "ended") => AnnouncedRun = active_run
          /\ AnnouncedRun = 0 => active_run = 0
      BY <1>2, TheRun
    <3>5. ASSUME Follows(P)
          PROVE  PageChain(H) /\ (AllAnnounced => PageWord(H, AnnouncedRun, active_run = 0))
      <4>1. PageChain(H) /\ ~P.live
        BY <2>2, <3>3, <3>5 DEF Follows, PageChain
      <4>2. Shown(H) = active_run
        BY <3>3, <4>1 DEF Shown
      <4>3. Shown(H) = AnnouncedRun \/ (active_run = 0 /\ Shown(H) = 0)
        BY <3>4, <4>2
      <4>4. ASSUME AllAnnounced PROVE PageWord(H, AnnouncedRun, active_run = 0)
        <5>1. PageWord(P, AnnouncedRun, active_run = 0)
          BY <3>5, <4>4 DEF Follows
        <5>2. P.inbox # <<>> =>
                IF AnnouncedRun = 0 THEN P.inbox[Len(P.inbox)].type = "quiz_ended"
                                    ELSE P.inbox[Len(P.inbox)] = Started(AnnouncedRun)
          BY <5>1 DEF PageWord
        <5>3. ASSUME Len(P.inbox) = 1, P.inbox[1].type = "quiz_ended", H.live PROVE FALSE
          <6>1. P.inbox # <<>>
            <7>1. P.inbox \in Seq(QuizEvent)
              BY <2>1, PageParts
            <7> QED BY <5>3, <7>1
          <6>2. AnnouncedRun = 0
            BY <5>2, <5>3, <6>1 DEF Started
          <6> QED BY <3>3, <3>4, <4>1, <5>3, <6>2
        <5> QED BY <3>3, <4>3, <5>2, <5>3 DEF PageWord
      <4> QED BY <4>1, <4>4
    <3> QED BY <1>11, <2>2, <2>4, <3>1, <3>3, <3>5
  <2> QED BY <2>3, <2>4
<1>15. ASSUME NEW q \in QuizPerson, QuizJoin(q)
       PROVE  /\ PageChain(qpage'[p])
              /\ AllAnnounced' => PageWord(qpage'[p], AnnouncedRun', active_run' = 0)
  <2> DEFINE P == [qpage[q] EXCEPT !.conn = "joining"]
  <2>1. /\ qpage' = [qpage EXCEPT ![q] = P] /\ qpage[q].conn = "off"
        /\ UNCHANGED <<runs, starting, ending>>
    BY <1>t, <1>15 DEF QuizJoin
  <2>2. /\ P.conn = "joining" /\ P.inbox = qpage[q].inbox /\ P.live = qpage[q].live
        /\ P.run = qpage[q].run /\ P.gap = qpage[q].gap
    BY <1>t DEF QuizPage
  <2> HIDE DEF P
  <2>3. CASE p # q
    BY <1>t, <1>12, <2>1, <2>3
  <2>4. CASE p = q
    <3>1. qpage'[p] = P /\ P.inbox = <<>>
      BY <1>t, <1>4, <2>1, <2>2, <2>4
    <3>2. Len(P.inbox) = 0
      <4>1. Len(<<>>) = 0
        OBVIOUS
      <4> QED BY <3>1, <4>1
    <3>3. Follows(qpage[p]) => PageChain(P) /\ PageWord(P, AnnouncedRun, active_run = 0)
      BY <2>1, <2>2, <2>4, <3>1, <3>2 DEF Follows, PageChain, PageWord
    <3> QED BY <1>11, <2>1, <2>2, <2>4, <3>1, <3>3
  <2> QED BY <2>3, <2>4
<1>16. ASSUME NEW q \in QuizPerson, QuizDrop(q)
       PROVE  /\ PageChain(qpage'[p])
              /\ AllAnnounced' => PageWord(qpage'[p], AnnouncedRun', active_run' = 0)
  <2> DEFINE P == [qpage[q] EXCEPT !.conn = "off", !.inbox = <<>>, !.gap = TRUE]
  <2>1. qpage' = [qpage EXCEPT ![q] = P] /\ UNCHANGED <<runs, starting, ending>>
    BY <1>t, <1>16 DEF QuizDrop
  <2>2. P.gap
    BY <1>t DEF QuizPage
  <2> HIDE DEF P
  <2>3. p # q
    BY <1>t, <2>1, <2>2
  <2> QED BY <1>t, <1>12, <2>1, <2>3
<1>17. ASSUME NEW q \in Pupils, NEW o \in Option, _answer(q, o)
       PROVE  /\ PageChain(qpage'[p])
              /\ AllAnnounced' => PageWord(qpage'[p], AnnouncedRun', active_run' = 0)
  <2> DEFINE more == \E m \in requests : m.by = q
             P == [qpage[q] EXCEPT !.mark = o, !.twice = @ \/ more]
  <2>1. qpage' = [qpage EXCEPT ![q] = P] /\ UNCHANGED <<runs, starting, ending>>
    BY <1>t, <1>17 DEF _answer
  <2>2. /\ P.conn = qpage[q].conn /\ P.inbox = qpage[q].inbox /\ P.live = qpage[q].live
        /\ P.run = qpage[q].run /\ P.gap = qpage[q].gap
    BY <1>t DEF QuizPage
  <2> HIDE DEF P
  <2> QED BY <1>t, <1>12, <2>1, <2>2
<1>18. ASSUME NEW m \in requests, CheckAnswer(m) \/ StoreAnswer(m)
       PROVE  /\ PageChain(qpage'[p])
              /\ AllAnnounced' => PageWord(qpage'[p], AnnouncedRun', active_run' = 0)
  BY <1>12, <1>18 DEF CheckAnswer, StoreAnswer
<1>19. ASSUME NEW m \in requests, Reply(m)
       PROVE  /\ PageChain(qpage'[p])
              /\ AllAnnounced' => PageWord(qpage'[p], AnnouncedRun', active_run' = 0)
  <2> DEFINE P == [qpage[m.by] EXCEPT !.mark = "none"]
  <2>1. m.by \in QuizPerson
    BY <1>t DEF QuizRequest
  <2>2. (qpage' = [qpage EXCEPT ![m.by] = P] \/ UNCHANGED qpage) /\ UNCHANGED <<runs, starting, ending>>
    BY <1>19, <2>1 DEF Reply
  <2>3. /\ P.conn = qpage[m.by].conn /\ P.inbox = qpage[m.by].inbox /\ P.live = qpage[m.by].live
        /\ P.run = qpage[m.by].run /\ P.gap = qpage[m.by].gap
    BY <1>t, <2>1 DEF QuizPage
  <2> HIDE DEF P
  <2> QED BY <1>t, <1>12, <2>1, <2>2, <2>3
<1> QED BY <1>5, <1>6, <1>7, <1>8, <1>9, <1>10, <1>13, <1>14, <1>15, <1>16, <1>17, <1>18, <1>19
        DEF QuizNext

-----------------------------------------------------------------------------
(* The theorems.                                                           *)

LEMMA QuizStarts == QuizInit => QuizInv
<1> SUFFICES ASSUME QuizInit PROVE QuizInv
  OBVIOUS
<1> DEFINE off == [conn |-> "off", inbox |-> <<>>, run |-> 0, live |-> FALSE,
                   mark |-> "none", gap |-> FALSE, twice |-> FALSE]
<1>1. /\ runs = <<>> /\ starting = [h \in QuizHosts |-> QuizIdle]
      /\ ending = [h \in QuizHosts |-> QuizIdle]
      /\ answers = [r \in RunId |-> [p \in Pupils |-> "none"]] /\ requests = {}
      /\ qpage = [p \in QuizPerson |-> off] /\ quizLeft \in QuizPlans /\ crossed = FALSE
  BY DEF QuizInit
<1>2. Len(<<>>) = 0 /\ DOMAIN <<>> = {}
  OBVIOUS
<1>3. Len(runs) = 0 /\ DOMAIN runs = {} /\ ActiveRuns = {}
  BY <1>1, <1>2 DEF ActiveRuns
<1>4. QuizIdle.phase = "idle" /\ QuizIdle.run = 0 /\ QuizIdle.seen = {}
  BY DEF QuizIdle
<1>5. Closing = {} /\ Busy = {}
  BY <1>1, <1>4 DEF Closing, Busy
<1>6. IsFiniteSet(Closing) /\ Cardinality(Closing) = 0
  BY <1>5, FS_EmptySet
<1>7. RunTables
  <2>1. /\ quizLeft \in [who : SUBSET QuizPerson, runs : 0..MaxRuns, clicks : Nat, drops : Nat]
        /\ MaxRuns \in Nat
    BY <1>1, QuizAssumption DEF QuizPerson
  <2>2. quizLeft \in [who : SUBSET QuizPerson, runs : Nat, clicks : Nat, drops : Nat]
        /\ quizLeft.runs \in 0..MaxRuns
    BY <2>1
  <2>3. Len(runs) <= MaxRuns /\ Len(runs) + Cardinality(Closing) + quizLeft.runs <= MaxRuns
    BY <1>3, <1>6, <2>1, <2>2
  <2>4. \A h \in QuizHosts : starting[h] = QuizIdle /\ ending[h] = QuizIdle
    BY <1>1
  <2>5. 0 \in 0..Len(runs)
    BY <1>3
  <2> QED BY <1>1, <1>3, <1>4, <1>6, <2>2, <2>3, <2>4, <2>5, StartInvInit DEF RunTables
<1>8. <<>> \in Seq(QuizEvent) /\ 0 \in 0..MaxRuns
  BY QuizAssumption
<1>9. /\ off \in QuizPage /\ Numbered(off) /\ off.mark = "none" /\ off.inbox = <<>> /\ off.conn = "off"
      /\ ~off.live
  BY <1>8 DEF QuizPage, Numbered
<1> HIDE DEF off
<1>10. PageTables
  <2>1. answers \in [RunId -> [Pupils -> Option \cup {"none"}]]
    BY <1>1
  <2> QED BY <1>1, <1>9, <2>1 DEF PageTables
<1>11. OneHost
  BY <1>1, <1>3, <1>4, <1>5 DEF OneHost
<1>12. \A p \in QuizPerson : PageChain(qpage[p]) /\ \A r, over : PageWord(qpage[p], r, over)
  BY <1>1, <1>2, <1>9 DEF PageChain, PageWord
<1>13. FollowInv
  BY <1>1, <1>9, <1>11, <1>12 DEF FollowInv
<1>14. MarkInv
  BY <1>1, <1>9 DEF MarkInv, QuizPerson
<1> QED BY <1>7, <1>10, <1>13, <1>14 DEF QuizInv, QuizTables

LEMMA QuizKeeps == QuizInv /\ [QuizNext]_quizVars => QuizInv'
<1>1. QuizInv /\ QuizNext => QuizInv'
  BY KeepsRunTables, KeepsPageTables, KeepsFollow, KeepsMark DEF QuizInv, QuizTables
<1>2. QuizInv /\ UNCHANGED quizVars => QuizInv'
  <2> SUFFICES ASSUME QuizInv, UNCHANGED quizVars PROVE QuizInv'
    OBVIOUS
  <2>1. UNCHANGED <<runs, starting, ending, answers, requests, qpage, quizLeft, crossed>>
    BY DEF quizVars
  <2>2. RunTables'
    BY <2>1 DEF QuizInv, QuizTables, RunTables, Closing, StartInv, RunsOK, AloneSeesAll, ActiveRuns
  <2>3. PageTables'
    BY <2>1 DEF QuizInv, QuizTables, PageTables, Numbered
  <2>4. FollowInv'
    BY <2>1 DEF QuizInv, FollowInv, OneHost, Busy, ActiveRuns, AllAnnounced, AnnouncedRun, active_run,
                PageChain, PageWord
  <2>5. MarkInv'
    BY <2>1 DEF QuizInv, MarkInv
  <2> QED BY <2>2, <2>3, <2>4, <2>5 DEF QuizInv, QuizTables
<1> QED BY <1>1, <1>2

THEOREM QuizInductive == QuizSpec => []QuizInv
BY QuizStarts, QuizKeeps, PTL DEF QuizSpec

\* The tables of runs, answers and pages stay what they are, and no start goes beyond MaxRuns.
THEOREM QuizTypeCorrect == QuizSpec => []QuizTypeOK
<1>1. QuizInv => QuizTypeOK
  BY TypeInParts DEF QuizInv
<1> QED BY <1>1, QuizInductive, PTL

\* quiz.js and the snapshot: whoever keeps the socket and has heard everything shows
\* the run that is live, whatever the order of starts, ends, joins and snapshots, as
\* long as no host starts or ends a quiz while another does.
THEOREM PagesFollowTheQuiz == QuizSpec => []QuizFollowed
<1>1. QuizInv => QuizFollowed
  <2> SUFFICES ASSUME QuizInv, ~crossed, Busy = {}, NEW p \in QuizPerson,
                      qpage[p].conn = "on", qpage[p].inbox = <<>>, ~qpage[p].gap
               PROVE  Shown(qpage[p]) = active_run
    BY DEF QuizFollowed, Shown
  <2>1. AllAnnounced /\ \A h \in QuizHosts : ending[h].phase # "ended"
    BY DEF Busy, AllAnnounced
  <2>2. PageWord(qpage[p], AnnouncedRun, active_run = 0) /\ AnnouncedRun = active_run
    BY <2>1, TheRun DEF QuizInv, QuizTables, FollowInv
  <2> QED BY <2>2 DEF PageWord
<1> QED BY <1>1, QuizInductive, PTL

\* answer_question and the optimistic mark of quiz.js: a mark that stays is on record.
THEOREM MarksAreRecorded == QuizSpec => []MarkedIsRecorded
<1>1. QuizInv => MarkedIsRecorded
  BY DEF QuizInv, MarkInv, MarkedIsRecorded
<1> QED BY <1>1, QuizInductive, PTL

-----------------------------------------------------------------------------
(* Answers to an assignment: a grade that was given stands, and the file an*)
(* answer names is there.                                                  *)

PostTables ==
  /\ GradeTypeOK
  /\ uploads \in Nat
  /\ gradeLeft \in [answers : Nat, grades : Nat, crashes : Nat]
  /\ \A q \in Posts : postOf[q].step = "replace" => postOf[q].copy.file \in 1..uploads

\* Once the assignment is deleted there is no row, and without a row no grade.
NoRow ==
  /\ deleted => ~answer.there
  /\ ~answer.there => answer.grade = 0 /\ answer.file = 0 /\ givenGrade = 0

\* A submission that nothing overlaps is alone, and the row is still the one it has read,
\* but for the file it is about to replace.
Alone ==
  ~crossedPost =>
    \A q \in Posts : postOf[q].step \in {"submit", "replace"} =>
      /\ UnderWay = {q}
      /\ ~deleted => /\ postOf[q].copy.there = answer.there
                     /\ postOf[q].copy.grade = answer.grade /\ answer.grade = 0
                     /\ postOf[q].step = "submit" => postOf[q].copy.file = answer.file

GradeInv == PostTables /\ NoRow /\ Alone /\ AnswerIsKept

-----------------------------------------------------------------------------
LEMMA GradeInvInit == GradeInit => GradeInv
<1> SUFFICES ASSUME GradeInit PROVE GradeInv
  OBVIOUS
<1>1. /\ NoAnswer \in Answer /\ ~NoAnswer.there /\ NoAnswer.file = 0 /\ NoAnswer.grade = 0
      /\ PostIdle \in Post /\ PostIdle.step = "idle"
  BY DEF NoAnswer, Answer, PostIdle, Post
<1>2. /\ answer = NoAnswer /\ stored = {} /\ uploads = 0
      /\ due = FALSE /\ deleted = FALSE /\ givenGrade = 0 /\ crossedPost = FALSE /\ brokenOff = FALSE
      /\ gradeLeft \in [answers : Nat, grades : Nat, crashes : Nat]
      /\ postOf \in [Posts -> Post] /\ \A q \in Posts : postOf[q].step = "idle"
  BY <1>1, GradeAssumption DEF GradeInit
<1>3. PostTables
  BY <1>1, <1>2 DEF PostTables, GradeTypeOK
<1>4. NoRow /\ AnswerIsKept
  BY <1>1, <1>2 DEF NoRow, AnswerIsKept
<1>5. Alone
  BY <1>2 DEF Alone
<1> QED BY <1>3, <1>4, <1>5 DEF GradeInv

\* The request of one post goes on.
LEMMA OnePost ==
  ASSUME GradeInv, NEW q \in Posts, NEW new \in Post, postOf' = [postOf EXCEPT ![q] = new]
  PROVE  /\ postOf' \in [Posts -> Post] /\ postOf'[q] = new
         /\ \A p \in Posts : p # q => postOf'[p] = postOf[p]
         /\ postOf[q] \in Post
  BY DEF GradeInv, PostTables, GradeTypeOK

LEMMA SubmitReadInv ==
  ASSUME GradeInv, NEW q \in Posts, SubmitRead(q)
  PROVE  GradeInv'
<1> DEFINE new == [step |-> "submit", copy |-> answer]
<1>1. /\ postOf[q].step = "idle" /\ ~deleted /\ answer.grade = 0
      /\ gradeLeft' = [gradeLeft EXCEPT !.answers = @ - 1] /\ gradeLeft.answers > 0
      /\ postOf' = [postOf EXCEPT ![q] = new]
      /\ crossedPost' = (crossedPost \/ UnderWay # {})
      /\ UNCHANGED <<answer, stored, uploads, due, deleted, givenGrade, brokenOff>>
  BY DEF SubmitRead
<1>2. new \in Post /\ new.step = "submit" /\ new.copy = answer
  BY DEF Post, GradeInv, PostTables, GradeTypeOK
<1> HIDE DEF new
<1>3. /\ postOf' \in [Posts -> Post] /\ postOf'[q] = new
      /\ \A p \in Posts : p # q => postOf'[p] = postOf[p]
  BY <1>1, <1>2, OnePost
<1>4. gradeLeft' \in [answers : Nat, grades : Nat, crashes : Nat]
  BY <1>1 DEF GradeInv, PostTables
<1>5. PostTables'
  <2>1. crossedPost' \in BOOLEAN
    BY <1>1
  <2> QED BY <1>1, <1>2, <1>3, <1>4, <2>1 DEF GradeInv, PostTables, GradeTypeOK
<1>6. NoRow'
  BY <1>1 DEF GradeInv, NoRow
<1>7. Alone'
  <2> SUFFICES ASSUME ~crossedPost', NEW p \in Posts, postOf'[p].step \in {"submit", "replace"}
               PROVE  /\ UnderWay' = {p}
                      /\ /\ postOf'[p].copy.there = answer.there
                         /\ postOf'[p].copy.grade = answer.grade /\ answer.grade = 0
                         /\ postOf'[p].step = "submit" => postOf'[p].copy.file = answer.file
    BY <1>1 DEF Alone
  <2>1. UnderWay = {}
    BY <1>1
  <2>2. UnderWay' = {q} /\ p = q
    BY <1>2, <1>3, <2>1 DEF UnderWay
  <2> QED BY <1>1, <1>2, <1>3, <2>2
<1>8. AnswerIsKept'
  BY <1>1, <1>2, <1>3 DEF GradeInv, AnswerIsKept
<1> QED BY <1>5, <1>6, <1>7, <1>8 DEF GradeInv

LEMMA SubmitFileInv ==
  ASSUME GradeInv, NEW q \in Posts, SubmitFile(q)
  PROVE  GradeInv'
<1> DEFINE new == [postOf[q] EXCEPT !.step = "replace", !.copy = [postOf[q].copy EXCEPT !.file = uploads + 1]]
<1>1. /\ postOf[q].step = "submit"
      /\ stored' = stored \ {postOf[q].copy.file}
      /\ uploads' = uploads + 1
      /\ UNCHANGED <<answer, due, deleted, gradeLeft, givenGrade, crossedPost, brokenOff>>
  BY DEF SubmitFile
<1>2. postOf[q] \in Post /\ postOf[q].copy \in Answer /\ uploads \in Nat
  BY DEF Post, GradeInv, PostTables, GradeTypeOK
<1>3. postOf' = [postOf EXCEPT ![q] = new]
  BY <1>2 DEF SubmitFile, Post
<1>4. /\ new \in Post /\ new.step = "replace" /\ new.copy.file = uploads + 1
      /\ new.copy.there = postOf[q].copy.there /\ new.copy.grade = postOf[q].copy.grade
  <2> DEFINE c == [postOf[q].copy EXCEPT !.file = uploads + 1]
  <2>1. /\ c \in Answer /\ c.file = uploads + 1
        /\ c.there = postOf[q].copy.there /\ c.grade = postOf[q].copy.grade
    BY <1>2 DEF Answer
  <2>2. new = [postOf[q] EXCEPT !.step = "replace", !.copy = c]
    OBVIOUS
  <2> HIDE DEF new, c
  <2>3. new \in Post /\ new.step = "replace" /\ new.copy = c
    BY <1>2, <2>1, <2>2 DEF Post
  <2> QED BY <2>1, <2>3
<1> HIDE DEF new
<1>5. /\ postOf' \in [Posts -> Post] /\ postOf'[q] = new
      /\ \A p \in Posts : p # q => postOf'[p] = postOf[p]
  BY <1>3, <1>4, OnePost
<1>6. PostTables'
  <2>1. uploads' \in Nat /\ stored' \subseteq 1..uploads'
    <3>1. stored \subseteq 1..uploads
      BY DEF GradeInv, PostTables, GradeTypeOK
    <3>2. 1..uploads \subseteq 1..(uploads + 1)
      BY <1>2
    <3>3. stored' \subseteq stored
      BY <1>1
    <3>4. uploads' \in Nat /\ 1..uploads' = 1..(uploads + 1)
      BY <1>1, <1>2
    <3> QED BY <3>1, <3>2, <3>3, <3>4, Zenon
  <2>2. \A p \in Posts : postOf'[p].step = "replace" => postOf'[p].copy.file \in 1..uploads'
    BY <1>1, <1>2, <1>4, <1>5 DEF GradeInv, PostTables
  <2> QED BY <1>1, <1>5, <2>1, <2>2 DEF GradeInv, PostTables, GradeTypeOK
<1>7. NoRow'
  BY <1>1 DEF GradeInv, NoRow
<1>8. UnderWay' = UnderWay
  BY <1>1, <1>4, <1>5 DEF UnderWay
<1>9. Alone'
  BY <1>1, <1>4, <1>5, <1>8 DEF GradeInv, Alone
<1>10. AnswerIsKept'
  BY <1>1, <1>4, <1>5 DEF GradeInv, AnswerIsKept
<1> QED BY <1>6, <1>7, <1>9, <1>10 DEF GradeInv

LEMMA IdleAgain ==
  ASSUME GradeInv, NEW q \in Posts, postOf' = [postOf EXCEPT ![q] = PostIdle]
  PROVE  /\ postOf' \in [Posts -> Post] /\ postOf'[q].step = "idle"
         /\ \A p \in Posts : p # q => postOf'[p] = postOf[p]
         /\ UnderWay' = UnderWay \ {q}
<1>1. PostIdle \in Post /\ PostIdle.step = "idle"
  BY DEF PostIdle, NoAnswer, Post, Answer
<1>2. /\ postOf' \in [Posts -> Post] /\ postOf'[q] = PostIdle
      /\ \A p \in Posts : p # q => postOf'[p] = postOf[p]
  BY <1>1, OnePost
<1> QED BY <1>1, <1>2 DEF UnderWay

LEMMA SubmitSaveInv ==
  ASSUME GradeInv, NEW q \in Posts, _submit(q)
  PROVE  GradeInv'
<1> DEFINE c    == postOf[q].copy
           saved == [c EXCEPT !.there = TRUE]
           lost == deleted \/ (answer.there /\ ~c.there)
<1>1. /\ postOf[q].step \in {"submit", "replace"}
      /\ answer' = IF lost THEN answer ELSE saved
      /\ stored' = IF postOf[q].step = "replace" THEN stored \cup {c.file} ELSE stored
      /\ postOf' = [postOf EXCEPT ![q] = PostIdle]
      /\ UNCHANGED <<uploads, due, deleted, gradeLeft, givenGrade, crossedPost, brokenOff>>
  BY DEF _submit
<1>2. c \in Answer
  BY DEF Post, GradeInv, PostTables, GradeTypeOK
<1>3. saved \in Answer /\ saved.there /\ saved.file = c.file /\ saved.grade = c.grade
  BY <1>2 DEF Answer
<1> HIDE DEF saved
<1>4. /\ postOf' \in [Posts -> Post] /\ postOf'[q].step = "idle"
      /\ \A p \in Posts : p # q => postOf'[p] = postOf[p]
      /\ UnderWay' = UnderWay \ {q}
  BY <1>1, IdleAgain
<1>5. PostTables'
  <2>1. stored' \subseteq 1..uploads
    BY <1>1 DEF GradeInv, PostTables, GradeTypeOK
  <2>2. answer' \in Answer
    BY <1>1, <1>3 DEF GradeInv, PostTables, GradeTypeOK
  <2> QED BY <1>1, <1>4, <2>1, <2>2 DEF GradeInv, PostTables, GradeTypeOK
<1>6. NoRow'
  BY <1>1, <1>3 DEF GradeInv, NoRow
<1>7. Alone'
  <2> SUFFICES ASSUME ~crossedPost, NEW p \in Posts, postOf'[p].step \in {"submit", "replace"}
               PROVE  FALSE
    BY <1>1 DEF Alone
  <2>1. p # q /\ postOf[p].step \in {"submit", "replace"} /\ postOf[q].step \in {"submit", "replace"}
    BY <1>1, <1>4
  <2>2. UnderWay = {p} /\ UnderWay = {q}
    BY <2>1 DEF GradeInv, Alone
  <2> QED BY <2>1, <2>2
<1>8. AnswerIsKept'
  <2> SUFFICES ASSUME answer'.there, ~crossedPost
               PROVE  /\ answer'.grade = givenGrade
                      /\ answer'.file # 0 /\ ~brokenOff => answer'.file \in stored'
    BY <1>1 DEF AnswerIsKept
  <2>1. ~deleted
    BY <1>1 DEF GradeInv, NoRow
  <2>2. /\ UnderWay = {q} /\ c.there = answer.there /\ c.grade = answer.grade /\ answer.grade = 0
        /\ postOf[q].step = "submit" => c.file = answer.file
    BY <1>1, <2>1 DEF GradeInv, Alone
  <2>3. answer'.file = c.file /\ answer'.grade = 0
    BY <1>1, <1>3, <2>1, <2>2
  <2>4. givenGrade = 0
    BY <2>2 DEF GradeInv, NoRow, AnswerIsKept
  <2>5. CASE postOf[q].step = "replace"
    BY <1>1, <2>3, <2>4, <2>5
  <2>6. CASE postOf[q].step = "submit"
    <3>1. \A p \in Posts : postOf[p].step # "replace"
      BY <2>2, <2>6 DEF UnderWay
    <3>2. CASE answer.there
      BY <1>1, <2>2, <2>3, <2>4, <2>6, <3>1, <3>2 DEF GradeInv, AnswerIsKept
    <3>3. CASE ~answer.there
      BY <1>1, <2>2, <2>3, <2>4, <2>6, <3>3 DEF GradeInv, NoRow
    <3> QED BY <3>2, <3>3
  <2> QED BY <1>1, <2>5, <2>6
<1> QED BY <1>5, <1>6, <1>7, <1>8 DEF GradeInv
LEMMA PostDiesInv ==
  ASSUME GradeInv, NEW q \in Posts, PostDies(q)
  PROVE  GradeInv'
<1>1. /\ gradeLeft' = [gradeLeft EXCEPT !.crashes = @ - 1] /\ gradeLeft.crashes > 0
      /\ brokenOff' = TRUE
      /\ postOf' = [postOf EXCEPT ![q] = PostIdle]
      /\ UNCHANGED <<answer, stored, uploads, due, deleted, givenGrade, crossedPost>>
  BY DEF PostDies
<1>2. /\ postOf' \in [Posts -> Post] /\ postOf'[q].step = "idle"
      /\ \A p \in Posts : p # q => postOf'[p] = postOf[p]
      /\ UnderWay' = UnderWay \ {q}
  BY <1>1, IdleAgain
<1>3. gradeLeft' \in [answers : Nat, grades : Nat, crashes : Nat]
  BY <1>1 DEF GradeInv, PostTables
<1>4. PostTables'
  <2>1. brokenOff' \in BOOLEAN
    BY <1>1
  <2> QED BY <1>1, <1>2, <1>3, <2>1 DEF GradeInv, PostTables, GradeTypeOK
<1>5. NoRow' /\ AnswerIsKept'
  BY <1>1 DEF GradeInv, NoRow, AnswerIsKept
<1>6. Alone'
  <2> SUFFICES ASSUME ~crossedPost, NEW p \in Posts, postOf'[p].step \in {"submit", "replace"}
               PROVE  /\ p # q /\ postOf'[p] = postOf[p] /\ UnderWay' = {p}
    BY <1>1 DEF GradeInv, Alone
  <2>1. p # q /\ postOf'[p] = postOf[p]
    BY <1>2
  <2>2. UnderWay = {p}
    BY <2>1 DEF GradeInv, Alone
  <2> QED BY <1>2, <2>1, <2>2
<1> QED BY <1>4, <1>5, <1>6 DEF GradeInv

LEMMA GradeReadInv ==
  ASSUME GradeInv, NEW q \in Posts, GradeRead(q)
  PROVE  GradeInv'
<1> DEFINE new == [step |-> "grade", copy |-> answer]
<1>1. /\ postOf[q].step = "idle"
      /\ gradeLeft' = [gradeLeft EXCEPT !.grades = @ - 1] /\ gradeLeft.grades > 0
      /\ postOf' = [postOf EXCEPT ![q] = new]
      /\ crossedPost' = (crossedPost \/ \E p \in UnderWay : postOf[p].step # "grade")
      /\ UNCHANGED <<answer, stored, uploads, due, deleted, givenGrade, brokenOff>>
  BY DEF GradeRead
<1>2. new \in Post /\ new.step = "grade"
  BY DEF Post, GradeInv, PostTables, GradeTypeOK
<1> HIDE DEF new
<1>3. /\ postOf' \in [Posts -> Post] /\ postOf'[q] = new
      /\ \A p \in Posts : p # q => postOf'[p] = postOf[p]
  BY <1>1, <1>2, OnePost
<1>4. gradeLeft' \in [answers : Nat, grades : Nat, crashes : Nat]
  BY <1>1 DEF GradeInv, PostTables
<1>5. PostTables'
  <2>1. crossedPost' \in BOOLEAN
    BY <1>1
  <2> QED BY <1>1, <1>2, <1>3, <1>4, <2>1 DEF GradeInv, PostTables, GradeTypeOK
<1>6. NoRow'
  BY <1>1 DEF GradeInv, NoRow
\* A submission under way would have made this one cross it.
<1>7. Alone'
  <2> SUFFICES ASSUME ~crossedPost', NEW p \in Posts, postOf'[p].step \in {"submit", "replace"}
               PROVE  FALSE
    BY DEF Alone
  <2>1. p \in UnderWay /\ postOf[p].step # "grade"
    BY <1>2, <1>3 DEF UnderWay
  <2> QED BY <1>1, <2>1
<1>8. AnswerIsKept'
  BY <1>1, <1>2, <1>3 DEF GradeInv, AnswerIsKept
<1> QED BY <1>5, <1>6, <1>7, <1>8 DEF GradeInv

LEMMA GradeSaveInv ==
  ASSUME GradeInv, NEW q \in Posts, _grade(q)
  PROVE  GradeInv'
<1> DEFINE g == gradeLeft.grades + 1
           graded == [answer EXCEPT !.grade = g]
<1>1. /\ postOf[q].step = "grade"
      /\ IF answer.there THEN answer' = graded /\ givenGrade' = g
         ELSE UNCHANGED <<answer, givenGrade>>
      /\ postOf' = [postOf EXCEPT ![q] = PostIdle]
      /\ UNCHANGED <<stored, uploads, due, deleted, gradeLeft, crossedPost, brokenOff>>
  BY DEF _grade
<1>2. g \in Nat /\ answer \in Answer
  BY DEF GradeInv, PostTables, GradeTypeOK
<1> HIDE DEF g
<1>3. /\ graded \in Answer /\ graded.grade = g /\ graded.there = answer.there
      /\ graded.file = answer.file
  BY <1>2 DEF Answer
<1> HIDE DEF graded
<1>4. /\ postOf' \in [Posts -> Post] /\ postOf'[q].step = "idle"
      /\ \A p \in Posts : p # q => postOf'[p] = postOf[p]
  BY <1>1, IdleAgain
<1>5. PostTables'
  <2>1. answer' \in Answer
    BY <1>1, <1>2, <1>3
  <2> QED BY <1>1, <1>4, <2>1 DEF GradeInv, PostTables, GradeTypeOK
<1>6. NoRow'
  BY <1>1, <1>3 DEF GradeInv, NoRow
<1>7. Alone'
  <2> SUFFICES ASSUME ~crossedPost, NEW p \in Posts, postOf'[p].step \in {"submit", "replace"}
               PROVE  FALSE
    BY <1>1 DEF Alone
  <2>1. p # q /\ postOf[p].step \in {"submit", "replace"}
    BY <1>4
  <2>2. UnderWay = {p} /\ q \in UnderWay
    BY <1>1, <2>1 DEF GradeInv, Alone, UnderWay
  <2> QED BY <2>1, <2>2
<1>8. AnswerIsKept'
  BY <1>1, <1>3, <1>4 DEF GradeInv, AnswerIsKept
<1> QED BY <1>5, <1>6, <1>7, <1>8 DEF GradeInv

LEMMA DeleteAssignmentInv ==
  ASSUME GradeInv, DeleteAssignment
  PROVE  GradeInv'
<1>1. /\ deleted' = TRUE /\ answer' = NoAnswer /\ givenGrade' = 0
      /\ UNCHANGED <<stored, uploads, due, postOf, gradeLeft, crossedPost, brokenOff>>
  BY DEF DeleteAssignment
<1>2. NoAnswer \in Answer /\ ~NoAnswer.there /\ NoAnswer.file = 0 /\ NoAnswer.grade = 0
  BY DEF NoAnswer, Answer
<1>3. PostTables'
  <2>1. deleted' \in BOOLEAN
    BY <1>1
  <2> QED BY <1>1, <1>2, <2>1 DEF GradeInv, PostTables, GradeTypeOK
<1>4. NoRow' /\ AnswerIsKept'
  BY <1>1, <1>2 DEF NoRow, AnswerIsKept
<1>5. Alone'
  BY <1>1 DEF GradeInv, Alone, UnderWay
<1> QED BY <1>3, <1>4, <1>5 DEF GradeInv

LEMMA GradeInvNext == GradeInv /\ [GradeNext]_gradeVars => GradeInv'
<1> SUFFICES ASSUME GradeInv, [GradeNext]_gradeVars PROVE GradeInv'
  OBVIOUS
<1>1. CASE UNCHANGED gradeVars
  BY <1>1 DEF gradeVars, GradeInv, PostTables, GradeTypeOK, NoRow, Alone, AnswerIsKept, UnderWay
<1>2. CASE Deadline
  <2>1. /\ due' \in BOOLEAN
        /\ UNCHANGED <<answer, stored, uploads, deleted, postOf, gradeLeft, givenGrade, crossedPost,
                       brokenOff>>
    BY <1>2 DEF Deadline
  <2> QED BY <2>1 DEF GradeInv, PostTables, GradeTypeOK, NoRow, Alone, AnswerIsKept, UnderWay
<1> QED BY <1>1, <1>2, SubmitReadInv, SubmitFileInv, SubmitSaveInv, PostDiesInv, GradeReadInv,
           GradeSaveInv, DeleteAssignmentInv DEF GradeNext

-----------------------------------------------------------------------------
\* The row, the storage and the requests keep their types and what the property rests on.
THEOREM GradeInductive == GradeSpec => []GradeInv
  BY GradeInvInit, GradeInvNext, PTL DEF GradeSpec

\* A submission judged before it is saved cannot undo a grade, and its file is not lost,
\* unless another submission or a grading overlaps it: for any number of requests, any
\* grades, and a server that may stop between any two steps.
THEOREM AnswersAreKept == GradeSpec => []AnswerIsKept
<1>1. GradeInv => AnswerIsKept
  BY DEF GradeInv
<1> QED BY <1>1, GradeInductive, PTL
=============================================================================
