------------------------------- MODULE MCLesson -----------------------------
\* What goes on in a lesson, one topic to a behaviour: the topics share no state in the
\* code, and one run explores them all.
EXTENDS Quiz, Chat, Sessions, Files, Slides, Voice, Roster, Throttle, Grades, Gestures,
  TLC

CONSTANTS h1, h2, p1, m1, c1, s1, s2, t1, t2, u1, q1, q2, pg1, pg2, v1, v2

VARIABLE topic

MCQuizPlans == {
  \* hosts start and end at the same time
  [who |-> {h1, h2}, runs |-> 3, clicks |-> 0, drops |-> 0],
  \* a pupil answers while runs start and end
  [who |-> {h1, p1}, runs |-> 2, clicks |-> 2, drops |-> 0],
  \* sockets are lost
  [who |-> {h1, p1}, runs |-> 1, clicks |-> 1, drops |-> 1] }

MCChatPlans == {
  [sends |-> 3, drops |-> 1, deletes |-> 1, bans |-> 0],
  [sends |-> 2, drops |-> 0, deletes |-> 1, bans |-> 1] }

MCTabOwner == s1 :> u1 @@ s2 :> u1
MCSessionPlans == {
  [starts |-> 2, ends |-> 2, joins |-> 2, crashes |-> 0],
  [starts |-> 1, ends |-> 2, joins |-> 3, crashes |-> 0],
  [starts |-> 1, ends |-> 1, joins |-> 2, crashes |-> 1] }

MCFilePlans == {
  \* one place left
  [uploads |-> 3, deletes |-> 0, presents |-> 0, drops |-> 0, pages |-> {pg1}],
  [uploads |-> 1, deletes |-> 1, presents |-> 1, drops |-> 0, pages |-> {pg1, pg2}],
  [uploads |-> 1, deletes |-> 1, presents |-> 2, drops |-> 1, pages |-> {pg1}] }

MCFileKind == "f1" :> "pdf" @@ "f2" :> "pdf" @@ "img" :> "image" @@ "zip" :> "other"
MCNumPages == "f1" :> 2 @@ "f2" :> 1 @@ "img" :> 1 @@ "zip" :> 1
MCSlidePlans == {
  [files |-> {"f1", "f2"}, shows |-> 3, flips |-> 1, fails |-> 0],
  [files |-> {"f1", "f2"}, shows |-> 2, flips |-> 1, fails |-> 1],
  [files |-> {"img", "zip"}, shows |-> 3, flips |-> 1, fails |-> 0],
  [files |-> {"f1", "img"}, shows |-> 3, flips |-> 0, fails |-> 1] }

Silence == [acts |-> 0, taps |-> 0, picks |-> 0, losses |-> 0, news |-> 0, links |-> 0, drops |-> 0]
MCVoicePlans == {
  \* requests of hosts overlap
  [Silence EXCEPT !.acts = 3, !.taps = 1],
  \* words of the consumer
  [Silence EXCEPT !.acts = 1, !.taps = 1, !.news = 2],
  \* sockets are lost
  [Silence EXCEPT !.acts = 2, !.taps = 1, !.drops = 1],
  [Silence EXCEPT !.acts = 1, !.taps = 1, !.news = 1, !.drops = 1],
  \* devices
  [Silence EXCEPT !.acts = 2, !.taps = 1, !.picks = 1, !.losses = 1, !.links = 1]}

MCTabFolk == t1 :> m1 @@ t2 :> m1
MCRosterPlans == {
  [requests |-> {"join", "remove", "mute"}, count |-> 3, connects |-> 2, news |-> 0, drops |-> 1,
   pages |-> {v2}],
  \* requests of several hosts about one who waits, and the page's socket is lost
  [requests |-> {"wait", "approve", "deny", "remove", "mute"}, count |-> 3, connects |-> 1,
   news |-> 1, drops |-> 1, pages |-> {v1}],
  [requests |-> {"join", "wait", "approve", "deny", "remove", "mute"}, count |-> 4, connects |-> 1,
   news |-> 0, drops |-> 0, pages |-> {v1}] }

NoTries == [logins |-> 0, messages |-> 0, entries |-> 0, ticks |-> 2, callers |-> {}]
MCThrottlePlans == {
  [NoTries EXCEPT !.logins = 8],
  [NoTries EXCEPT !.messages = 6, !.ticks = 5],
  \* one name until it is blocked, and two that come from one address
  [NoTries EXCEPT !.entries = 9, !.callers = {"ali"}],
  [NoTries EXCEPT !.entries = 9, !.ticks = 1, !.callers = {"ali", "sara"}] }

MCGradePlans == {[answers |-> 3, grades |-> 2, crashes |-> 1]}

Site(scheme, host, port) == [scheme |-> scheme, host |-> host, port |-> port]
Browser(page_at, server, offload) ==
  [native |-> FALSE, page |-> page_at, server |-> server, offload |-> offload]

MCClass == Site("https", "class", 443)
MCSchool == Site("https", "school", 443)
MCTrusted == {Site("https", "class", 0), Site("none", "old", 8443)}
MCVisits == {
  \* the page of the server itself, TLS ended here or at a proxy, listed or not
  Browser(MCClass, MCClass, TRUE), Browser(MCClass, MCClass, FALSE),
  Browser(MCSchool, MCSchool, FALSE), Browser(MCSchool, MCSchool, TRUE),
  Browser(Site("http", "lan", 8000), Site("http", "lan", 8000), FALSE),
  \* another port, another scheme, another host
  Browser(Site("http", "lan", 80), Site("http", "lan", 8000), FALSE),
  Browser(Site("http", "school", 80), MCSchool, FALSE),
  Browser(Site("http", "school", 80), MCSchool, TRUE),
  Browser(Site("https", "old", 8443), MCSchool, FALSE),
  Browser(Site("https", "old", 443), MCSchool, FALSE),
  \* an opaque origin, and none
  Browser(Site("null", "none", 0), MCSchool, FALSE),
  [Browser(Site("none", "none", 0), MCSchool, FALSE) EXCEPT !.native = TRUE] }
MCHome == Browser(MCClass, MCClass, FALSE)

MCCanvases == {[w |-> 200, h |-> 140], [w |-> 1200, h |-> 700]}
MCPixels == {<<20, 20>>, <<150, 100>>, <<-300, 90>>, <<900, 600>>}
MCGesturePlans == {
  [visits |-> MCVisits, gestures |-> 0, moves |-> 0, resizes |-> 0, tools |-> {}],
  [visits |-> {MCHome}, gestures |-> 1, moves |-> 4, resizes |-> 1, tools |-> {"pen", "eraser"}],
  [visits |-> {MCHome}, gestures |-> 1, moves |-> 1, resizes |-> 1,
   tools |-> {"line", "rectangle", "circle"}],
  [visits |-> {MCHome}, gestures |-> 4, moves |-> 1, resizes |-> 1,
   tools |-> {"text", "page", "line"}] }

-----------------------------------------------------------------------------
Some(S) == CHOOSE x \in S : TRUE

\* A plan is chosen for the topic only.
LessonInit ==
  /\ topic \in {"quiz", "chat", "session", "files", "slides", "voice", "roster", "throttle", "grades",
             "gestures"}
  /\ QuizInit /\ (topic # "quiz" => quizLeft = Some(QuizPlans))
  /\ ChatInit /\ (topic # "chat" => chatLeft = Some(ChatPlans))
  /\ SessionInit /\ (topic # "session" => sessionLeft = Some(SessionPlans))
  /\ FileInit /\ (topic # "files" => fileLeft = Some(FilePlans))
  /\ SlideInit /\ (topic # "slides" => slidesLeft = Some(SlidePlans))
  /\ VoiceInit /\ (topic # "voice" => voiceLeft = Some(VoicePlans))
  /\ RosterInit /\ (topic # "roster" => rosterLeft = Some(RosterPlans))
  /\ ThrottleInit /\ (topic # "throttle" => throttleLeft = Some(ThrottlePlans))
  /\ GradeInit /\ (topic # "grades" => gradeLeft = Some(GradePlans))
  /\ GestureInit
  /\ topic # "gestures" =>
       gestureLeft = Some(GesturePlans) /\ visit = Some(gestureLeft.visits)
         /\ paper = Some(Canvases)

LessonNext ==
  /\ UNCHANGED topic
  /\ \/ topic = "quiz" /\ QuizNext
     \/ topic # "quiz" /\ UNCHANGED quizVars
  /\ \/ topic = "chat" /\ ChatNext
     \/ topic # "chat" /\ UNCHANGED chatVars
  /\ \/ topic = "session" /\ SessionNext
     \/ topic # "session" /\ UNCHANGED sessionVars
  /\ \/ topic = "files" /\ FileNext
     \/ topic # "files" /\ UNCHANGED fileVars
  /\ \/ topic = "slides" /\ SlideNext
     \/ topic # "slides" /\ UNCHANGED slideVars
  /\ \/ topic = "voice" /\ VoiceNext
     \/ topic # "voice" /\ UNCHANGED voiceVars
  /\ \/ topic = "roster" /\ RosterNext
     \/ topic # "roster" /\ UNCHANGED rosterVars
  /\ \/ topic = "throttle" /\ ThrottleNext
     \/ topic # "throttle" /\ UNCHANGED throttleVars
  /\ \/ topic = "grades" /\ GradeNext
     \/ topic # "grades" /\ UNCHANGED gradeVars
  /\ \/ topic = "gestures" /\ GestureNext
     \/ topic # "gestures" /\ UNCHANGED gestureVars

\* The topics' type invariants, of the row, the sockets and the pages of each.
LessonTypeOK ==
  /\ QuizTypeOK /\ ChatTypeOK /\ SessionTypeOK /\ FileTypeOK /\ SlideTypeOK /\ VoiceTypeOK
  /\ RosterTypeOK /\ ThrottleTypeOK /\ GradeTypeOK /\ GestureTypeOK
=============================================================================
