------------------------------- MODULE Grades -------------------------------
(***************************************************************************)
(* The answer of one member to one assignment, submitted and graded on     *)
(* pages of their own (assignments/views_manage.py): the Submission row,   *)
(* the files in the storage, and requests that read the row, check it and  *)
(* save it later.                                                          *)
(***************************************************************************)
EXTENDS Naturals, FiniteSets

CONSTANTS
  Posts,         \* requests that may run at the same time
  GradePlans     \* bounds on a behaviour, see gradeLeft

ASSUME GradeAssumption ==
  GradePlans \subseteq [answers : Nat, grades : Nat, crashes : Nat]

VARIABLES
  answer,      \* the Submission row
  stored,      \* uploads in the storage
  uploads,     \* uploads made
  due,         \* the deadline has passed
  deleted,     \* the assignment has been deleted, and its submissions with it
  postOf,      \* [Posts -> the request]
  gradeLeft,
  givenGrade,  \* history: the last grade that was saved, 0 for none
  crossedPost, \* history: a submission ran at the same time as another one or a grading
  brokenOff    \* history: a request died between two of its steps

gradeVars == <<answer, stored, uploads, due, deleted, postOf, gradeLeft, givenGrade, crossedPost, brokenOff>>

\* The upload an answer holds and its grade, 0 for none.
Answer == [there : BOOLEAN, file : Nat, grade : Nat]
Post   == [step : {"idle", "submit", "replace", "grade"}, copy : Answer]

NoAnswer == [there |-> FALSE, file |-> 0, grade |-> 0]
PostIdle == [step |-> "idle", copy |-> NoAnswer]

UnderWay == {q \in Posts : postOf[q].step # "idle"}

-----------------------------------------------------------------------------
(* Submitting.                                                             *)

\* assignment_detail_view reads the row, _submit judges it: not after the deadline, and
\* never once it is graded.
SubmitRead(q) ==
  /\ postOf[q].step = "idle" /\ ~deleted
  /\ gradeLeft.answers > 0
  /\ gradeLeft' = [gradeLeft EXCEPT !.answers = @ - 1]
  /\ ~due /\ answer.grade = 0
  /\ postOf' = [postOf EXCEPT ![q] = [step |-> "submit", copy |-> answer]]
  /\ crossedPost' = (crossedPost \/ UnderWay # {})
  /\ UNCHANGED <<answer, stored, uploads, due, deleted, givenGrade, brokenOff>>

\* An upload replaces the file of the row as it was read, which is deleted first.
SubmitFile(q) ==
  /\ postOf[q].step = "submit"
  /\ stored' = stored \ {postOf[q].copy.file}
  /\ uploads' = uploads + 1
  /\ postOf' = [postOf EXCEPT ![q].step = "replace", ![q].copy.file = uploads + 1]
  /\ UNCHANGED <<answer, due, deleted, gradeLeft, givenGrade, crossedPost, brokenOff>>

\* save() puts the upload in the storage and writes every column; a second first
\* submission fails on the unique constraint.
\* (mutant: the file is deleted after the assignment)
SubmitDeletesLate(q) ==
  /\ postOf[q].step \in {"submit", "replace"}
  /\ answer' = IF deleted \/ (answer.there /\ ~postOf[q].copy.there) THEN answer
               ELSE [postOf[q].copy EXCEPT !.there = TRUE]
  /\ stored' = stored \ {postOf[q].copy.file}
  /\ postOf' = [postOf EXCEPT ![q] = PostIdle]
  /\ UNCHANGED <<uploads, due, deleted, gradeLeft, givenGrade, crossedPost, brokenOff>>

_submit(q) ==
  /\ postOf[q].step \in {"submit", "replace"}
  /\ answer' = IF deleted \/ (answer.there /\ ~postOf[q].copy.there) THEN answer
               ELSE [postOf[q].copy EXCEPT !.there = TRUE]
  /\ stored' = IF postOf[q].step = "replace" THEN stored \cup {postOf[q].copy.file} ELSE stored
  /\ postOf' = [postOf EXCEPT ![q] = PostIdle]
  /\ UNCHANGED <<uploads, due, deleted, gradeLeft, givenGrade, crossedPost, brokenOff>>

\* The server stops between two steps of a request.
PostDies(q) ==
  /\ postOf[q].step # "idle"
  /\ gradeLeft.crashes > 0
  /\ gradeLeft' = [gradeLeft EXCEPT !.crashes = @ - 1]
  /\ brokenOff' = TRUE
  /\ postOf' = [postOf EXCEPT ![q] = PostIdle]
  /\ UNCHANGED <<answer, stored, uploads, due, deleted, givenGrade, crossedPost>>

-----------------------------------------------------------------------------
(* Grading, the deadline and the end of the assignment.                    *)

GradeRead(q) ==
  /\ postOf[q].step = "idle" /\ answer.there
  /\ gradeLeft.grades > 0
  /\ gradeLeft' = [gradeLeft EXCEPT !.grades = @ - 1]
  /\ postOf' = [postOf EXCEPT ![q] = [step |-> "grade", copy |-> answer]]
  /\ crossedPost' = (crossedPost \/ \E p \in UnderWay : postOf[p].step # "grade")
  /\ UNCHANGED <<answer, stored, uploads, due, deleted, givenGrade, brokenOff>>

\* Only the columns of the grade are saved; grades are told apart by their number.
_grade(q) ==
  /\ postOf[q].step = "grade"
  /\ IF answer.there
       THEN /\ answer' = [answer EXCEPT !.grade = gradeLeft.grades + 1]
            /\ givenGrade' = gradeLeft.grades + 1
       ELSE UNCHANGED <<answer, givenGrade>>
  /\ postOf' = [postOf EXCEPT ![q] = PostIdle]
  /\ UNCHANGED <<stored, uploads, due, deleted, gradeLeft, crossedPost, brokenOff>>

Deadline ==
  /\ ~due
  /\ due' = TRUE
  /\ UNCHANGED <<answer, stored, uploads, deleted, postOf, gradeLeft, givenGrade, crossedPost, brokenOff>>

\* assignment_list_view; the rows go, the uploads stay in the storage.
DeleteAssignment ==
  /\ ~deleted
  /\ deleted' = TRUE
  /\ answer' = NoAnswer
  /\ givenGrade' = 0
  /\ UNCHANGED <<stored, uploads, due, postOf, gradeLeft, crossedPost, brokenOff>>

-----------------------------------------------------------------------------
GradeInit ==
  /\ answer = NoAnswer /\ stored = {} /\ uploads = 0
  /\ due = FALSE /\ deleted = FALSE
  /\ postOf = [q \in Posts |-> PostIdle]
  /\ gradeLeft \in GradePlans
  /\ givenGrade = 0 /\ crossedPost = FALSE /\ brokenOff = FALSE

GradeNext ==
  \/ \E q \in Posts :
       SubmitRead(q) \/ SubmitFile(q) \/ _submit(q) \/ PostDies(q) \/ GradeRead(q) \/ _grade(q)
  \/ Deadline \/ DeleteAssignment

GradeSpec == GradeInit /\ [][GradeNext]_gradeVars

-----------------------------------------------------------------------------
(* Properties.                                                             *)

GradeTypeOK ==
  /\ answer \in Answer
  /\ stored \subseteq 1 .. uploads
  /\ postOf \in [Posts -> Post]
  /\ {due, deleted, crossedPost, brokenOff} \subseteq BOOLEAN

\* As long as no submission overlaps another one or a grading, the grade that was given
\* stands, and the file the answer names is in the storage, but for the moment in which
\* it is replaced and for a request that died in it.
AnswerIsKept ==
  answer.there /\ ~crossedPost =>
    /\ answer.grade = givenGrade
    /\ answer.file # 0 /\ ~brokenOff /\ (\A q \in Posts : postOf[q].step # "replace") =>
         answer.file \in stored
=============================================================================
