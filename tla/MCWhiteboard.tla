---------------------------- MODULE MCWhiteboard ----------------------------
(* Model values for the whiteboard: two boards and two presentations, two at *)
(* a time.                                                                   *)
EXTENDS Whiteboard

CONSTANTS w1, w2, p1, p2, teacher, presenter, student

MCWho  == [s \in Sock |-> CASE s = w1 -> teacher [] s = p1 -> presenter [] s \in {w2, p2} -> student]
MCView == [s \in Sock |-> IF s \in {p1, p2} THEN 1 ELSE 0]

Plan(ofW1, ofW2, ofP1, ofP2, steady, restless) ==
  [clicks |-> [s \in Sock |-> CASE s = w1 -> ofW1 [] s = w2 -> ofW2 [] s = p1 -> ofP1 [] s = p2 -> ofP2],
   steady |-> steady, restless |-> restless]

MCPlans == {
  \* two boards; the student comes and goes
  Plan(Kind, {"draw"}, {}, {}, {w1}, {w2}),
  \* a board and a presentation whose pages have the same numbers
  Plan({"clear", "draw"}, {}, {"clear", "draw"}, {}, {w1}, {p1}),
  \* a presentation that somebody else watches
  Plan({}, {}, {"clear", "draw", "remove", "page_go"}, {}, {p1}, {p2}) }

\* Both users draw at once.
MCBothDraw == { Plan({"draw"}, {"draw"}, {}, {}, {w1, w2}, {}) }
=============================================================================
