------------------------------- MODULE MCVoice ------------------------------
EXTENDS Voice

CONSTANTS v1, q1

MCVoicePlans ==
  {[acts |-> 2, taps |-> 2, picks |-> 0, losses |-> 0, news |-> 0, links |-> 0, drops |-> 0]}
=============================================================================
