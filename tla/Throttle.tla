------------------------------ MODULE Throttle ------------------------------
(***************************************************************************)
(* The three brakes of the server: the failed logins of one address and    *)
(* user name, counted in a cache that all workers share (core/ratelimit.py,*)
(* accounts/views.py); the wrong passwords of a classroom, counted by name *)
(* and by address (classrooms/services.py); and the messages of one socket *)
(* (RateLimiter, classrooms/ws_security.py).  Time is counted in ticks, of *)
(* which a window has WINDOW, and the one of an address WINDOW_IP.         *)
(*                                                                         *)
(* A login is counted for the address and for the address with the user    *)
(* name.  The module follows one of the two; the other one can only refuse *)
(* attempts that this one would let through.                               *)
(***************************************************************************)
EXTENDS Naturals, FiniteSets, SequencesExt

CONSTANTS
  Attempts,        \* logins or entries that may run at the same time
  LOGIN_MAX, LIMIT, WINDOW,
  Callers,         \* users and guest names that ask for entry, from one address
  Accounts,        \* the users among them
  PASS_MAX, PASS_MAX_IP, WINDOW_IP,
  ThrottlePlans    \* bounds on a behaviour, see throttleLeft

ASSUME ThrottleAssumption ==
  /\ {LOGIN_MAX, LIMIT, WINDOW, PASS_MAX, PASS_MAX_IP, WINDOW_IP} \subseteq Nat \ {0}
  /\ IsFiniteSet(Attempts) /\ Attempts # {}
  /\ Accounts \subseteq Callers /\ Callers # {}
  /\ ThrottlePlans \subseteq 
       [logins : Nat, messages : Nat, entries : Nat, ticks : Nat, callers : SUBSET Callers]

VARIABLES
  clock,
  attempt,       \* [Attempts -> step of the login]
  counter,       \* the cache entry of the failures: count, and when it expires
  blocked,       \* the cache entry that blocks: when it expires, 0 for none
  entry,         \* [Attempts -> step of the entry, and who asks]
  byName, byIp,  \* the cache entries of wrong classroom passwords
  stamps,        \* RateLimiter._stamps
  throttleLeft,
  failures,      \* history: times of logins that were checked and failed
  passed,        \* history: times of messages that were let through
  cleared,       \* history: a login has succeeded
  guesses,       \* history: times and names of wrong passwords
  entered        \* history: who has entered with the right one

loginVars == <<attempt, counter, blocked, failures, cleared>>
entryVars == <<entry, byName, byIp, guesses, entered>>
socketVars == <<stamps, passed>>
throttleVars == <<clock, throttleLeft, loginVars, entryVars, socketVars>>

NoCount == [count |-> 0, until |-> 0]

OneMore(cell) == [count |-> cell.count + 1, until |-> cell.until]

\* An entry is there until its time has come.
There(until) == clock < until

-----------------------------------------------------------------------------
(* RateLimitedLoginView.                                                   *)

\* post: the flag is looked at before the password is.
post(a) ==
  /\ attempt[a] = "idle" /\ ~There(blocked)
  /\ throttleLeft.logins > 0
  /\ throttleLeft' = [throttleLeft EXCEPT !.logins = @ - 1]
  /\ attempt' = [attempt EXCEPT ![a] = "checked"]
  /\ UNCHANGED <<clock, counter, blocked, failures, cleared, entryVars, socketVars>>

form_valid(a) ==
  /\ attempt[a] = "checked"
  /\ counter' = NoCount
  /\ cleared' = TRUE
  /\ attempt' = [attempt EXCEPT ![a] = "idle"]
  /\ UNCHANGED <<clock, blocked, throttleLeft, failures, entryVars, socketVars>>

form_invalid(a) ==
  /\ attempt[a] = "checked"
  /\ failures' = Append(failures, clock)
  /\ attempt' = [attempt EXCEPT ![a] = "failed"]
  /\ UNCHANGED <<clock, counter, blocked, throttleLeft, cleared, entryVars, socketVars>>

\* hit: incr, which keeps the time an entry expires and fails without an entry.
HitIncr(a) ==
  /\ attempt[a] = "failed"
  /\ IF There(counter.until)
       THEN /\ counter' = OneMore(counter)
            /\ attempt' = [attempt EXCEPT ![a] =
                 IF counter.count + 1 <= LOGIN_MAX THEN "idle" ELSE "over"]
       ELSE /\ attempt' = [attempt EXCEPT ![a] = "first"]
            /\ UNCHANGED counter
  /\ UNCHANGED <<clock, blocked, throttleLeft, failures, cleared, entryVars, socketVars>>

\* The set that follows is an operation of its own: two first hits count as one.
HitSet(a) ==
  /\ attempt[a] = "first"
  /\ counter' = [count |-> 1, until |-> clock + WINDOW]
  /\ attempt' = [attempt EXCEPT ![a] = "idle"]
  /\ UNCHANGED <<clock, blocked, throttleLeft, failures, cleared, entryVars, socketVars>>

Block(a) ==
  /\ attempt[a] = "over"
  /\ blocked' = clock + WINDOW
  /\ attempt' = [attempt EXCEPT ![a] = "idle"]
  /\ UNCHANGED <<clock, counter, throttleLeft, failures, cleared, entryVars, socketVars>>

-----------------------------------------------------------------------------
(* The password of a classroom.                                            *)

Full(cell, max) == There(cell.until) /\ cell.count >= max

Step(a, step) == entry' = [entry EXCEPT ![a] = [step |-> step, who |-> entry[a].who]]

\* An active member is not asked again; a guest always is.
_password_already_verified(n) == n \in Accounts \cap entered

\* The view sends a member to the room, and then looks at the address.
lobby_view(a, n) ==
  /\ entry[a].step = "idle" /\ ~_password_already_verified(n) /\ ~Full(byIp, PASS_MAX_IP)
  /\ throttleLeft.entries > 0 /\ n \in throttleLeft.callers
  /\ throttleLeft' = [throttleLeft EXCEPT !.entries = @ - 1]
  /\ entry' = [entry EXCEPT ![a] = [step |-> "asked", who |-> n]]
  /\ UNCHANGED <<clock, byName, byIp, guesses, entered, loginVars, socketVars>>

\* join_classroom, join_classroom_guest: nothing is counted of who is not asked for the
\* password or has been wrong too often.
JoinUnasked(a) ==
  /\ entry[a].step = "asked"
  /\ _password_already_verified(entry[a].who) \/ Full(byName[entry[a].who], PASS_MAX)
  /\ Step(a, "idle")
  /\ UNCHANGED <<clock, throttleLeft, byName, byIp, guesses, entered, loginVars, socketVars>>

MayGuess(a) ==
  /\ entry[a].step = "asked"
  /\ ~_password_already_verified(entry[a].who) /\ ~Full(byName[entry[a].who], PASS_MAX)

JoinWrong(a) ==
  /\ MayGuess(a)
  /\ guesses' = Append(guesses, [at |-> clock, who |-> entry[a].who])
  /\ Step(a, "wrong")
  /\ UNCHANGED <<clock, throttleLeft, byName, byIp, entered, loginVars, socketVars>>

\* reset_password_attempts clears the counter of the name and leaves that of the address.
JoinRight(a) ==
  /\ MayGuess(a)
  /\ byName' = [byName EXCEPT ![entry[a].who] = NoCount]
  /\ entered' = entered \cup {entry[a].who}
  /\ Step(a, "idle")
  /\ UNCHANGED <<clock, throttleLeft, byIp, guesses, loginVars, socketVars>>

\* incr, or else a set of its own, for the name and then for the address.
register_failed_password(a) ==
  LET n == entry[a].who IN
  /\ \/ /\ entry[a].step = "wrong"
        /\ IF There(byName[n].until)
             THEN byName' = [byName EXCEPT ![n] = OneMore(@)] /\ Step(a, "counted")
             ELSE UNCHANGED byName /\ Step(a, "first")
     \/ /\ entry[a].step = "first"
        /\ byName' = [byName EXCEPT ![n] = [count |-> 1, until |-> clock + WINDOW]]
        /\ Step(a, "counted")
  /\ UNCHANGED <<clock, throttleLeft, byIp, guesses, entered, loginVars, socketVars>>

register_failed_password_ip(a) ==
  /\ \/ /\ entry[a].step = "counted"
        /\ IF There(byIp.until)
             THEN byIp' = OneMore(byIp) /\ Step(a, "idle")
             ELSE UNCHANGED byIp /\ Step(a, "firstIp")
     \/ /\ entry[a].step = "firstIp"
        /\ byIp' = [count |-> 1, until |-> clock + WINDOW_IP]
        /\ Step(a, "idle")
  /\ UNCHANGED <<clock, throttleLeft, byName, guesses, entered, loginVars, socketVars>>

-----------------------------------------------------------------------------
(* RateLimiter.                                                            *)

\* The stamps are popped from the left while the first one is too old.
Recent(times) ==
  LET popped == {k \in 1..(Len(times) + 1) : \A j \in 1..(k - 1) : times[j] + WINDOW < clock}
      first  == CHOOSE k \in popped : \A j \in popped : j <= k
  IN SubSeq(times, first, Len(times))

\* (mutant: the stamp is written before the limit is looked at, and one more passes)
AllowLate ==
  /\ throttleLeft.messages > 0
  /\ throttleLeft' = [throttleLeft EXCEPT !.messages = @ - 1]
  /\ IF Len(Recent(stamps)) > LIMIT
       THEN /\ stamps' = Recent(stamps)
            /\ UNCHANGED passed
       ELSE /\ stamps' = Append(Recent(stamps), clock)
            /\ passed' = Append(passed, clock)
  /\ UNCHANGED <<clock, loginVars, entryVars>>

allow ==
  /\ throttleLeft.messages > 0
  /\ throttleLeft' = [throttleLeft EXCEPT !.messages = @ - 1]
  /\ IF Len(Recent(stamps)) >= LIMIT
       THEN /\ stamps' = Recent(stamps)
            /\ UNCHANGED passed
       ELSE /\ stamps' = Append(Recent(stamps), clock)
            /\ passed' = Append(passed, clock)
  /\ UNCHANGED <<clock, loginVars, entryVars>>

Tick ==
  /\ throttleLeft.ticks > 0
  /\ throttleLeft' = [throttleLeft EXCEPT !.ticks = @ - 1]
  /\ clock' = clock + 1
  /\ UNCHANGED <<loginVars, entryVars, socketVars>>

-----------------------------------------------------------------------------
ThrottleInit ==
  /\ clock = 1
  /\ attempt = [a \in Attempts |-> "idle"]
  /\ counter = NoCount /\ blocked = 0
  /\ entry = [a \in Attempts |-> [step |-> "idle", who |-> CHOOSE n \in Callers : TRUE]]
  /\ byName = [n \in Callers |-> NoCount] /\ byIp = NoCount
  /\ stamps = <<>>
  /\ throttleLeft \in ThrottlePlans
  /\ failures = <<>> /\ passed = <<>> /\ cleared = FALSE
  /\ guesses = <<>> /\ entered = {}

ThrottleNext ==
  \/ \E a \in Attempts :
       \/ post(a) \/ form_valid(a) \/ form_invalid(a) \/ HitIncr(a) \/ HitSet(a) \/ Block(a)
       \/ \E n \in Callers : lobby_view(a, n)
       \/ JoinUnasked(a) \/ JoinWrong(a) \/ JoinRight(a)
       \/ register_failed_password(a) \/ register_failed_password_ip(a)
  \/ allow \/ Tick

ThrottleSpec == ThrottleInit /\ [][ThrottleNext]_throttleVars

-----------------------------------------------------------------------------
(* Properties.                                                             *)

Cell == [count : Nat, until : Nat]

ThrottleTypeOK ==
  /\ clock \in Nat /\ blocked \in Nat
  /\ attempt \in [Attempts -> {"idle", "checked", "failed", "first", "over"}]
  /\ entry \in [Attempts -> [step : {"idle", "asked", "wrong", "first", "counted", "firstIp"},
                           who : Callers]]
  /\ counter \in Cell /\ byIp \in Cell /\ byName \in [Callers -> Cell]
  /\ stamps \in Seq(Nat) /\ passed \in Seq(Nat) /\ failures \in Seq(Nat)
  /\ guesses \in Seq([at : Nat, who : Callers])
  /\ entered \subseteq Callers /\ cleared \in BOOLEAN

\* What is counted in the window of this width that begins at `from'.
FailuresIn(from) == {k \in DOMAIN failures : from <= failures[k] /\ failures[k] < from + WINDOW}

GuessesIn(from, width) ==
  {k \in DOMAIN guesses : from <= guesses[k].at /\ guesses[k].at < from + width}

GuessesOf(n, from) == {k \in GuessesIn(from, WINDOW) : guesses[k].who = n}

\* One counter may expire in the window, and then each attempt that runs may replace the
\* counter that the others have raised, because it was missing when it looked.
Counters == Cardinality(Attempts) + 1

\* A counter is full at max, and the other attempts were under way then.
Overrun(max) == max + Cardinality(Attempts) - 1

\* However attempts overlap, whatever expires between two of their steps and although
\* a first failure may replace a counter that others have raised, no window holds more
\* failed logins than the counters hold and one of each attempt besides, unless a login
\* succeeded; no more wrong passwords of one name, unless the name entered, and of one
\* address, whatever names it gives and whoever enters, than the counters hold with what
\* was under way; and the window between two messages of a socket, with both ends,
\* no more than LIMIT.
Throttled ==
  /\ ~cleared => \A from \in Range(failures) :
       Cardinality(FailuresIn(from)) < Counters * LOGIN_MAX + Cardinality(Attempts)
  /\ \A g \in Range(guesses) :
       /\ g.who \notin entered =>
            Cardinality(GuessesOf(g.who, g.at)) < Counters * Overrun(PASS_MAX)
       /\ Cardinality(GuessesIn(g.at, WINDOW_IP)) < Counters * Overrun(PASS_MAX_IP)
  /\ \A from \in Range(passed) :
       Cardinality({k \in DOMAIN passed : from <= passed[k] /\ passed[k] <= from + WINDOW}) <= LIMIT
=============================================================================
