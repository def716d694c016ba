--------------------------- MODULE ThrottleProofs ---------------------------
(***************************************************************************)
(* What the brakes of module Throttle let through in any window, for any   *)
(* limits, windows and numbers of callers and of requests under way.       *)
(*                                                                         *)
(* The counters are not incremented where the failure happens: between the *)
(* two the entry may expire, or be replaced by a first hit that found none.*)
(* The argument keeps a budget for each window that lasts: what has failed *)
(* in it is covered by the counter, by the attempts on their way to it and *)
(* by the counters that attempts with a first hit have replaced since.     *)
(***************************************************************************)
EXTENDS Throttle, FiniteSetTheorems, SequenceTheorems, WellFoundedInduction, TLAPS

-----------------------------------------------------------------------------
(* Sets of attempts.                                                       *)

\* How many attempts are at one of these steps.
LoginsAt(steps) == {a \in Attempts : attempt[a] \in steps}
EntriesAt(steps) == {a \in Attempts : entry[a].step \in steps}
EntriesOf(n, steps) == {a \in EntriesAt(steps) : entry[a].who = n}

LEMMA AttemptsFinite ==
  /\ Cardinality(Attempts) \in Nat \ {0}
  /\ \A X : X \subseteq Attempts =>
       IsFiniteSet(X) /\ Cardinality(X) \in Nat /\ Cardinality(X) <= Cardinality(Attempts)
<1>1. IsFiniteSet(Attempts) /\ Attempts # {}
  BY ThrottleAssumption
<1>2. Cardinality(Attempts) \in Nat /\ Cardinality(Attempts) # 0
  BY <1>1, FS_CardinalityType, FS_EmptySet
<1>3. ASSUME NEW X, X \subseteq Attempts
      PROVE  IsFiniteSet(X) /\ Cardinality(X) \in Nat /\ Cardinality(X) <= Cardinality(Attempts)
  <2>1. X \in SUBSET Attempts
    BY <1>3
  <2>2. IsFiniteSet(X) /\ Cardinality(X) <= Cardinality(Attempts)
    BY <1>1, <2>1, FS_Subset
  <2> QED BY <2>2, FS_CardinalityType
<1> QED BY <1>2, <1>3

\* X is Y but for a, which is in X if `now', and was in Y if `before'.
LEMMA OneMoves ==
  ASSUME NEW X, NEW Y, X \subseteq Attempts, NEW a, NEW now \in BOOLEAN,
         Y = IF now THEN X \cup {a} ELSE X \ {a}
  PROVE  Cardinality(Y) = Cardinality(X) + (IF now THEN 1 ELSE 0) - (IF a \in X THEN 1 ELSE 0)
<1>1. IsFiniteSet(X) /\ Cardinality(X) \in Nat
  BY AttemptsFinite
<1>2. Cardinality(X \cup {a}) = IF a \in X THEN Cardinality(X) ELSE Cardinality(X) + 1
  BY <1>1, FS_AddElement
<1>3. Cardinality(X \ {a}) = IF a \in X THEN Cardinality(X) - 1 ELSE Cardinality(X)
  BY <1>1, FS_RemoveElement
<1> QED BY <1>1, <1>2, <1>3

LEMMA LoginMoves ==
  ASSUME NEW a \in Attempts, \A b \in Attempts \ {a} : attempt'[b] = attempt[b], NEW S
  PROVE  Cardinality(LoginsAt(S))' =
           Cardinality(LoginsAt(S)) + (IF attempt'[a] \in S THEN 1 ELSE 0)
                                    - (IF attempt[a] \in S THEN 1 ELSE 0)
<1>1. LoginsAt(S) \subseteq Attempts /\ (a \in LoginsAt(S) <=> attempt[a] \in S)
  BY DEF LoginsAt
<1>2. LoginsAt(S)' = IF attempt'[a] \in S THEN LoginsAt(S) \cup {a} ELSE LoginsAt(S) \ {a}
  BY DEF LoginsAt
<1>3. (attempt'[a] \in S) \in BOOLEAN
  OBVIOUS
<1>4. Cardinality(LoginsAt(S)') =
        Cardinality(LoginsAt(S)) + (IF attempt'[a] \in S THEN 1 ELSE 0)
          - (IF a \in LoginsAt(S) THEN 1 ELSE 0)
  BY <1>1, <1>2, <1>3, OneMoves
<1> QED BY <1>1, <1>4

EntryType == [step : {"idle", "asked", "wrong", "first", "counted", "firstIp"}, who : Callers]

LEMMA EntryMoves ==
  ASSUME NEW a \in Attempts, \A b \in Attempts \ {a} : entry'[b] = entry[b], NEW S
  PROVE  Cardinality(EntriesAt(S))' =
           Cardinality(EntriesAt(S)) + (IF entry'[a].step \in S THEN 1 ELSE 0)
                                     - (IF entry[a].step \in S THEN 1 ELSE 0)
<1>1. /\ EntriesAt(S) \subseteq Attempts /\ (a \in EntriesAt(S) <=> entry[a].step \in S)
  BY DEF EntriesAt
<1>2. EntriesAt(S)' = IF entry'[a].step \in S THEN EntriesAt(S) \cup {a} ELSE EntriesAt(S) \ {a}
  BY DEF EntriesAt
<1>3. Cardinality(EntriesAt(S)') =
        Cardinality(EntriesAt(S)) + (IF entry'[a].step \in S THEN 1 ELSE 0)
          - (IF a \in EntriesAt(S) THEN 1 ELSE 0)
  <2>1. (entry'[a].step \in S) \in BOOLEAN
    OBVIOUS
  <2> QED BY <1>1, <1>2, <2>1, OneMoves
<1> QED BY <1>1, <1>3

LEMMA NameMoves ==
  ASSUME NEW a \in Attempts, \A b \in Attempts \ {a} : entry'[b] = entry[b], NEW S, NEW n
  PROVE  Cardinality(EntriesOf(n, S))' =
           Cardinality(EntriesOf(n, S)) + (IF entry'[a].step \in S /\ entry'[a].who = n THEN 1 ELSE 0)
             - (IF entry[a].step \in S /\ entry[a].who = n THEN 1 ELSE 0)
<1>1. /\ EntriesOf(n, S) \subseteq Attempts
      /\ a \in EntriesOf(n, S) <=> entry[a].step \in S /\ entry[a].who = n
  BY DEF EntriesAt, EntriesOf
<1>2. EntriesOf(n, S)' = IF entry'[a].step \in S /\ entry'[a].who = n
                         THEN EntriesOf(n, S) \cup {a} ELSE EntriesOf(n, S) \ {a}
  BY DEF EntriesAt, EntriesOf
<1>3. (entry'[a].step \in S /\ entry'[a].who = n) \in BOOLEAN
  OBVIOUS
<1>4. Cardinality(EntriesOf(n, S)') =
        Cardinality(EntriesOf(n, S)) + (IF entry'[a].step \in S /\ entry'[a].who = n THEN 1 ELSE 0)
          - (IF a \in EntriesOf(n, S) THEN 1 ELSE 0)
  BY <1>1, <1>2, <1>3, OneMoves
<1> QED BY <1>1, <1>4

\* Appending one element adds one index to a set of indices, or none.
LEMMA OneAppended ==
  ASSUME NEW m \in Nat, NEW X \in SUBSET (1..m), NEW Y, NEW now \in BOOLEAN,
         Y = IF now THEN X \cup {m + 1} ELSE X
  PROVE  Cardinality(X) \in Nat /\ Cardinality(Y) = IF now THEN Cardinality(X) + 1 ELSE Cardinality(X)
<1>2. IsFiniteSet(1..m)
  BY FS_Interval
<1>3. IsFiniteSet(X) /\ Cardinality(X) \in Nat
  BY <1>2, FS_Subset, FS_CardinalityType
<1>4. m + 1 \notin X
  OBVIOUS
<1>5. Cardinality(X \cup {m + 1}) = Cardinality(X) + 1
  BY <1>3, <1>4, FS_AddElement
<1> QED BY <1>3, <1>5

-----------------------------------------------------------------------------
(* The budget of a window: n is counted in it so far, and the counter holds c if it is     *)
(* there; it is fresh if it was begun in the window.  p attempts are on their way to the   *)
(* counter, r of them found none and will replace it; a counter holds k at most.           *)
Budget(n, there, fresh, c, p, r, k) ==
  IF ~there THEN n <= k - 1 + p
  ELSE IF ~fresh THEN n <= c - 1 + p
  ELSE n <= k * (Cardinality(Attempts) - r) + c - 1 + p

LEMMA BudgetGrows ==
  ASSUME NEW n \in Int, NEW there \in BOOLEAN, NEW fresh \in BOOLEAN, NEW c \in Int, NEW p \in Int,
         NEW r \in Int, NEW k \in Int, Budget(n, there, fresh, c, p, r, k)
  PROVE  /\ Budget(n + 1, there, fresh, c, p + 1, r, k)
         /\ there => Budget(n, there, fresh, c + 1, p - 1, r, k)
<1> DEFINE m == k * (Cardinality(Attempts) - r)
<1>1. m \in Int
  BY AttemptsFinite
<1>2. there /\ fresh => n <= m + c - 1 + p
  BY DEF Budget
<1>3. /\ there /\ fresh => n + 1 <= m + c - 1 + (p + 1)
      /\ there /\ fresh => n <= m + (c + 1) - 1 + (p - 1)
  BY <1>1, <1>2
<1> HIDE DEF m
<1>4. /\ ~there => n <= k - 1 + p
      /\ there /\ ~fresh => n <= c - 1 + p
  BY DEF Budget
<1>5. Budget(n + 1, there, fresh, c, p + 1, r, k)
  BY <1>3, <1>4 DEF Budget, m
<1>6. there => Budget(n, there, fresh, c + 1, p - 1, r, k)
  BY <1>3, <1>4 DEF Budget, m
<1> QED BY <1>5, <1>6

\* Without a counter it does not matter how many will replace it.
LEMMA BudgetAny ==
  ASSUME NEW n \in Int, NEW fresh \in BOOLEAN, NEW c \in Int, NEW p \in Int,
         NEW r \in Int, NEW k \in Int, Budget(n, FALSE, fresh, c, p, r, k), NEW x \in Int
  PROVE  Budget(n, FALSE, fresh, c, p, x, k)
BY DEF Budget

LEMMA BudgetSet ==
  ASSUME NEW n \in Int, NEW there \in BOOLEAN, NEW fresh \in BOOLEAN, NEW c \in Int, NEW p \in Int,
         NEW r \in Int, NEW k \in Nat, Budget(n, there, fresh, c, p, r, k),
         there => c <= k, r <= Cardinality(Attempts)
  PROVE  Budget(n, TRUE, TRUE, 1, p - 1, r - 1, k)
<1> DEFINE A == Cardinality(Attempts)
           m == k * (A - r)
<1>1. A \in Nat
  BY AttemptsFinite
<1>2. A - r \in Nat
  BY <1>1
<1>3. m \in Nat
  BY <1>2
<1>4. k * (A - (r - 1)) = m + k
  <2> DEFINE d == A - r
  <2>1. A - (r - 1) = d + 1 /\ d \in Int
    BY <1>1
  <2> HIDE DEF d, A
  <2>2. k * (d + 1) = k * d + k
    BY <2>1
  <2> QED BY <2>1, <2>2 DEF d
<1>5. there /\ fresh => n <= m + c - 1 + p
  BY DEF Budget
<1>6. /\ ~there => n <= k - 1 + p
      /\ there /\ ~fresh => n <= c - 1 + p
  BY DEF Budget
<1> HIDE DEF m
<1>7. n <= (m + k) + 1 - 1 + (p - 1)
  BY <1>3, <1>5, <1>6
<1> QED BY <1>4, <1>7 DEF Budget

LEMMA BudgetBounds ==
  ASSUME NEW n \in Int, NEW there \in BOOLEAN, NEW fresh \in BOOLEAN, NEW c \in Int, NEW p \in Int,
         NEW r \in Nat, NEW k \in Nat \ {0}, Budget(n, there, fresh, c, p, r, k),
         p <= Cardinality(Attempts), NEW e \in Nat, there => c + p <= k + e
  PROVE  n < Counters * k + e
<1> DEFINE A == Cardinality(Attempts)
           m == k * A
           x == k * r
<1>1. A \in Nat /\ m \in Nat /\ x \in Nat /\ A <= m
  <2>1. A \in Nat
    BY AttemptsFinite
  <2> HIDE DEF A
  <2>2. k * A \in Nat /\ k * r \in Nat /\ k * A = (k - 1) * A + A /\ (k - 1) * A \in Nat
    BY <2>1
  <2> QED BY <2>1, <2>2
<1>2. k * (A - r) = m - x
  <2> HIDE DEF A
  <2> QED BY <1>1
<1>3. Counters * k = m + k
  <2>1. Counters = A + 1
    BY DEF Counters
  <2> HIDE DEF A
  <2> QED BY <2>1, <1>1
<1> HIDE DEF m, x
<1>4. ~there => n <= k - 1 + p
  BY DEF Budget
<1>5. there /\ ~fresh => n <= c - 1 + p
  BY DEF Budget
<1>6. there /\ fresh => n <= (m - x) + c - 1 + p
  BY <1>2 DEF Budget
<1>7. p <= A
  OBVIOUS
<1> HIDE DEF A
<1>8. n < m + k + e
  BY <1>1, <1>4, <1>5, <1>6, <1>7
<1> QED BY <1>3, <1>8

-----------------------------------------------------------------------------
(* The inductive invariants.                                               *)

\* The windows of this width that have begun and last still.
Current(width) == {from \in 0..clock : clock < from + width}

Capped(c) == IF c <= LOGIN_MAX THEN c ELSE LOGIN_MAX

\* Beside the attempts that will raise the counter, some of the window have found it full:
\* they have blocked the address, or will, and none of them is back before the window ends.
FailureBudget(from, X) ==
  /\ \A a \in X : attempt[a] = "over" \/ (attempt[a] = "idle" /\ from + WINDOW <= blocked)
  /\ Budget(Cardinality(FailuresIn(from)), There(counter.until), from + WINDOW <= counter.until,
            Capped(counter.count), Cardinality(LoginsAt({"failed", "first"})) + Cardinality(X),
            Cardinality(LoginsAt({"first"})), LOGIN_MAX)

LoginInductive ==
  /\ blocked <= clock + WINDOW /\ counter.until <= clock + WINDOW
  /\ There(counter.until) => counter.count >= 1
  /\ \A k \in DOMAIN failures : failures[k] <= clock
  /\ ~cleared =>
       /\ \A from \in Current(WINDOW) : \E X \in SUBSET Attempts : FailureBudget(from, X)
       /\ \A from \in 0..clock :
            Cardinality(FailuresIn(from)) < Counters * LOGIN_MAX + Cardinality(Attempts)

GuessBudget(n, from) ==
  Budget(Cardinality(GuessesOf(n, from)), There(byName[n].until), from + WINDOW <= byName[n].until,
         byName[n].count, Cardinality(EntriesOf(n, {"wrong", "first"})),
         Cardinality(EntriesOf(n, {"first"})), Overrun(PASS_MAX))

NameOK(n) ==
  /\ byName[n].until <= clock + WINDOW
  /\ There(byName[n].until) =>
       /\ byName[n].count >= 1
       /\ byName[n].count + Cardinality(EntriesOf(n, {"wrong", "first"})) <= Overrun(PASS_MAX)
  /\ \A from \in Current(WINDOW) : GuessBudget(n, from)
  /\ \A from \in 0..clock : Cardinality(GuessesOf(n, from)) < Counters * Overrun(PASS_MAX)

NameInductive ==
  /\ \A k \in DOMAIN guesses : guesses[k].at <= clock
  /\ \A n \in Callers \ entered : NameOK(n)

\* A name has been wrong and the address does not show it yet; one that may be wrong yet.
Failing == {"wrong", "first", "counted", "firstIp"}
Asking == {"asked", "wrong", "first", "counted", "firstIp"}

AddressBudget(from) ==
  Budget(Cardinality(GuessesIn(from, WINDOW_IP)), There(byIp.until), from + WINDOW_IP <= byIp.until,
         byIp.count, Cardinality(EntriesAt(Failing)), Cardinality(EntriesAt({"firstIp"})),
         Overrun(PASS_MAX_IP))

AddressInductive ==
  /\ \A k \in DOMAIN guesses : guesses[k].at <= clock
  /\ byIp.until <= clock + WINDOW_IP
  /\ There(byIp.until) =>
       /\ byIp.count >= 1
       /\ byIp.count + Cardinality(EntriesAt(Asking)) <= Overrun(PASS_MAX_IP)
  /\ \A from \in Current(WINDOW_IP) : AddressBudget(from)
  /\ \A from \in 0..clock :
       Cardinality(GuessesIn(from, WINDOW_IP)) < Counters * Overrun(PASS_MAX_IP)

\* The stamps are the last messages that passed, those that were dropped are too old, and
\* of LIMIT + 1 messages in a row the last is more than a window after the first.
SocketInductive ==
  LET dropped == Len(passed) - Len(stamps) IN
  /\ Len(stamps) <= Len(passed) /\ Len(stamps) <= LIMIT
  /\ \A i \in 1..Len(stamps) : stamps[i] = passed[dropped + i]
  /\ \A j \in 1..dropped : passed[j] + WINDOW < clock
  /\ \A j \in 1..Len(passed) : passed[j] <= clock
  /\ \A i, j \in 1..Len(passed) : i <= j => passed[i] <= passed[j]
  /\ \A j \in 1..Len(passed) : j + LIMIT <= Len(passed) => passed[j] + WINDOW < passed[j + LIMIT]

ThrottleInductive ==
  ThrottleTypeOK /\ LoginInductive /\ NameInductive /\ AddressInductive /\ SocketInductive


-----------------------------------------------------------------------------
LEMMA ThrottleConstants ==
  /\ LOGIN_MAX \in Nat \ {0} /\ LIMIT \in Nat \ {0} /\ WINDOW \in Nat \ {0}
  /\ PASS_MAX \in Nat \ {0} /\ PASS_MAX_IP \in Nat \ {0} /\ WINDOW_IP \in Nat \ {0}
  /\ Cardinality(Attempts) \in Nat \ {0}
  /\ Overrun(PASS_MAX) \in Nat \ {0} /\ Overrun(PASS_MAX_IP) \in Nat \ {0}
<1>1. Cardinality(Attempts) \in Nat \ {0}
  BY AttemptsFinite
<1> QED BY <1>1, ThrottleAssumption DEF Overrun

\* Among the numbers of a set that has one there is a least one.
LEMMA LeastNumber ==
  ASSUME NEW S, S \subseteq Nat, S # {}
  PROVE  \E m \in S : \A j \in S : m <= j
<1>1. IsWellFoundedOn(OpToRel(<, Nat), Nat)
  BY NatLessThanWellFounded
<1>2. PICK m \in S : \A y \in S : ~ (<<y, m>> \in OpToRel(<, Nat))
  BY <1>1, WFMin
<1>3. \A j \in S : ~(j < m)
  BY <1>2 DEF OpToRel
<1> QED BY <1>3

\* and of those up to some number a greatest one.
LEMMA GreatestNumber ==
  ASSUME NEW n \in Nat, NEW S, S \subseteq 1..n, S # {}
  PROVE  \E m \in S : \A j \in S : j <= m
<1> DEFINE T == {n - j : j \in S}
<1>1. T \subseteq Nat /\ T # {}
  <2>1. PICK j \in S : TRUE
    OBVIOUS
  <2>2. n - j \in T
    OBVIOUS
  <2>3. \A i \in S : n - i \in Nat
    OBVIOUS
  <2> QED BY <2>2, <2>3
<1>2. PICK t \in T : \A j \in T : t <= j
  BY <1>1, LeastNumber
<1>3. PICK m \in S : t = n - m
  OBVIOUS
<1>4. ASSUME NEW j \in S PROVE j <= m
  <2>1. n - j \in T
    OBVIOUS
  <2>2. n - m <= n - j
    BY <1>2, <1>3, <2>1
  <2> QED BY <2>2
<1> QED BY <1>4

LEMMA RecentIs ==
  ASSUME ThrottleTypeOK
  PROVE  \E k \in 1..(Len(stamps) + 1) :
           /\ \A j \in 1..(k - 1) : stamps[j] + WINDOW < clock
           /\ Recent(stamps) = SubSeq(stamps, k, Len(stamps))
<1> DEFINE popped == {k \in 1..(Len(stamps) + 1) : \A j \in 1..(k - 1) : stamps[j] + WINDOW < clock}
           first  == CHOOSE k \in popped : \A j \in popped : j <= k
<1>1. Len(stamps) \in Nat
  BY DEF ThrottleTypeOK
<1>2. 1 \in popped
  BY <1>1
<1>3. first \in popped
  <2>1. popped \subseteq 1..(Len(stamps) + 1)
    OBVIOUS
  <2> HIDE DEF popped
  <2>2. \E k \in popped : \A j \in popped : j <= k
    <3>1. Len(stamps) + 1 \in Nat /\ popped # {}
      BY <1>1, <1>2
    <3> QED BY <2>1, <3>1, GreatestNumber
  <2> QED BY <2>2
<1>4. Recent(stamps) = SubSeq(stamps, first, Len(stamps))
  BY DEF Recent
<1> QED BY <1>3, <1>4

\* The counters, the stamps and the histories keep their types at every step.
LEMMA ThrottleTypeStep ==
  ASSUME ThrottleTypeOK, [ThrottleNext]_throttleVars
  PROVE  ThrottleTypeOK'
<1>1. CASE UNCHANGED throttleVars
  BY <1>1 DEF ThrottleTypeOK, throttleVars, loginVars, entryVars, socketVars
<1>2. ASSUME NEW a \in Attempts,
             post(a) \/ form_valid(a) \/ form_invalid(a) \/ HitIncr(a) \/ HitSet(a) \/ Block(a)
      PROVE  ThrottleTypeOK'
  <2>1. OneMore(counter) \in Cell /\ NoCount \in Cell /\ [count |-> 1, until |-> clock + WINDOW] \in Cell
    BY ThrottleConstants DEF OneMore, NoCount, Cell, ThrottleTypeOK
  <2>2. counter' \in Cell
    BY <1>2, <2>1 DEF ThrottleTypeOK, post, form_valid, form_invalid, HitIncr, HitSet, Block
  <2>3. attempt' \in [Attempts -> {"idle", "checked", "failed", "first", "over"}]
    BY <1>2 DEF ThrottleTypeOK, post, form_valid, form_invalid, HitIncr, HitSet, Block
  <2>4. failures' \in Seq(Nat)
    <3>1. failures' = failures \/ failures' = Append(failures, clock)
      BY <1>2 DEF post, form_valid, form_invalid, HitIncr, HitSet, Block
    <3>2. failures \in Seq(Nat) /\ clock \in Nat
      BY DEF ThrottleTypeOK
    <3> QED BY <3>1, <3>2, AppendProperties
  <2>7. blocked' \in Nat /\ cleared' \in BOOLEAN
    <3>1. blocked' = blocked \/ blocked' = clock + WINDOW
      BY <1>2 DEF post, form_valid, form_invalid, HitIncr, HitSet, Block
    <3>2. UNCHANGED cleared \/ cleared' = TRUE
      BY <1>2, Zenon DEF post, form_valid, form_invalid, HitIncr, HitSet, Block
    <3>3. cleared' \in BOOLEAN
      BY <3>2, Zenon DEF ThrottleTypeOK
    <3> QED BY <3>1, <3>3, ThrottleConstants DEF ThrottleTypeOK
  <2>5. UNCHANGED <<clock, entryVars, socketVars>>
    BY <1>2 DEF post, form_valid, form_invalid, HitIncr, HitSet, Block
  <2> QED BY <2>2, <2>3, <2>4, <2>5, <2>7 DEF ThrottleTypeOK, entryVars, socketVars
<1>3. ASSUME NEW a \in Attempts,
             \/ \E n \in Callers : lobby_view(a, n)
             \/ JoinUnasked(a) \/ JoinWrong(a) \/ JoinRight(a)
             \/ register_failed_password(a) \/ register_failed_password_ip(a)
      PROVE  ThrottleTypeOK'
  <2> DEFINE n == entry[a].who
  <2>0. /\ n \in Callers /\ byName[n] \in Cell /\ byIp \in Cell /\ clock \in Nat
        /\ entry \in [Attempts -> EntryType]
        /\ byName \in [Callers -> Cell]
    BY DEF ThrottleTypeOK, EntryType
  <2>1. /\ OneMore(byName[n]) \in Cell /\ OneMore(byIp) \in Cell /\ NoCount \in Cell
        /\ [count |-> 1, until |-> clock + WINDOW] \in Cell
        /\ [count |-> 1, until |-> clock + WINDOW_IP] \in Cell
    BY <2>0, ThrottleConstants DEF OneMore, NoCount, Cell
  <2>2. byName' \in [Callers -> Cell]
    <3>1. \E c \in Cell : byName' = byName \/ byName' = [byName EXCEPT ![n] = c]
      BY <1>3, <2>1 DEF lobby_view, JoinUnasked, JoinWrong, JoinRight, register_failed_password,
            register_failed_password_ip
    <3> QED BY <2>0, <3>1
  <2>3. byIp' \in Cell
    BY <1>3, <2>0, <2>1 DEF lobby_view, JoinUnasked, JoinWrong, JoinRight,
          register_failed_password, register_failed_password_ip
  <2>4. entry' \in [Attempts -> EntryType]
    <3>1. \E s \in {"idle", "asked", "wrong", "first", "counted", "firstIp"}, w \in Callers :
            entry' = [entry EXCEPT ![a] = [step |-> s, who |-> w]]
      BY <1>3, <2>0 DEF lobby_view, JoinUnasked, JoinWrong, JoinRight,
          register_failed_password, register_failed_password_ip, Step
    <3> QED BY <2>0, <3>1 DEF EntryType
  <2>5. guesses' \in Seq([at : Nat, who : Callers])
    <3>1. guesses' = guesses \/ guesses' = Append(guesses, [at |-> clock, who |-> n])
      BY <1>3 DEF lobby_view, JoinUnasked, JoinWrong, JoinRight,
          register_failed_password, register_failed_password_ip
    <3>2. guesses \in Seq([at : Nat, who : Callers])
      BY DEF ThrottleTypeOK
    <3>3. [at |-> clock, who |-> n] \in [at : Nat, who : Callers]
      BY <2>0
    <3>4. Append(guesses, [at |-> clock, who |-> n]) \in Seq([at : Nat, who : Callers])
      BY <3>2, <3>3, AppendProperties
    <3> QED BY <3>1, <3>2, <3>4
  <2>7. entered' \subseteq Callers
    <3>1. entered' = entered \/ entered' = entered \cup {n}
      BY <1>3 DEF lobby_view, JoinUnasked, JoinWrong, JoinRight,
          register_failed_password, register_failed_password_ip
    <3> QED BY <2>0, <3>1 DEF ThrottleTypeOK
  <2>6. UNCHANGED <<clock, loginVars, socketVars>>
    BY <1>3 DEF lobby_view, JoinUnasked, JoinWrong, JoinRight,
          register_failed_password, register_failed_password_ip
  <2> QED BY <2>2, <2>3, <2>4, <2>5, <2>6, <2>7 DEF ThrottleTypeOK, loginVars, socketVars, EntryType
<1>4. CASE allow
  <2> DEFINE R == Recent(stamps)
  <2>1. R \in Seq(Nat)
    <3>1. PICK k \in 1..(Len(stamps) + 1) : R = SubSeq(stamps, k, Len(stamps))
      BY RecentIs
    <3>2. stamps \in Seq(Nat) /\ k \in Nat /\ k >= 1 /\ Len(stamps) \in Nat
      BY DEF ThrottleTypeOK
    <3>3. \A i \in k..Len(stamps) : stamps[i] \in Nat
      BY <3>2
    <3> HIDE DEF R
    <3> QED BY <3>1, <3>2, <3>3
  <2>2. stamps' \in {R, Append(R, clock)} /\ passed' \in {passed, Append(passed, clock)}
    BY <1>4 DEF allow
  <2> HIDE DEF R
  <2>3. stamps' \in Seq(Nat) /\ passed' \in Seq(Nat)
    <3>1. passed \in Seq(Nat) /\ clock \in Nat
      BY DEF ThrottleTypeOK
    <3>2. Append(R, clock) \in Seq(Nat) /\ Append(passed, clock) \in Seq(Nat)
      BY <2>1, <3>1, AppendProperties
    <3> QED BY <2>1, <2>2, <3>1, <3>2
  <2> QED BY <1>4, <2>3 DEF allow, ThrottleTypeOK, loginVars, entryVars
<1>5. CASE Tick
  BY <1>5 DEF Tick, ThrottleTypeOK, loginVars, entryVars, socketVars
<1> QED BY <1>1, <1>2, <1>3, <1>4, <1>5 DEF ThrottleNext

LEMMA ThrottleTypeInit == ThrottleInit => ThrottleTypeOK
<1>1. NoCount \in Cell
  BY DEF NoCount, Cell
<1>2. (CHOOSE n \in Callers : TRUE) \in Callers
  BY ThrottleAssumption
<1>3. ASSUME ThrottleInit PROVE ThrottleTypeOK
  <2>1. entry \in [Attempts -> EntryType]
    BY <1>2, <1>3 DEF ThrottleInit, EntryType
  <2>2. counter \in Cell /\ byIp \in Cell /\ byName \in [Callers -> Cell]
    BY <1>1, <1>3 DEF ThrottleInit
  <2>3. /\ clock \in Nat /\ blocked \in Nat
        /\ attempt \in [Attempts -> {"idle", "checked", "failed", "first", "over"}]
        /\ entered \subseteq Callers /\ cleared \in BOOLEAN
    BY <1>3 DEF ThrottleInit
  <2>4. /\ stamps \in Seq(Nat) /\ passed \in Seq(Nat) /\ failures \in Seq(Nat)
        /\ guesses \in Seq([at : Nat, who : Callers])
    BY <1>3 DEF ThrottleInit
  <2> QED BY <2>1, <2>2, <2>3, <2>4 DEF ThrottleTypeOK, EntryType
<1> QED BY <1>3


-----------------------------------------------------------------------------
(* The failed logins.                                                      *)

LEMMA CellFacts ==
  ASSUME ThrottleTypeOK
  PROVE  /\ counter.count \in Nat /\ counter.until \in Nat /\ clock \in Nat /\ blocked \in Nat
         /\ byIp.count \in Nat /\ byIp.until \in Nat
         /\ \A n \in Callers : byName[n].count \in Nat /\ byName[n].until \in Nat
<1>1. counter \in Cell /\ byIp \in Cell /\ byName \in [Callers -> Cell] /\ clock \in Nat /\ blocked \in Nat
  BY DEF ThrottleTypeOK
<1> QED BY <1>1 DEF Cell

LEMMA FailureCounts ==
  ASSUME ThrottleTypeOK, NEW from \in Nat, from <= clock
  PROVE  /\ Cardinality(FailuresIn(from)) \in Nat
         /\ failures' = Append(failures, clock) =>
              Cardinality(FailuresIn(from)') =
                Cardinality(FailuresIn(from)) + (IF clock < from + WINDOW THEN 1 ELSE 0)
         /\ failures' = failures => FailuresIn(from)' = FailuresIn(from)
<1>1. failures \in Seq(Nat) /\ clock \in Nat /\ WINDOW \in Nat
  BY ThrottleConstants DEF ThrottleTypeOK
<1>2. FailuresIn(from) \in SUBSET (1..Len(failures))
  BY <1>1 DEF FailuresIn
<1>3. ASSUME failures' = Append(failures, clock)
      PROVE  Cardinality(FailuresIn(from)') =
                Cardinality(FailuresIn(from)) + (IF clock < from + WINDOW THEN 1 ELSE 0)
  <2>0. Len(failures) \in Nat
    BY <1>1
  <2>1. FailuresIn(from)' = IF clock < from + WINDOW THEN FailuresIn(from) \cup {Len(failures) + 1}
                            ELSE FailuresIn(from)
    BY <1>1, <1>3 DEF FailuresIn
  <2> DEFINE X == FailuresIn(from)
             Y == FailuresIn(from)'
             now == clock < from + WINDOW
  <2>2. now \in BOOLEAN /\ X \in SUBSET (1..Len(failures))
        /\ Y = IF now THEN X \cup {Len(failures) + 1} ELSE X
    BY <1>2, <2>1
  <2> HIDE DEF X, Y, now
  <2>3. /\ Cardinality(X) \in Nat
        /\ Cardinality(Y) = IF now THEN Cardinality(X) + 1 ELSE Cardinality(X)
    BY <2>0, <2>2, OneAppended
  <2>4. Cardinality(Y) = Cardinality(X) + (IF now THEN 1 ELSE 0)
    BY <2>3
  <2> QED BY <2>4 DEF X, Y, now
<1>4. Cardinality(FailuresIn(from)) \in Nat
  <2>1. Len(failures) \in Nat
    BY <1>1
  <2>2. IsFiniteSet(1..Len(failures))
    BY <2>1, FS_Interval
  <2>3. IsFiniteSet(FailuresIn(from))
    BY <1>2, <2>2, FS_Subset
  <2> QED BY <2>3, FS_CardinalityType
<1>5. failures' = failures => FailuresIn(from)' = FailuresIn(from)
  BY DEF FailuresIn
<1> QED BY <1>3, <1>4, <1>5

LEMMA NoFailureYet ==
  ASSUME ThrottleTypeOK, LoginInductive
  PROVE  Cardinality(FailuresIn(clock + 1)) = 0
<1>1. failures \in Seq(Nat) /\ clock \in Nat
  BY DEF ThrottleTypeOK
<1>2. \A k \in DOMAIN failures : failures[k] <= clock /\ failures[k] \in Nat
  BY <1>1 DEF LoginInductive
<1>3. FailuresIn(clock + 1) = {}
  BY <1>1, <1>2 DEF FailuresIn
<1> QED BY <1>3, FS_EmptySet

\* Attempts that raise the counter, some of which replace it, and others.
LEMMA PartsCounted ==
  ASSUME NEW L, L \subseteq Attempts, NEW F, F \subseteq Attempts, NEW X, X \subseteq Attempts,
         \A a \in X : a \notin L
  PROVE  /\ Cardinality(L) \in Nat /\ Cardinality(F) \in Nat /\ Cardinality(X) \in Nat
         /\ Cardinality(F) <= Cardinality(Attempts)
         /\ Cardinality(L) + Cardinality(X) <= Cardinality(Attempts)
<1>1. L \cap X = {} /\ L \cup X \subseteq Attempts
  OBVIOUS
<1>2. /\ IsFiniteSet(L) /\ Cardinality(L) \in Nat
      /\ IsFiniteSet(X) /\ Cardinality(X) \in Nat
      /\ Cardinality(F) \in Nat /\ Cardinality(F) <= Cardinality(Attempts)
      /\ Cardinality(L \cup X) <= Cardinality(Attempts)
  BY <1>1, AttemptsFinite
<1>3. Cardinality(L \cup X) = Cardinality(L) + Cardinality(X)
  <2>1. Cardinality(L \cup X) = Cardinality(L) + Cardinality(X) - Cardinality(L \cap X)
    BY <1>2, FS_Union
  <2>2. Cardinality(L \cap X) = 0
    BY <1>1, FS_EmptySet
  <2> QED BY <1>2, <2>1, <2>2
<1> QED BY <1>2, <1>3

\* The windows hold if the budgets do: only a window that lasts still is added to.
LEMMA LoginKeeps ==
  ASSUME ThrottleTypeOK, ThrottleTypeOK', LoginInductive, clock' = clock,
         blocked' <= clock + WINDOW, counter'.until <= clock + WINDOW,
         clock < counter'.until => counter'.count >= 1,
         failures' = failures \/ failures' = Append(failures, clock),
         cleared' = FALSE => cleared = FALSE,
         ~cleared' => \A from \in Current(WINDOW) : \E X \in SUBSET Attempts : FailureBudget(from, X)'
  PROVE  LoginInductive'
<1>1. failures \in Seq(Nat) /\ clock \in Nat
  BY DEF ThrottleTypeOK
<1>2. \A k \in DOMAIN failures' : failures'[k] <= clock
  <2>1. \A k \in DOMAIN failures : failures[k] <= clock
    BY DEF LoginInductive
  <2> QED BY <1>1, <2>1
<1>3. Current(WINDOW)' = Current(WINDOW)
  BY DEF Current
<1>4. ASSUME ~cleared', NEW from \in 0..clock
      PROVE  Cardinality(FailuresIn(from)') < Counters * LOGIN_MAX + Cardinality(Attempts)
  <2>0. ~cleared /\ from \in Nat /\ from <= clock
    BY <1>4, <1>1 DEF ThrottleTypeOK
  <2>1. Cardinality(FailuresIn(from)) < Counters * LOGIN_MAX + Cardinality(Attempts)
    BY <1>4, <2>0 DEF LoginInductive
  <2>2. CASE ~(clock < from + WINDOW)
    BY <2>0, <2>1, <2>2, FailureCounts
  <2>3. CASE clock < from + WINDOW
    <3>1. from \in Current(WINDOW)
      BY <2>3, <1>4 DEF Current
    <3>2. PICK X \in SUBSET Attempts : FailureBudget(from, X)'
      BY <3>1, <1>4
    <3>3. /\ Cardinality(X) \in Nat
          /\ Cardinality(LoginsAt({"failed", "first"}))' \in Nat
          /\ Cardinality(LoginsAt({"first"}))' \in Nat
          /\ Cardinality(LoginsAt({"failed", "first"}))' + Cardinality(X) <= Cardinality(Attempts)
      <4> DEFINE L == LoginsAt({"failed", "first"})'
                 F == LoginsAt({"first"})'
      <4>1. L \subseteq Attempts /\ F \subseteq Attempts /\ X \subseteq Attempts
        BY DEF LoginsAt
      <4>2. \A a \in X : a \notin L
        BY <3>2 DEF LoginsAt, FailureBudget
      <4> HIDE DEF L, F
      <4>3. /\ Cardinality(L) \in Nat /\ Cardinality(F) \in Nat /\ Cardinality(X) \in Nat
            /\ Cardinality(L) + Cardinality(X) <= Cardinality(Attempts)
        BY <4>1, <4>2, PartsCounted
      <4> QED BY <4>3 DEF L, F
    <3>4. /\ Cardinality(FailuresIn(from)') \in Nat
      <4>1. Cardinality(FailuresIn(from)) \in Nat
        BY <2>0, FailureCounts
      <4> QED BY <2>0, <4>1, FailureCounts
    <3> DEFINE n == Cardinality(FailuresIn(from)')
               p == Cardinality(LoginsAt({"failed", "first"}))' + Cardinality(X)
               r == Cardinality(LoginsAt({"first"}))'
               c == Capped(counter'.count)
               there == There(counter.until)'
               fresh == from + WINDOW <= counter'.until
    <3>5. Budget(n, there, fresh, c, p, r, LOGIN_MAX)
      BY <3>2 DEF FailureBudget
    <3>6. c \in Nat /\ c <= LOGIN_MAX
      <4>1. counter' \in Cell
        BY DEF ThrottleTypeOK
      <4> QED BY <4>1, ThrottleConstants DEF Capped, Cell
    <3>7. there \in BOOLEAN /\ fresh \in BOOLEAN /\ n \in Nat /\ p \in Nat /\ r \in Nat
      BY <3>3, <3>4 DEF There
    <3>8. p <= Cardinality(Attempts) /\ Cardinality(Attempts) \in Nat
      BY <3>3, AttemptsFinite
    <3>9. c + p <= LOGIN_MAX + Cardinality(Attempts)
      BY <3>6, <3>7, <3>8, ThrottleConstants
    <3> HIDE DEF n, p, r, c, there, fresh
    <3>10. n < Counters * LOGIN_MAX + Cardinality(Attempts)
      <4>1. /\ n \in Int /\ c \in Int /\ p \in Int /\ r \in Nat
            /\ LOGIN_MAX \in Nat \ {0} /\ Cardinality(Attempts) \in Nat
        BY <3>6, <3>7, <3>8, ThrottleConstants
      <4> QED BY <3>5, <3>7, <3>8, <3>9, <4>1, BudgetBounds
    <3> QED BY <3>10 DEF n
  <2> QED BY <2>2, <2>3
<1> QED BY <1>2, <1>3, <1>4 DEF LoginInductive, There


LEMMA LoginInit == ThrottleInit => LoginInductive
<1> SUFFICES ASSUME ThrottleInit PROVE LoginInductive
  OBVIOUS
<1>0. ThrottleTypeOK
  BY ThrottleTypeInit
<1>1. /\ clock = 1 /\ counter.count = 0 /\ counter.until = 0 /\ blocked = 0 /\ failures = <<>>
      /\ \A a \in Attempts : attempt[a] = "idle"
  BY DEF ThrottleInit, NoCount
<1>2. \A from : FailuresIn(from) = {}
  BY <1>1 DEF FailuresIn
<1>3. \A from : Cardinality(FailuresIn(from)) = 0
  BY <1>2, FS_EmptySet
<1>4. ASSUME NEW from PROVE FailureBudget(from, {})
  <2>1. /\ LoginsAt({"failed", "first"}) = {} /\ LoginsAt({"first"}) = {}
    BY <1>1 DEF LoginsAt
  <2>2. Cardinality(LoginsAt({"failed", "first"})) = 0 /\ Cardinality({}) = 0
    BY <2>1, FS_EmptySet
  <2>3. ~There(counter.until)
    BY <1>1 DEF There
  <2> QED BY <1>3, <2>2, <2>3, ThrottleConstants DEF FailureBudget, Budget
<1>5. \A from \in Current(WINDOW) : \E X \in SUBSET Attempts : FailureBudget(from, X)
  BY <1>4
<1>6. 0 < Counters * LOGIN_MAX + Cardinality(Attempts)
  <2> DEFINE A == Cardinality(Attempts)
  <2>1. A \in Nat \ {0}
    BY ThrottleConstants
  <2>2. Counters = A + 1
    BY DEF Counters
  <2> HIDE DEF A
  <2>3. (A + 1) * LOGIN_MAX \in Nat
    BY <2>1, ThrottleConstants
  <2>4. 0 < (A + 1) * LOGIN_MAX + A
    BY <2>1, <2>3
  <2> QED BY <2>2, <2>4 DEF A
<1> QED BY <1>1, <1>3, <1>5, <1>6, ThrottleConstants DEF LoginInductive, There

LEMMA LoginStep ==
  ASSUME ThrottleTypeOK, ThrottleTypeOK', LoginInductive, NEW a \in Attempts,
         post(a) \/ form_valid(a) \/ form_invalid(a) \/ HitIncr(a) \/ HitSet(a) \/ Block(a)
  PROVE  LoginInductive'
<1>0. /\ counter.count \in Nat /\ counter.until \in Nat /\ clock \in Nat /\ blocked \in Nat
      /\ WINDOW \in Nat \ {0} /\ LOGIN_MAX \in Nat \ {0} /\ Cardinality(Attempts) \in Nat
      /\ attempt \in [Attempts -> {"idle", "checked", "failed", "first", "over"}]
  BY CellFacts, ThrottleConstants DEF ThrottleTypeOK
<1>1. /\ blocked <= clock + WINDOW /\ counter.until <= clock + WINDOW
      /\ clock < counter.until => counter.count >= 1
  BY DEF LoginInductive, There
<1>2. clock' = clock
  BY DEF post, form_valid, form_invalid, HitIncr, HitSet, Block
<1>3. /\ blocked' <= clock + WINDOW /\ counter'.until <= clock + WINDOW
      /\ clock < counter'.until => counter'.count >= 1
  BY <1>0, <1>1 DEF post, form_valid, form_invalid, HitIncr, HitSet, Block, OneMore, NoCount
<1>4. failures' = failures \/ failures' = Append(failures, clock)
  BY DEF post, form_valid, form_invalid, HitIncr, HitSet, Block
<1>5. /\ cleared' = FALSE => cleared = FALSE
      /\ ~cleared' => ~cleared /\ ~form_valid(a)
  BY Zenon DEF post, form_valid, form_invalid, HitIncr, HitSet, Block, ThrottleTypeOK
<1>6. ASSUME ~cleared', NEW from \in Current(WINDOW)
      PROVE  \E X \in SUBSET Attempts : FailureBudget(from, X)'
  <2>1. /\ ~cleared /\ from \in Nat /\ from <= clock /\ clock < from + WINDOW
        /\ post(a) \/ form_invalid(a) \/ HitIncr(a) \/ HitSet(a) \/ Block(a)
    BY <1>0, <1>5, <1>6 DEF Current
  <2>2. PICK X \in SUBSET Attempts : FailureBudget(from, X)
    BY <2>1, <1>6 DEF LoginInductive
  <2> DEFINE L == Cardinality(LoginsAt({"failed", "first"}))
             F == Cardinality(LoginsAt({"first"}))
             N == Cardinality(FailuresIn(from))
             C == Capped(counter.count)
             T == There(counter.until)
             R == from + WINDOW <= counter.until
             P == L + Cardinality(X)
  <2>3. /\ L \in Nat /\ F \in Nat /\ Cardinality(X) \in Nat /\ F <= Cardinality(Attempts)
    <3>1. /\ LoginsAt({"failed", "first"}) \subseteq Attempts /\ LoginsAt({"first"}) \subseteq Attempts
      BY DEF LoginsAt
    <3> QED BY <3>1, AttemptsFinite
  <2>4. N \in Nat /\ C \in Nat /\ C <= LOGIN_MAX
    BY <2>1, <1>0, FailureCounts DEF Capped
  <2>5. /\ \A b \in X : attempt[b] = "over" \/ (attempt[b] = "idle" /\ from + WINDOW <= blocked)
        /\ Budget(N, T, R, C, L + Cardinality(X), F,
                  LOGIN_MAX)
    BY <2>2 DEF FailureBudget
  <2>6. T \in BOOLEAN /\ R \in BOOLEAN
    BY DEF There
  <2>12. /\ N \in Int /\ C \in Int /\ P \in Int /\ F \in Int /\ LOGIN_MAX \in Int /\ LOGIN_MAX \in Nat
         /\ F <= Cardinality(Attempts) /\ C <= LOGIN_MAX
    BY <1>0, <2>3, <2>4
  <2>13. Budget(N, T, R, C, P, F, LOGIN_MAX)
    BY <2>5
  <2>14. /\ L' = L + (IF attempt'[a] \in {"failed", "first"} THEN 1 ELSE 0)
                 - (IF attempt[a] \in {"failed", "first"} THEN 1 ELSE 0)
         /\ F' = F + (IF attempt'[a] \in {"first"} THEN 1 ELSE 0) - (IF attempt[a] \in {"first"} THEN 1 ELSE 0)
    <3>1. \A b \in Attempts \ {a} : attempt'[b] = attempt[b]
      <4>1. \E st : attempt' = [attempt EXCEPT ![a] = st]
        BY <2>1 DEF post, form_invalid, HitIncr, HitSet, Block
      <4> QED BY <1>0, <4>1
    <3>2. L' = L + (IF attempt'[a] \in {"failed", "first"} THEN 1 ELSE 0)
                 - (IF attempt[a] \in {"failed", "first"} THEN 1 ELSE 0)
      BY <3>1, LoginMoves
    <3>3. F' = F + (IF attempt'[a] \in {"first"} THEN 1 ELSE 0) - (IF attempt[a] \in {"first"} THEN 1 ELSE 0)
      BY <3>1, LoginMoves
    <3> QED BY <3>2, <3>3
  <2>7. CASE post(a)
    <3>1. /\ attempt[a] = "idle" /\ ~(clock < blocked)
          /\ attempt' = [attempt EXCEPT ![a] = "checked"] /\ UNCHANGED <<clock, counter, blocked, failures>>
      BY <2>7 DEF post, There
    <3>2. a \notin X
      BY <2>1, <2>5, <3>1, <1>0
    <3>3. \A b \in X : attempt'[b] = "over" \/ (attempt'[b] = "idle" /\ from + WINDOW <= blocked')
      BY <2>5, <3>1, <3>2, <1>0
    <3>4. L' = L /\ F' = F
      BY <3>1, <2>3, <2>14, <1>0
    <3>5. N' = N /\ C' = C
      BY <3>1, <2>1, FailureCounts DEF Capped
    <3>6. FailureBudget(from, X)'
      BY <2>5, <3>1, <3>3, <3>4, <3>5 DEF FailureBudget, There
    <3> QED BY <3>6
  <2>8. CASE form_invalid(a)
    <3>1. /\ attempt[a] = "checked" /\ failures' = Append(failures, clock)
          /\ attempt' = [attempt EXCEPT ![a] = "failed"] /\ UNCHANGED <<clock, counter, blocked>>
      BY <2>8 DEF form_invalid
    <3>2. a \notin X
      BY <2>5, <3>1
    <3>3. \A b \in X : attempt'[b] = "over" \/ (attempt'[b] = "idle" /\ from + WINDOW <= blocked')
      BY <2>5, <3>1, <3>2, <1>0
    <3>4. L' = L + 1 /\ F' = F
      BY <3>1, <2>3, <2>14, <1>0
    <3>5. N' = N + 1 /\ C' = C
      BY <3>1, <2>1, FailureCounts DEF Capped
    <3>6. Budget(N + 1, T, R, C, P + 1,
                 F, LOGIN_MAX)
      <4> HIDE DEF L, F, N, C, T, R, P
      <4> QED BY <2>6, <2>12, <2>13, BudgetGrows
    <3>7. (L + Cardinality(X)) + 1 = (L + 1) + Cardinality(X)
      BY <2>3
    <3>8. FailureBudget(from, X)'
      BY <3>1, <3>3, <3>4, <3>5, <3>6, <3>7 DEF FailureBudget, There
    <3> QED BY <3>8
  <2>9. CASE HitIncr(a)
    <3>1. /\ attempt[a] = "failed" /\ UNCHANGED <<clock, blocked, failures>> /\ N' = N /\ a \notin X
      BY <2>9, <2>1, <2>5, FailureCounts DEF HitIncr
    <3>2. CASE T /\ counter.count + 1 <= LOGIN_MAX
      <4>1. /\ counter' = OneMore(counter) /\ attempt' = [attempt EXCEPT ![a] = "idle"]
        BY <3>2, <2>9 DEF HitIncr
      <4>2. L' = L - 1 /\ F' = F
        BY <3>1, <4>1, <2>3, <2>14, <1>0
      <4>3. C' = C + 1 /\ counter'.until = counter.until
        BY <3>2, <4>1, <1>0 DEF Capped, OneMore
      <4>4. Budget(N, T, R, C + 1,
                   P - 1, F, LOGIN_MAX)
        <5> HIDE DEF L, F, N, C, T, R, P
        <5> QED BY <3>2, <2>6, <2>12, <2>13, BudgetGrows
      <4>5. (L + Cardinality(X)) - 1 = (L - 1) + Cardinality(X)
        BY <2>3
      <4>6. \A b \in X : attempt'[b] = "over" \/ (attempt'[b] = "idle" /\ from + WINDOW <= blocked')
        BY <2>5, <3>1, <4>1, <1>0
      <4>7. FailureBudget(from, X)'
        BY <3>1, <4>2, <4>3, <4>4, <4>5, <4>6 DEF FailureBudget, There
      <4> QED BY <4>7
    <3>3. CASE T /\ ~(counter.count + 1 <= LOGIN_MAX)
      <4>1. /\ counter' = OneMore(counter) /\ attempt' = [attempt EXCEPT ![a] = "over"]
        BY <3>3, <2>9 DEF HitIncr
      <4>2. L' = L - 1 /\ F' = F
        BY <3>1, <4>1, <2>3, <2>14, <1>0
      <4>3. C' = C /\ counter'.until = counter.until
        BY <3>3, <4>1, <1>0 DEF Capped, OneMore
      <4>4. Cardinality(X \cup {a}) = Cardinality(X) + 1 /\ X \cup {a} \in SUBSET Attempts
        BY <3>1, AttemptsFinite, FS_AddElement
      <4>5. L + Cardinality(X) = (L - 1) + (Cardinality(X) + 1)
        BY <2>3
      <4>6. \A b \in X \cup {a} :
              attempt'[b] = "over" \/ (attempt'[b] = "idle" /\ from + WINDOW <= blocked')
        BY <2>5, <3>1, <4>1, <1>0
      <4>7. FailureBudget(from, X \cup {a})'
        BY <2>5, <3>1, <4>2, <4>3, <4>4, <4>5, <4>6 DEF FailureBudget, There
      <4> QED BY <4>4, <4>7
    <3>4. CASE ~T
      <4>1. /\ counter' = counter /\ attempt' = [attempt EXCEPT ![a] = "first"]
        BY <3>4, <2>9 DEF HitIncr
      <4>2. L' = L /\ F' = F + 1
        BY <3>1, <4>1, <2>3, <2>14, <1>0
      <4>3. C' = C
        BY <4>1 DEF Capped
      <4>4. Budget(N, T, R, C, P, F + 1,
                   LOGIN_MAX)
        <5> HIDE DEF L, F, N, C, T, R, P
        <5>1. \A x \in Int : Budget(N, T, R, C, P, x, LOGIN_MAX)
          <6>1. T = FALSE
            BY <2>6, <3>4
          <6> QED BY <6>1, <2>6, <2>12, <2>13, BudgetAny
        <5>2. F + 1 \in Int
          BY <2>12
        <5> QED BY <5>1, <5>2
      <4>5. \A b \in X : attempt'[b] = "over" \/ (attempt'[b] = "idle" /\ from + WINDOW <= blocked')
        BY <2>5, <3>1, <4>1, <1>0
      <4>6. FailureBudget(from, X)'
        BY <3>1, <4>1, <4>2, <4>3, <4>4, <4>5 DEF FailureBudget, There
      <4> QED BY <4>6
    <3> QED BY <3>2, <3>3, <3>4
  <2>10. CASE HitSet(a)
    <3>1. /\ attempt[a] = "first" /\ attempt' = [attempt EXCEPT ![a] = "idle"]
          /\ counter' = [count |-> 1, until |-> clock + WINDOW] /\ UNCHANGED <<clock, blocked, failures>>
      BY <2>10 DEF HitSet
    <3>2. N' = N /\ a \notin X
      BY <3>1, <2>1, <2>5, FailureCounts
    <3>3. L' = L - 1 /\ F' = F - 1
      BY <3>1, <2>3, <2>14, <1>0
    <3>4. C' = 1 /\ clock < counter'.until /\ from + WINDOW <= counter'.until
      BY <3>1, <1>0, <2>1 DEF Capped
    <3>5. Budget(N, TRUE, TRUE, 1, P - 1, F - 1, LOGIN_MAX)
      <4> HIDE DEF L, F, N, C, T, R, P
      <4> QED BY <2>6, <2>12, <2>13, BudgetSet
    <3>6. (L + Cardinality(X)) - 1 = (L - 1) + Cardinality(X)
      BY <2>3
    <3>7. \A b \in X : attempt'[b] = "over" \/ (attempt'[b] = "idle" /\ from + WINDOW <= blocked')
      BY <2>5, <3>1, <3>2, <1>0
    <3>8. There(counter.until)' = TRUE /\ (from + WINDOW <= counter'.until) = TRUE
      BY <3>1, <3>4 DEF There
    <3>9. FailureBudget(from, X)'
      BY <3>2, <3>3, <3>4, <3>5, <3>6, <3>7, <3>8 DEF FailureBudget
    <3> QED BY <3>9
  <2>11. CASE Block(a)
    <3>1. /\ attempt[a] = "over" /\ attempt' = [attempt EXCEPT ![a] = "idle"]
          /\ blocked' = clock + WINDOW /\ UNCHANGED <<clock, counter, failures>>
      BY <2>11 DEF Block
    <3>2. N' = N /\ C' = C
      BY <3>1, <2>1, FailureCounts DEF Capped
    <3>3. L' = L /\ F' = F
      BY <3>1, <2>3, <2>14, <1>0
    <3>4. \A b \in X : attempt'[b] = "over" \/ (attempt'[b] = "idle" /\ from + WINDOW <= blocked')
      BY <2>1, <2>5, <3>1, <1>0, <1>1
    <3>5. FailureBudget(from, X)'
      BY <2>5, <3>1, <3>2, <3>3, <3>4 DEF FailureBudget, There
    <3> QED BY <3>5
  <2> QED BY <2>1, <2>7, <2>8, <2>9, <2>10, <2>11
<1> QED BY <1>2, <1>3, <1>4, <1>5, <1>6, LoginKeeps


LEMMA LoginTick ==
  ASSUME ThrottleTypeOK, ThrottleTypeOK', LoginInductive, Tick
  PROVE  LoginInductive'
<1>0. /\ counter.count \in Nat /\ counter.until \in Nat /\ clock \in Nat /\ blocked \in Nat
      /\ WINDOW \in Nat \ {0} /\ LOGIN_MAX \in Nat \ {0} /\ Cardinality(Attempts) \in Nat \ {0}
      /\ failures \in Seq(Nat)
  BY CellFacts, ThrottleConstants DEF ThrottleTypeOK
<1>1. clock' = clock + 1 /\ UNCHANGED <<attempt, counter, blocked, failures, cleared>>
  BY DEF Tick, loginVars
<1>2. /\ blocked <= clock + WINDOW /\ counter.until <= clock + WINDOW
      /\ clock < counter.until => counter.count >= 1
      /\ \A k \in DOMAIN failures : failures[k] <= clock /\ failures[k] \in Nat
  BY <1>0 DEF LoginInductive, There
<1>3. \A from : FailuresIn(from)' = FailuresIn(from)
  BY <1>1 DEF FailuresIn
<1>4. \A S : LoginsAt(S)' = LoginsAt(S)
  BY <1>1 DEF LoginsAt
<1>5. ASSUME ~cleared, NEW from \in Current(WINDOW)'
      PROVE  \E X \in SUBSET Attempts : FailureBudget(from, X)'
  <2>1. from \in Nat /\ from <= clock + 1 /\ clock + 1 < from + WINDOW
    BY <1>0, <1>1, <1>5 DEF Current
  <2> DEFINE L == Cardinality(LoginsAt({"failed", "first"}))
             F == Cardinality(LoginsAt({"first"}))
             N == Cardinality(FailuresIn(from))
             C == Capped(counter.count)
             R == from + WINDOW <= counter.until
             T == clock < counter.until
             U == clock + 1 < counter.until
  <2>2. /\ L \in Nat /\ F \in Nat /\ C \in Nat /\ C <= LOGIN_MAX
        /\ R \in BOOLEAN /\ T \in BOOLEAN /\ U \in BOOLEAN
    <3>1. LoginsAt({"failed", "first"}) \subseteq Attempts /\ LoginsAt({"first"}) \subseteq Attempts
      BY DEF LoginsAt
    <3>2. L \in Nat /\ F \in Nat
      BY <3>1, AttemptsFinite
    <3> QED BY <1>0, <3>2 DEF Capped
  <2>3. (U => T) /\ (R => U)
    BY <1>0, <2>1
  <2>4. CASE from = clock + 1
    <3>1. N = 0
      BY <2>4, NoFailureYet
    <3>2. ~R /\ (T => C >= 1)
      BY <1>0, <1>2, <2>4 DEF Capped
    <3>3. Cardinality({}) = 0
      BY FS_EmptySet
    <3>4. Budget(N, U, R, C, L + Cardinality({}), F, LOGIN_MAX)
      <4> HIDE DEF L, F, N, C, R, T, U
      <4> QED BY <1>0, <2>2, <2>3, <3>1, <3>2, <3>3 DEF Budget
    <3>5. FailureBudget(from, {})'
      BY <1>1, <1>3, <1>4, <3>4 DEF FailureBudget, There
    <3> QED BY <3>5
  <2>5. CASE from # clock + 1
    <3>1. from \in Current(WINDOW)
      BY <1>0, <2>1, <2>5 DEF Current
    <3>2. PICK X \in SUBSET Attempts : FailureBudget(from, X)
      BY <3>1, <1>5 DEF LoginInductive
    <3> DEFINE P == L + Cardinality(X)
    <3>3. P \in Nat
      BY <2>2, AttemptsFinite
    <3>4. Budget(N, T, R, C, P, F, LOGIN_MAX)
      BY <3>2 DEF FailureBudget, There
    <3>5. N \in Nat
      BY <1>0, <2>1, <2>5, FailureCounts
    <3>6. Budget(N, U, R, C, P, F, LOGIN_MAX)
      <4> HIDE DEF L, F, N, C, R, T, U, P
      <4> QED BY <1>0, <2>2, <2>3, <3>3, <3>4, <3>5 DEF Budget
    <3>7. \A b \in X : attempt'[b] = "over" \/ (attempt'[b] = "idle" /\ from + WINDOW <= blocked')
      BY <1>1, <3>2 DEF FailureBudget
    <3>8. FailureBudget(from, X)'
      BY <1>1, <1>3, <1>4, <3>6, <3>7 DEF FailureBudget, There
    <3> QED BY <3>8
  <2> QED BY <2>4, <2>5
<1>6. ASSUME ~cleared, NEW from \in 0..(clock + 1)
      PROVE  Cardinality(FailuresIn(from)) < Counters * LOGIN_MAX + Cardinality(Attempts)
  <2>1. CASE from \in 0..clock
    BY <2>1, <1>6 DEF LoginInductive
  <2>2. CASE from = clock + 1
    <3> DEFINE A == Cardinality(Attempts)
    <3>1. Counters = A + 1
      BY DEF Counters
    <3>2. A \in Nat \ {0}
      BY <1>0
    <3> HIDE DEF A
    <3>3. (A + 1) * LOGIN_MAX \in Nat
      BY <3>2, <1>0
    <3>4. 0 < (A + 1) * LOGIN_MAX + A
      BY <3>2, <3>3
    <3> QED BY <2>2, <3>1, <3>4, NoFailureYet DEF A
  <2> QED BY <1>0, <2>1, <2>2
<1>7. /\ blocked <= clock' + WINDOW /\ counter.until <= clock' + WINDOW
      /\ clock' < counter.until => counter.count >= 1
      /\ \A k \in DOMAIN failures : failures[k] <= clock'
  BY <1>0, <1>1, <1>2
<1> QED BY <1>1, <1>3, <1>5, <1>6, <1>7 DEF LoginInductive, There

LEMMA LoginSame ==
  ASSUME LoginInductive, UNCHANGED <<clock, loginVars>>
  PROVE  LoginInductive'
<1>1. UNCHANGED <<clock, attempt, counter, blocked, failures, cleared>>
  BY DEF loginVars
<1>2. /\ \A S : LoginsAt(S)' = LoginsAt(S)
      /\ \A from : FailuresIn(from)' = FailuresIn(from)
      /\ Current(WINDOW)' = Current(WINDOW)
  BY <1>1 DEF LoginsAt, FailuresIn, Current
<1>3. \A from, X : FailureBudget(from, X)' <=> FailureBudget(from, X)
  BY <1>1, <1>2 DEF FailureBudget, There
<1> QED BY <1>1, <1>2, <1>3 DEF LoginInductive, There


-----------------------------------------------------------------------------
(* The wrong passwords of one name.                                        *)

LEMMA NameCounts ==
  ASSUME ThrottleTypeOK, NEW from \in Nat, from <= clock, NEW n
  PROVE  /\ Cardinality(GuessesOf(n, from)) \in Nat
         /\ guesses' = guesses => GuessesOf(n, from)' = GuessesOf(n, from)
         /\ \A m : guesses' = Append(guesses, [at |-> clock, who |-> m]) =>
              Cardinality(GuessesOf(n, from)') = Cardinality(GuessesOf(n, from)) + (IF m = n /\ clock < from + WINDOW THEN 1 ELSE 0)
<1>1. guesses \in Seq([at : Nat, who : Callers]) /\ clock \in Nat
  BY DEF ThrottleTypeOK
<1>2. Len(guesses) \in Nat
  BY <1>1
<1>3. GuessesOf(n, from) \in SUBSET (1..Len(guesses))
  BY <1>1 DEF GuessesIn, GuessesOf
<1>4. Cardinality(GuessesOf(n, from)) \in Nat
  <2>1. IsFiniteSet(1..Len(guesses))
    BY <1>2, FS_Interval
  <2>2. IsFiniteSet(GuessesOf(n, from))
    BY <1>3, <2>1, FS_Subset
  <2> QED BY <2>2, FS_CardinalityType
<1>5. ASSUME NEW m, guesses' = Append(guesses, [at |-> clock, who |-> m])
      PROVE  Cardinality(GuessesOf(n, from)') = Cardinality(GuessesOf(n, from)) + (IF m = n /\ clock < from + WINDOW THEN 1 ELSE 0)
  <2> DEFINE X == GuessesOf(n, from)
             Y == GuessesOf(n, from)'
             now == m = n /\ clock < from + WINDOW
  <2>1. /\ Len(guesses') = Len(guesses) + 1
        /\ \A k \in 1..Len(guesses) : guesses'[k] = guesses[k]
        /\ guesses'[Len(guesses) + 1] = [at |-> clock, who |-> m]
    BY <1>1, <1>5
  <2>2. Y = IF now THEN X \cup {Len(guesses) + 1} ELSE X
    BY <1>1, <1>5, <2>1 DEF GuessesIn, GuessesOf
  <2>3. now \in BOOLEAN /\ X \in SUBSET (1..Len(guesses))
    BY <1>3
  <2> HIDE DEF X, Y, now
  <2>4. /\ Cardinality(X) \in Nat
        /\ Cardinality(Y) = IF now THEN Cardinality(X) + 1 ELSE Cardinality(X)
    BY <1>2, <2>2, <2>3, OneAppended
  <2>5. Cardinality(Y) = Cardinality(X) + (IF now THEN 1 ELSE 0)
    BY <2>4
  <2> QED BY <2>5 DEF X, Y, now
<1> QED BY <1>4, <1>5 DEF GuessesIn, GuessesOf

LEMMA AddressCounts ==
  ASSUME ThrottleTypeOK, NEW from \in Nat, from <= clock, NEW width \in Nat
  PROVE  /\ Cardinality(GuessesIn(from, width)) \in Nat
         /\ guesses' = guesses => GuessesIn(from, width)' = GuessesIn(from, width)
         /\ \A m : guesses' = Append(guesses, [at |-> clock, who |-> m]) =>
              Cardinality(GuessesIn(from, width)') = Cardinality(GuessesIn(from, width)) + (IF clock < from + width THEN 1 ELSE 0)
<1>1. guesses \in Seq([at : Nat, who : Callers]) /\ clock \in Nat
  BY DEF ThrottleTypeOK
<1>2. Len(guesses) \in Nat
  BY <1>1
<1>3. GuessesIn(from, width) \in SUBSET (1..Len(guesses))
  BY <1>1 DEF GuessesIn
<1>4. Cardinality(GuessesIn(from, width)) \in Nat
  <2>1. IsFiniteSet(1..Len(guesses))
    BY <1>2, FS_Interval
  <2>2. IsFiniteSet(GuessesIn(from, width))
    BY <1>3, <2>1, FS_Subset
  <2> QED BY <2>2, FS_CardinalityType
<1>5. ASSUME NEW m, guesses' = Append(guesses, [at |-> clock, who |-> m])
      PROVE  Cardinality(GuessesIn(from, width)') = Cardinality(GuessesIn(from, width)) + (IF clock < from + width THEN 1 ELSE 0)
  <2> DEFINE X == GuessesIn(from, width)
             Y == GuessesIn(from, width)'
             now == clock < from + width
  <2>1. /\ Len(guesses') = Len(guesses) + 1
        /\ \A k \in 1..Len(guesses) : guesses'[k] = guesses[k]
        /\ guesses'[Len(guesses) + 1] = [at |-> clock, who |-> m]
    BY <1>1, <1>5
  <2>2. Y = IF now THEN X \cup {Len(guesses) + 1} ELSE X
    BY <1>1, <1>5, <2>1 DEF GuessesIn
  <2>3. now \in BOOLEAN /\ X \in SUBSET (1..Len(guesses))
    BY <1>3
  <2> HIDE DEF X, Y, now
  <2>4. /\ Cardinality(X) \in Nat
        /\ Cardinality(Y) = IF now THEN Cardinality(X) + 1 ELSE Cardinality(X)
    BY <1>2, <2>2, <2>3, OneAppended
  <2>5. Cardinality(Y) = Cardinality(X) + (IF now THEN 1 ELSE 0)
    BY <2>4
  <2> QED BY <2>5 DEF X, Y, now
<1> QED BY <1>4, <1>5 DEF GuessesIn

LEMMA NoGuessYet ==
  ASSUME ThrottleTypeOK, \A k \in DOMAIN guesses : guesses[k].at <= clock, NEW width \in Nat
  PROVE  /\ Cardinality(GuessesIn(clock + 1, width)) = 0
         /\ \A n : Cardinality(GuessesOf(n, clock + 1)) = 0
<1>1. guesses \in Seq([at : Nat, who : Callers]) /\ clock \in Nat
  BY DEF ThrottleTypeOK
<1>2. \A k \in DOMAIN guesses : guesses[k].at <= clock /\ guesses[k].at \in Nat
  <2>1. \A k \in 1..Len(guesses) : guesses[k] \in [at : Nat, who : Callers]
    BY <1>1, ElementOfSeq
  <2>2. DOMAIN guesses = 1..Len(guesses)
    BY <1>1
  <2> QED BY <2>1, <2>2
<1>3. GuessesIn(clock + 1, width) = {} /\ \A n : GuessesOf(n, clock + 1) = {}
  BY <1>1, <1>2 DEF GuessesIn, GuessesOf
<1> QED BY <1>3, FS_EmptySet

LEMMA GuessTimes ==
  ASSUME ThrottleTypeOK, \A k \in DOMAIN guesses : guesses[k].at <= clock, clock' = clock,
         guesses' = guesses \/ \E m : guesses' = Append(guesses, [at |-> clock, who |-> m])
  PROVE  \A k \in DOMAIN guesses' : guesses'[k].at <= clock
<1>1. guesses \in Seq([at : Nat, who : Callers]) /\ clock \in Nat
  BY DEF ThrottleTypeOK
<1>2. CASE guesses' = guesses
  BY <1>2
<1>3. ASSUME NEW m, guesses' = Append(guesses, [at |-> clock, who |-> m])
      PROVE  \A k \in DOMAIN guesses' : guesses'[k].at <= clock
  <2>1. /\ DOMAIN guesses' = 1..(Len(guesses) + 1)
        /\ \A k \in 1..Len(guesses) : guesses'[k] = guesses[k]
        /\ guesses'[Len(guesses) + 1] = [at |-> clock, who |-> m]
    BY <1>1, <1>3
  <2> QED BY <1>1, <2>1
<1> QED BY <1>2, <1>3

\* A window that has spent its budget holds less than the counters.
LEMMA GuessesBound ==
  ASSUME NEW n \in Nat, NEW there \in BOOLEAN, NEW fresh \in BOOLEAN, NEW c \in Nat, NEW p \in Nat,
         NEW r \in Nat, NEW k \in Nat \ {0}, Budget(n, there, fresh, c, p, r, k),
         p <= Cardinality(Attempts), there => c + p <= k
  PROVE  n < Counters * k
<1>1. /\ n \in Int /\ c \in Int /\ p \in Int /\ 0 \in Nat /\ there => c + p <= k + 0
  OBVIOUS
<1>2. n < Counters * k + 0
  BY <1>1, BudgetBounds
<1>3. Counters * k \in Int
  BY ThrottleConstants DEF Counters
<1> QED BY <1>2, <1>3

LEMMA EntriesCounted ==
  \A X \in SUBSET Attempts : Cardinality(X) \in Nat /\ Cardinality(X) <= Cardinality(Attempts)
BY AttemptsFinite

LEMMA NameKeeps ==
  ASSUME ThrottleTypeOK, ThrottleTypeOK', NEW n \in Callers, NameOK(n), clock' = clock,
         guesses' = guesses \/ \E m : guesses' = Append(guesses, [at |-> clock, who |-> m]),
         byName'[n].until <= clock + WINDOW,
         clock < byName'[n].until =>
           /\ byName'[n].count >= 1
           /\ byName'[n].count + Cardinality(EntriesOf(n, {"wrong", "first"}))' <= Overrun(PASS_MAX),
         \A from \in Current(WINDOW) : GuessBudget(n, from)'
  PROVE  NameOK(n)'
<1>1. clock \in Nat /\ byName'[n].count \in Nat /\ byName'[n].until \in Nat /\ WINDOW \in Nat
  BY ThrottleConstants DEF ThrottleTypeOK, Cell
<1>2. Current(WINDOW)' = Current(WINDOW)
  BY DEF Current
<1>3. ASSUME NEW from \in 0..clock
      PROVE  Cardinality(GuessesOf(n, from)') < Counters * Overrun(PASS_MAX)
  <2>0. from \in Nat /\ from <= clock
    BY <1>1, <1>3
  <2>1. Cardinality(GuessesOf(n, from)) < Counters * Overrun(PASS_MAX)
    BY <1>3 DEF NameOK
  <2>4. /\ Cardinality(GuessesOf(n, from)) \in Nat
        /\ Cardinality(GuessesOf(n, from)') \in Nat
        /\ ~(clock < from + WINDOW) =>
             Cardinality(GuessesOf(n, from)') = Cardinality(GuessesOf(n, from))
    <3>1. /\ Cardinality(GuessesOf(n, from)) \in Nat
          /\ guesses' = guesses => GuessesOf(n, from)' = GuessesOf(n, from)
          /\ \A m : guesses' = Append(guesses, [at |-> clock, who |-> m]) =>
               Cardinality(GuessesOf(n, from)') =
                 Cardinality(GuessesOf(n, from)) + (IF m = n /\ clock < from + WINDOW THEN 1 ELSE 0)
      BY <2>0, NameCounts
    <3>2. CASE guesses' = guesses
      BY <3>1, <3>2
    <3>3. ASSUME NEW m, guesses' = Append(guesses, [at |-> clock, who |-> m])
          PROVE  /\ Cardinality(GuessesOf(n, from)') \in Nat
                 /\ ~(clock < from + WINDOW) =>
                      Cardinality(GuessesOf(n, from)') = Cardinality(GuessesOf(n, from))
      <4>1. Cardinality(GuessesOf(n, from)') =
              Cardinality(GuessesOf(n, from)) + (IF m = n /\ clock < from + WINDOW THEN 1 ELSE 0)
        BY <3>1, <3>3
      <4> QED BY <3>1, <4>1
    <3> QED BY <3>1, <3>2, <3>3
  <2>2. CASE ~(clock < from + WINDOW)
    BY <2>1, <2>2, <2>4
  <2>3. CASE clock < from + WINDOW
    <3>1. GuessBudget(n, from)'
      BY <2>3, <1>3 DEF Current
    <3> DEFINE N == Cardinality(GuessesOf(n, from)')
               p == Cardinality(EntriesOf(n, {"wrong", "first"}))'
               r == Cardinality(EntriesOf(n, {"first"}))'
               c == byName'[n].count
               there == There(byName[n].until)'
               fresh == from + WINDOW <= byName'[n].until
    <3>2. Budget(N, there, fresh, c, p, r, Overrun(PASS_MAX))
      BY <3>1 DEF GuessBudget
    <3>3. N \in Nat
      BY <2>4
    <3>4. p \in Nat /\ p <= Cardinality(Attempts) /\ r \in Nat
      <4>1. /\ EntriesOf(n, {"wrong", "first"})' \in SUBSET Attempts
            /\ EntriesOf(n, {"first"})' \in SUBSET Attempts
        BY DEF EntriesOf, EntriesAt
      <4> QED BY <4>1, EntriesCounted
    <3>5. there \in BOOLEAN /\ fresh \in BOOLEAN /\ c \in Nat /\ Overrun(PASS_MAX) \in Nat \ {0}
      BY <1>1, ThrottleConstants DEF There
    <3>6. there => c + p <= Overrun(PASS_MAX)
      BY DEF There
    <3> HIDE DEF N, p, r, c, there, fresh
    <3>7. N < Counters * Overrun(PASS_MAX)
      BY <3>2, <3>3, <3>4, <3>5, <3>6, GuessesBound
    <3> QED BY <3>7 DEF N
  <2> QED BY <2>2, <2>3
<1> QED BY <1>2, <1>3 DEF NameOK, There


\* The steps of an entry.
EntryNext(a) ==
  \/ \E n \in Callers : lobby_view(a, n)
  \/ JoinUnasked(a) \/ JoinWrong(a) \/ JoinRight(a)
  \/ register_failed_password(a) \/ register_failed_password_ip(a)

LEMMA EntryFacts ==
  ASSUME ThrottleTypeOK, NEW a \in Attempts, EntryNext(a)
  PROVE  /\ clock' = clock /\ clock \in Nat
         /\ entry \in [Attempts -> EntryType] /\ \A b \in Attempts \ {a} : entry'[b] = entry[b]
         /\ guesses' = guesses \/ \E m : guesses' = Append(guesses, [at |-> clock, who |-> m])
         /\ entered \subseteq entered'
         /\ byName \in [Callers -> Cell] /\ byIp \in Cell /\ entry[a].who \in Callers
<1>1. /\ clock \in Nat /\ entry \in [Attempts -> EntryType]
      /\ byName \in [Callers -> Cell] /\ byIp \in Cell /\ entry[a].who \in Callers
  BY DEF ThrottleTypeOK, EntryType
<1>2. \E s, w : entry' = [entry EXCEPT ![a] = [step |-> s, who |-> w]]
  BY DEF EntryNext, lobby_view, JoinUnasked, JoinWrong, JoinRight, register_failed_password,
         register_failed_password_ip, Step
<1>3. /\ clock' = clock /\ entered \subseteq entered'
      /\ guesses' = guesses \/ \E m : guesses' = Append(guesses, [at |-> clock, who |-> m])
  BY DEF EntryNext, lobby_view, JoinUnasked, JoinWrong, JoinRight, register_failed_password,
         register_failed_password_ip
<1> QED BY <1>1, <1>2, <1>3

LEMMA NameStep ==
  ASSUME ThrottleTypeOK, ThrottleTypeOK', NameInductive, NEW a \in Attempts, EntryNext(a)
  PROVE  NameInductive'
<1>0. /\ clock' = clock /\ clock \in Nat
      /\ entry \in [Attempts -> EntryType] /\ \A b \in Attempts \ {a} : entry'[b] = entry[b]
      /\ guesses' = guesses \/ \E m : guesses' = Append(guesses, [at |-> clock, who |-> m])
      /\ entered \subseteq entered'
      /\ byName \in [Callers -> Cell] /\ entry[a].who \in Callers
  BY EntryFacts
<1>1. /\ WINDOW \in Nat \ {0} /\ PASS_MAX \in Nat \ {0} /\ Cardinality(Attempts) \in Nat \ {0}
      /\ Overrun(PASS_MAX) = PASS_MAX + Cardinality(Attempts) - 1 /\ Overrun(PASS_MAX) \in Nat \ {0}
  BY ThrottleConstants DEF Overrun
<1>2. \A k \in DOMAIN guesses' : guesses'[k].at <= clock
  BY <1>0, GuessTimes DEF NameInductive
<1>3. ASSUME NEW n \in Callers \ entered' PROVE NameOK(n)'
  <2>0. n \in Callers \ entered /\ NameOK(n) /\ n \in Callers
    BY <1>0, <1>3 DEF NameInductive
  <2> DEFINE P == Cardinality(EntriesOf(n, {"wrong", "first"}))
             F == Cardinality(EntriesOf(n, {"first"}))
             C == byName[n].count
             T == There(byName[n].until)
  <2>1. /\ P \in Nat /\ F \in Nat /\ P <= Cardinality(Attempts) /\ F <= Cardinality(Attempts)
        /\ P' \in Nat /\ P' <= Cardinality(Attempts)
    <3>1. /\ EntriesOf(n, {"wrong", "first"}) \in SUBSET Attempts
          /\ EntriesOf(n, {"wrong", "first"})' \in SUBSET Attempts
          /\ EntriesOf(n, {"first"}) \in SUBSET Attempts
      BY DEF EntriesOf, EntriesAt
    <3> QED BY <3>1, EntriesCounted
  <2>2. /\ C \in Nat /\ byName[n].until \in Nat /\ T \in BOOLEAN
    BY <1>0, <2>0 DEF Cell, There
  <2>3. /\ byName[n].until <= clock + WINDOW /\ (T <=> clock < byName[n].until)
        /\ T => C >= 1 /\ C + P <= Overrun(PASS_MAX)
    BY <2>0 DEF NameOK, There
  <2>4. /\ P' = P + (IF entry'[a].step \in {"wrong", "first"} /\ entry'[a].who = n THEN 1 ELSE 0)
                  - (IF entry[a].step \in {"wrong", "first"} /\ entry[a].who = n THEN 1 ELSE 0)
        /\ F' = F + (IF entry'[a].step \in {"first"} /\ entry'[a].who = n THEN 1 ELSE 0)
                  - (IF entry[a].step \in {"first"} /\ entry[a].who = n THEN 1 ELSE 0)
    <3>1. P' = P + (IF entry'[a].step \in {"wrong", "first"} /\ entry'[a].who = n THEN 1 ELSE 0)
                 - (IF entry[a].step \in {"wrong", "first"} /\ entry[a].who = n THEN 1 ELSE 0)
      BY <1>0, NameMoves
    <3>2. F' = F + (IF entry'[a].step \in {"first"} /\ entry'[a].who = n THEN 1 ELSE 0)
                 - (IF entry[a].step \in {"first"} /\ entry[a].who = n THEN 1 ELSE 0)
      BY <1>0, NameMoves
    <3> QED BY <3>1, <3>2
  <2>5. ASSUME NEW from \in Current(WINDOW)
        PROVE  /\ from \in Nat /\ from <= clock /\ clock < from + WINDOW
               /\ Cardinality(GuessesOf(n, from)) \in Int /\ (from + WINDOW <= byName[n].until) \in BOOLEAN
               /\ Budget(Cardinality(GuessesOf(n, from)), T, from + WINDOW <= byName[n].until, C, P, F,
                         Overrun(PASS_MAX))
               /\ guesses' = guesses => GuessesOf(n, from)' = GuessesOf(n, from)
    <3>1. from \in Nat /\ from <= clock /\ clock < from + WINDOW
      BY <1>0, <2>5 DEF Current
    <3>2. GuessBudget(n, from)
      BY <2>0, <2>5 DEF NameOK
    <3>3. /\ Cardinality(GuessesOf(n, from)) \in Nat
          /\ guesses' = guesses => GuessesOf(n, from)' = GuessesOf(n, from)
      BY <3>1, NameCounts
    <3> QED BY <3>1, <3>2, <3>3 DEF GuessBudget
  <2>6. CASE byName'[n] = byName[n] /\ P' = P /\ F' = F /\ guesses' = guesses
    <3>1. \A from \in Current(WINDOW) : GuessBudget(n, from)'
      BY <2>5, <2>6, <1>0 DEF GuessBudget, There
    <3>2. /\ byName'[n].until <= clock + WINDOW
          /\ clock < byName'[n].until => byName'[n].count >= 1 /\ byName'[n].count + P' <= Overrun(PASS_MAX)
      BY <2>3, <2>6
    <3> QED BY <1>0, <2>0, <3>1, <3>2, NameKeeps
  <2>7. CASE \/ \E m \in Callers : lobby_view(a, m)
             \/ JoinUnasked(a) \/ register_failed_password_ip(a)
    <3>1. /\ entry[a].step \notin {"wrong", "first"} /\ entry'[a].step \notin {"wrong", "first"}
          /\ byName' = byName /\ guesses' = guesses
      BY <2>7, <1>0 DEF lobby_view, JoinUnasked, register_failed_password_ip, Step
    <3>2. P' = P /\ F' = F
      BY <2>1, <2>4, <3>1
    <3> QED BY <2>6, <3>1, <3>2
  <2>8. CASE JoinRight(a)
    <3>1. /\ entry[a].step = "asked" /\ entry'[a].step = "idle" /\ guesses' = guesses
          /\ entry[a].who # n /\ byName' = [byName EXCEPT ![entry[a].who] = NoCount]
      BY <2>8, <1>0, <1>3 DEF JoinRight, MayGuess, Step
    <3>2. P' = P /\ F' = F /\ byName'[n] = byName[n]
      BY <1>0, <2>0, <2>1, <2>4, <3>1
    <3> QED BY <2>6, <3>1, <3>2
  <2>9. CASE JoinWrong(a)
    <3>1. /\ entry[a].step = "asked" /\ entry'[a].step = "wrong" /\ entry'[a].who = entry[a].who
          /\ byName' = byName /\ ~Full(byName[entry[a].who], PASS_MAX)
          /\ guesses' = Append(guesses, [at |-> clock, who |-> entry[a].who])
      BY <2>9, <1>0 DEF JoinWrong, MayGuess, Step
    <3>2. F' = F /\ P' = IF entry[a].who = n THEN P + 1 ELSE P
      BY <2>1, <2>4, <3>1
    <3>3. clock < byName'[n].until => byName'[n].count >= 1 /\ byName'[n].count + P' <= Overrun(PASS_MAX)
      <4>1. entry[a].who = n /\ T => C < PASS_MAX
        BY <1>1, <2>2, <3>1 DEF Full
      <4>2. byName'[n] = byName[n]
        BY <3>1
      <4>3. entry[a].who = n => P' = P + 1
        BY <3>2
      <4>4. entry[a].who = n /\ T => C + P' <= Overrun(PASS_MAX)
        BY <1>1, <2>1, <2>2, <4>1
      <4>5. entry[a].who # n /\ T => C + P' <= Overrun(PASS_MAX)
        BY <2>3, <3>2
      <4> QED BY <2>3, <4>2, <4>4, <4>5
    <3>4. ASSUME NEW from \in Current(WINDOW) PROVE GuessBudget(n, from)'
      <4> DEFINE N == Cardinality(GuessesOf(n, from))
                 R == from + WINDOW <= byName[n].until
      <4>1. /\ N \in Int /\ R \in BOOLEAN /\ Budget(N, T, R, C, P, F, Overrun(PASS_MAX))
            /\ from \in Nat /\ from <= clock /\ clock < from + WINDOW
        BY <2>5
      <4>2. Cardinality(GuessesOf(n, from)') = N + (IF entry[a].who = n THEN 1 ELSE 0)
        BY <3>1, <4>1, NameCounts
      <4>3. Budget(IF entry[a].who = n THEN N + 1 ELSE N, T, R, C,
                   IF entry[a].who = n THEN P + 1 ELSE P, F, Overrun(PASS_MAX))
        <5>1. P \in Int /\ F \in Int /\ C \in Int /\ Overrun(PASS_MAX) \in Int
          BY <1>1, <2>1, <2>2
        <5> HIDE DEF N, R, T, P, F, C
        <5>2. Budget(N + 1, T, R, C, P + 1, F, Overrun(PASS_MAX))
          BY <2>2, <4>1, <5>1, BudgetGrows
        <5> QED BY <4>1, <5>2
      <4>4. Cardinality(GuessesOf(n, from)') = IF entry[a].who = n THEN N + 1 ELSE N
        BY <4>1, <4>2
      <4> QED BY <3>1, <3>2, <4>3, <4>4, <1>0 DEF GuessBudget, There
    <3> QED BY <1>0, <2>0, <2>3, <3>1, <3>3, <3>4, NameKeeps
  <2>10. CASE register_failed_password(a) /\ entry[a].who # n
    <3>1. /\ entry'[a].who = entry[a].who /\ guesses' = guesses
          /\ \E c : byName' = byName \/ byName' = [byName EXCEPT ![entry[a].who] = c]
      BY <2>10, <1>0 DEF register_failed_password, Step
    <3>2. P' = P /\ F' = F /\ byName'[n] = byName[n]
      BY <1>0, <2>0, <2>1, <2>4, <2>10, <3>1
    <3> QED BY <2>6, <3>1, <3>2
  <2>11. CASE register_failed_password(a) /\ entry[a].who = n /\ entry[a].step = "wrong" /\ T
    <3>1. /\ entry'[a].step = "counted" /\ guesses' = guesses
          /\ byName'[n] = [count |-> C + 1, until |-> byName[n].until]
      BY <2>11, <1>0 DEF register_failed_password, Step, OneMore
    <3>2. F' = F /\ P' = P - 1
      BY <2>1, <2>4, <2>11, <3>1
    <3>3. /\ byName'[n].until <= clock + WINDOW
          /\ clock < byName'[n].until => byName'[n].count >= 1 /\ byName'[n].count + P' <= Overrun(PASS_MAX)
      BY <1>1, <2>1, <2>2, <2>3, <2>11, <3>1, <3>2
    <3>4. ASSUME NEW from \in Current(WINDOW) PROVE GuessBudget(n, from)'
      <4> DEFINE N == Cardinality(GuessesOf(n, from))
                 R == from + WINDOW <= byName[n].until
      <4>1. /\ N \in Int /\ R \in BOOLEAN /\ Budget(N, T, R, C, P, F, Overrun(PASS_MAX))
            /\ GuessesOf(n, from)' = GuessesOf(n, from)
        BY <2>5, <3>1
      <4>2. Budget(N, T, R, C + 1, P - 1, F, Overrun(PASS_MAX))
        <5>1. P \in Int /\ F \in Int /\ C \in Int /\ Overrun(PASS_MAX) \in Int
          BY <1>1, <2>1, <2>2
        <5> HIDE DEF N, R, T, P, F, C
        <5> QED BY <2>2, <2>11, <4>1, <5>1, BudgetGrows
      <4> QED BY <3>1, <3>2, <4>1, <4>2, <1>0 DEF GuessBudget, There
    <3> QED BY <1>0, <2>0, <3>1, <3>3, <3>4, NameKeeps
  <2>12. CASE register_failed_password(a) /\ entry[a].who = n /\ entry[a].step = "wrong" /\ ~T
    <3>1. /\ entry'[a].step = "first" /\ entry'[a].who = n /\ guesses' = guesses /\ byName' = byName
      BY <2>12, <1>0 DEF register_failed_password, Step
    <3>2. F' = F + 1 /\ P' = P
      BY <2>1, <2>4, <2>12, <3>1
    <3>3. /\ byName'[n].until <= clock + WINDOW
          /\ clock < byName'[n].until => byName'[n].count >= 1 /\ byName'[n].count + P' <= Overrun(PASS_MAX)
      BY <2>3, <2>12, <3>1, <3>2
    <3>4. ASSUME NEW from \in Current(WINDOW) PROVE GuessBudget(n, from)'
      <4> DEFINE N == Cardinality(GuessesOf(n, from))
                 R == from + WINDOW <= byName[n].until
      <4>1. /\ N \in Int /\ R \in BOOLEAN /\ Budget(N, T, R, C, P, F, Overrun(PASS_MAX))
            /\ GuessesOf(n, from)' = GuessesOf(n, from)
        BY <2>5, <3>1
      <4>2. Budget(N, T, R, C, P, F + 1, Overrun(PASS_MAX))
        <5>1. P \in Int /\ F \in Int /\ F + 1 \in Int /\ C \in Int /\ Overrun(PASS_MAX) \in Int
          BY <1>1, <2>1, <2>2
        <5> HIDE DEF N, R, T, P, F, C
        <5>2. \A x \in Int : Budget(N, T, R, C, P, x, Overrun(PASS_MAX))
          <6>1. T = FALSE
            BY <2>2, <2>12
          <6> QED BY <6>1, <4>1, <5>1, BudgetAny
        <5> QED BY <5>1, <5>2
      <4> QED BY <3>1, <3>2, <4>1, <4>2, <1>0 DEF GuessBudget, There
    <3> QED BY <1>0, <2>0, <3>1, <3>3, <3>4, NameKeeps
  <2>13. CASE register_failed_password(a) /\ entry[a].who = n /\ entry[a].step = "first"
    <3>1. /\ entry'[a].step = "counted" /\ guesses' = guesses
          /\ byName'[n] = [count |-> 1, until |-> clock + WINDOW]
      BY <2>13, <1>0 DEF register_failed_password, Step
    <3>2. F' = F - 1 /\ P' = P - 1
      BY <2>1, <2>4, <2>13, <3>1
    <3>3. /\ byName'[n].until <= clock + WINDOW
          /\ clock < byName'[n].until => byName'[n].count >= 1 /\ byName'[n].count + P' <= Overrun(PASS_MAX)
      BY <1>0, <1>1, <2>1, <3>1, <3>2
    <3>4. ASSUME NEW from \in Current(WINDOW) PROVE GuessBudget(n, from)'
      <4> DEFINE N == Cardinality(GuessesOf(n, from))
                 R == from + WINDOW <= byName[n].until
      <4>1. /\ N \in Int /\ R \in BOOLEAN /\ Budget(N, T, R, C, P, F, Overrun(PASS_MAX))
            /\ GuessesOf(n, from)' = GuessesOf(n, from)
            /\ from \in Nat /\ from <= clock /\ clock < from + WINDOW
        BY <2>5, <3>1
      <4>2. Budget(N, TRUE, TRUE, 1, P - 1, F - 1, Overrun(PASS_MAX))
        <5>1. P \in Int /\ F \in Int /\ C \in Int /\ Overrun(PASS_MAX) \in Nat /\ F <= Cardinality(Attempts)
              /\ (T => C <= Overrun(PASS_MAX))
          BY <1>1, <2>1, <2>2, <2>3
        <5> HIDE DEF N, R, T, P, F, C
        <5> QED BY <2>2, <4>1, <5>1, BudgetSet
      <4>3. There(byName[n].until)' = TRUE /\ (from + WINDOW <= byName'[n].until) = TRUE
        BY <1>0, <1>1, <3>1, <4>1 DEF There
      <4>4. C' = 1 /\ Cardinality(GuessesOf(n, from))' = N
        BY <3>1, <4>1
      <4>5. Budget(N, There(byName[n].until)', from + WINDOW <= byName'[n].until, C', P', F',
                   Overrun(PASS_MAX))
        BY <3>2, <4>2, <4>3, <4>4
      <4> QED BY <4>4, <4>5 DEF GuessBudget
    <3> QED BY <1>0, <2>0, <3>1, <3>3, <3>4, NameKeeps
  <2>14. register_failed_password(a) => entry[a].step \in {"wrong", "first"}
    BY DEF register_failed_password
  <2> QED BY <2>7, <2>8, <2>9, <2>10, <2>11, <2>12, <2>13, <2>14 DEF EntryNext
<1> QED BY <1>0, <1>2, <1>3 DEF NameInductive


LEMMA NameInit == ThrottleInit => NameInductive
<1> SUFFICES ASSUME ThrottleInit PROVE NameInductive
  OBVIOUS
<1>1. /\ clock = 1 /\ guesses = <<>>
      /\ \A n \in Callers : byName[n].count = 0 /\ byName[n].until = 0
      /\ \A a \in Attempts : entry[a].step = "idle"
  BY DEF ThrottleInit, NoCount
<1>2. ASSUME NEW n \in Callers PROVE NameOK(n)
  <2>1. \A from : GuessesOf(n, from) = {}
    BY <1>1 DEF GuessesOf, GuessesIn
  <2>2. EntriesOf(n, {"wrong", "first"}) = {}
    BY <1>1 DEF EntriesOf, EntriesAt
  <2>3. /\ \A from : Cardinality(GuessesOf(n, from)) = 0
        /\ Cardinality(EntriesOf(n, {"wrong", "first"})) = 0
    BY <2>1, <2>2, FS_EmptySet
  <2>4. ~There(byName[n].until) /\ byName[n].until <= clock + WINDOW
    BY <1>1, ThrottleConstants DEF There
  <2>5. \A from : GuessBudget(n, from)
    BY <2>3, <2>4, ThrottleConstants DEF GuessBudget, Budget
  <2>6. 0 < Counters * Overrun(PASS_MAX)
    BY ThrottleConstants DEF Counters
  <2> QED BY <2>3, <2>4, <2>5, <2>6 DEF NameOK
<1> QED BY <1>1, <1>2 DEF NameInductive

LEMMA NameTick ==
  ASSUME ThrottleTypeOK, ThrottleTypeOK', NameInductive, Tick
  PROVE  NameInductive'
<1>0. /\ clock \in Nat /\ WINDOW \in Nat \ {0} /\ Overrun(PASS_MAX) \in Nat \ {0}
      /\ guesses \in Seq([at : Nat, who : Callers])
  BY ThrottleConstants DEF ThrottleTypeOK
<1>1. clock' = clock + 1 /\ UNCHANGED <<entry, byName, guesses, entered>>
  BY DEF Tick, entryVars
<1>2. \A k \in DOMAIN guesses : guesses[k].at <= clock
  BY DEF NameInductive
<1>3. \A k \in DOMAIN guesses : guesses[k].at <= clock + 1
  <2>1. DOMAIN guesses = 1..Len(guesses)
    BY <1>0
  <2>2. \A k \in 1..Len(guesses) : guesses[k] \in [at : Nat, who : Callers]
    BY <1>0, ElementOfSeq
  <2> QED BY <1>0, <1>2, <2>1, <2>2
<1>4. ASSUME NEW n \in Callers \ entered PROVE NameOK(n)'
  <2>0. NameOK(n) /\ byName[n].count \in Nat /\ byName[n].until \in Nat
    BY <1>4, CellFacts DEF NameInductive
  <2>1. /\ \A from : GuessesOf(n, from)' = GuessesOf(n, from)
        /\ \A S : EntriesOf(n, S)' = EntriesOf(n, S)
    BY <1>1 DEF GuessesOf, GuessesIn, EntriesOf, EntriesAt
  <2> DEFINE P == Cardinality(EntriesOf(n, {"wrong", "first"}))
             F == Cardinality(EntriesOf(n, {"first"}))
             C == byName[n].count
             T == clock < byName[n].until
             U == clock + 1 < byName[n].until
  <2>2. P \in Nat /\ F \in Nat /\ C \in Nat /\ T \in BOOLEAN /\ U \in BOOLEAN /\ (U => T)
    <3>1. /\ EntriesOf(n, {"wrong", "first"}) \in SUBSET Attempts
          /\ EntriesOf(n, {"first"}) \in SUBSET Attempts
      BY DEF EntriesOf, EntriesAt
    <3> QED BY <1>0, <2>0, <3>1, EntriesCounted
  <2>3. /\ byName[n].until <= clock + WINDOW /\ (T => C >= 1 /\ C + P <= Overrun(PASS_MAX))
    BY <2>0 DEF NameOK, There
  <2>4. ASSUME NEW from \in Current(WINDOW)' PROVE GuessBudget(n, from)'
    <3> DEFINE N == Cardinality(GuessesOf(n, from))
               R == from + WINDOW <= byName[n].until
    <3>1. /\ from \in Nat /\ from <= clock + 1 /\ clock + 1 < from + WINDOW
          /\ R \in BOOLEAN /\ (R => U)
      BY <1>0, <1>1, <2>0, <2>4 DEF Current
    <3>2. Budget(N, U, R, C, P, F, Overrun(PASS_MAX))
      <4>1. CASE from = clock + 1
        <5>1. N = 0
          BY <4>1, <1>0, <1>2, NoGuessYet
        <5>2. ~R
          BY <1>0, <2>0, <2>3, <4>1
        <5> HIDE DEF N, R, T, U, P, F, C
        <5> QED BY <1>0, <2>2, <2>3, <5>1, <5>2 DEF Budget
      <4>2. CASE from # clock + 1
        <5>1. from \in Current(WINDOW)
          BY <1>0, <3>1, <4>2 DEF Current
        <5>2. Budget(N, T, R, C, P, F, Overrun(PASS_MAX))
          BY <2>0, <5>1 DEF NameOK, GuessBudget, There
        <5>3. N \in Nat
          BY <1>0, <3>1, <4>2, NameCounts
        <5> HIDE DEF N, R, T, U, P, F, C
        <5> QED BY <1>0, <2>2, <2>3, <3>1, <5>2, <5>3 DEF Budget
      <4> QED BY <4>1, <4>2
    <3> QED BY <1>1, <2>1, <3>2 DEF GuessBudget, There
  <2>5. ASSUME NEW from \in 0..(clock + 1)
        PROVE  Cardinality(GuessesOf(n, from)) < Counters * Overrun(PASS_MAX)
    <3>1. CASE from \in 0..clock
      BY <2>0, <3>1 DEF NameOK
    <3>2. CASE from = clock + 1
      <4>1. Cardinality(GuessesOf(n, from)) = 0
        BY <3>2, <1>0, <1>2, NoGuessYet
      <4>2. 0 < Counters * Overrun(PASS_MAX)
        BY ThrottleConstants DEF Counters
      <4> QED BY <4>1, <4>2
    <3> QED BY <1>0, <3>1, <3>2
  <2>6. /\ byName[n].until <= (clock + 1) + WINDOW
        /\ U => C >= 1 /\ C + P <= Overrun(PASS_MAX)
    BY <1>0, <2>0, <2>2, <2>3
  <2> QED BY <1>1, <2>1, <2>4, <2>5, <2>6 DEF NameOK, There
<1> QED BY <1>1, <1>3, <1>4 DEF NameInductive

LEMMA NameSame ==
  ASSUME NameInductive, UNCHANGED <<clock, entryVars>>
  PROVE  NameInductive'
<1>1. UNCHANGED <<clock, entry, byName, guesses, entered>>
  BY DEF entryVars
<1>2. /\ \A n, S : EntriesOf(n, S)' = EntriesOf(n, S)
      /\ \A n, from : GuessesOf(n, from)' = GuessesOf(n, from)
      /\ Current(WINDOW)' = Current(WINDOW)
  BY <1>1 DEF EntriesOf, EntriesAt, GuessesOf, GuessesIn, Current
<1>3. \A n, from : GuessBudget(n, from)' <=> GuessBudget(n, from)
  BY <1>1, <1>2 DEF GuessBudget, There
<1>4. \A n : NameOK(n)' <=> NameOK(n)
  BY <1>1, <1>2, <1>3 DEF NameOK, There
<1> QED BY <1>1, <1>4 DEF NameInductive


-----------------------------------------------------------------------------
(* The wrong passwords of the address.                                     *)

LEMMA AddressKeeps ==
  ASSUME ThrottleTypeOK, ThrottleTypeOK', AddressInductive, clock' = clock,
         guesses' = guesses \/ \E m : guesses' = Append(guesses, [at |-> clock, who |-> m]),
         byIp'.until <= clock + WINDOW_IP,
         clock < byIp'.until =>
           /\ byIp'.count >= 1
           /\ byIp'.count + Cardinality(EntriesAt(Asking))' <= Overrun(PASS_MAX_IP),
         \A from \in Current(WINDOW_IP) : AddressBudget(from)'
  PROVE  AddressInductive'
<1>1. clock \in Nat /\ byIp'.count \in Nat /\ byIp'.until \in Nat /\ WINDOW_IP \in Nat
  BY ThrottleConstants DEF ThrottleTypeOK, Cell
<1>2. Current(WINDOW_IP)' = Current(WINDOW_IP)
  BY DEF Current
<1>3. ASSUME NEW from \in 0..clock
      PROVE  Cardinality(GuessesIn(from, WINDOW_IP)') < Counters * Overrun(PASS_MAX_IP)
  <2>0. from \in Nat /\ from <= clock
    BY <1>1, <1>3
  <2>1. Cardinality(GuessesIn(from, WINDOW_IP)) < Counters * Overrun(PASS_MAX_IP)
    BY <1>3 DEF AddressInductive
  <2>4. /\ Cardinality(GuessesIn(from, WINDOW_IP)) \in Nat
        /\ Cardinality(GuessesIn(from, WINDOW_IP)') \in Nat
        /\ ~(clock < from + WINDOW_IP) =>
             Cardinality(GuessesIn(from, WINDOW_IP)') = Cardinality(GuessesIn(from, WINDOW_IP))
    <3>1. /\ Cardinality(GuessesIn(from, WINDOW_IP)) \in Nat
          /\ guesses' = guesses => GuessesIn(from, WINDOW_IP)' = GuessesIn(from, WINDOW_IP)
          /\ \A m : guesses' = Append(guesses, [at |-> clock, who |-> m]) =>
               Cardinality(GuessesIn(from, WINDOW_IP)') =
                 Cardinality(GuessesIn(from, WINDOW_IP)) + (IF clock < from + WINDOW_IP THEN 1 ELSE 0)
      BY <1>1, <2>0, AddressCounts
    <3>2. CASE guesses' = guesses
      BY <3>1, <3>2
    <3>3. ASSUME NEW m, guesses' = Append(guesses, [at |-> clock, who |-> m])
          PROVE  /\ Cardinality(GuessesIn(from, WINDOW_IP)') \in Nat
                 /\ ~(clock < from + WINDOW_IP) =>
                      Cardinality(GuessesIn(from, WINDOW_IP)') = Cardinality(GuessesIn(from, WINDOW_IP))
      <4>1. Cardinality(GuessesIn(from, WINDOW_IP)') =
              Cardinality(GuessesIn(from, WINDOW_IP)) + (IF clock < from + WINDOW_IP THEN 1 ELSE 0)
        BY <3>1, <3>3
      <4> QED BY <3>1, <4>1
    <3> QED BY <3>1, <3>2, <3>3
  <2>2. CASE ~(clock < from + WINDOW_IP)
    BY <2>1, <2>2, <2>4
  <2>3. CASE clock < from + WINDOW_IP
    <3>1. AddressBudget(from)'
      BY <2>3, <1>3 DEF Current
    <3> DEFINE N == Cardinality(GuessesIn(from, WINDOW_IP)')
               p == Cardinality(EntriesAt(Failing))'
               q == Cardinality(EntriesAt(Asking))'
               r == Cardinality(EntriesAt({"firstIp"}))'
               c == byIp'.count
               there == There(byIp.until)'
               fresh == from + WINDOW_IP <= byIp'.until
    <3>2. Budget(N, there, fresh, c, p, r, Overrun(PASS_MAX_IP))
      BY <3>1 DEF AddressBudget
    <3>3. N \in Nat
      BY <2>4
    <3>4. p \in Nat /\ q \in Nat /\ p <= q /\ p <= Cardinality(Attempts) /\ r \in Nat
      <4>1. /\ EntriesAt(Failing)' \in SUBSET Attempts
            /\ EntriesAt(Asking)' \in SUBSET Attempts
            /\ EntriesAt(Failing)' \subseteq EntriesAt(Asking)'
            /\ EntriesAt({"firstIp"})' \in SUBSET Attempts
        BY DEF EntriesAt, Failing, Asking
      <4>2. IsFiniteSet(EntriesAt(Asking)')
        BY <4>1, AttemptsFinite
      <4>3. p <= q
        BY <4>1, <4>2, FS_Subset
      <4> QED BY <4>1, <4>3, EntriesCounted
    <3>5. there \in BOOLEAN /\ fresh \in BOOLEAN /\ c \in Nat /\ Overrun(PASS_MAX_IP) \in Nat \ {0}
      BY <1>1, ThrottleConstants DEF There
    <3>6. there => c + p <= Overrun(PASS_MAX_IP)
      <4>1. there => c + q <= Overrun(PASS_MAX_IP)
        BY DEF There
      <4> HIDE DEF p, q, c, there
      <4> QED BY <3>4, <3>5, <4>1
    <3> HIDE DEF N, p, r, c, there, fresh
    <3>7. N < Counters * Overrun(PASS_MAX_IP)
      BY <3>2, <3>3, <3>4, <3>5, <3>6, GuessesBound
    <3> QED BY <3>7 DEF N
  <2> QED BY <2>2, <2>3
<1>4. \A k \in DOMAIN guesses' : guesses'[k].at <= clock
  BY GuessTimes DEF AddressInductive
<1> QED BY <1>2, <1>3, <1>4 DEF AddressInductive, There

LEMMA AddressStep ==
  ASSUME ThrottleTypeOK, ThrottleTypeOK', AddressInductive, NEW a \in Attempts, EntryNext(a)
  PROVE  AddressInductive'
<1>0. /\ clock' = clock /\ clock \in Nat
      /\ entry \in [Attempts -> EntryType] /\ \A b \in Attempts \ {a} : entry'[b] = entry[b]
      /\ guesses' = guesses \/ \E m : guesses' = Append(guesses, [at |-> clock, who |-> m])
      /\ byIp \in Cell
  BY EntryFacts
<1>1. /\ WINDOW_IP \in Nat \ {0} /\ PASS_MAX_IP \in Nat \ {0} /\ Cardinality(Attempts) \in Nat \ {0}
      /\ Overrun(PASS_MAX_IP) = PASS_MAX_IP + Cardinality(Attempts) - 1 /\ Overrun(PASS_MAX_IP) \in Nat \ {0}
  BY ThrottleConstants DEF Overrun
<1> DEFINE P == Cardinality(EntriesAt(Failing))
           Q == Cardinality(EntriesAt(Asking))
           F == Cardinality(EntriesAt({"firstIp"}))
           C == byIp.count
           T == There(byIp.until)
<1>2. /\ P \in Nat /\ Q \in Nat /\ F \in Nat /\ P <= Q /\ F <= Cardinality(Attempts)
      /\ Q' \in Nat /\ Q <= Cardinality(Attempts) /\ Q' <= Cardinality(Attempts)
  <2>1. /\ EntriesAt(Failing) \in SUBSET Attempts
        /\ EntriesAt(Asking) \in SUBSET Attempts /\ EntriesAt(Asking)' \in SUBSET Attempts
        /\ EntriesAt(Failing) \subseteq EntriesAt(Asking)
        /\ EntriesAt({"firstIp"}) \in SUBSET Attempts
    BY DEF EntriesAt, Failing, Asking
  <2>2. IsFiniteSet(EntriesAt(Asking))
    BY <2>1, AttemptsFinite
  <2>3. P <= Q
    BY <2>1, <2>2, FS_Subset
  <2> QED BY <2>1, <2>3, EntriesCounted
<1>3. /\ C \in Nat /\ byIp.until \in Nat /\ T \in BOOLEAN
  BY <1>0 DEF Cell, There
<1>4. /\ byIp.until <= clock + WINDOW_IP /\ (T <=> clock < byIp.until)
      /\ T => C >= 1 /\ C + Q <= Overrun(PASS_MAX_IP)
  BY DEF AddressInductive, There
<1>5. /\ P' = P + (IF entry'[a].step \in Failing THEN 1 ELSE 0) - (IF entry[a].step \in Failing THEN 1 ELSE 0)
      /\ Q' = Q + (IF entry'[a].step \in Asking THEN 1 ELSE 0) - (IF entry[a].step \in Asking THEN 1 ELSE 0)
      /\ F' = F + (IF entry'[a].step \in {"firstIp"} THEN 1 ELSE 0)
                - (IF entry[a].step \in {"firstIp"} THEN 1 ELSE 0)
  BY <1>0, EntryMoves
<1>6. ASSUME NEW from \in Current(WINDOW_IP)
      PROVE  /\ from \in Nat /\ from <= clock /\ clock < from + WINDOW_IP
             /\ Cardinality(GuessesIn(from, WINDOW_IP)) \in Int
             /\ (from + WINDOW_IP <= byIp.until) \in BOOLEAN
             /\ Budget(Cardinality(GuessesIn(from, WINDOW_IP)), T, from + WINDOW_IP <= byIp.until, C, P, F,
                       Overrun(PASS_MAX_IP))
             /\ guesses' = guesses => GuessesIn(from, WINDOW_IP)' = GuessesIn(from, WINDOW_IP)
  <2>1. from \in Nat /\ from <= clock /\ clock < from + WINDOW_IP
    BY <1>0, <1>6 DEF Current
  <2>2. AddressBudget(from)
    BY <1>6 DEF AddressInductive
  <2>3. /\ Cardinality(GuessesIn(from, WINDOW_IP)) \in Nat
        /\ guesses' = guesses => GuessesIn(from, WINDOW_IP)' = GuessesIn(from, WINDOW_IP)
    BY <1>1, <2>1, AddressCounts
  <2> QED BY <2>1, <2>2, <2>3 DEF AddressBudget
\* The counter of the address and the attempts that raise it stay as they are.
<1>7. ASSUME byIp' = byIp, P' = P, F' = F, guesses' = guesses, T => C + Q' <= Overrun(PASS_MAX_IP)
      PROVE  AddressInductive'
  <2>1. \A from \in Current(WINDOW_IP) : AddressBudget(from)'
    BY <1>6, <1>7, <1>0 DEF AddressBudget, There
  <2>2. /\ byIp'.until <= clock + WINDOW_IP
        /\ clock < byIp'.until => byIp'.count >= 1 /\ byIp'.count + Q' <= Overrun(PASS_MAX_IP)
    BY <1>4, <1>7
  <2> QED BY <1>0, <2>1, <2>2, AddressKeeps
<1>8. ASSUME NEW m \in Callers, lobby_view(a, m) PROVE AddressInductive'
  <2>1. /\ entry[a].step = "idle" /\ entry'[a].step = "asked" /\ byIp' = byIp /\ guesses' = guesses
        /\ ~Full(byIp, PASS_MAX_IP)
    BY <1>8, <1>0 DEF lobby_view
  <2>2. P' = P /\ F' = F
    BY <1>2, <1>5, <2>1 DEF Failing
  <2>3. T => C + Q' <= Overrun(PASS_MAX_IP)
    <3>1. T => C < PASS_MAX_IP
      BY <1>1, <1>3, <2>1 DEF Full
    <3> QED BY <1>1, <1>2, <1>3, <3>1
  <2> QED BY <1>7, <2>1, <2>2, <2>3
<1>9. CASE JoinUnasked(a) \/ JoinRight(a)
  <2>1. /\ entry[a].step = "asked" /\ entry'[a].step = "idle" /\ byIp' = byIp /\ guesses' = guesses
    BY <1>9, <1>0 DEF JoinUnasked, JoinRight, MayGuess, Step
  <2>2. P' = P /\ F' = F /\ Q' = Q - 1
    BY <1>2, <1>5, <2>1 DEF Failing, Asking
  <2>3. T => C + Q' <= Overrun(PASS_MAX_IP)
    BY <1>1, <1>2, <1>3, <1>4, <2>2
  <2> QED BY <1>7, <2>1, <2>2, <2>3
<1>10. CASE JoinWrong(a)
  <2>1. /\ entry[a].step = "asked" /\ entry'[a].step = "wrong" /\ byIp' = byIp
        /\ guesses' = Append(guesses, [at |-> clock, who |-> entry[a].who])
    BY <1>10, <1>0 DEF JoinWrong, MayGuess, Step
  <2>2. P' = P + 1 /\ F' = F /\ Q' = Q
    BY <1>2, <1>5, <2>1 DEF Failing, Asking
  <2>3. ASSUME NEW from \in Current(WINDOW_IP) PROVE AddressBudget(from)'
    <3> DEFINE N == Cardinality(GuessesIn(from, WINDOW_IP))
               R == from + WINDOW_IP <= byIp.until
    <3>1. /\ N \in Int /\ R \in BOOLEAN /\ Budget(N, T, R, C, P, F, Overrun(PASS_MAX_IP))
          /\ from \in Nat /\ from <= clock /\ clock < from + WINDOW_IP
      BY <1>6
    <3>2. Cardinality(GuessesIn(from, WINDOW_IP)') = N + 1
      BY <1>1, <2>1, <3>1, AddressCounts
    <3>3. Budget(N + 1, T, R, C, P + 1, F, Overrun(PASS_MAX_IP))
      <4>1. P \in Int /\ F \in Int /\ C \in Int /\ Overrun(PASS_MAX_IP) \in Int
        BY <1>1, <1>2, <1>3
      <4> HIDE DEF N, R, T, P, F, C
      <4> QED BY <1>3, <3>1, <4>1, BudgetGrows
    <3> QED BY <2>1, <2>2, <3>2, <3>3, <1>0 DEF AddressBudget, There
  <2>4. /\ byIp'.until <= clock + WINDOW_IP
        /\ clock < byIp'.until => byIp'.count >= 1 /\ byIp'.count + Q' <= Overrun(PASS_MAX_IP)
    BY <1>4, <2>1, <2>2
  <2> QED BY <1>0, <2>3, <2>4, AddressKeeps
<1>11. CASE register_failed_password(a)
  <2>1. /\ entry[a].step \in {"wrong", "first"} /\ entry'[a].step \in {"counted", "first"}
        /\ byIp' = byIp /\ guesses' = guesses
    BY <1>11, <1>0 DEF register_failed_password, Step
  <2>2. P' = P /\ F' = F /\ Q' = Q
    BY <1>2, <1>5, <2>1 DEF Failing, Asking
  <2> QED BY <1>4, <1>7, <2>1, <2>2
<1>12. CASE register_failed_password_ip(a) /\ entry[a].step = "counted" /\ T
  <2>1. /\ entry'[a].step = "idle" /\ guesses' = guesses
        /\ byIp' = [count |-> C + 1, until |-> byIp.until]
    BY <1>12, <1>0 DEF register_failed_password_ip, Step, OneMore
  <2>2. P' = P - 1 /\ F' = F /\ Q' = Q - 1
    BY <1>2, <1>5, <1>12, <2>1 DEF Failing, Asking
  <2>3. ASSUME NEW from \in Current(WINDOW_IP) PROVE AddressBudget(from)'
    <3> DEFINE N == Cardinality(GuessesIn(from, WINDOW_IP))
               R == from + WINDOW_IP <= byIp.until
    <3>1. /\ N \in Int /\ R \in BOOLEAN /\ Budget(N, T, R, C, P, F, Overrun(PASS_MAX_IP))
          /\ GuessesIn(from, WINDOW_IP)' = GuessesIn(from, WINDOW_IP)
      BY <1>6, <2>1
    <3>2. Budget(N, T, R, C + 1, P - 1, F, Overrun(PASS_MAX_IP))
      <4>1. P \in Int /\ F \in Int /\ C \in Int /\ Overrun(PASS_MAX_IP) \in Int
        BY <1>1, <1>2, <1>3
      <4> HIDE DEF N, R, T, P, F, C
      <4> QED BY <1>3, <1>12, <3>1, <4>1, BudgetGrows
    <3> QED BY <2>1, <2>2, <3>1, <3>2, <1>0 DEF AddressBudget, There
  <2>4. /\ byIp'.until <= clock + WINDOW_IP
        /\ clock < byIp'.until => byIp'.count >= 1 /\ byIp'.count + Q' <= Overrun(PASS_MAX_IP)
    BY <1>1, <1>2, <1>3, <1>4, <1>12, <2>1, <2>2
  <2> QED BY <1>0, <2>1, <2>3, <2>4, AddressKeeps
<1>13. CASE register_failed_password_ip(a) /\ entry[a].step = "counted" /\ ~T
  <2>1. /\ entry'[a].step = "firstIp" /\ guesses' = guesses /\ byIp' = byIp
    BY <1>13, <1>0 DEF register_failed_password_ip, Step
  <2>2. P' = P /\ F' = F + 1 /\ Q' = Q
    BY <1>2, <1>5, <1>13, <2>1 DEF Failing, Asking
  <2>3. ASSUME NEW from \in Current(WINDOW_IP) PROVE AddressBudget(from)'
    <3> DEFINE N == Cardinality(GuessesIn(from, WINDOW_IP))
               R == from + WINDOW_IP <= byIp.until
    <3>1. /\ N \in Int /\ R \in BOOLEAN /\ Budget(N, T, R, C, P, F, Overrun(PASS_MAX_IP))
          /\ GuessesIn(from, WINDOW_IP)' = GuessesIn(from, WINDOW_IP)
      BY <1>6, <2>1
    <3>2. Budget(N, T, R, C, P, F + 1, Overrun(PASS_MAX_IP))
      <4>1. P \in Int /\ F \in Int /\ F + 1 \in Int /\ C \in Int /\ Overrun(PASS_MAX_IP) \in Int
        BY <1>1, <1>2, <1>3
      <4> HIDE DEF N, R, T, P, F, C
      <4>2. \A x \in Int : Budget(N, T, R, C, P, x, Overrun(PASS_MAX_IP))
        <5>1. T = FALSE
          BY <1>3, <1>13
        <5> QED BY <5>1, <3>1, <4>1, BudgetAny
      <4> QED BY <4>1, <4>2
    <3> QED BY <2>1, <2>2, <3>1, <3>2, <1>0 DEF AddressBudget, There
  <2>4. /\ byIp'.until <= clock + WINDOW_IP
        /\ clock < byIp'.until => byIp'.count >= 1 /\ byIp'.count + Q' <= Overrun(PASS_MAX_IP)
    BY <1>4, <2>1, <2>2
  <2> QED BY <1>0, <2>1, <2>3, <2>4, AddressKeeps
<1>14. CASE register_failed_password_ip(a) /\ entry[a].step = "firstIp"
  <2>1. /\ entry'[a].step = "idle" /\ guesses' = guesses
        /\ byIp' = [count |-> 1, until |-> clock + WINDOW_IP]
    BY <1>14, <1>0 DEF register_failed_password_ip, Step
  <2>2. P' = P - 1 /\ F' = F - 1 /\ Q' = Q - 1
    BY <1>2, <1>5, <1>14, <2>1 DEF Failing, Asking
  <2>3. ASSUME NEW from \in Current(WINDOW_IP) PROVE AddressBudget(from)'
    <3> DEFINE N == Cardinality(GuessesIn(from, WINDOW_IP))
               R == from + WINDOW_IP <= byIp.until
    <3>1. /\ N \in Int /\ R \in BOOLEAN /\ Budget(N, T, R, C, P, F, Overrun(PASS_MAX_IP))
          /\ GuessesIn(from, WINDOW_IP)' = GuessesIn(from, WINDOW_IP)
          /\ from \in Nat /\ from <= clock /\ clock < from + WINDOW_IP
      BY <1>6, <2>1
    <3>2. Budget(N, TRUE, TRUE, 1, P - 1, F - 1, Overrun(PASS_MAX_IP))
      <4>1. P \in Int /\ F \in Int /\ C \in Int /\ Overrun(PASS_MAX_IP) \in Nat /\ F <= Cardinality(Attempts)
            /\ (T => C <= Overrun(PASS_MAX_IP))
        BY <1>1, <1>2, <1>3, <1>4
      <4> HIDE DEF N, R, T, P, F, C
      <4> QED BY <1>3, <3>1, <4>1, BudgetSet
    <3>3. There(byIp.until)' = TRUE /\ (from + WINDOW_IP <= byIp'.until) = TRUE
      BY <1>0, <1>1, <2>1, <3>1 DEF There
    <3>4. C' = 1 /\ Cardinality(GuessesIn(from, WINDOW_IP))' = N
      BY <2>1, <3>1
    <3>5. Budget(N, There(byIp.until)', from + WINDOW_IP <= byIp'.until, C', P', F', Overrun(PASS_MAX_IP))
      BY <2>2, <3>2, <3>3, <3>4
    <3> QED BY <3>4, <3>5 DEF AddressBudget
  <2>4. /\ byIp'.until <= clock + WINDOW_IP
        /\ clock < byIp'.until => byIp'.count >= 1 /\ byIp'.count + Q' <= Overrun(PASS_MAX_IP)
    BY <1>0, <1>1, <1>2, <2>1, <2>2
  <2> QED BY <1>0, <2>1, <2>3, <2>4, AddressKeeps
<1>15. register_failed_password_ip(a) => entry[a].step \in {"counted", "firstIp"}
  BY DEF register_failed_password_ip
<1> QED BY <1>8, <1>9, <1>10, <1>11, <1>12, <1>13, <1>14, <1>15 DEF EntryNext

LEMMA AddressInit == ThrottleInit => AddressInductive
<1> SUFFICES ASSUME ThrottleInit PROVE AddressInductive
  OBVIOUS
<1>1. /\ clock = 1 /\ guesses = <<>> /\ byIp.count = 0 /\ byIp.until = 0
      /\ \A a \in Attempts : entry[a].step = "idle"
  BY DEF ThrottleInit, NoCount
<1>2. \A from : GuessesIn(from, WINDOW_IP) = {}
  BY <1>1 DEF GuessesIn
<1>3. EntriesAt(Failing) = {}
  BY <1>1 DEF EntriesAt, Failing
<1>4. /\ \A from : Cardinality(GuessesIn(from, WINDOW_IP)) = 0
      /\ Cardinality(EntriesAt(Failing)) = 0
  BY <1>2, <1>3, FS_EmptySet
<1>5. ~There(byIp.until) /\ byIp.until <= clock + WINDOW_IP
  BY <1>1, ThrottleConstants DEF There
<1>6. \A from : AddressBudget(from)
  BY <1>4, <1>5, ThrottleConstants DEF AddressBudget, Budget
<1>7. 0 < Counters * Overrun(PASS_MAX_IP)
  BY ThrottleConstants DEF Counters
<1> QED BY <1>1, <1>4, <1>5, <1>6, <1>7 DEF AddressInductive

LEMMA AddressTick ==
  ASSUME ThrottleTypeOK, ThrottleTypeOK', AddressInductive, Tick
  PROVE  AddressInductive'
<1>0. /\ clock \in Nat /\ WINDOW_IP \in Nat \ {0} /\ Overrun(PASS_MAX_IP) \in Nat \ {0}
      /\ guesses \in Seq([at : Nat, who : Callers]) /\ byIp.count \in Nat /\ byIp.until \in Nat
  BY ThrottleConstants, CellFacts DEF ThrottleTypeOK
<1>1. clock' = clock + 1 /\ UNCHANGED <<entry, byIp, guesses>>
  BY DEF Tick, entryVars
<1>2. \A k \in DOMAIN guesses : guesses[k].at <= clock
  BY DEF AddressInductive
<1>3. \A k \in DOMAIN guesses : guesses[k].at <= clock + 1
  <2>1. DOMAIN guesses = 1..Len(guesses)
    BY <1>0
  <2>2. \A k \in 1..Len(guesses) : guesses[k] \in [at : Nat, who : Callers]
    BY <1>0, ElementOfSeq
  <2> QED BY <1>0, <1>2, <2>1, <2>2
<1>4. /\ \A from : GuessesIn(from, WINDOW_IP)' = GuessesIn(from, WINDOW_IP)
      /\ \A S : EntriesAt(S)' = EntriesAt(S)
  BY <1>1 DEF GuessesIn, EntriesAt
<1> DEFINE P == Cardinality(EntriesAt(Failing))
           Q == Cardinality(EntriesAt(Asking))
           F == Cardinality(EntriesAt({"firstIp"}))
           C == byIp.count
           T == clock < byIp.until
           U == clock + 1 < byIp.until
<1>5. P \in Nat /\ F \in Nat /\ C \in Nat /\ T \in BOOLEAN /\ U \in BOOLEAN /\ (U => T)
  <2>1. EntriesAt(Failing) \in SUBSET Attempts /\ EntriesAt({"firstIp"}) \in SUBSET Attempts
    BY DEF EntriesAt
  <2> QED BY <1>0, <2>1, EntriesCounted
<1>6. /\ byIp.until <= clock + WINDOW_IP /\ (T => C >= 1 /\ C + Q <= Overrun(PASS_MAX_IP))
      /\ T => C <= Overrun(PASS_MAX_IP)
  <2>1. /\ byIp.until <= clock + WINDOW_IP /\ (T => C >= 1 /\ C + Q <= Overrun(PASS_MAX_IP))
    BY DEF AddressInductive, There
  <2>2. Q \in Nat
    <3>1. EntriesAt(Asking) \in SUBSET Attempts
      BY DEF EntriesAt
    <3> QED BY <3>1, EntriesCounted
  <2> QED BY <1>0, <2>1, <2>2
<1>7. ASSUME NEW from \in Current(WINDOW_IP)' PROVE AddressBudget(from)'
  <2> DEFINE N == Cardinality(GuessesIn(from, WINDOW_IP))
             R == from + WINDOW_IP <= byIp.until
  <2>1. /\ from \in Nat /\ from <= clock + 1 /\ clock + 1 < from + WINDOW_IP
        /\ R \in BOOLEAN /\ (R => U)
    BY <1>0, <1>1, <1>7 DEF Current
  <2>2. Budget(N, U, R, C, P, F, Overrun(PASS_MAX_IP))
    <3>1. CASE from = clock + 1
      <4>1. N = 0
        BY <3>1, <1>0, <1>2, NoGuessYet
      <4>2. ~R
        BY <1>0, <1>6, <3>1
      <4> HIDE DEF N, R, T, U, P, F, C
      <4> QED BY <1>0, <1>5, <1>6, <4>1, <4>2 DEF Budget
    <3>2. CASE from # clock + 1
      <4>1. from \in Current(WINDOW_IP)
        BY <1>0, <2>1, <3>2 DEF Current
      <4>2. Budget(N, T, R, C, P, F, Overrun(PASS_MAX_IP))
        BY <4>1 DEF AddressInductive, AddressBudget, There
      <4>3. N \in Nat
        BY <1>0, <2>1, <3>2, AddressCounts
      <4> HIDE DEF N, R, T, U, P, F, C
      <4> QED BY <1>0, <1>5, <1>6, <2>1, <4>2, <4>3 DEF Budget
    <3> QED BY <3>1, <3>2
  <2> QED BY <1>1, <1>4, <2>2 DEF AddressBudget, There
<1>8. ASSUME NEW from \in 0..(clock + 1)
      PROVE  Cardinality(GuessesIn(from, WINDOW_IP)) < Counters * Overrun(PASS_MAX_IP)
  <2>1. CASE from \in 0..clock
    BY <2>1 DEF AddressInductive
  <2>2. CASE from = clock + 1
    <3>1. Cardinality(GuessesIn(from, WINDOW_IP)) = 0
      BY <2>2, <1>0, <1>2, NoGuessYet
    <3>2. 0 < Counters * Overrun(PASS_MAX_IP)
      BY ThrottleConstants DEF Counters
    <3> QED BY <3>1, <3>2
  <2> QED BY <1>0, <2>1, <2>2
<1>9. /\ byIp.until <= (clock + 1) + WINDOW_IP
      /\ U => C >= 1 /\ C + Q <= Overrun(PASS_MAX_IP)
  BY <1>0, <1>5, <1>6
<1> QED BY <1>1, <1>3, <1>4, <1>7, <1>8, <1>9 DEF AddressInductive, There

LEMMA AddressSame ==
  ASSUME AddressInductive, UNCHANGED <<clock, entryVars>>
  PROVE  AddressInductive'
<1>1. UNCHANGED <<clock, entry, byIp, guesses>>
  BY DEF entryVars
<1>2. /\ \A S : EntriesAt(S)' = EntriesAt(S)
      /\ \A from : GuessesIn(from, WINDOW_IP)' = GuessesIn(from, WINDOW_IP)
      /\ Current(WINDOW_IP)' = Current(WINDOW_IP)
  BY <1>1 DEF EntriesAt, GuessesIn, Current
<1>3. \A from : AddressBudget(from)' <=> AddressBudget(from)
  BY <1>1, <1>2 DEF AddressBudget, There
<1> QED BY <1>1, <1>2, <1>3 DEF AddressInductive, There


-----------------------------------------------------------------------------
(* The messages of one socket.                                             *)

LEMMA SocketFacts ==
  ASSUME ThrottleTypeOK
  PROVE  /\ stamps \in Seq(Nat) /\ passed \in Seq(Nat) /\ clock \in Nat
         /\ Len(stamps) \in Nat /\ Len(passed) \in Nat /\ DOMAIN passed = 1..Len(passed)
         /\ LIMIT \in Nat \ {0} /\ WINDOW \in Nat \ {0}
         /\ \A j \in 1..Len(passed) : passed[j] \in Nat
<1>1. stamps \in Seq(Nat) /\ passed \in Seq(Nat) /\ clock \in Nat
  BY DEF ThrottleTypeOK
<1>2. /\ Len(stamps) \in Nat /\ Len(passed) \in Nat /\ DOMAIN passed = 1..Len(passed)
      /\ \A j \in 1..Len(passed) : passed[j] \in Nat
  BY <1>1, ElementOfSeq
<1> QED BY <1>1, <1>2, ThrottleConstants

LEMMA SocketAllow ==
  ASSUME ThrottleTypeOK, SocketInductive, allow
  PROVE  SocketInductive'
<1> DEFINE S == Len(stamps)
           M == Len(passed)
           d == M - S
<1>1. /\ stamps \in Seq(Nat) /\ passed \in Seq(Nat) /\ clock \in Nat /\ S \in Nat /\ M \in Nat
      /\ LIMIT \in Nat \ {0} /\ WINDOW \in Nat \ {0}
      /\ \A j \in 1..M : passed[j] \in Nat
  BY SocketFacts
<1>2. /\ S <= M /\ S <= LIMIT
      /\ \A i \in 1..S : stamps[i] = passed[d + i]
      /\ \A j \in 1..d : passed[j] + WINDOW < clock
      /\ \A j \in 1..M : passed[j] <= clock
      /\ \A i, j \in 1..M : i <= j => passed[i] <= passed[j]
      /\ \A j \in 1..M : j + LIMIT <= M => passed[j] + WINDOW < passed[j + LIMIT]
  BY DEF SocketInductive
<1>3. clock' = clock
  BY DEF allow
<1>4. PICK k \in 1..(S + 1) :
        /\ \A j \in 1..(k - 1) : stamps[j] + WINDOW < clock
        /\ Recent(stamps) = SubSeq(stamps, k, S)
  BY RecentIs
<1> DEFINE R == Recent(stamps)
           e == d + k - 1
<1>5. k \in Nat /\ k >= 1 /\ k <= S + 1 /\ e \in Nat /\ e = M - (S - k + 1)
  BY <1>1, <1>2
<1>6. /\ R \in Seq(Nat) /\ Len(R) = S - k + 1
      /\ \A i \in 1..Len(R) : R[i] = stamps[k - 1 + i]
  <2>1. \A i \in k..S : stamps[i] \in Nat
    BY <1>1, <1>5
  <2>2. R = SubSeq(stamps, k, S)
    BY <1>4
  <2> HIDE DEF R
  <2> QED BY <1>1, <1>5, <2>1, <2>2
<1>7. \A i \in 1..Len(R) : R[i] = passed[e + i]
  <2> TAKE i \in 1..Len(R)
  <2>1. k - 1 + i \in 1..S /\ d + (k - 1 + i) = e + i
    BY <1>1, <1>5, <1>6
  <2> QED BY <1>2, <1>6, <2>1
<1>8. \A j \in 1..e : passed[j] + WINDOW < clock
  <2> TAKE j \in 1..e
  <2>1. CASE j <= d
    BY <1>1, <1>2, <2>1
  <2>2. CASE j > d
    <3>1. j - d \in 1..(k - 1) /\ j - d \in 1..S /\ d + (j - d) = j
      BY <1>1, <1>2, <1>5, <2>2
    <3>2. stamps[j - d] = passed[j]
      BY <1>2, <3>1
    <3> QED BY <1>4, <3>1, <3>2
  <2> QED BY <1>1, <1>2, <2>1, <2>2
<1>11. e \in Nat /\ Len(R) \in Nat /\ e + Len(R) = M /\ Len(R) <= LIMIT
  BY <1>1, <1>2, <1>5, <1>6
<1> HIDE DEF e
<1>9. CASE Len(R) >= LIMIT
  <2>1. stamps' = R /\ passed' = passed
    BY <1>9 DEF allow
  <2> HIDE DEF R
  <2>2. Len(passed') - Len(stamps') = e
    BY <1>1, <1>11, <2>1
  <2>3. Len(stamps') <= Len(passed') /\ Len(stamps') <= LIMIT
    BY <1>1, <1>11, <2>1
  <2> QED BY <1>2, <1>3, <1>7, <1>8, <2>1, <2>2, <2>3 DEF SocketInductive
<1>10. CASE ~(Len(R) >= LIMIT)
  <2>1. stamps' = Append(R, clock) /\ passed' = Append(passed, clock)
    BY <1>10 DEF allow
  <2> HIDE DEF R
  <2>2. /\ Len(stamps') = Len(R) + 1 /\ Len(passed') = M + 1 /\ Len(R) \in Nat
        /\ \A i \in 1..Len(R) : stamps'[i] = R[i]
        /\ stamps'[Len(R) + 1] = clock /\ passed'[M + 1] = clock
        /\ \A j \in 1..M : passed'[j] = passed[j]
    <3>1. /\ Len(Append(R, clock)) = Len(R) + 1 /\ Append(R, clock)[Len(R) + 1] = clock
          /\ \A i \in 1..Len(R) : Append(R, clock)[i] = R[i]
      <4>1. R \in Seq(Nat) /\ clock \in Nat
        BY <1>1, <1>6
      <4> QED BY <4>1, AppendProperties
    <3>2. /\ Len(Append(passed, clock)) = M + 1 /\ Append(passed, clock)[M + 1] = clock
          /\ \A j \in 1..M : Append(passed, clock)[j] = passed[j]
      BY <1>1, AppendProperties
    <3> QED BY <1>11, <2>1, <3>1, <3>2
  <2>3. Len(passed') - Len(stamps') = e
    <3> HIDE DEF M, S
    <3> QED BY <1>1, <1>11, <2>2
  <2>4. Len(stamps') <= Len(passed') /\ Len(stamps') <= LIMIT
    BY <1>1, <1>11, <1>10, <2>2
  <2>5. \A i \in 1..Len(stamps') : stamps'[i] = passed'[e + i]
    <3> TAKE i \in 1..Len(stamps')
    <3>0. i \in Nat /\ i <= Len(R) + 1
      BY <2>2
    <3>1. CASE i <= Len(R)
      <4>1. i \in 1..Len(R) /\ e + i \in 1..M
        BY <1>1, <1>11, <2>2, <3>1
      <4> QED BY <1>7, <2>2, <4>1
    <3>2. CASE i = Len(R) + 1
      <4>1. e + i = M + 1
        BY <1>11, <2>2, <3>2
      <4> QED BY <2>2, <3>2, <4>1
    <3> QED BY <1>11, <3>0, <3>1, <3>2
  <2>6. \A j \in 1..e : passed'[j] + WINDOW < clock
    <3> TAKE j \in 1..e
    <3>1. j \in 1..M
      BY <1>1, <1>11
    <3> QED BY <1>8, <2>2, <3>1
  <2>7. \A j \in 1..Len(passed') : passed'[j] <= clock
    <3> TAKE j \in 1..Len(passed')
    <3>1. j \in 1..M \/ j = M + 1
      BY <1>1, <2>2
    <3> QED BY <1>1, <1>2, <2>2, <3>1
  <2>8. \A i, j \in 1..Len(passed') : i <= j => passed'[i] <= passed'[j]
    <3> TAKE i, j \in 1..Len(passed')
    <3>1. CASE j <= M
      <4> SUFFICES ASSUME i <= j PROVE passed'[i] <= passed'[j]
        OBVIOUS
      <4>1. i \in 1..M /\ j \in 1..M
        BY <1>1, <2>2, <3>1
      <4> QED BY <1>2, <2>2, <4>1
    <3>2. CASE j = M + 1
      BY <2>2, <2>7, <3>2
    <3>3. j \in 1..(M + 1)
      BY <2>2
    <3>4. j <= M \/ j = M + 1
      BY <1>1, <3>3
    <3> QED BY <3>1, <3>2, <3>4
  <2>9. \A j \in 1..Len(passed') : j + LIMIT <= Len(passed') => passed'[j] + WINDOW < passed'[j + LIMIT]
    <3> SUFFICES ASSUME NEW j \in 1..Len(passed'), j + LIMIT <= Len(passed')
                 PROVE  passed'[j] + WINDOW < passed'[j + LIMIT]
      OBVIOUS
    <3>1. CASE j + LIMIT <= M
      <4>1. j \in 1..M /\ j + LIMIT \in 1..M
        BY <1>1, <2>2, <3>1
      <4> QED BY <1>2, <2>2, <3>1, <4>1
    <3>2. CASE j + LIMIT = M + 1
      <4>1. j \in 1..e
        BY <1>1, <1>11, <1>10, <2>2, <3>2
      <4> QED BY <2>2, <2>6, <3>2, <4>1
    <3>3. j + LIMIT \in Nat /\ j + LIMIT <= M + 1
      BY <1>1, <2>2
    <3>4. j + LIMIT <= M \/ j + LIMIT = M + 1
      <4> HIDE DEF M
      <4> QED BY <1>1, <3>3
    <3> QED BY <3>1, <3>2, <3>4
  <2> QED BY <1>3, <2>3, <2>4, <2>5, <2>6, <2>7, <2>8, <2>9 DEF SocketInductive
<1> QED BY <1>9, <1>10

LEMMA SocketTick ==
  ASSUME ThrottleTypeOK, SocketInductive, Tick \/ UNCHANGED <<clock, socketVars>>
  PROVE  SocketInductive'
<1>1. /\ stamps \in Seq(Nat) /\ passed \in Seq(Nat) /\ clock \in Nat /\ WINDOW \in Nat
      /\ Len(stamps) \in Nat /\ Len(passed) \in Nat /\ \A j \in 1..Len(passed) : passed[j] \in Nat
  BY SocketFacts
<1>2. UNCHANGED <<stamps, passed>> /\ (clock' = clock \/ clock' = clock + 1)
  BY DEF Tick, socketVars
<1>3. /\ \A j \in 1..(Len(passed) - Len(stamps)) : passed[j] + WINDOW < clock'
      /\ \A j \in 1..Len(passed) : passed[j] <= clock'
  <2>1. ASSUME NEW j \in 1..(Len(passed) - Len(stamps)) PROVE passed[j] + WINDOW < clock'
    <3>1. passed[j] + WINDOW < clock /\ j \in 1..Len(passed)
      BY <1>1 DEF SocketInductive
    <3> QED BY <1>1, <1>2, <3>1
  <2>2. ASSUME NEW j \in 1..Len(passed) PROVE passed[j] <= clock'
    <3>1. passed[j] <= clock
      BY DEF SocketInductive
    <3> QED BY <1>1, <1>2, <3>1
  <2> QED BY <2>1, <2>2
<1> QED BY <1>2, <1>3 DEF SocketInductive

LEMMA SocketInit == ThrottleInit => SocketInductive
BY ThrottleConstants DEF ThrottleInit, SocketInductive

\* The messages of a window are at most LIMIT in a row.
LEMMA SocketHolds ==
  ASSUME ThrottleTypeOK, SocketInductive, NEW from \in Nat
  PROVE  Cardinality({k \in DOMAIN passed : from <= passed[k] /\ passed[k] <= from + WINDOW}) <= LIMIT
<1> DEFINE W == {k \in DOMAIN passed : from <= passed[k] /\ passed[k] <= from + WINDOW}
<1>1. /\ passed \in Seq(Nat) /\ DOMAIN passed = 1..Len(passed) /\ Len(passed) \in Nat
      /\ LIMIT \in Nat \ {0} /\ WINDOW \in Nat /\ \A j \in 1..Len(passed) : passed[j] \in Nat
  BY SocketFacts
<1>2. W \subseteq Nat /\ \A k \in W : k \in 1..Len(passed) /\ from <= passed[k] /\ passed[k] <= from + WINDOW
  BY <1>1
<1>3. CASE W = {}
  <2>1. Cardinality({}) = 0
    BY FS_EmptySet
  <2> HIDE DEF W
  <2>2. Cardinality(W) <= LIMIT
    BY <1>1, <1>3, <2>1
  <2> QED BY <2>2 DEF W
<1>4. CASE W # {}
  <2>1. PICK m \in W : \A k \in W : m <= k
    BY <1>2, <1>4, LeastNumber
  <2>2. \A k \in W : k <= m + LIMIT - 1
    <3> SUFFICES ASSUME NEW k \in W, k >= m + LIMIT
                 PROVE  FALSE
      BY <1>1, <1>2, <2>1
    <3>1. /\ m \in 1..Len(passed) /\ k \in 1..Len(passed) /\ m + LIMIT \in 1..Len(passed)
          /\ from <= passed[m] /\ passed[k] <= from + WINDOW
      BY <1>1, <1>2, <2>1
    <3>2. passed[m + LIMIT] <= passed[k]
      BY <3>1 DEF SocketInductive
    <3>3. passed[m] + WINDOW < passed[m + LIMIT]
      BY <1>1, <3>1 DEF SocketInductive
    <3>4. passed[m] \in Nat /\ passed[k] \in Nat /\ passed[m + LIMIT] \in Nat /\ WINDOW \in Nat
      BY <1>1, <3>1
    <3> QED BY <3>1, <3>2, <3>3, <3>4
  <2>3. m \in Nat /\ m + LIMIT - 1 \in Nat /\ W \in SUBSET (m..(m + LIMIT - 1))
    BY <1>1, <1>2, <2>1, <2>2
  <2> HIDE DEF W
  <2>4. IsFiniteSet(m..(m + LIMIT - 1)) /\ Cardinality(m..(m + LIMIT - 1)) = LIMIT
    <3> DEFINE b == m + LIMIT - 1
    <3>1. m <= b /\ b - m + 1 = LIMIT /\ b \in Int /\ m \in Int
      BY <1>1, <2>3
    <3> HIDE DEF b
    <3>2. /\ IsFiniteSet(m..b) /\ Cardinality(m..b) = (IF m > b THEN 0 ELSE b - m + 1)
      BY <3>1, FS_Interval
    <3>3. /\ IsFiniteSet(m..b) /\ Cardinality(m..b) = LIMIT
      BY <3>1, <3>2
    <3> QED BY <3>3 DEF b
  <2>5. Cardinality(W) <= Cardinality(m..(m + LIMIT - 1))
    BY <2>3, <2>4, FS_Subset
  <2> QED BY <2>4, <2>5 DEF W
<1> QED BY <1>3, <1>4

-----------------------------------------------------------------------------
LEMMA ThrottleInductiveStep ==
  ASSUME ThrottleInductive, [ThrottleNext]_throttleVars
  PROVE  ThrottleInductive'
<1>1. ThrottleTypeOK /\ ThrottleTypeOK' /\ LoginInductive /\ NameInductive /\ AddressInductive /\ SocketInductive
  BY ThrottleTypeStep DEF ThrottleInductive
<1>2. CASE UNCHANGED throttleVars
  <2>1. UNCHANGED <<clock, loginVars>> /\ UNCHANGED <<clock, entryVars>> /\ UNCHANGED <<clock, socketVars>>
    BY <1>2 DEF throttleVars
  <2> QED BY <1>1, <2>1, LoginSame, NameSame, AddressSame, SocketTick DEF ThrottleInductive
<1>3. ASSUME NEW a \in Attempts,
             post(a) \/ form_valid(a) \/ form_invalid(a) \/ HitIncr(a) \/ HitSet(a) \/ Block(a)
      PROVE  ThrottleInductive'
  <2>1. UNCHANGED <<clock, entryVars>> /\ UNCHANGED <<clock, socketVars>>
    BY <1>3 DEF post, form_valid, form_invalid, HitIncr, HitSet, Block
  <2>2. LoginInductive'
    BY <1>1, <1>3, LoginStep
  <2> QED BY <1>1, <2>1, <2>2, NameSame, AddressSame, SocketTick DEF ThrottleInductive
<1>4. ASSUME NEW a \in Attempts, EntryNext(a)
      PROVE  ThrottleInductive'
  <2>1. UNCHANGED <<clock, loginVars>> /\ UNCHANGED <<clock, socketVars>>
    BY <1>4 DEF EntryNext, lobby_view, JoinUnasked, JoinWrong, JoinRight, register_failed_password,
                register_failed_password_ip
  <2>2. NameInductive' /\ AddressInductive'
    BY <1>1, <1>4, NameStep, AddressStep
  <2> QED BY <1>1, <2>1, <2>2, LoginSame, SocketTick DEF ThrottleInductive
<1>5. CASE allow
  <2>1. UNCHANGED <<clock, loginVars>> /\ UNCHANGED <<clock, entryVars>>
    BY <1>5 DEF allow
  <2> QED BY <1>1, <1>5, <2>1, LoginSame, NameSame, AddressSame, SocketAllow DEF ThrottleInductive
<1>6. CASE Tick
  BY <1>1, <1>6, LoginTick, NameTick, AddressTick, SocketTick DEF ThrottleInductive
<1> QED BY <1>2, <1>3, <1>4, <1>5, <1>6 DEF ThrottleNext, EntryNext

LEMMA ThrottleInductiveHolds == ThrottleInductive => Throttled
<1> SUFFICES ASSUME ThrottleInductive PROVE Throttled
  OBVIOUS
<1>1. ThrottleTypeOK /\ LoginInductive /\ NameInductive /\ AddressInductive /\ SocketInductive
  BY DEF ThrottleInductive
<1>2. /\ clock \in Nat /\ failures \in Seq(Nat) /\ passed \in Seq(Nat)
      /\ guesses \in Seq([at : Nat, who : Callers])
  BY <1>1 DEF ThrottleTypeOK
<1>3. ASSUME ~cleared, NEW from \in Range(failures)
      PROVE  Cardinality(FailuresIn(from)) < Counters * LOGIN_MAX + Cardinality(Attempts)
  <2>1. PICK k \in DOMAIN failures : from = failures[k]
    BY <1>3 DEF Range
  <2>2. from \in 0..clock
    BY <1>1, <1>2, <2>1 DEF LoginInductive
  <2> QED BY <1>1, <1>3, <2>2 DEF LoginInductive
<1>4. ASSUME NEW g \in Range(guesses)
      PROVE  /\ g.who \notin entered =>
                  Cardinality(GuessesOf(g.who, g.at)) < Counters * Overrun(PASS_MAX)
             /\ Cardinality(GuessesIn(g.at, WINDOW_IP)) < Counters * Overrun(PASS_MAX_IP)
  <2>1. PICK k \in 1..Len(guesses) : g = guesses[k]
    BY <1>2, <1>4 DEF Range
  <2>2. g \in [at : Nat, who : Callers]
    BY <1>2, <2>1, ElementOfSeq
  <2>3. g.at <= clock
    BY <1>1, <1>2, <2>1 DEF NameInductive
  <2>4. g.who \in Callers /\ g.at \in 0..clock
    BY <1>2, <2>2, <2>3
  <2>5. g.who \notin entered => NameOK(g.who)
    BY <1>1, <2>4 DEF NameInductive
  <2> QED BY <1>1, <2>4, <2>5 DEF NameOK, AddressInductive
<1>5. ASSUME NEW from \in Range(passed)
      PROVE  Cardinality({k \in DOMAIN passed : from <= passed[k] /\ passed[k] <= from + WINDOW}) <= LIMIT
  <2>1. from \in Nat
    BY <1>2, <1>5 DEF Range
  <2> QED BY <1>1, <2>1, SocketHolds
<1> QED BY <1>3, <1>4, <1>5 DEF Throttled

LEMMA ThrottleReached == ThrottleSpec => []ThrottleInductive
<1>1. ThrottleInit => ThrottleInductive
  BY ThrottleTypeInit, LoginInit, NameInit, AddressInit, SocketInit DEF ThrottleInductive
<1>2. ThrottleInductive /\ [ThrottleNext]_throttleVars => ThrottleInductive'
  BY ThrottleInductiveStep
<1> QED BY <1>1, <1>2, PTL DEF ThrottleSpec

\* The counters, the stamps and the clock of the brakes keep their types.
THEOREM ThrottleTypeCorrect == ThrottleSpec => []ThrottleTypeOK
<1>1. ThrottleInductive => ThrottleTypeOK
  BY DEF ThrottleInductive
<1> QED BY <1>1, ThrottleReached, PTL

\* However many logins and entries overlap, and however the increments and the resets of
\* the cache fall between one another, every window holds no more failed logins, wrong
\* passwords and messages than the limits and what was under way allow.
THEOREM BrakesHold == ThrottleSpec => []Throttled
BY ThrottleReached, ThrottleInductiveHolds, PTL
=============================================================================
