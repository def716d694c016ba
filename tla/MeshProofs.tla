----------------------------- MODULE MeshProofs -----------------------------
(***************************************************************************)
(* Two peers that are quiet agree, for any number of things to negotiate,  *)
(* of offers that collide, of signals lost and connections broken.         *)
(*                                                                         *)
(* The argument follows the descriptions under way to each side.  An offer *)
(* of the impolite side stays outstanding until it is answered, so one of  *)
(* the polite side that arrives meanwhile is dead; the polite side rolls   *)
(* back, so only its last offer can be accepted.                           *)
(***************************************************************************)
EXTENDS Mesh, TLAPS

\* The fields of a link as the proofs speak of them.
Sig(p, k)    == peer[p].sig[k]
OutOf(p, k)  == peer[p].out[k]
DoneOf(p, k) == peer[p].done[k]
GotOf(p, k)  == peer[p].got[k]

\* The signals on their way to p, those waiting for setRemoteDescription first; of the
\* others on the wire the ones for connection k count.
Coming(p, k) == peer[p].todo[k] \o wire[p]

Places(s)          == 1..Len(s)
Offer(s, i, k)     == s[i].pc = k /\ s[i].type = "offer"
Answer(s, i, k)    == s[i].pc = k /\ s[i].type = "answer"
Silent(s, k)       == \A i \in Places(s) : s[i].pc # k

\* No timer runs and nothing was tried.
Untouched(L) == L.ice = "new" /\ ~L.watchdog /\ ~L.recovery /\ ~L.failed

\* Nothing is negotiated that was not added, and without a link nothing at all.
Sane(L) ==
  /\ ~L.link => Untouched(L)
  /\ \A k \in Pc :
       /\ L.done[k] <= L.added[k] /\ L.out[k] <= L.added[k] /\ L.draft[k] <= L.added[k]
       /\ \A i \in 1..Len(L.todo[k]) : L.todo[k][i].pc = k
       /\ ~L.link => L.sig[k] = "stable" /\ L.done[k] = 0 /\ L.out[k] = 0 /\ L.draft[k] = 0

MeshTables ==
  /\ peer \in [Peer -> Link] /\ wire \in [Peer -> Seq(Signal)]
  /\ \A p \in Peer : Sane(peer[p])

\* While the impolite side makes an offer it accepts none.
Making ==
  \A k \in Pc : peer[Higher].draft[k] # 0 =>
    /\ peer[Higher].making /\ Sig(Higher, k) = "stable"
    /\ \A i \in 1..Len(peer[Higher].todo[k]) : peer[Higher].todo[k][i].type # "offer"

\* An offer the impolite side has accepted.
Accepted(k) ==
  (\E i \in 1..Len(peer[Higher].todo[k]) : peer[Higher].todo[k][i].type = "offer") =>
    Sig(Higher, k) = "stable"

\* An answer to the polite side is to its last offer, and comes before anything else.
AnswerToLower(k) ==
  LET s == Coming(Lower, k) IN
  \A i \in Places(s) : Answer(s, i, k) =>
    /\ Sig(Lower, k) = "offering" /\ OutOf(Lower, k) = GotOf(Higher, k)
    /\ s[i].ver = DoneOf(Higher, k) /\ Sig(Higher, k) # "answering"
    /\ \A j \in Places(s) : s[j].pc = k /\ j # i => s[j].type = "offer" /\ i < j
    /\ Silent(Coming(Higher, k), k)

\* An answer to the impolite side is to the offer that is outstanding.
AnswerToHigher(k) ==
  LET s == Coming(Higher, k) IN
  \A i \in Places(s) : Answer(s, i, k) =>
    /\ Sig(Higher, k) = "offering" /\ OutOf(Higher, k) = GotOf(Lower, k)
    /\ s[i].ver = DoneOf(Lower, k) /\ Sig(Lower, k) # "answering"
    /\ \A j \in Places(s) : Answer(s, j, k) => i = j
    /\ Silent(Coming(Lower, k), k)

\* An offer the impolite side may still accept: none of its own is outstanding, or the
\* answer to that one comes first.
Live(j, k) ==
  LET s == Coming(Higher, k) IN
  Offer(s, j, k) /\ (Sig(Higher, k) = "offering" => \E i \in Places(s) : i < j /\ Answer(s, i, k))

\* It is the last one of the polite side.
OfferToHigher(k) ==
  LET s == Coming(Higher, k) IN
  \A j \in Places(s) : Live(j, k) =>
    /\ Sig(Lower, k) = "offering" /\ s[j].ver = OutOf(Lower, k)
    /\ \A i \in Places(s) : Live(i, k) => i = j

OfferToLower(k) ==
  LET s == Coming(Lower, k) IN
  \A j \in Places(s) : Offer(s, j, k) =>
    /\ Sig(Higher, k) = "offering" /\ s[j].ver = OutOf(Higher, k) /\ Sig(Lower, k) # "answering"
    /\ \A i \in Places(s) : Offer(s, i, k) => i = j

\* One side answers the last offer of the other one.
Answering(k) ==
  /\ Sig(Higher, k) = "answering" =>
       /\ Sig(Lower, k) = "offering" /\ OutOf(Lower, k) = GotOf(Higher, k)
       /\ Silent(Coming(Higher, k), k)
  /\ Sig(Lower, k) = "answering" =>
       /\ Sig(Higher, k) = "offering" /\ OutOf(Higher, k) = GotOf(Lower, k)
       /\ Silent(Coming(Lower, k), k)

BothStable(k) ==
  Sig(Lower, k) = "stable" /\ Sig(Higher, k) = "stable" =>
    GotOf(Lower, k) = DoneOf(Higher, k) /\ GotOf(Higher, k) = DoneOf(Lower, k)

Orderly(k) ==
  /\ Accepted(k) /\ AnswerToLower(k) /\ AnswerToHigher(k)
  /\ OfferToLower(k) /\ OfferToHigher(k) /\ Answering(k) /\ BothStable(k)

\* Neither exception of Agreement applies.
Steady == ~Clashed /\ ~renewed

MeshInv == MeshTables /\ (Steady => Making /\ \A k \in Pc : Orderly(k))

-----------------------------------------------------------------------------
(* Sequences: a signal moves on, is taken, is passed over, is added.       *)

LEMMA TakeFirstOf ==
  ASSUME NEW S, NEW a \in Seq(S), NEW b \in Seq(S), a # <<>>
  PROVE  /\ Tail(a) \o b \in Seq(S) /\ Len(a \o b) = Len(Tail(a) \o b) + 1
         /\ (a \o b)[1] = Head(a)
         /\ \A i \in 1..Len(Tail(a) \o b) : (Tail(a) \o b)[i] = (a \o b)[i + 1]
<1>1. /\ a \o b \in Seq(S) /\ Tail(a) \in Seq(S) /\ Len(a) \in Nat /\ Len(b) \in Nat
      /\ Len(a) >= 1 /\ Len(Tail(a)) = Len(a) - 1 /\ Head(a) = a[1]
  OBVIOUS
<1>2. Tail(a) \o b \in Seq(S) /\ Len(Tail(a) \o b) = Len(a) - 1 + Len(b) /\ Len(a \o b) = Len(a) + Len(b)
  BY <1>1
<1>3. (a \o b)[1] = Head(a)
  BY <1>1
<1>4. ASSUME NEW i \in 1..Len(Tail(a) \o b)
      PROVE  (Tail(a) \o b)[i] = (a \o b)[i + 1]
  <2>1. CASE i <= Len(a) - 1
    BY <1>1, <1>2, <2>1
  <2>2. CASE i > Len(a) - 1
    BY <1>1, <1>2, <2>2
  <2>3. QED
    BY <1>1, <1>2, <2>1, <2>2
<1>5. QED
  BY <1>2, <1>3, <1>4

LEMMA MoveOn ==
  ASSUME NEW S, NEW a \in Seq(S), NEW b \in Seq(S), b # <<>>
  PROVE  Append(a, Head(b)) \o Tail(b) = a \o b
<1>1. /\ a \o b \in Seq(S) /\ Tail(b) \in Seq(S) /\ Len(a) \in Nat /\ Len(b) \in Nat
      /\ Len(b) >= 1 /\ Len(Tail(b)) = Len(b) - 1 /\ Head(b) = b[1] /\ Head(b) \in S
  OBVIOUS
<1> DEFINE c == Append(a, Head(b))
<1>2. c \in Seq(S) /\ Len(c) = Len(a) + 1
  BY <1>1
<1>3. c \o Tail(b) \in Seq(S) /\ Len(c \o Tail(b)) = Len(a) + Len(b) /\ Len(a \o b) = Len(a) + Len(b)
  BY <1>1, <1>2
<1>4. ASSUME NEW i \in 1..(Len(a) + Len(b))
      PROVE  (c \o Tail(b))[i] = (a \o b)[i]
  <2>1. CASE i <= Len(a)
    <3>1. (c \o Tail(b))[i] = c[i] /\ c[i] = a[i]
      BY <1>1, <1>2, <2>1
    <3>2. QED
      BY <1>1, <2>1, <3>1
  <2>2. CASE i = Len(a) + 1
    <3>1. (c \o Tail(b))[i] = c[i] /\ c[i] = Head(b)
      BY <1>1, <1>2, <2>2
    <3>2. QED
      BY <1>1, <2>2, <3>1
  <2>3. CASE i > Len(a) + 1
    <3>1. (c \o Tail(b))[i] = Tail(b)[i - (Len(a) + 1)]
      BY <1>1, <1>2, <2>3
    <3>2. Tail(b)[i - (Len(a) + 1)] = b[i - Len(a)]
      BY <1>1, <2>3
    <3>3. QED
      BY <1>1, <2>3, <3>1, <3>2
  <2>4. QED
    BY <1>1, <2>1, <2>2, <2>3
<1>5. QED
  BY <1>3, <1>4

LEMMA PassOver ==
  ASSUME NEW S, NEW a \in Seq(S), NEW b \in Seq(S), b # <<>>
  PROVE  /\ a \o Tail(b) \in Seq(S) /\ Len(a \o b) = Len(a \o Tail(b)) + 1
         /\ \A i \in 1..Len(a \o Tail(b)) :
              (a \o Tail(b))[i] = (a \o b)[IF i <= Len(a) THEN i ELSE i + 1]
<1>1. /\ a \o b \in Seq(S) /\ Tail(b) \in Seq(S) /\ Len(a) \in Nat /\ Len(b) \in Nat
      /\ Len(b) >= 1 /\ Len(Tail(b)) = Len(b) - 1
  OBVIOUS
<1>2. a \o Tail(b) \in Seq(S) /\ Len(a \o Tail(b)) = Len(a) + Len(b) - 1 /\ Len(a \o b) = Len(a) + Len(b)
  BY <1>1
<1>3. ASSUME NEW i \in 1..Len(a \o Tail(b))
      PROVE  (a \o Tail(b))[i] = (a \o b)[IF i <= Len(a) THEN i ELSE i + 1]
  <2>1. CASE i <= Len(a)
    BY <1>1, <1>2, <2>1
  <2>2. CASE i > Len(a)
    <3>1. (a \o Tail(b))[i] = Tail(b)[i - Len(a)] /\ Tail(b)[i - Len(a)] = b[i - Len(a) + 1]
      BY <1>1, <1>2, <2>2
    <3>2. (a \o b)[i + 1] = b[i + 1 - Len(a)]
      BY <1>1, <1>2, <2>2
    <3>3. QED
      BY <1>1, <1>2, <2>2, <3>1, <3>2
  <2>3. QED
    BY <1>1, <1>2, <2>1, <2>2
<1>4. QED
  BY <1>2, <1>3

LEMMA AddLast ==
  ASSUME NEW S, NEW a \in Seq(S), NEW b \in Seq(S), NEW m \in S
  PROVE  /\ a \o Append(b, m) \in Seq(S) /\ Len(a \o Append(b, m)) = Len(a \o b) + 1
         /\ (a \o Append(b, m))[Len(a \o b) + 1] = m
         /\ \A i \in 1..Len(a \o b) : (a \o Append(b, m))[i] = (a \o b)[i]
<1>1. /\ a \o b \in Seq(S) /\ Append(b, m) \in Seq(S) /\ Len(a) \in Nat /\ Len(b) \in Nat
      /\ Len(Append(b, m)) = Len(b) + 1 /\ Append(b, m)[Len(b) + 1] = m
  OBVIOUS
<1>2. a \o Append(b, m) \in Seq(S) /\ Len(a \o Append(b, m)) = Len(a) + Len(b) + 1 /\ Len(a \o b) = Len(a) + Len(b)
  BY <1>1
<1>3. (a \o Append(b, m))[Len(a \o b) + 1] = m
  BY <1>1, <1>2
<1>4. ASSUME NEW i \in 1..Len(a \o b)
      PROVE  (a \o Append(b, m))[i] = (a \o b)[i]
  <2>1. CASE i <= Len(a)
    BY <1>1, <1>2, <2>1
  <2>2. CASE i > Len(a)
    BY <1>1, <1>2, <2>2
  <2>3. QED
    BY <1>1, <1>2, <2>1, <2>2
<1>5. QED
  BY <1>2, <1>3, <1>4

-----------------------------------------------------------------------------
(* One link.                                                               *)

\* What the negotiation of a link depends on.
Alike(L, M) ==
  /\ L.sig = M.sig /\ L.draft = M.draft /\ L.out = M.out /\ L.making = M.making
  /\ L.todo = M.todo /\ L.done = M.done /\ L.got = M.got /\ L.clash = M.clash

\* Timers leave it alone, except that a restart of ICE has to be negotiated, too.
LEMMA TimersOf ==
  ASSUME NEW L \in Link, NEW k \in Pc
  PROVE  /\ armWatchdog(L, k) \in Link /\ Alike(armWatchdog(L, k), L)
         /\ armWatchdog(L, k).link = L.link /\ armWatchdog(L, k).added = L.added
         /\ Met(L, k) \in Link /\ Alike(Met(L, k), L)
         /\ Met(L, k).link = L.link /\ Met(L, k).added = L.added
         /\ _settle(L) \in Link /\ Alike(_settle(L), L)
         /\ _settle(L).link = L.link /\ _settle(L).added = L.added
<1>1. /\ armWatchdog(L, k) \in Link /\ Alike(armWatchdog(L, k), L)
      /\ armWatchdog(L, k).link = L.link /\ armWatchdog(L, k).added = L.added
  BY DEF armWatchdog, _isUp, Alike, Link
<1>2. /\ Met(L, k) \in Link /\ Alike(Met(L, k), L)
      /\ Met(L, k).link = L.link /\ Met(L, k).added = L.added
  BY DEF Met, Alike, Link
<1>3. /\ _settle(L) \in Link /\ Alike(_settle(L), L)
      /\ _settle(L).link = L.link /\ _settle(L).added = L.added
  BY DEF _settle, Alike, Link
<1>4. QED
  BY <1>1, <1>2, <1>3

LEMMA RecoverOf ==
  ASSUME NEW L \in Link
  PROVE  /\ _recover(L) \in Link /\ Alike(_recover(L), L) /\ _recover(L).link = L.link
         /\ \A k \in Pc : L.added[k] <= _recover(L).added[k]
<1>1. CASE L.retried
  <2> DEFINE M == [L EXCEPT !.watchdog = FALSE, !.recovery = FALSE, !.failed = TRUE]
  <2>1. M \in Link /\ Alike(M, L) /\ M.link = L.link /\ M.added = L.added
    BY DEF Alike, Link
  <2>2. _recover(L) = M
    BY <1>1 DEF _recover
  <2>3. \A k \in Pc : L.added[k] \in Nat
    BY DEF Link
  <2>4. QED
    BY <2>1, <2>2, <2>3
<1>2. CASE ~L.retried
  <2> DEFINE M == [L EXCEPT !.retried = TRUE, !.added["cam"] = @ + 1, !.watchdog = FALSE]
  <2> DEFINE plus == [L.added EXCEPT !["cam"] = @ + 1]
  <2>0. /\ plus \in [Pc -> Nat] /\ \A k \in Pc : L.added[k] <= plus[k]
        /\ M = [L EXCEPT !.retried = TRUE, !.added = plus, !.watchdog = FALSE]
    BY DEF Link, Pc
  <2> HIDE DEF plus
  <2>1. M \in Link /\ Alike(M, L) /\ M.link = L.link
    BY <2>0 DEF Alike, Link
  <2>2. \A k \in Pc : L.added[k] <= M.added[k]
    BY <2>0 DEF Link
  <2>3. _recover(L) = armWatchdog(M, "cam")
    BY <1>2 DEF _recover
  <2> HIDE DEF M
  <2>4. /\ armWatchdog(M, "cam") \in Link /\ Alike(armWatchdog(M, "cam"), M)
        /\ armWatchdog(M, "cam").link = M.link /\ armWatchdog(M, "cam").added = M.added
    BY <2>1, TimersOf DEF Pc
  <2>5. QED
    BY <2>1, <2>2, <2>3, <2>4 DEF Alike
<1>3. QED
  BY <1>1, <1>2 DEF Link

-----------------------------------------------------------------------------
(* The invariant of one connection survives when signals are taken away.   *)

Kept(k) ==
  \A p \in Peer :
    /\ Sig(p, k)' = Sig(p, k) /\ OutOf(p, k)' = OutOf(p, k)
    /\ DoneOf(p, k)' = DoneOf(p, k) /\ GotOf(p, k)' = GotOf(p, k)

\* What t holds for k, s holds in the same order.
Thinner(t, s, k) ==
  \E f \in [Places(t) -> Nat] :
    \A i \in Places(t) : t[i].pc = k =>
      /\ f[i] \in Places(s) /\ t[i] = s[f[i]]
      /\ \A j \in Places(t) : t[j].pc = k /\ i < j => f[i] < f[j]

LEMMA Thinned ==
  ASSUME NEW k \in Pc, Kept(k), Orderly(k), Accepted(k)',
         \A p \in Peer : Thinner(Coming(p, k)', Coming(p, k), k),
         \A p \in Peer : Len(Coming(p, k)) \in Nat /\ Len(Coming(p, k)') \in Nat
  PROVE  Orderly(k)'
<1> DEFINE s == Coming(Lower, k)  t == Coming(Lower, k)'
           u == Coming(Higher, k) v == Coming(Higher, k)'
<1>1. PICK f \in [Places(t) -> Nat] :
        \A i \in Places(t) : t[i].pc = k =>
          /\ f[i] \in Places(s) /\ t[i] = s[f[i]]
          /\ \A j \in Places(t) : t[j].pc = k /\ i < j => f[i] < f[j]
  BY DEF Thinner, Peer
<1>2. PICK g \in [Places(v) -> Nat] :
        \A i \in Places(v) : v[i].pc = k =>
          /\ g[i] \in Places(u) /\ v[i] = u[g[i]]
          /\ \A j \in Places(v) : v[j].pc = k /\ i < j => g[i] < g[j]
  BY DEF Thinner, Peer
<1>3. /\ Sig(Lower, k)' = Sig(Lower, k) /\ OutOf(Lower, k)' = OutOf(Lower, k)
      /\ DoneOf(Lower, k)' = DoneOf(Lower, k) /\ GotOf(Lower, k)' = GotOf(Lower, k)
      /\ Sig(Higher, k)' = Sig(Higher, k) /\ OutOf(Higher, k)' = OutOf(Higher, k)
      /\ DoneOf(Higher, k)' = DoneOf(Higher, k) /\ GotOf(Higher, k)' = GotOf(Higher, k)
  BY DEF Kept, Peer
<1>4. Len(s) \in Nat /\ Len(t) \in Nat /\ Len(u) \in Nat /\ Len(v) \in Nat
  BY DEF Peer
<1> HIDE DEF s, t, u, v
<1>5. /\ \A i, j \in Places(t) : t[i].pc = k /\ t[j].pc = k => (f[i] < f[j] <=> i < j) /\ (f[i] = f[j] <=> i = j)
      /\ \A i, j \in Places(v) : v[i].pc = k /\ v[j].pc = k => (g[i] < g[j] <=> i < j) /\ (g[i] = g[j] <=> i = j)
  <2>1. ASSUME NEW i \in Places(t), NEW j \in Places(t), t[i].pc = k, t[j].pc = k
        PROVE  (f[i] < f[j] <=> i < j) /\ (f[i] = f[j] <=> i = j)
    <3>1. i \in Nat /\ j \in Nat /\ f[i] \in Nat /\ f[j] \in Nat
      BY <1>4 DEF Places
    <3>2. (i < j => f[i] < f[j]) /\ (j < i => f[j] < f[i])
      BY <2>1, <1>1
    <3>3. QED
      BY <3>1, <3>2
  <2>2. ASSUME NEW i \in Places(v), NEW j \in Places(v), v[i].pc = k, v[j].pc = k
        PROVE  (g[i] < g[j] <=> i < j) /\ (g[i] = g[j] <=> i = j)
    <3>1. i \in Nat /\ j \in Nat /\ g[i] \in Nat /\ g[j] \in Nat
      BY <1>4 DEF Places
    <3>2. (i < j => g[i] < g[j]) /\ (j < i => g[j] < g[i])
      BY <2>2, <1>2
    <3>3. QED
      BY <3>1, <3>2
  <2>3. QED
    BY <2>1, <2>2
<1>6. (Silent(s, k) => Silent(t, k)) /\ (Silent(u, k) => Silent(v, k))
  BY <1>1, <1>2 DEF Silent
<1>7. AnswerToLower(k)'
  <2>1. ASSUME NEW i \in Places(t), Answer(t, i, k)
        PROVE  /\ Sig(Lower, k) = "offering" /\ OutOf(Lower, k) = GotOf(Higher, k)
               /\ t[i].ver = DoneOf(Higher, k) /\ Sig(Higher, k) # "answering"
               /\ \A j \in Places(t) : t[j].pc = k /\ j # i => t[j].type = "offer" /\ i < j
               /\ Silent(v, k)
    <3>1. f[i] \in Places(s) /\ t[i] = s[f[i]] /\ Answer(s, f[i], k)
      BY <1>1, <2>1 DEF Answer
    <3>2. /\ Sig(Lower, k) = "offering" /\ OutOf(Lower, k) = GotOf(Higher, k)
          /\ s[f[i]].ver = DoneOf(Higher, k) /\ Sig(Higher, k) # "answering"
          /\ \A j \in Places(s) : s[j].pc = k /\ j # f[i] => s[j].type = "offer" /\ f[i] < j
          /\ Silent(u, k)
      BY <3>1 DEF Orderly, AnswerToLower, s, u
    <3>3. ASSUME NEW j \in Places(t), t[j].pc = k, j # i
          PROVE  t[j].type = "offer" /\ i < j
      <4>1. f[j] \in Places(s) /\ t[j] = s[f[j]] /\ f[j] # f[i] /\ (f[i] < f[j] <=> i < j)
        BY <1>1, <1>5, <2>1, <3>3 DEF Answer
      <4>2. QED
        BY <3>2, <3>3, <4>1
    <3>4. QED
      BY <1>6, <3>1, <3>2, <3>3
  <2>2. QED
    BY <1>3, <2>1 DEF AnswerToLower, t, v
<1>8. AnswerToHigher(k)'
  <2>1. ASSUME NEW i \in Places(v), Answer(v, i, k)
        PROVE  /\ Sig(Higher, k) = "offering" /\ OutOf(Higher, k) = GotOf(Lower, k)
               /\ v[i].ver = DoneOf(Lower, k) /\ Sig(Lower, k) # "answering"
               /\ \A j \in Places(v) : Answer(v, j, k) => i = j
               /\ Silent(t, k)
    <3>1. g[i] \in Places(u) /\ v[i] = u[g[i]] /\ Answer(u, g[i], k)
      BY <1>2, <2>1 DEF Answer
    <3>2. /\ Sig(Higher, k) = "offering" /\ OutOf(Higher, k) = GotOf(Lower, k)
          /\ u[g[i]].ver = DoneOf(Lower, k) /\ Sig(Lower, k) # "answering"
          /\ \A j \in Places(u) : Answer(u, j, k) => g[i] = j
          /\ Silent(s, k)
      BY <3>1 DEF Orderly, AnswerToHigher, s, u
    <3>3. ASSUME NEW j \in Places(v), Answer(v, j, k)
          PROVE  i = j
      <4>1. g[j] \in Places(u) /\ v[j] = u[g[j]] /\ Answer(u, g[j], k) /\ (g[i] = g[j] <=> i = j)
        BY <1>2, <1>5, <2>1, <3>3 DEF Answer
      <4>2. QED
        BY <3>2, <4>1
    <3>4. QED
      BY <1>6, <3>1, <3>2, <3>3
  <2>2. QED
    BY <1>3, <2>1 DEF AnswerToHigher, t, v
<1>9. OfferToLower(k)'
  <2>1. ASSUME NEW i \in Places(t), Offer(t, i, k)
        PROVE  /\ Sig(Higher, k) = "offering" /\ t[i].ver = OutOf(Higher, k) /\ Sig(Lower, k) # "answering"
               /\ \A j \in Places(t) : Offer(t, j, k) => j = i
    <3>1. f[i] \in Places(s) /\ t[i] = s[f[i]] /\ Offer(s, f[i], k)
      BY <1>1, <2>1 DEF Offer
    <3>2. /\ Sig(Higher, k) = "offering" /\ s[f[i]].ver = OutOf(Higher, k) /\ Sig(Lower, k) # "answering"
          /\ \A j \in Places(s) : Offer(s, j, k) => j = f[i]
      BY <3>1 DEF Orderly, OfferToLower, s
    <3>3. ASSUME NEW j \in Places(t), Offer(t, j, k)
          PROVE  j = i
      <4>1. f[j] \in Places(s) /\ t[j] = s[f[j]] /\ Offer(s, f[j], k) /\ (f[i] = f[j] <=> i = j)
        BY <1>1, <1>5, <2>1, <3>3 DEF Offer
      <4>2. QED
        BY <3>2, <4>1
    <3>4. QED
      BY <3>1, <3>2, <3>3
  <2>2. QED
    BY <1>3, <2>1 DEF OfferToLower, t
<1>10. OfferToHigher(k)'
  <2>1. ASSUME NEW i \in Places(v), Live(i, k)'
        PROVE  g[i] \in Places(u) /\ v[i] = u[g[i]] /\ Live(g[i], k) /\ v[i].pc = k
    <3>1. v[i].pc = k /\ g[i] \in Places(u) /\ v[i] = u[g[i]] /\ Offer(u, g[i], k)
      BY <1>2, <2>1 DEF Live, Offer, v
    <3>2. ASSUME Sig(Higher, k) = "offering"
          PROVE  \E j \in Places(u) : j < g[i] /\ Answer(u, j, k)
      <4>1. PICK j \in Places(v) : j < i /\ Answer(v, j, k)
        BY <1>3, <2>1, <3>2 DEF Live, v
      <4>2. g[j] \in Places(u) /\ v[j] = u[g[j]] /\ g[j] < g[i] /\ Answer(u, g[j], k)
        BY <1>2, <3>1, <4>1 DEF Answer
      <4>3. QED
        BY <4>2
    <3>3. QED
      BY <3>1, <3>2 DEF Live, u
  <2>2. ASSUME NEW i \in Places(v), Live(i, k)'
        PROVE  /\ Sig(Lower, k) = "offering" /\ v[i].ver = OutOf(Lower, k)
               /\ \A j \in Places(v) : Live(j, k)' => j = i
    <3>1. g[i] \in Places(u) /\ v[i] = u[g[i]] /\ Live(g[i], k) /\ v[i].pc = k
      BY <2>1, <2>2
    <3>2. /\ Sig(Lower, k) = "offering" /\ u[g[i]].ver = OutOf(Lower, k)
          /\ \A j \in Places(u) : Live(j, k) => j = g[i]
      BY <3>1 DEF Orderly, OfferToHigher, u
    <3>3. ASSUME NEW j \in Places(v), Live(j, k)'
          PROVE  j = i
      <4>1. g[j] \in Places(u) /\ v[j] = u[g[j]] /\ Live(g[j], k) /\ v[j].pc = k
        BY <2>1, <3>3
      <4>2. QED
        BY <1>5, <3>1, <3>2, <4>1
    <3>4. QED
      BY <3>1, <3>2, <3>3
  <2>3. QED
    BY <1>3, <2>2 DEF OfferToHigher, v
<1>11. Answering(k)' /\ BothStable(k)'
  BY <1>3, <1>6 DEF Orderly, Answering, BothStable, s, t, u, v
<1>12. QED
  BY <1>7, <1>8, <1>9, <1>10, <1>11 DEF Orderly

-----------------------------------------------------------------------------
(* Types.                                                                  *)

LEMMA ComingType ==
  ASSUME MeshTables, NEW p \in Peer, NEW k \in Pc
  PROVE  /\ Coming(p, k) \in Seq(Signal) /\ Len(Coming(p, k)) \in Nat
         /\ peer[p].todo[k] \in Seq(Signal) /\ wire[p] \in Seq(Signal)
         /\ Len(peer[p].todo[k]) \in Nat /\ Len(peer[p].todo[k]) <= Len(Coming(p, k))
         /\ \A i \in 1..Len(peer[p].todo[k]) :
              Coming(p, k)[i] = peer[p].todo[k][i] /\ peer[p].todo[k][i].pc = k
<1>1. peer[p].todo[k] \in Seq(Signal) /\ wire[p] \in Seq(Signal)
  BY DEF MeshTables, Link
<1>2. \A i \in 1..Len(peer[p].todo[k]) : peer[p].todo[k][i].pc = k
  BY DEF MeshTables, Sane
<1> DEFINE a == peer[p].todo[k]  b == wire[p]
<1> HIDE DEF a, b
<1>3. ASSUME a \in Seq(Signal), b \in Seq(Signal)
      PROVE  /\ a \o b \in Seq(Signal) /\ Len(a \o b) \in Nat /\ Len(a) \in Nat /\ Len(a) <= Len(a \o b)
             /\ \A i \in 1..Len(a) : (a \o b)[i] = a[i]
  BY <1>3
<1>4. QED
  BY <1>1, <1>2, <1>3 DEF Coming, a, b

LEMMA Blank == NoLink \in Link /\ Sane(NoLink)
<1>1. NoLink \in Link
  <2>1. <<>> \in Seq(Signal)
    OBVIOUS
  <2>2. QED
    BY <2>1 DEF NoLink, Link, Fresh0
<1>2. /\ \A k \in Pc : /\ NoLink.sig[k] = "stable" /\ NoLink.draft[k] = 0 /\ NoLink.out[k] = 0
                      /\ NoLink.todo[k] = <<>> /\ NoLink.done[k] = 0 /\ NoLink.added[k] = 0
      /\ Untouched(NoLink)
  BY DEF NoLink, Fresh0, Untouched
<1>3. Len(<<>>) = 0
  OBVIOUS
<1>4. QED
  BY <1>1, <1>2, <1>3 DEF Sane

LEMMA Replaced ==
  ASSUME MeshTables, NEW p \in Peer, NEW M \in Link, Sane(M),
         peer' = [peer EXCEPT ![p] = M], wire' \in [Peer -> Seq(Signal)]
  PROVE  MeshTables' /\ peer'[p] = M /\ \A q \in Peer : q # p => peer'[q] = peer[q]
<1>1. peer' \in [Peer -> Link] /\ peer'[p] = M /\ \A q \in Peer : q # p => peer'[q] = peer[q]
  BY DEF MeshTables
<1>2. \A q \in Peer : Sane(peer'[q])
  BY <1>1 DEF MeshTables
<1>3. QED
  BY <1>1, <1>2 DEF MeshTables, Sane, Untouched

\* What does not touch the negotiation.
Aside(p) ==
  \/ Create(p) \/ Timer(p) \/ Network(p) \/ retryNow(p)
  \/ \E k \in Pc : AddTrack(p, k)

LEMMA AsideKeeps ==
  ASSUME MeshTables, NEW p \in Peer, Aside(p)
  PROVE  MeshTables' /\ wire' = wire /\ \A q \in Peer : Alike(peer'[q], peer[q])
<1>0. peer[p] \in Link /\ Sane(peer[p]) /\ wire \in [Peer -> Seq(Signal)] /\ peer \in [Peer -> Link]
  BY DEF MeshTables
<1>a. wire' = wire
  BY DEF Aside, Create, Timer, WatchdogFires, GraceEnds, Network, Connected, Disconnected,
         ConnectionFailed, retryNow, AddTrack
<1>e. ~Untouched(peer[p]) => peer[p].link
  BY <1>0 DEF Sane
<1>b. ASSUME NEW M \in Link, Alike(M, peer[p]), Sane(M), peer' = [peer EXCEPT ![p] = M]
      PROVE  MeshTables' /\ \A q \in Peer : Alike(peer'[q], peer[q])
  <2>1. MeshTables' /\ peer'[p] = M /\ \A q \in Peer : q # p => peer'[q] = peer[q]
    BY <1>0, <1>a, <1>b, Replaced
  <2>2. QED
    BY <1>b, <2>1 DEF Alike
<1>c. ASSUME NEW M \in Link, Alike(M, peer[p]), M.link = peer[p].link, peer[p].link,
             \A k \in Pc : peer[p].added[k] <= M.added[k], peer' = [peer EXCEPT ![p] = M]
      PROVE  MeshTables' /\ \A q \in Peer : Alike(peer'[q], peer[q])
  <2>1. ASSUME NEW k \in Pc
        PROVE  /\ peer[p].done[k] \in Nat /\ peer[p].out[k] \in Nat /\ peer[p].draft[k] \in Nat
               /\ peer[p].added[k] \in Nat /\ M.added[k] \in Nat
    BY <1>0 DEF Link
  <2>2. Sane(M)
    BY <1>0, <1>c, <2>1 DEF Sane, Alike
  <2>3. QED
    BY <1>b, <1>c, <2>2
<1>d. \A k \in Pc : peer[p].added[k] \in Nat /\ peer[p].added[k] <= peer[p].added[k]
  BY <1>0 DEF Link
<1>1. CASE Create(p)
  <2>1. PICK tracks \in [Pc -> 0..1] : peer' = [peer EXCEPT ![p].link = TRUE, ![p].added = tracks]
    BY <1>1 DEF Create
  <2> DEFINE M == [peer[p] EXCEPT !.link = TRUE, !.added = tracks]
  <2>2. peer' = [peer EXCEPT ![p] = M]
    BY <1>0, <2>1
  <2>3. M \in Link /\ Alike(M, peer[p]) /\ M.added = tracks /\ M.link = TRUE
    <3>1. tracks \in [Pc -> Nat]
      OBVIOUS
    <3>2. QED
      BY <1>0, <3>1 DEF Link, Alike
  <2> HIDE DEF M
  <2>4. Sane(M)
    <3>1. ~peer[p].link
      BY <1>1 DEF Create
    <3>2. \A k \in Pc : tracks[k] \in 0..1
      OBVIOUS
    <3>3. QED
      BY <1>0, <2>3, <3>1, <3>2 DEF Sane, Alike
  <2>5. QED
    BY <1>a, <1>b, <2>2, <2>3, <2>4
<1>2. CASE WatchdogFires(p)
  <2>0. peer[p].link
    BY <1>e, <1>2 DEF WatchdogFires, Untouched
  <2> DEFINE W == [peer[p] EXCEPT !.watchdog = FALSE]
             M == IF _isUp(W) THEN W ELSE _recover(W)
  <2>1. W \in Link /\ Alike(W, peer[p]) /\ W.link = peer[p].link /\ W.added = peer[p].added
    BY <1>0 DEF Link, Alike
  <2>2. peer' = [peer EXCEPT ![p] = M]
    BY <1>2 DEF WatchdogFires
  <2> HIDE DEF W
  <2>3. /\ M \in Link /\ Alike(M, peer[p]) /\ M.link = peer[p].link
        /\ \A k \in Pc : peer[p].added[k] <= M.added[k]
    BY <1>d, <2>1, RecoverOf DEF Alike
  <2>4. QED
    BY <1>a, <1>c, <2>0, <2>2, <2>3
<1>3. CASE GraceEnds(p)
  <2>0. peer[p].link
    BY <1>e, <1>3 DEF GraceEnds, Untouched
  <2> DEFINE W == [peer[p] EXCEPT !.recovery = FALSE]
             M == IF _isUp(W) THEN W ELSE _recover(W)
  <2>1. W \in Link /\ Alike(W, peer[p]) /\ W.link = peer[p].link /\ W.added = peer[p].added
    BY <1>0 DEF Link, Alike
  <2>2. peer' = [peer EXCEPT ![p] = M]
    BY <1>3 DEF GraceEnds
  <2> HIDE DEF W
  <2>3. /\ M \in Link /\ Alike(M, peer[p]) /\ M.link = peer[p].link
        /\ \A k \in Pc : peer[p].added[k] <= M.added[k]
    BY <1>d, <2>1, RecoverOf DEF Alike
  <2>4. QED
    BY <1>a, <1>c, <2>0, <2>2, <2>3
<1>4. CASE Connected(p)
  <2>0. peer[p].link
    BY <1>e, <1>4 DEF Connected, Untouched
  <2> DEFINE W == [peer[p] EXCEPT !.ice = "up"]
  <2>1. W \in Link /\ Alike(W, peer[p]) /\ W.link = peer[p].link /\ W.added = peer[p].added
    BY <1>0 DEF Link, Alike
  <2>2. peer' = [peer EXCEPT ![p] = _settle(W)]
    BY <1>4 DEF Connected
  <2> HIDE DEF W
  <2>3. /\ _settle(W) \in Link /\ Alike(_settle(W), peer[p]) /\ _settle(W).link = peer[p].link
        /\ \A k \in Pc : peer[p].added[k] <= _settle(W).added[k]
    BY <1>d, <2>1, TimersOf DEF Alike, Pc
  <2>4. QED
    BY <1>a, <1>c, <2>0, <2>2, <2>3
<1>5. CASE Disconnected(p)
  <2>0. peer[p].link
    BY <1>e, <1>5 DEF Disconnected, Untouched
  <2> DEFINE M == [peer[p] EXCEPT !.ice = "down", !.recovery = TRUE]
  <2>1. M \in Link /\ Alike(M, peer[p]) /\ M.link = peer[p].link /\ M.added = peer[p].added
    BY <1>0 DEF Link, Alike
  <2>2. peer' = [peer EXCEPT ![p] = M]
    BY <1>0, <1>5 DEF Disconnected
  <2> HIDE DEF M
  <2>3. QED
    BY <1>a, <1>c, <1>d, <2>0, <2>1, <2>2
<1>6. CASE ConnectionFailed(p)
  <2>0. peer[p].link
    BY <1>e, <1>6 DEF ConnectionFailed, Untouched
  <2>1. peer' = [peer EXCEPT ![p] = _recover(peer[p])]
    BY <1>0, <1>6 DEF ConnectionFailed
  <2>2. QED
    BY <1>0, <1>a, <1>c, <2>0, <2>1, RecoverOf
<1>7. CASE retryNow(p)
  <2>0. peer[p].link
    BY <1>e, <1>7 DEF retryNow, Untouched
  <2> DEFINE W == [peer[p] EXCEPT !.failed = FALSE, !.retried = FALSE]
  <2>1. W \in Link /\ Alike(W, peer[p]) /\ W.link = peer[p].link /\ W.added = peer[p].added
    BY <1>0 DEF Link, Alike
  <2>2. peer' = [peer EXCEPT ![p] = _recover(W)]
    BY <1>7 DEF retryNow
  <2> HIDE DEF W
  <2>3. /\ _recover(W) \in Link /\ Alike(_recover(W), peer[p]) /\ _recover(W).link = peer[p].link
        /\ \A k \in Pc : peer[p].added[k] <= _recover(W).added[k]
    BY <1>d, <2>1, RecoverOf DEF Alike
  <2>4. QED
    BY <1>a, <1>c, <2>0, <2>2, <2>3
<1>8. ASSUME NEW k \in Pc, AddTrack(p, k)
      PROVE  MeshTables' /\ \A q \in Peer : Alike(peer'[q], peer[q])
  <2> DEFINE more == [peer[p].added EXCEPT ![k] = @ + 1]
             M == [peer[p] EXCEPT !.added = more]
  <2>1. more \in [Pc -> Nat] /\ \A j \in Pc : peer[p].added[j] <= more[j]
    BY <1>0 DEF Link
  <2>2. peer' = [peer EXCEPT ![p] = M]
    BY <1>0, <1>8 DEF AddTrack
  <2> HIDE DEF more
  <2>3. M \in Link /\ Alike(M, peer[p]) /\ M.link = peer[p].link /\ M.added = more
    BY <1>0, <2>1 DEF Link, Alike
  <2> HIDE DEF M
  <2>4. peer[p].link
    BY <1>8 DEF AddTrack
  <2>5. QED
    BY <1>a, <1>c, <2>1, <2>2, <2>3, <2>4
<1>9. QED
  BY <1>a, <1>1, <1>2, <1>3, <1>4, <1>5, <1>6, <1>7, <1>8 DEF Aside, Timer, Network

-----------------------------------------------------------------------------
(* What the steps of a negotiation do.                                     *)

LEMMA Others ==
  /\ \A p \in Peer : Other(p) \in Peer /\ Other(p) # p
  /\ Other(Lower) = Higher /\ Other(Higher) = Lower
  /\ \A p \in Peer : p = Lower \/ p = Higher
BY MeshAssumption DEF Other, Peer

Sent(p, m) == wire' = wire \/ wire' = [wire EXCEPT ![Other(p)] = Append(@, m)]

LEMMA SignalSent ==
  ASSUME wire \in [Peer -> Seq(Signal)], NEW p \in Peer, NEW m \in Signal, _signal(p, m)
  PROVE  wire' \in [Peer -> Seq(Signal)] /\ Sent(p, m)
<1>1. Other(p) \in Peer
  BY Others
<1>2. Append(wire[Other(p)], m) \in Seq(Signal)
  BY <1>1
<1>3. [wire EXCEPT ![Other(p)] = Append(@, m)] \in [Peer -> Seq(Signal)]
  BY <1>2
<1>4. QED
  BY <1>3 DEF _signal, Sent

LEMMA Needed ==
  ASSUME MeshTables, NEW p \in Peer, NEW k \in Pc, NegotiationNeeded(p, k)
  PROVE  /\ MeshTables' /\ wire' = wire /\ \A q \in Peer : q # p => peer'[q] = peer[q]
         /\ peer'[p].sig = peer[p].sig /\ peer'[p].out = peer[p].out /\ peer'[p].todo = peer[p].todo
         /\ peer'[p].done = peer[p].done /\ peer'[p].got = peer[p].got
         /\ peer'[p].clash = peer[p].clash /\ peer'[p].making
         /\ \A j \in Pc : j # k => peer'[p].draft[j] = peer[p].draft[j]
<1>0. peer[p] \in Link /\ Sane(peer[p]) /\ wire \in [Peer -> Seq(Signal)] /\ peer \in [Peer -> Link]
  BY DEF MeshTables
<1> DEFINE draft == [peer[p].draft EXCEPT ![k] = peer[p].added[k]]
           M == [peer[p] EXCEPT !.draft = draft, !.making = TRUE]
<1>1. draft \in [Pc -> Nat] /\ draft[k] = peer[p].added[k] /\ \A j \in Pc : j # k => draft[j] = peer[p].draft[j]
  BY <1>0 DEF Link
<1>2. peer' = [peer EXCEPT ![p] = M] /\ wire' = wire /\ peer[p].link
  BY <1>0 DEF NegotiationNeeded
<1> HIDE DEF draft
<1>3. /\ M \in Link /\ M.draft = draft /\ M.making /\ M.sig = peer[p].sig /\ M.out = peer[p].out
      /\ M.todo = peer[p].todo /\ M.done = peer[p].done /\ M.got = peer[p].got
      /\ M.clash = peer[p].clash /\ M.added = peer[p].added /\ M.link = peer[p].link
  BY <1>0, <1>1 DEF Link
<1> HIDE DEF M
<1>4. \A j \in Pc : peer[p].added[j] \in Nat
  BY <1>0 DEF Link
<1>5. Sane(M)
  <2>1. M.link
    BY <1>2, <1>3
  <2>2. ASSUME NEW j \in Pc
        PROVE  draft[j] <= peer[p].added[j]
    <3>1. peer[p].draft[j] <= peer[p].added[j]
      BY <1>0 DEF Sane
    <3>2. QED
      BY <1>1, <1>4, <3>1
  <2>3. QED
    BY <1>0, <1>3, <2>1, <2>2 DEF Sane
<1>6. MeshTables' /\ peer'[p] = M /\ \A q \in Peer : q # p => peer'[q] = peer[q]
  BY <1>0, <1>2, <1>3, <1>5, Replaced
<1>7. QED
  BY <1>1, <1>2, <1>3, <1>6

LEMMA OfferMade ==
  ASSUME MeshTables, NEW p \in Peer, NEW k \in Pc, SetLocalOffer(p, k)
  PROVE  /\ MeshTables' /\ \A q \in Peer : q # p => peer'[q] = peer[q]
         /\ peer'[p].todo = peer[p].todo /\ peer'[p].done = peer[p].done /\ peer'[p].got = peer[p].got
         /\ peer'[p].draft[k] = 0 /\ \A j \in Pc : j # k => peer'[p].draft[j] = peer[p].draft[j]
         /\ ~peer'[p].clash => ~peer[p].clash /\ \A j \in Pc : peer'[p].draft[j] = 0
         /\ peer[p].draft[k] # 0
         /\ \A j \in Pc : j # k => peer'[p].sig[j] = peer[p].sig[j] /\ peer'[p].out[j] = peer[p].out[j]
         /\ \/ /\ peer[p].sig[k] = "stable" /\ peer'[p].sig[k] = "offering"
               /\ peer'[p].out[k] = peer[p].draft[k]
               /\ Sent(p, [type |-> "offer", pc |-> k, ver |-> peer[p].draft[k]])
            \/ /\ peer[p].sig[k] # "stable" /\ wire' = wire
               /\ peer'[p].sig[k] = peer[p].sig[k] /\ peer'[p].out[k] = peer[p].out[k]
<1>0. peer[p] \in Link /\ Sane(peer[p]) /\ wire \in [Peer -> Seq(Signal)] /\ peer \in [Peer -> Link]
  BY DEF MeshTables
<1> DEFINE draft == [peer[p].draft EXCEPT ![k] = 0]
           both == peer[p].clash \/ \E o \in Pc \ {k} : peer[p].draft[o] # 0
           idle == [peer[p] EXCEPT !.draft = draft, !.making = FALSE, !.clash = both]
<1>1. draft \in [Pc -> Nat] /\ draft[k] = 0 /\ \A j \in Pc : j # k => draft[j] = peer[p].draft[j]
  BY <1>0 DEF Link
<1>2. both \in BOOLEAN /\ (~both => ~peer[p].clash /\ \A j \in Pc : draft[j] = 0)
  BY <1>0, <1>1 DEF Link
<1>3. [peer[p] EXCEPT !.draft[k] = 0, !.making = FALSE,
                      !.clash = @ \/ \E o \in Pc \ {k} : peer[p].draft[o] # 0] = idle
  BY <1>0 DEF Link
<1> HIDE DEF draft, both
<1>4. /\ idle \in Link /\ idle.draft = draft /\ idle.clash = both /\ idle.sig = peer[p].sig
      /\ idle.out = peer[p].out /\ idle.todo = peer[p].todo /\ idle.done = peer[p].done
      /\ idle.got = peer[p].got /\ idle.added = peer[p].added /\ idle.link = peer[p].link
  BY <1>0, <1>1, <1>2 DEF Link
<1>5. \A j \in Pc : peer[p].added[j] \in Nat /\ peer[p].draft[j] \in Nat
  BY <1>0 DEF Link
<1>6. peer[p].draft[k] # 0
  BY DEF SetLocalOffer
<1>7. CASE peer[p].sig[k] = "stable"
  <2> DEFINE sig == [peer[p].sig EXCEPT ![k] = "offering"]
             out == [peer[p].out EXCEPT ![k] = peer[p].draft[k]]
             M == [idle EXCEPT !.sig = sig, !.out = out]
  <2>1. /\ peer' = [peer EXCEPT ![p] =
              armWatchdog([idle EXCEPT !.sig[k] = "offering", !.out[k] = peer[p].draft[k]], k)]
        /\ _signal(p, [type |-> "offer", pc |-> k, ver |-> peer[p].draft[k]])
    BY <1>3, <1>7 DEF SetLocalOffer
  <2>2. [idle EXCEPT !.sig[k] = "offering", !.out[k] = peer[p].draft[k]] = M
    BY <1>0, <1>4 DEF Link
  <2>3. /\ sig \in [Pc -> {"stable", "offering", "answering"}] /\ sig[k] = "offering"
        /\ \A j \in Pc : j # k => sig[j] = peer[p].sig[j]
        /\ out \in [Pc -> Nat] /\ out[k] = peer[p].draft[k]
        /\ \A j \in Pc : j # k => out[j] = peer[p].out[j]
    BY <1>0, <1>5 DEF Link
  <2>4. [type |-> "offer", pc |-> k, ver |-> peer[p].draft[k]] \in Signal
    BY <1>5 DEF Signal, Description
  <2>5. wire' \in [Peer -> Seq(Signal)] /\ Sent(p, [type |-> "offer", pc |-> k, ver |-> peer[p].draft[k]])
    BY <1>0, <2>1, <2>4, SignalSent
  <2> HIDE DEF idle, sig, out
  <2>6. /\ M \in Link /\ M.draft = draft /\ M.clash = both /\ M.sig = sig /\ M.out = out
        /\ M.todo = peer[p].todo /\ M.done = peer[p].done /\ M.got = peer[p].got
        /\ M.added = peer[p].added /\ M.link = peer[p].link
    BY <1>4, <2>3 DEF Link
  <2> HIDE DEF M
  <2> DEFINE N == armWatchdog(M, k)
  <2>7. N \in Link /\ Alike(N, M) /\ N.added = M.added /\ N.link = M.link
    BY <2>6, TimersOf
  <2> HIDE DEF N
  <2>8. Sane(N)
    <3>1. /\ N.done = peer[p].done /\ N.out = out /\ N.draft = draft /\ N.todo = peer[p].todo
          /\ N.added = peer[p].added /\ N.link = peer[p].link
      BY <2>6, <2>7 DEF Alike
    <3>2. peer[p].link
      BY <1>0, <1>6 DEF Sane
    <3>3. ASSUME NEW j \in Pc
          PROVE  out[j] <= peer[p].added[j] /\ draft[j] <= peer[p].added[j]
      <4>1. peer[p].out[j] <= peer[p].added[j] /\ peer[p].draft[j] <= peer[p].added[j]
        BY <1>0 DEF Sane
      <4>2. CASE j = k
        BY <1>1, <1>5, <2>3, <4>1, <4>2
      <4>3. CASE j # k
        BY <1>1, <2>3, <4>1, <4>3
      <4>4. QED
        BY <4>2, <4>3
    <3>4. QED
      BY <1>0, <3>1, <3>2, <3>3 DEF Sane
  <2>9. peer' = [peer EXCEPT ![p] = N]
    BY <2>1, <2>2 DEF N
  <2>10. MeshTables' /\ peer'[p] = N /\ \A q \in Peer : q # p => peer'[q] = peer[q]
    BY <2>5, <2>7, <2>8, <2>9, Replaced
  <2>11. QED
    BY <1>1, <1>2, <1>6, <1>7, <2>3, <2>5, <2>6, <2>7, <2>10 DEF Alike
<1>8. CASE peer[p].sig[k] # "stable"
  <2>1. peer' = [peer EXCEPT ![p] = idle] /\ wire' = wire
    BY <1>3, <1>8 DEF SetLocalOffer
  <2> HIDE DEF idle
  <2>2. Sane(idle)
    <3>1. peer[p].link
      BY <1>0, <1>6 DEF Sane
    <3>2. QED
      BY <1>0, <1>1, <1>4, <1>5, <3>1 DEF Sane
  <2>3. MeshTables' /\ peer'[p] = idle /\ \A q \in Peer : q # p => peer'[q] = peer[q]
    BY <1>0, <1>4, <2>1, <2>2, Replaced
  <2>4. QED
    BY <1>1, <1>2, <1>4, <1>6, <1>8, <2>1, <2>3
<1>9. QED
  BY <1>7, <1>8

LEMMA SignalReceived ==
  ASSUME MeshTables, NEW p \in Peer, Receive(p)
  PROVE  LET m == Head(wire[p]) IN
         /\ MeshTables' /\ \A q \in Peer : q # p => peer'[q] = peer[q] /\ wire'[q] = wire[q]
         /\ m \in Signal /\ wire[p] # <<>> /\ wire'[p] = Tail(wire[p])
         /\ peer'[p].sig = peer[p].sig /\ peer'[p].draft = peer[p].draft /\ peer'[p].out = peer[p].out
         /\ peer'[p].done = peer[p].done /\ peer'[p].got = peer[p].got
         /\ peer'[p].making = peer[p].making /\ peer'[p].clash = peer[p].clash
         /\ \A j \in Pc : j # m.pc => peer'[p].todo[j] = peer[p].todo[j]
         /\ \/ p = Higher /\ peer'[p].todo[m.pc] = peer[p].todo[m.pc]
            \/ /\ peer'[p].todo[m.pc] = Append(peer[p].todo[m.pc], m)
               /\ p = Higher /\ m.type = "offer" => ~peer[p].making /\ peer[p].sig[m.pc] = "stable"
<1> DEFINE m == Head(wire[p])
<1>0. peer[p] \in Link /\ Sane(peer[p]) /\ wire \in [Peer -> Seq(Signal)] /\ peer \in [Peer -> Link]
  BY DEF MeshTables
<1>1. /\ wire[p] # <<>> /\ wire' = [wire EXCEPT ![p] = Tail(@)]
      /\ peer' = [peer EXCEPT ![p] = handleSignal(p, peer[p], m)]
  BY <1>0 DEF Receive
<1>2. m \in Signal /\ Tail(wire[p]) \in Seq(Signal)
  BY <1>0, <1>1
<1>3. /\ wire' \in [Peer -> Seq(Signal)] /\ wire'[p] = Tail(wire[p])
      /\ \A q \in Peer : q # p => wire'[q] = wire[q]
  BY <1>0, <1>1, <1>2
<1> HIDE DEF m
<1>4. m.pc \in Pc /\ m.type \in {"offer", "answer"}
  <2>1. m.pc # "none"
    BY DEF Receive, m
  <2>2. QED
    BY <1>2, <2>1 DEF Signal, Description, News
<1> DEFINE late == Append(peer[p].todo[m.pc], m)
           todo == [peer[p].todo EXCEPT ![m.pc] = late]
           M == [peer[p] EXCEPT !.todo = todo]
<1>5. CASE handleSignal(p, peer[p], m) = peer[p] /\ p = Higher
  <2>1. MeshTables' /\ peer'[p] = peer[p] /\ \A q \in Peer : q # p => peer'[q] = peer[q]
    BY <1>0, <1>1, <1>3, <1>5, Replaced
  <2>2. QED
    BY <1>1, <1>2, <1>3, <1>5, <2>1 DEF m
<1>6. CASE /\ handleSignal(p, peer[p], m) = M
           /\ p = Higher /\ m.type = "offer" => ~peer[p].making /\ peer[p].sig[m.pc] = "stable"
  <2>1. /\ late \in Seq(Signal) /\ \A i \in 1..Len(late) : late[i].pc = m.pc
    <3>1. peer[p].todo[m.pc] \in Seq(Signal)
      BY <1>0, <1>4 DEF Link
    <3>2. \A i \in 1..Len(peer[p].todo[m.pc]) : peer[p].todo[m.pc][i].pc = m.pc
      BY <1>0, <1>4 DEF Sane
    <3>3. QED
      BY <1>2, <3>1, <3>2
  <2>2. todo \in [Pc -> Seq(Signal)] /\ todo[m.pc] = late /\ \A j \in Pc : j # m.pc => todo[j] = peer[p].todo[j]
    <3> HIDE DEF late
    <3>1. QED
      BY <1>0, <1>4, <2>1 DEF Link
  <2>3. peer' = [peer EXCEPT ![p] = M]
    BY <1>1, <1>6
  <2> HIDE DEF todo
  <2>4. /\ M \in Link /\ M.todo = todo /\ M.sig = peer[p].sig /\ M.draft = peer[p].draft /\ M.out = peer[p].out
        /\ M.done = peer[p].done /\ M.got = peer[p].got /\ M.making = peer[p].making
        /\ M.clash = peer[p].clash /\ M.added = peer[p].added /\ M.link = peer[p].link
        /\ Untouched(M) <=> Untouched(peer[p])
    BY <1>0, <2>2 DEF Link, Untouched
  <2> HIDE DEF M, late
  <2>5. Sane(M)
    <3>1. ASSUME NEW j \in Pc
          PROVE  \A i \in 1..Len(todo[j]) : todo[j][i].pc = j
      <4>1. CASE j = m.pc
        BY <2>1, <2>2, <4>1
      <4>2. CASE j # m.pc
        BY <1>0, <2>2, <4>2 DEF Sane
      <4>3. QED
        BY <4>1, <4>2
    <3>2. QED
      BY <1>0, <2>4, <3>1 DEF Sane
  <2>6. MeshTables' /\ peer'[p] = M /\ \A q \in Peer : q # p => peer'[q] = peer[q]
    BY <1>3, <2>3, <2>4, <2>5, Replaced
  <2>7. peer'[p].todo[m.pc] = Append(peer[p].todo[m.pc], m)
    BY <2>2, <2>4, <2>6 DEF late
  <2>8. QED
    BY <1>1, <1>2, <1>3, <1>6, <2>2, <2>4, <2>6, <2>7 DEF m
<1>7. \/ handleSignal(p, peer[p], m) = peer[p] /\ p = Higher
      \/ /\ handleSignal(p, peer[p], m) = M
         /\ p = Higher /\ m.type = "offer" => ~peer[p].making /\ peer[p].sig[m.pc] = "stable"
  BY Others, MeshAssumption DEF handleSignal, Polite
<1>8. QED
  BY <1>5, <1>6, <1>7

LEMMA RemoteSet ==
  ASSUME MeshTables, NEW p \in Peer, NEW k \in Pc, SetRemote(p, k)
  PROVE  LET m == Head(peer[p].todo[k]) IN
         /\ MeshTables' /\ wire' = wire /\ \A q \in Peer : q # p => peer'[q] = peer[q]
         /\ m \in Signal /\ peer[p].todo[k] # <<>> /\ peer'[p].todo[k] = Tail(peer[p].todo[k])
         /\ peer[p].sig[k] # "answering"
         /\ peer'[p].draft = peer[p].draft /\ peer'[p].making = peer[p].making
         /\ peer'[p].clash = peer[p].clash
         /\ \A j \in Pc : j # k =>
              /\ peer'[p].todo[j] = peer[p].todo[j] /\ peer'[p].sig[j] = peer[p].sig[j]
              /\ peer'[p].out[j] = peer[p].out[j] /\ peer'[p].done[j] = peer[p].done[j]
              /\ peer'[p].got[j] = peer[p].got[j]
         /\ \/ /\ m.type = "offer" /\ peer'[p].sig[k] = "answering" /\ peer'[p].got[k] = m.ver
               /\ peer'[p].done[k] = peer[p].done[k]
            \/ /\ m.type = "answer" /\ peer[p].sig[k] = "offering" /\ peer'[p].sig[k] = "stable"
               /\ peer'[p].done[k] = peer[p].out[k] /\ peer'[p].got[k] = m.ver
            \/ /\ m.type = "answer" /\ peer[p].sig[k] # "offering"
               /\ peer'[p].sig[k] = peer[p].sig[k] /\ peer'[p].out[k] = peer[p].out[k]
               /\ peer'[p].done[k] = peer[p].done[k] /\ peer'[p].got[k] = peer[p].got[k]
<1> DEFINE m == Head(peer[p].todo[k])
           L == [peer[p] EXCEPT !.todo[k] = Tail(@)]
           todo == [peer[p].todo EXCEPT ![k] = Tail(@)]
<1>0. peer[p] \in Link /\ Sane(peer[p]) /\ wire \in [Peer -> Seq(Signal)] /\ peer \in [Peer -> Link]
  BY DEF MeshTables
<1>1. peer[p].todo[k] \in Seq(Signal) /\ peer[p].todo[k] # <<>> /\ peer[p].link
  BY <1>0 DEF SetRemote, Link
<1>2. m \in Signal /\ Tail(peer[p].todo[k]) \in Seq(Signal)
  BY <1>1
<1>3. m.type \in {"offer", "answer"} /\ m.ver \in Nat
  <2>1. m.pc = k /\ k # "none"
    BY <1>0, <1>1 DEF Sane, Pc
  <2>2. QED
    BY <1>2, <2>1 DEF Signal, Description, News
<1>4. /\ todo \in [Pc -> Seq(Signal)] /\ todo[k] = Tail(peer[p].todo[k])
      /\ \A j \in Pc : j # k => todo[j] = peer[p].todo[j]
  BY <1>0, <1>2 DEF Link
<1>5. L = [peer[p] EXCEPT !.todo = todo]
  BY <1>0 DEF Link
<1>6. /\ wire' = wire /\ peer[p].sig[k] # "answering"
      /\ peer' = [peer EXCEPT ![p] =
           CASE m.type = "offer" ->
                  armWatchdog(Met([L EXCEPT !.sig[k] = "answering", !.out[k] = 0, !.got[k] = m.ver], k), k)
             [] m.type = "answer" /\ L.sig[k] = "offering" ->
                  armWatchdog(Met([L EXCEPT !.sig[k] = "stable", !.out[k] = 0,
                                            !.done[k] = L.out[k], !.got[k] = m.ver], k), k)
             [] OTHER -> L]
  <2>1. L.sig = peer[p].sig
    OBVIOUS
  <2>2. QED
    BY <2>1 DEF SetRemote
<1> HIDE DEF m, todo, L
<1>7. /\ L \in Link /\ L.todo = todo /\ L.sig = peer[p].sig /\ L.draft = peer[p].draft /\ L.out = peer[p].out
      /\ L.done = peer[p].done /\ L.got = peer[p].got /\ L.making = peer[p].making
      /\ L.clash = peer[p].clash /\ L.added = peer[p].added /\ L.link
  BY <1>0, <1>1, <1>4, <1>5 DEF Link
<1>8. ASSUME NEW j \in Pc
      PROVE  \A i \in 1..Len(todo[j]) : todo[j][i].pc = j
  <2>1. \A i \in 1..Len(peer[p].todo[j]) : peer[p].todo[j][i].pc = j
    BY <1>0 DEF Sane
  <2>2. CASE j = k
    <3>1. \A i \in 1..Len(Tail(peer[p].todo[k])) :
            i + 1 \in 1..Len(peer[p].todo[k]) /\ Tail(peer[p].todo[k])[i] = peer[p].todo[k][i + 1]
      BY <1>1
    <3>2. \A i \in 1..Len(Tail(peer[p].todo[k])) : Tail(peer[p].todo[k])[i].pc = k
      BY <2>1, <2>2, <3>1
    <3>3. todo[j] = Tail(peer[p].todo[k])
      BY <1>4, <2>2
    <3>4. QED
      BY <2>2, <3>2, <3>3
  <2>3. CASE j # k
    BY <1>4, <2>1, <2>3
  <2>4. QED
    BY <2>2, <2>3
<1>9. \A j \in Pc : /\ peer[p].added[j] \in Nat /\ peer[p].out[j] \in Nat /\ peer[p].done[j] \in Nat
                   /\ peer[p].got[j] \in Nat
  BY <1>0 DEF Link
<1>10. /\ armWatchdog(Met(L, k), k) \in Link
  BY <1>7, TimersOf
<1>11. CASE m.type = "offer"
  <2> DEFINE sig == [L.sig EXCEPT ![k] = "answering"]
             out == [L.out EXCEPT ![k] = 0]
             got == [L.got EXCEPT ![k] = m.ver]
             M == [L EXCEPT !.sig = sig, !.out = out, !.got = got]
             N == armWatchdog(Met(M, k), k)
  <2>1. [L EXCEPT !.sig[k] = "answering", !.out[k] = 0, !.got[k] = m.ver] = M
    BY <1>7 DEF Link
  <2>2. /\ sig \in [Pc -> {"stable", "offering", "answering"}] /\ sig[k] = "answering"
        /\ \A j \in Pc : j # k => sig[j] = peer[p].sig[j]
    BY <1>0, <1>7 DEF Link
  <2>3. /\ out \in [Pc -> Nat] /\ out[k] = 0 /\ \A j \in Pc : j # k => out[j] = peer[p].out[j]
    BY <1>0, <1>7 DEF Link
  <2>4. /\ got \in [Pc -> Nat] /\ got[k] = m.ver /\ \A j \in Pc : j # k => got[j] = peer[p].got[j]
    BY <1>0, <1>3, <1>7 DEF Link
  <2>5. peer' = [peer EXCEPT ![p] = N]
    BY <1>6, <1>11, <2>1
  <2> HIDE DEF sig, out, got
  <2>6. /\ M \in Link /\ M.sig = sig /\ M.out = out /\ M.got = got /\ M.todo = L.todo /\ M.draft = L.draft
        /\ M.done = L.done /\ M.making = L.making /\ M.clash = L.clash /\ M.added = L.added /\ M.link = L.link
    BY <1>7, <2>2, <2>3, <2>4 DEF Link
  <2> HIDE DEF M
  <2>7. Met(M, k) \in Link /\ Alike(Met(M, k), M) /\ Met(M, k).added = M.added /\ Met(M, k).link = M.link
    BY <2>6, TimersOf
  <2>8. N \in Link /\ Alike(N, Met(M, k)) /\ N.added = Met(M, k).added /\ N.link = Met(M, k).link
    BY <2>7, TimersOf
  <2> HIDE DEF N
  <2>9. /\ N.sig = sig /\ N.out = out /\ N.got = got /\ N.todo = todo /\ N.draft = peer[p].draft
        /\ N.done = peer[p].done /\ N.making = peer[p].making /\ N.clash = peer[p].clash
        /\ N.added = peer[p].added /\ N.link
    BY <1>7, <2>6, <2>7, <2>8 DEF Alike
  <2>10. Sane(N)
    <3>1. \A j \in Pc : out[j] <= peer[p].added[j]
      BY <1>0, <1>9, <2>3 DEF Sane
    <3>2. QED
      BY <1>0, <1>8, <2>9, <3>1 DEF Sane
  <2>11. MeshTables' /\ peer'[p] = N /\ \A q \in Peer : q # p => peer'[q] = peer[q]
    BY <1>0, <1>6, <2>5, <2>8, <2>10, Replaced
  <2>12. QED
    <3>1. /\ peer'[p].sig = sig /\ peer'[p].out = out /\ peer'[p].got = got /\ peer'[p].todo = todo
          /\ peer'[p].draft = peer[p].draft /\ peer'[p].done = peer[p].done
          /\ peer'[p].making = peer[p].making /\ peer'[p].clash = peer[p].clash
      BY <2>9, <2>11
    <3>2. \A j \in Pc : j # k =>
              /\ peer'[p].todo[j] = peer[p].todo[j] /\ peer'[p].sig[j] = peer[p].sig[j]
              /\ peer'[p].out[j] = peer[p].out[j] /\ peer'[p].done[j] = peer[p].done[j]
              /\ peer'[p].got[j] = peer[p].got[j]
      BY <1>4, <2>2, <2>3, <2>4, <3>1
    <3>3. /\ peer'[p].todo[k] = Tail(peer[p].todo[k]) /\ peer'[p].sig[k] = sig[k]
          /\ peer'[p].got[k] = m.ver /\ peer'[p].done[k] = peer[p].done[k]
      BY <1>4, <2>4, <3>1
    <3>4. QED
      BY <1>1, <1>2, <1>6, <1>11, <2>2, <2>11, <3>1, <3>2, <3>3 DEF m
<1>12. CASE m.type = "answer" /\ peer[p].sig[k] = "offering"
  <2> DEFINE sig == [L.sig EXCEPT ![k] = "stable"]
             out == [L.out EXCEPT ![k] = 0]
             done == [L.done EXCEPT ![k] = L.out[k]]
             got == [L.got EXCEPT ![k] = m.ver]
             M == [L EXCEPT !.sig = sig, !.out = out, !.done = done, !.got = got]
             N == armWatchdog(Met(M, k), k)
  <2>1. [L EXCEPT !.sig[k] = "stable", !.out[k] = 0, !.done[k] = L.out[k], !.got[k] = m.ver] = M
    BY <1>7 DEF Link
  <2>2. /\ sig \in [Pc -> {"stable", "offering", "answering"}] /\ sig[k] = "stable"
        /\ \A j \in Pc : j # k => sig[j] = peer[p].sig[j]
    BY <1>0, <1>7 DEF Link
  <2>3. /\ out \in [Pc -> Nat] /\ out[k] = 0 /\ \A j \in Pc : j # k => out[j] = peer[p].out[j]
    BY <1>0, <1>7 DEF Link
  <2>3a. /\ done \in [Pc -> Nat] /\ done[k] = peer[p].out[k] /\ \A j \in Pc : j # k => done[j] = peer[p].done[j]
    BY <1>0, <1>7 DEF Link
  <2>4. /\ got \in [Pc -> Nat] /\ got[k] = m.ver /\ \A j \in Pc : j # k => got[j] = peer[p].got[j]
    BY <1>0, <1>3, <1>7 DEF Link
  <2>5. peer' = [peer EXCEPT ![p] = N]
    BY <1>6, <1>7, <1>12, <2>1
  <2> HIDE DEF sig, out, done, got
  <2>6. /\ M \in Link /\ M.sig = sig /\ M.out = out /\ M.got = got /\ M.done = done /\ M.todo = L.todo
        /\ M.draft = L.draft
        /\ M.making = L.making /\ M.clash = L.clash /\ M.added = L.added /\ M.link = L.link
    BY <1>7, <2>2, <2>3, <2>3a, <2>4 DEF Link
  <2> HIDE DEF M
  <2>7. Met(M, k) \in Link /\ Alike(Met(M, k), M) /\ Met(M, k).added = M.added /\ Met(M, k).link = M.link
    BY <2>6, TimersOf
  <2>8. N \in Link /\ Alike(N, Met(M, k)) /\ N.added = Met(M, k).added /\ N.link = Met(M, k).link
    BY <2>7, TimersOf
  <2> HIDE DEF N
  <2>9. /\ N.sig = sig /\ N.out = out /\ N.got = got /\ N.todo = todo /\ N.draft = peer[p].draft
        /\ N.done = done /\ N.making = peer[p].making /\ N.clash = peer[p].clash
        /\ N.added = peer[p].added /\ N.link
    BY <1>7, <2>6, <2>7, <2>8 DEF Alike
  <2>10. Sane(N)
    <3>1. \A j \in Pc : out[j] <= peer[p].added[j] /\ done[j] <= peer[p].added[j]
      <4>1. ASSUME NEW j \in Pc
            PROVE  peer[p].out[j] <= peer[p].added[j] /\ peer[p].done[j] <= peer[p].added[j]
        BY <1>0 DEF Sane
      <4>2. QED
        BY <1>9, <2>3, <2>3a, <4>1
    <3>2. QED
      BY <1>0, <1>8, <2>9, <3>1 DEF Sane
  <2>11. MeshTables' /\ peer'[p] = N /\ \A q \in Peer : q # p => peer'[q] = peer[q]
    BY <1>0, <1>6, <2>5, <2>8, <2>10, Replaced
  <2>12. QED
    <3>1. /\ peer'[p].sig = sig /\ peer'[p].out = out /\ peer'[p].got = got /\ peer'[p].todo = todo
          /\ peer'[p].draft = peer[p].draft /\ peer'[p].done = done
          /\ peer'[p].making = peer[p].making /\ peer'[p].clash = peer[p].clash
      BY <2>9, <2>11
    <3>2. \A j \in Pc : j # k =>
              /\ peer'[p].todo[j] = peer[p].todo[j] /\ peer'[p].sig[j] = peer[p].sig[j]
              /\ peer'[p].out[j] = peer[p].out[j] /\ peer'[p].done[j] = peer[p].done[j]
              /\ peer'[p].got[j] = peer[p].got[j]
      BY <1>4, <2>2, <2>3, <2>3a, <2>4, <3>1
    <3>3. /\ peer'[p].todo[k] = Tail(peer[p].todo[k]) /\ peer'[p].sig[k] = sig[k]
          /\ peer'[p].got[k] = m.ver /\ peer'[p].done[k] = done[k]
      BY <1>4, <2>4, <3>1
    <3>4. QED
      BY <1>1, <1>2, <1>6, <1>12, <2>2, <2>3a, <2>11, <3>1, <3>2, <3>3 DEF m
<1>13. CASE m.type = "answer" /\ peer[p].sig[k] # "offering"
  <2>1. peer' = [peer EXCEPT ![p] = L]
    BY <1>6, <1>7, <1>13
  <2>2. Sane(L)
    BY <1>0, <1>7, <1>8 DEF Sane
  <2>3. MeshTables' /\ peer'[p] = L /\ \A q \in Peer : q # p => peer'[q] = peer[q]
    BY <1>0, <1>6, <1>7, <2>1, <2>2, Replaced
  <2>4. QED
    BY <1>1, <1>2, <1>4, <1>6, <1>7, <1>13, <2>3, ZenonT(30) DEF m
<1>14. QED
  BY <1>3, <1>11, <1>12, <1>13

LEMMA AnswerSent ==
  ASSUME MeshTables, NEW p \in Peer, NEW k \in Pc, SendAnswer(p, k)
  PROVE  /\ MeshTables' /\ \A q \in Peer : q # p => peer'[q] = peer[q]
         /\ peer[p].sig[k] = "answering" /\ peer'[p].sig[k] = "stable"
         /\ peer'[p].draft = peer[p].draft /\ peer'[p].making = peer[p].making
         /\ peer'[p].clash = peer[p].clash /\ peer'[p].todo = peer[p].todo
         /\ peer'[p].out = peer[p].out /\ peer'[p].got = peer[p].got
         /\ \A j \in Pc : j # k =>
              peer'[p].sig[j] = peer[p].sig[j] /\ peer'[p].done[j] = peer[p].done[j]
         /\ peer'[p].done[k] \in Nat
         /\ Sent(p, [type |-> "answer", pc |-> k, ver |-> peer'[p].done[k]])
<1>0. peer[p] \in Link /\ Sane(peer[p]) /\ wire \in [Peer -> Seq(Signal)] /\ peer \in [Peer -> Link]
  BY DEF MeshTables
<1>1. PICK covers \in peer[p].done[k]..peer[p].added[k] :
        /\ peer' = [peer EXCEPT ![p].sig[k] = "stable", ![p].done[k] = covers]
        /\ _signal(p, [type |-> "answer", pc |-> k, ver |-> covers])
  BY DEF SendAnswer
<1>2. \A j \in Pc : peer[p].added[j] \in Nat /\ peer[p].done[j] \in Nat
  BY <1>0 DEF Link
<1>3. covers \in Nat /\ covers <= peer[p].added[k]
  BY <1>2
<1> DEFINE sig == [peer[p].sig EXCEPT ![k] = "stable"]
           done == [peer[p].done EXCEPT ![k] = covers]
           M == [peer[p] EXCEPT !.sig = sig, !.done = done]
<1>4. /\ sig \in [Pc -> {"stable", "offering", "answering"}] /\ sig[k] = "stable"
      /\ \A j \in Pc : j # k => sig[j] = peer[p].sig[j]
      /\ done \in [Pc -> Nat] /\ done[k] = covers /\ \A j \in Pc : j # k => done[j] = peer[p].done[j]
  BY <1>0, <1>3 DEF Link
<1>5. peer' = [peer EXCEPT ![p] = M]
  BY <1>0, <1>1 DEF Link
<1> HIDE DEF sig, done
<1>6. /\ M \in Link /\ M.sig = sig /\ M.done = done /\ M.draft = peer[p].draft /\ M.making = peer[p].making
      /\ M.clash = peer[p].clash /\ M.todo = peer[p].todo /\ M.out = peer[p].out /\ M.got = peer[p].got
      /\ M.added = peer[p].added /\ M.link = peer[p].link
  BY <1>0, <1>4 DEF Link
<1> HIDE DEF M
<1>7. Sane(M)
  <2>1. peer[p].link
    BY <1>0 DEF Sane, SendAnswer
  <2>2. \A j \in Pc : done[j] <= peer[p].added[j]
    BY <1>0, <1>3, <1>4 DEF Sane
  <2>3. QED
    BY <1>0, <1>6, <2>1, <2>2 DEF Sane
<1>8. [type |-> "answer", pc |-> k, ver |-> covers] \in Signal
  BY <1>3 DEF Signal, Description
<1>9. wire' \in [Peer -> Seq(Signal)] /\ Sent(p, [type |-> "answer", pc |-> k, ver |-> covers])
  BY <1>0, <1>1, <1>8, SignalSent
<1>10. MeshTables' /\ peer'[p] = M /\ \A q \in Peer : q # p => peer'[q] = peer[q]
  BY <1>0, <1>5, <1>6, <1>7, <1>9, Replaced
<1>11. QED
  BY <1>3, <1>4, <1>6, <1>9, <1>10 DEF SendAnswer

-----------------------------------------------------------------------------
(* Connections a step does not concern.                                    *)

LEMMA ThinnerSame ==
  ASSUME NEW s, NEW k, Len(s) \in Nat
  PROVE  Thinner(s, s, k)
<1> DEFINE f == [i \in Places(s) |-> i]
<1>1. f \in [Places(s) -> Nat]
  BY DEF Places
<1>2. QED
  BY <1>1 DEF Thinner, Places

LEMMA ThinnerSkip ==
  ASSUME NEW S, NEW a \in Seq(S), NEW b \in Seq(S), b # <<>>, NEW k
  PROVE  Thinner(a \o Tail(b), a \o b, k)
<1> DEFINE s == a \o b  t == a \o Tail(b)
           f == [i \in Places(t) |-> IF i <= Len(a) THEN i ELSE i + 1]
<1>1. /\ t \in Seq(S) /\ Len(s) = Len(t) + 1
      /\ \A i \in 1..Len(t) : t[i] = s[IF i <= Len(a) THEN i ELSE i + 1]
  BY PassOver
<1>2. Len(t) \in Nat /\ Len(s) \in Nat /\ Len(a) \in Nat
  BY <1>1
<1> HIDE DEF s, t
<1>3. f \in [Places(t) -> Nat]
  BY <1>2 DEF Places
<1>4. ASSUME NEW i \in Places(t)
      PROVE  /\ f[i] \in Places(s) /\ t[i] = s[f[i]]
             /\ \A j \in Places(t) : i < j => f[i] < f[j]
  BY <1>1, <1>2 DEF Places
<1> HIDE DEF f
<1>5. Thinner(t, s, k)
  BY <1>3, <1>4 DEF Thinner
<1>6. QED
  BY <1>5 DEF s, t

LEMMA ThinnerCut ==
  ASSUME NEW S, NEW a \in Seq(S), NEW b \in Seq(S), NEW k
  PROVE  Thinner(a \o <<>>, a \o b, k)
<1> DEFINE s == a \o b  t == a \o <<>>
           f == [i \in Places(t) |-> i]
<1>1. /\ Len(a) \in Nat /\ Len(t) = Len(a) /\ Len(s) \in Nat /\ Len(a) <= Len(s)
      /\ \A i \in 1..Len(a) : t[i] = s[i]
  OBVIOUS
<1> HIDE DEF s, t
<1>2. f \in [Places(t) -> Nat]
  BY <1>1 DEF Places
<1>3. ASSUME NEW i \in Places(t)
      PROVE  /\ f[i] \in Places(s) /\ t[i] = s[f[i]]
             /\ \A j \in Places(t) : i < j => f[i] < f[j]
  BY <1>1 DEF Places
<1> HIDE DEF f
<1>4. Thinner(t, s, k)
  BY <1>2, <1>3 DEF Thinner
<1>5. QED
  BY <1>4 DEF s, t

LEMMA ThinnerNews ==
  ASSUME NEW S, NEW a \in Seq(S), NEW b \in Seq(S), NEW m \in S, NEW k, m.pc # k
  PROVE  Thinner(a \o Append(b, m), a \o b, k)
<1> DEFINE s == a \o b  t == a \o Append(b, m)
           f == [i \in Places(t) |-> i]
<1>1. /\ Len(t) = Len(s) + 1 /\ t[Len(s) + 1] = m /\ \A i \in 1..Len(s) : t[i] = s[i]
  BY AddLast
<1>2. Len(s) \in Nat
  OBVIOUS
<1> HIDE DEF s, t
<1>3. f \in [Places(t) -> Nat]
  BY <1>1, <1>2 DEF Places
<1>4. ASSUME NEW i \in Places(t), t[i].pc = k
      PROVE  /\ f[i] \in Places(s) /\ t[i] = s[f[i]]
             /\ \A j \in Places(t) : i < j => f[i] < f[j]
  <2>1. i # Len(s) + 1
    BY <1>1, <1>4
  <2>2. QED
    BY <1>1, <1>2, <2>1 DEF Places
<1> HIDE DEF f
<1>5. Thinner(t, s, k)
  BY <1>3, <1>4 DEF Thinner
<1>6. QED
  BY <1>5 DEF s, t

\* Where the signals of a step go.
LEMMA Arrives ==
  ASSUME MeshTables, MeshTables', NEW p \in Peer, NEW m \in Signal, Sent(p, m), NEW j \in Pc,
         \A q \in Peer : peer'[q].todo[j] = peer[q].todo[j]
  PROVE  LET s == Coming(Other(p), j)  t == Coming(Other(p), j)' IN
         /\ Coming(p, j)' = Coming(p, j)
         /\ Len(s) \in Nat /\ Len(t) \in Nat /\ Len(s) <= Len(t)
         /\ \A i \in Places(s) : i \in Places(t) /\ t[i] = s[i]
         /\ \A i \in Places(t) : i \in Places(s) \/ (i = Len(s) + 1 /\ t[i] = m)
<1> DEFINE q == Other(p)  a == peer[q].todo[j]  b == wire[q]
<1>1. q \in Peer /\ q # p
  BY Others
<1>2. a \in Seq(Signal) /\ b \in Seq(Signal) /\ wire \in [Peer -> Seq(Signal)]
  BY <1>1, ComingType DEF MeshTables
<1>3. Coming(p, j)' = Coming(p, j)
  BY <1>1, <1>2 DEF Sent, Coming
<1>4. Coming(q, j) = a \o b /\ Coming(q, j)' = a \o wire'[q]
  BY <1>1 DEF Coming
<1>8. wire'[q] = b \/ wire'[q] = Append(b, m)
  BY <1>1, <1>2 DEF Sent
<1> HIDE DEF a, b
<1>5. Len(a \o b) \in Nat
  BY <1>2
<1>6. CASE wire'[q] = b
  <2>1. Coming(q, j)' = Coming(q, j) /\ Len(Coming(q, j)) \in Nat
    BY <1>4, <1>5, <1>6
  <2>2. QED
    BY <1>3, <2>1
<1>7. CASE wire'[q] = Append(b, m)
  <2>1. /\ Len(a \o Append(b, m)) = Len(a \o b) + 1
        /\ (a \o Append(b, m))[Len(a \o b) + 1] = m
        /\ \A i \in 1..Len(a \o b) : (a \o Append(b, m))[i] = (a \o b)[i]
    BY <1>2, AddLast
  <2> DEFINE s == a \o b  t == a \o Append(b, m)
  <2>2. Coming(q, j) = s /\ Coming(q, j)' = t
    BY <1>4, <1>7
  <2> HIDE DEF s, t, q
  <2>3. /\ Len(s) \in Nat /\ Len(t) = Len(s) + 1 /\ t[Len(s) + 1] = m
        /\ \A i \in 1..Len(s) : t[i] = s[i]
    BY <1>5, <2>1 DEF s, t
  <2>4. /\ Len(s) \in Nat /\ Len(t) \in Nat /\ Len(s) <= Len(t)
        /\ \A i \in Places(s) : i \in Places(t) /\ t[i] = s[i]
        /\ \A i \in Places(t) : i \in Places(s) \/ (i = Len(s) + 1 /\ t[i] = m)
    BY <2>3 DEF Places
  <2>5. QED
    BY <1>3, <2>2, <2>4 DEF q
<1>9. QED
  BY <1>6, <1>7, <1>8

LEMMA Unmoved ==
  ASSUME MeshTables, NEW j \in Pc, Kept(j), Orderly(j),
         \A q \in Peer : peer'[q].todo[j] = peer[q].todo[j], wire' = wire
  PROVE  Orderly(j)'
<1>1. \A q \in Peer : Coming(q, j)' = Coming(q, j) /\ Len(Coming(q, j)) \in Nat
  BY ComingType DEF Coming
<1>2. \A q \in Peer : Thinner(Coming(q, j)', Coming(q, j), j)
  BY <1>1, ThinnerSame
<1>3. Accepted(j)'
  BY DEF Orderly, Accepted, Kept, Peer
<1>4. QED
  BY <1>1, <1>2, <1>3, Thinned

LEMMA Aloof ==
  ASSUME MeshTables, MeshTables', NEW p \in Peer, NEW m \in Signal, Sent(p, m),
         NEW j \in Pc, m.pc # j, Kept(j), Orderly(j),
         \A q \in Peer : peer'[q].todo[j] = peer[q].todo[j]
  PROVE  Orderly(j)'
<1>1. Coming(p, j)' = Coming(p, j) /\ Len(Coming(p, j)) \in Nat
  BY Arrives, ComingType
<1>2. Thinner(Coming(p, j)', Coming(p, j), j)
  BY <1>1, ThinnerSame
<1> DEFINE s == Coming(Other(p), j)  t == Coming(Other(p), j)'
           f == [i \in Places(t) |-> i]
<1>3. /\ Len(s) \in Nat /\ Len(t) \in Nat
      /\ \A i \in Places(s) : i \in Places(t) /\ t[i] = s[i]
      /\ \A i \in Places(t) : i \in Places(s) \/ (i = Len(s) + 1 /\ t[i] = m)
  BY Arrives
<1> HIDE DEF s, t
<1>4. f \in [Places(t) -> Nat]
  BY <1>3 DEF Places
<1>5. ASSUME NEW i \in Places(t), t[i].pc = j
      PROVE  f[i] \in Places(s) /\ t[i] = s[f[i]] /\ \A l \in Places(t) : i < l => f[i] < f[l]
  BY <1>3, <1>5
<1> HIDE DEF f
<1>6. Thinner(t, s, j)
  BY <1>4, <1>5 DEF Thinner
<1>7. \A q \in Peer : Thinner(Coming(q, j)', Coming(q, j), j)
  BY <1>2, <1>6, Others DEF s, t
<1>8. \A q \in Peer : Len(Coming(q, j)) \in Nat /\ Len(Coming(q, j)') \in Nat
  BY <1>1, <1>3, Others DEF s, t
<1>9. Accepted(j)'
  BY DEF Orderly, Accepted, Kept, Peer
<1>10. QED
  BY <1>7, <1>8, <1>9, Thinned

-----------------------------------------------------------------------------
(* Offers.                                                                 *)

\* What is common to the cases: the fields and the queues, without the links around them.
LEMMA OfferOfHigher ==
  ASSUME MeshTables, MeshTables', NEW k \in Pc, Orderly(k), NEW m \in Signal, Sent(Higher, m),
         m.type = "offer", m.pc = k, m.ver = OutOf(Higher, k)',
         \A q \in Peer : peer'[q].todo[k] = peer[q].todo[k],
         Sig(Higher, k) = "stable", Sig(Higher, k)' = "offering",
         \A i \in 1..Len(peer[Higher].todo[k]) : peer[Higher].todo[k][i].type # "offer",
         DoneOf(Higher, k)' = DoneOf(Higher, k), GotOf(Higher, k)' = GotOf(Higher, k),
         peer'[Lower] = peer[Lower]
  PROVE  Orderly(k)'
<1> DEFINE s == Coming(Lower, k)  t == Coming(Lower, k)'
           u == Coming(Higher, k) v == Coming(Higher, k)'
<1>1. /\ v = u /\ Len(s) \in Nat /\ Len(t) \in Nat
      /\ \A i \in Places(s) : i \in Places(t) /\ t[i] = s[i]
      /\ \A i \in Places(t) : i \in Places(s) \/ (i = Len(s) + 1 /\ t[i] = m)
  <2>1. Higher \in Peer
    BY DEF Peer
  <2>2. QED
    BY <2>1, Arrives, Others
<1>2. /\ Sig(Lower, k)' = Sig(Lower, k) /\ OutOf(Lower, k)' = OutOf(Lower, k)
      /\ DoneOf(Lower, k)' = DoneOf(Lower, k) /\ GotOf(Lower, k)' = GotOf(Lower, k)
  BY DEF Sig, OutOf, DoneOf, GotOf
<1>3. /\ \A i \in Places(s) : ~Offer(s, i, k)
      /\ \A i \in Places(u) : ~Answer(u, i, k)
      /\ Sig(Lower, k) # "answering"
  BY DEF Orderly, OfferToLower, AnswerToHigher, Answering
<1> HIDE DEF s, t, u, v
<1>4. AnswerToLower(k)'
  <2>1. ASSUME NEW i \in Places(t), Answer(t, i, k)
        PROVE  /\ Sig(Lower, k) = "offering" /\ OutOf(Lower, k) = GotOf(Higher, k)
               /\ t[i].ver = DoneOf(Higher, k)
               /\ \A j \in Places(t) : t[j].pc = k /\ j # i => t[j].type = "offer" /\ i < j
               /\ Silent(v, k)
    <3>1. i \in Places(s) /\ t[i] = s[i] /\ Answer(s, i, k)
      BY <1>1, <2>1 DEF Answer
    <3>2. /\ Sig(Lower, k) = "offering" /\ OutOf(Lower, k) = GotOf(Higher, k)
          /\ s[i].ver = DoneOf(Higher, k)
          /\ \A j \in Places(s) : s[j].pc = k /\ j # i => s[j].type = "offer" /\ i < j
          /\ Silent(u, k)
      BY <3>1 DEF Orderly, AnswerToLower, s, u
    <3>3. ASSUME NEW j \in Places(t), t[j].pc = k, j # i
          PROVE  t[j].type = "offer" /\ i < j
      <4>1. CASE j \in Places(s)
        BY <1>1, <3>2, <3>3, <4>1
      <4>2. CASE j = Len(s) + 1 /\ t[j] = m
        BY <1>1, <3>1, <4>2 DEF Places
      <4>3. QED
        BY <1>1, <4>1, <4>2
    <3>4. QED
      BY <1>1, <3>1, <3>2, <3>3
  <2>2. QED
    BY <1>2, <2>1 DEF AnswerToLower, t, v
<1>5. AnswerToHigher(k)'
  BY <1>1, <1>3 DEF AnswerToHigher, v
<1>6. OfferToLower(k)'
  <2>1. ASSUME NEW i \in Places(t), Offer(t, i, k)
        PROVE  i = Len(s) + 1 /\ t[i] = m
    BY <1>1, <1>3, <2>1 DEF Offer
  <2>2. QED
    BY <1>2, <1>3, <2>1 DEF OfferToLower, t
<1>7. OfferToHigher(k)'
  BY <1>1, <1>3 DEF OfferToHigher, Live, v
<1>8. Accepted(k)' /\ Answering(k)' /\ BothStable(k)'
  <2>1. peer'[Higher].todo[k] = peer[Higher].todo[k]
    BY DEF Peer
  <2>2. QED
    BY <1>2, <1>3, <2>1 DEF Accepted, Answering, BothStable
<1>9. QED
  BY <1>4, <1>5, <1>6, <1>7, <1>8 DEF Orderly

LEMMA OfferOfLower ==
  ASSUME MeshTables, MeshTables', NEW k \in Pc, Orderly(k), NEW m \in Signal, Sent(Lower, m),
         m.type = "offer", m.pc = k, m.ver = OutOf(Lower, k)',
         \A q \in Peer : peer'[q].todo[k] = peer[q].todo[k],
         Sig(Lower, k) = "stable", Sig(Lower, k)' = "offering",
         DoneOf(Lower, k)' = DoneOf(Lower, k), GotOf(Lower, k)' = GotOf(Lower, k),
         peer'[Higher] = peer[Higher]
  PROVE  Orderly(k)'
<1> DEFINE s == Coming(Lower, k)  t == Coming(Lower, k)'
           u == Coming(Higher, k) v == Coming(Higher, k)'
<1>1. /\ t = s /\ Len(u) \in Nat /\ Len(v) \in Nat
      /\ \A i \in Places(u) : i \in Places(v) /\ v[i] = u[i]
      /\ \A i \in Places(v) : i \in Places(u) \/ (i = Len(u) + 1 /\ v[i] = m)
  <2>1. Lower \in Peer
    BY DEF Peer
  <2>2. QED
    BY <2>1, Arrives, Others
<1>2. /\ Sig(Higher, k)' = Sig(Higher, k) /\ OutOf(Higher, k)' = OutOf(Higher, k)
      /\ DoneOf(Higher, k)' = DoneOf(Higher, k) /\ GotOf(Higher, k)' = GotOf(Higher, k)
  BY DEF Sig, OutOf, DoneOf, GotOf
<1>3. /\ \A i \in Places(s) : ~Answer(s, i, k)
      /\ \A i \in Places(u) : ~Live(i, k)
      /\ Sig(Higher, k) # "answering"
  BY DEF Orderly, OfferToHigher, AnswerToLower, Answering
<1> HIDE DEF s, t, u, v
<1>4. \A i \in Places(v) : Answer(v, i, k) => i \in Places(u) /\ Answer(u, i, k) /\ v[i] = u[i]
  BY <1>1 DEF Answer
<1>5. AnswerToHigher(k)'
  <2>1. ASSUME NEW i \in Places(v), Answer(v, i, k)
        PROVE  /\ Sig(Higher, k) = "offering" /\ OutOf(Higher, k) = GotOf(Lower, k)
               /\ v[i].ver = DoneOf(Lower, k)
               /\ \A j \in Places(v) : Answer(v, j, k) => i = j
               /\ Silent(t, k)
    <3>1. i \in Places(u) /\ Answer(u, i, k) /\ v[i] = u[i]
      BY <1>4, <2>1
    <3>2. /\ Sig(Higher, k) = "offering" /\ OutOf(Higher, k) = GotOf(Lower, k)
          /\ u[i].ver = DoneOf(Lower, k)
          /\ \A j \in Places(u) : Answer(u, j, k) => i = j
          /\ Silent(s, k)
      BY <3>1 DEF Orderly, AnswerToHigher, s, u
    <3>3. QED
      BY <1>1, <1>4, <3>1, <3>2
  <2>2. QED
    BY <1>2, <2>1 DEF AnswerToHigher, t, v
<1>6. AnswerToLower(k)'
  BY <1>1, <1>3 DEF AnswerToLower, t
<1>7. OfferToLower(k)'
  BY <1>1, <1>2 DEF Orderly, OfferToLower, s, t
<1>8. OfferToHigher(k)'
  <2>1. ASSUME NEW i \in Places(v), Live(i, k)'
        PROVE  i = Len(u) + 1 /\ v[i] = m
    <3>1. CASE i \in Places(u)
      <4>1. Offer(u, i, k)
        BY <1>1, <2>1, <3>1 DEF Live, Offer, v
      <4>2. ASSUME Sig(Higher, k) = "offering"
            PROVE  \E j \in Places(u) : j < i /\ Answer(u, j, k)
        BY <1>2, <1>4, <2>1, <4>2 DEF Live, v
      <4>3. Live(i, k)
        BY <4>1, <4>2 DEF Live, u
      <4>4. QED
        BY <1>3, <3>1, <4>3
    <3>2. QED
      BY <1>1, <3>1
  <2>2. QED
    BY <2>1 DEF OfferToHigher, v
<1>9. Accepted(k)' /\ Answering(k)' /\ BothStable(k)'
  BY <1>2, <1>3 DEF Orderly, Accepted, Answering, BothStable
<1>10. QED
  BY <1>5, <1>6, <1>7, <1>8, <1>9 DEF Orderly

LEMMA OfferKeeps ==
  ASSUME MeshInv, NEW p \in Peer, NEW k \in Pc, SetLocalOffer(p, k)
  PROVE  MeshInv'
<1>0. renewed' = renewed
  BY DEF SetLocalOffer
<1> DEFINE m == [type |-> "offer", pc |-> k, ver |-> peer[p].draft[k]]
<1>1. /\ MeshTables /\ MeshTables' /\ \A q \in Peer : q # p => peer'[q] = peer[q]
      /\ peer'[p].todo = peer[p].todo /\ peer'[p].done = peer[p].done /\ peer'[p].got = peer[p].got
      /\ peer'[p].draft[k] = 0 /\ \A j \in Pc : j # k => peer'[p].draft[j] = peer[p].draft[j]
      /\ ~peer'[p].clash => ~peer[p].clash /\ \A j \in Pc : peer'[p].draft[j] = 0
      /\ peer[p].draft[k] # 0
      /\ \A j \in Pc : j # k => peer'[p].sig[j] = peer[p].sig[j] /\ peer'[p].out[j] = peer[p].out[j]
      /\ \/ /\ peer[p].sig[k] = "stable" /\ peer'[p].sig[k] = "offering"
            /\ peer'[p].out[k] = peer[p].draft[k] /\ Sent(p, m)
         \/ /\ peer[p].sig[k] # "stable" /\ wire' = wire
            /\ peer'[p].sig[k] = peer[p].sig[k] /\ peer'[p].out[k] = peer[p].out[k]
  BY OfferMade DEF MeshInv
<1>2. m \in Signal /\ m.type = "offer" /\ m.pc = k /\ m.ver = peer[p].draft[k]
  BY <1>1 DEF Signal, Description, MeshTables, Link
<1> HIDE DEF m
<1> SUFFICES ASSUME Steady'
             PROVE  Making' /\ \A j \in Pc : Orderly(j)'
  BY <1>1 DEF MeshInv
<1>3. Making /\ \A j \in Pc : Orderly(j)
  BY <1>0, <1>1, Others DEF MeshInv, Clashed, Steady
<1>4. Making'
  <2>1. CASE p = Higher
    BY <1>1, <2>1 DEF Making, Clashed, Steady
  <2>2. CASE p = Lower
    <3>1. peer'[Higher] = peer[Higher]
      BY <1>1, <2>2, Others DEF Peer
    <3>2. QED
      BY <1>3, <3>1 DEF Making, Sig
  <2>3. QED
    BY <2>1, <2>2, Others
<1>5. \A q \in Peer, j \in Pc : peer'[q].todo[j] = peer[q].todo[j]
  BY <1>1
<1>6. ASSUME NEW j \in Pc, j # k
      PROVE  Orderly(j)'
  <2>1. Kept(j)
    BY <1>1, <1>6 DEF Kept, Sig, OutOf, DoneOf, GotOf
  <2>2. CASE Sent(p, m)
    BY <1>1, <1>2, <1>3, <1>5, <1>6, <2>1, <2>2, Aloof
  <2>3. CASE wire' = wire
    BY <1>1, <1>3, <1>5, <2>1, <2>3, Unmoved
  <2>4. QED
    BY <1>1, <2>2, <2>3
<1>7. CASE peer[p].sig[k] # "stable"
  <2>1. Kept(k) /\ wire' = wire
    BY <1>1, <1>7 DEF Kept, Sig, OutOf, DoneOf, GotOf
  <2>2. Orderly(k)'
    BY <1>1, <1>3, <1>5, <2>1, Unmoved
  <2>3. QED
    BY <1>4, <1>6, <2>2
<1>8. CASE peer[p].sig[k] = "stable"
  <2>1. /\ Sig(p, k) = "stable" /\ Sig(p, k)' = "offering" /\ m.ver = OutOf(p, k)' /\ Sent(p, m)
        /\ DoneOf(p, k)' = DoneOf(p, k) /\ GotOf(p, k)' = GotOf(p, k)
    BY <1>1, <1>2, <1>8 DEF Sig, OutOf, DoneOf, GotOf
  <2>2. CASE p = Higher
    <3>1. \A i \in 1..Len(peer[Higher].todo[k]) : peer[Higher].todo[k][i].type # "offer"
      BY <1>1, <1>3, <2>2 DEF Making
    <3>2. peer'[Lower] = peer[Lower]
      BY <1>1, <2>2, Others DEF Peer
    <3>3. Orderly(k)'
      BY <1>1, <1>2, <1>3, <1>5, <2>1, <2>2, <3>1, <3>2, OfferOfHigher
    <3>4. QED
      BY <1>4, <1>6, <3>3
  <2>3. CASE p = Lower
    <3>1. peer'[Higher] = peer[Higher]
      BY <1>1, <2>3, Others DEF Peer
    <3>2. Orderly(k)'
      BY <1>1, <1>2, <1>3, <1>5, <2>1, <2>3, <3>1, OfferOfLower
    <3>3. QED
      BY <1>4, <1>6, <3>2
  <2>4. QED
    BY <2>2, <2>3, Others
<1>9. QED
  BY <1>7, <1>8

-----------------------------------------------------------------------------
(* Descriptions that are applied, and answers.                             *)

\* The first signal is taken from those that come to p.
LEMMA Taken ==
  ASSUME MeshTables, NEW p \in Peer, NEW k \in Pc, wire' = wire,
         peer[p].todo[k] # <<>>, peer'[p].todo[k] = Tail(peer[p].todo[k])
  PROVE  LET s == Coming(p, k)  t == Coming(p, k)' IN
         /\ Len(t) \in Nat /\ Len(s) = Len(t) + 1 /\ 1 \in Places(s)
         /\ s[1] = Head(peer[p].todo[k]) /\ s[1].pc = k
         /\ \A i \in Places(t) : t[i] = s[i + 1] /\ i + 1 \in Places(s) /\ i + 1 # 1
<1> DEFINE a == peer[p].todo[k]  b == wire[p]  s == a \o b  t == Tail(a) \o b
<1>1. a \in Seq(Signal) /\ b \in Seq(Signal) /\ \A i \in 1..Len(a) : a[i].pc = k
  BY ComingType
<1>2. Coming(p, k) = s /\ Coming(p, k)' = t
  BY DEF Coming
<1>3. a # <<>>
  OBVIOUS
<1>4. Head(peer[p].todo[k]) = Head(a)
  OBVIOUS
<1> HIDE DEF a, b
<1>5. Head(a).pc = k /\ t \in Seq(Signal)
  BY <1>1, <1>3
<1>6. /\ Len(s) = Len(t) + 1 /\ s[1] = Head(a) /\ \A i \in 1..Len(t) : t[i] = s[i + 1]
  BY <1>1, <1>3, TakeFirstOf
<1>7. Len(t) \in Nat
  BY <1>5
<1> HIDE DEF s, t
<1>8. QED
  BY <1>2, <1>4, <1>5, <1>6, <1>7 DEF Places

LEMMA RemoteOfLower ==
  ASSUME MeshTables, NEW k \in Pc, Orderly(k), wire' = wire,
         peer'[Higher] = peer[Higher], peer[Lower].todo[k] # <<>>,
         peer'[Lower].todo[k] = Tail(peer[Lower].todo[k]),
         NEW m, m = Head(peer[Lower].todo[k]),
         \/ /\ m.type = "offer" /\ Sig(Lower, k)' = "answering" /\ GotOf(Lower, k)' = m.ver
            /\ DoneOf(Lower, k)' = DoneOf(Lower, k)
         \/ /\ m.type = "answer" /\ Sig(Lower, k) = "offering" /\ Sig(Lower, k)' = "stable"
            /\ DoneOf(Lower, k)' = OutOf(Lower, k) /\ GotOf(Lower, k)' = m.ver
         \/ m.type = "answer" /\ Sig(Lower, k) # "offering"
  PROVE  Orderly(k)'
<1> DEFINE s == Coming(Lower, k)  t == Coming(Lower, k)'
           u == Coming(Higher, k) v == Coming(Higher, k)'
<1>1. /\ Len(t) \in Nat /\ Len(s) = Len(t) + 1 /\ 1 \in Places(s) /\ s[1] = m /\ s[1].pc = k
      /\ \A i \in Places(t) : t[i] = s[i + 1] /\ i + 1 \in Places(s) /\ i + 1 # 1
  BY Taken DEF Peer
<1>2. v = u
  BY DEF Coming
<1>3. /\ Sig(Higher, k)' = Sig(Higher, k) /\ OutOf(Higher, k)' = OutOf(Higher, k)
      /\ DoneOf(Higher, k)' = DoneOf(Higher, k) /\ GotOf(Higher, k)' = GotOf(Higher, k)
  BY DEF Sig, OutOf, DoneOf, GotOf
<1>4. Accepted(k)'
  BY <1>3 DEF Orderly, Accepted
<1>s. \A i \in Places(s) : s[i].pc = k => s[i].type \in {"offer", "answer"}
  <2>1. s \in Seq(Signal)
    BY ComingType DEF Peer
  <2> HIDE DEF s
  <2>2. \A i \in Places(s) : s[i] \in Signal
    BY <2>1 DEF Places
  <2>3. QED
    BY <2>2 DEF Signal, Description, News, Pc
<1> HIDE DEF s, t, u, v
<1>5. CASE m.type = "offer"
  <2>1. Offer(s, 1, k)
    BY <1>1, <1>5 DEF Offer
  <2>2. /\ Sig(Higher, k) = "offering" /\ m.ver = OutOf(Higher, k)
        /\ \A i \in Places(s) : Offer(s, i, k) => i = 1
    BY <1>1, <2>1 DEF Orderly, OfferToLower, s
  <2>3. \A i \in Places(s) : ~Answer(s, i, k)
    <3>1. ASSUME NEW i \in Places(s), Answer(s, i, k)
          PROVE  FALSE
      <4>1. \A j \in Places(s) : s[j].pc = k /\ j # i => s[j].type = "offer" /\ i < j
        BY <3>1 DEF Orderly, AnswerToLower, s
      <4>2. i # 1
        BY <1>5, <1>1, <3>1 DEF Answer
      <4>3. i < 1
        BY <1>1, <4>1, <4>2
      <4>4. QED
        BY <1>1, <4>3 DEF Places
    <3>2. QED
      BY <3>1
  <2>4. Silent(t, k)
    BY <1>1, <1>s, <2>2, <2>3 DEF Silent, Offer, Answer
  <2>5. \A i \in Places(u) : ~Answer(u, i, k)
    <3>1. ~Silent(s, k)
      BY <1>1 DEF Silent
    <3>2. QED
      BY <3>1 DEF Orderly, AnswerToHigher, s, u
  <2>6. \A i \in Places(t) : ~Offer(t, i, k) /\ ~Answer(t, i, k)
    BY <2>4 DEF Silent, Offer, Answer
  <2>7. AnswerToLower(k)' /\ OfferToLower(k)'
    BY <2>6 DEF AnswerToLower, OfferToLower, t
  <2>8. AnswerToHigher(k)' /\ OfferToHigher(k)'
    BY <1>2, <1>3, <2>2, <2>5 DEF AnswerToHigher, OfferToHigher, Live, v
  <2>9. Answering(k)' /\ BothStable(k)'
    BY <1>3, <1>5, <2>2, <2>4 DEF Answering, BothStable, t
  <2>10. QED
    BY <1>4, <2>7, <2>8, <2>9 DEF Orderly
<1>6. CASE m.type = "answer"
  <2>1. Answer(s, 1, k)
    BY <1>1, <1>6 DEF Answer
  <2>2. /\ Sig(Lower, k) = "offering" /\ OutOf(Lower, k) = GotOf(Higher, k)
        /\ m.ver = DoneOf(Higher, k) /\ Sig(Higher, k) # "answering"
        /\ \A j \in Places(s) : s[j].pc = k /\ j # 1 => s[j].type = "offer"
        /\ Silent(u, k)
    BY <1>1, <2>1 DEF Orderly, AnswerToLower, s, u
  <2>3. /\ Sig(Lower, k)' = "stable" /\ DoneOf(Lower, k)' = GotOf(Higher, k)
        /\ GotOf(Lower, k)' = DoneOf(Higher, k)
    BY <1>6, <2>2
  <2>4. AnswerToLower(k)'
    <3>1. \A i \in Places(t) : ~Answer(t, i, k)
      BY <1>1, <2>2 DEF Answer
    <3>2. QED
      BY <3>1 DEF AnswerToLower, t
  <2>5. AnswerToHigher(k)' /\ OfferToHigher(k)'
    BY <1>2, <2>2 DEF AnswerToHigher, OfferToHigher, Live, Offer, Answer, Silent, v
  <2>6. OfferToLower(k)'
    <3>1. ASSUME NEW i \in Places(t), Offer(t, i, k)
          PROVE  /\ Sig(Higher, k) = "offering" /\ t[i].ver = OutOf(Higher, k)
                 /\ \A j \in Places(t) : Offer(t, j, k) => j = i
      <4>1. i + 1 \in Places(s) /\ t[i] = s[i + 1] /\ Offer(s, i + 1, k)
        BY <1>1, <3>1 DEF Offer
      <4>2. /\ Sig(Higher, k) = "offering" /\ s[i + 1].ver = OutOf(Higher, k)
            /\ \A j \in Places(s) : Offer(s, j, k) => j = i + 1
        BY <4>1 DEF Orderly, OfferToLower, s
      <4>3. ASSUME NEW j \in Places(t), Offer(t, j, k)
            PROVE  j = i
        <5>1. j + 1 \in Places(s) /\ Offer(s, j + 1, k)
          BY <1>1, <4>3 DEF Offer
        <5>2. j + 1 = i + 1
          BY <4>2, <5>1
        <5>3. QED
          BY <1>1, <5>2 DEF Places
      <4>4. QED
        BY <4>1, <4>2, <4>3
    <3>2. QED
      BY <1>3, <2>3, <3>1 DEF OfferToLower, t
  <2>7. Answering(k)' /\ BothStable(k)'
    BY <1>3, <2>2, <2>3 DEF Answering, BothStable
  <2>8. QED
    BY <1>4, <2>4, <2>5, <2>6, <2>7 DEF Orderly
<1>7. QED
  BY <1>5, <1>6

LEMMA RemoteOfHigher ==
  ASSUME MeshTables, MeshTables', NEW k \in Pc, Orderly(k), wire' = wire,
         peer'[Lower] = peer[Lower], peer[Higher].todo[k] # <<>>,
         peer'[Higher].todo[k] = Tail(peer[Higher].todo[k]),
         NEW m, m = Head(peer[Higher].todo[k]),
         \/ /\ m.type = "offer" /\ Sig(Higher, k)' = "answering" /\ GotOf(Higher, k)' = m.ver
            /\ DoneOf(Higher, k)' = DoneOf(Higher, k)
         \/ /\ m.type = "answer" /\ Sig(Higher, k) = "offering" /\ Sig(Higher, k)' = "stable"
            /\ DoneOf(Higher, k)' = OutOf(Higher, k) /\ GotOf(Higher, k)' = m.ver
         \/ m.type = "answer" /\ Sig(Higher, k) # "offering"
  PROVE  /\ Orderly(k)'
         /\ \/ \E i \in 1..Len(peer[Higher].todo[k]) : peer[Higher].todo[k][i].type = "offer"
            \/ Sig(Higher, k) = "offering"
<1> DEFINE s == Coming(Lower, k)  t == Coming(Lower, k)'
           u == Coming(Higher, k) v == Coming(Higher, k)'
<1>1. /\ Len(v) \in Nat /\ Len(u) = Len(v) + 1 /\ 1 \in Places(u) /\ u[1] = m /\ u[1].pc = k
      /\ \A i \in Places(v) : v[i] = u[i + 1] /\ i + 1 \in Places(u) /\ i + 1 # 1
  BY Taken DEF Peer
<1>2. t = s
  BY DEF Coming
<1>3. /\ Sig(Lower, k)' = Sig(Lower, k) /\ OutOf(Lower, k)' = OutOf(Lower, k)
      /\ DoneOf(Lower, k)' = DoneOf(Lower, k) /\ GotOf(Lower, k)' = GotOf(Lower, k)
  BY DEF Sig, OutOf, DoneOf, GotOf
<1>s. /\ \A i \in Places(u) : u[i].pc = k => u[i].type \in {"offer", "answer"}
      /\ \A i \in Places(s) : s[i].pc = k => s[i].type \in {"offer", "answer"}
  <2>1. s \in Seq(Signal) /\ u \in Seq(Signal)
    BY ComingType DEF Peer
  <2> HIDE DEF s, u
  <2>2. (\A i \in Places(u) : u[i] \in Signal) /\ (\A i \in Places(s) : s[i] \in Signal)
    BY <2>1 DEF Places
  <2>3. QED
    BY <2>2 DEF Signal, Description, News, Pc
<1>t. \A i \in 1..Len(peer'[Higher].todo[k]) : i \in Places(v) /\ v[i] = peer'[Higher].todo[k][i] /\ v[i].pc = k
  <2> DEFINE a == peer'[Higher].todo[k]
  <2>1. /\ Len(a) \in Nat /\ Len(a) <= Len(v) /\ \A i \in 1..Len(a) : v[i] = a[i] /\ a[i].pc = k
    <3>1. a \in Seq(Signal) /\ wire'[Higher] \in Seq(Signal) /\ \A i \in 1..Len(a) : a[i].pc = k
      <4>1. Higher \in Peer
        BY DEF Peer
      <4>2. peer'[Higher] \in Link /\ Sane(peer'[Higher]) /\ wire'[Higher] \in Seq(Signal)
        BY <4>1, ZenonT(30) DEF MeshTables, Sane
      <4>3. QED
        BY <4>2 DEF Link, Sane
    <3>2. v = a \o wire'[Higher]
      BY DEF Coming
    <3> HIDE DEF a, v
    <3>3. QED
      BY <3>1, <3>2
  <2> HIDE DEF a, v
  <2>2. \A i \in 1..Len(a) : i \in Places(v)
    BY <1>1, <2>1 DEF Places
  <2>3. QED
    BY <2>1, <2>2 DEF a
<1>h. 1 \in 1..Len(peer[Higher].todo[k]) /\ peer[Higher].todo[k][1] = m
  BY ComingType DEF Peer
<1> HIDE DEF s, t, u, v
<1>5. CASE m.type = "offer"
  <2>1. \E i \in 1..Len(peer[Higher].todo[k]) : peer[Higher].todo[k][i].type = "offer"
    BY <1>5, <1>h
  <2>2. Sig(Higher, k) = "stable"
    BY <2>1 DEF Orderly, Accepted
  <2>3. Live(1, k)
    BY <1>1, <1>5, <2>2 DEF Live, Offer, u
  <2>4. /\ Sig(Lower, k) = "offering" /\ m.ver = OutOf(Lower, k)
        /\ \A i \in Places(u) : Live(i, k) => i = 1
    BY <1>1, <2>3 DEF Orderly, OfferToHigher, u
  <2>5. \A i \in Places(u) : ~Answer(u, i, k)
    BY <2>2 DEF Orderly, AnswerToHigher, u
  <2>6. \A i \in Places(u) : Offer(u, i, k) => i = 1
    BY <2>2, <2>4 DEF Live, u
  <2>7. Silent(v, k)
    BY <1>1, <1>s, <2>5, <2>6 DEF Silent, Offer, Answer
  <2>8. \A i \in Places(s) : ~Answer(s, i, k) /\ ~Offer(s, i, k)
    <3>1. ~Silent(u, k)
      BY <1>1 DEF Silent
    <3>2. QED
      BY <2>2, <3>1 DEF Orderly, AnswerToLower, OfferToLower, s, u
  <2>9. AnswerToLower(k)' /\ OfferToLower(k)'
    BY <1>2, <2>8 DEF AnswerToLower, OfferToLower, t
  <2>10. AnswerToHigher(k)' /\ OfferToHigher(k)'
    BY <2>7 DEF AnswerToHigher, OfferToHigher, Live, Offer, Answer, Silent, v
  <2>11. Accepted(k)'
    BY <1>t, <2>7 DEF Accepted, Silent
  <2>12. Answering(k)' /\ BothStable(k)'
    BY <1>3, <1>5, <2>4, <2>7 DEF Answering, BothStable, v
  <2>13. QED
    BY <2>1, <2>9, <2>10, <2>11, <2>12 DEF Orderly
<1>6. CASE m.type = "answer"
  <2>1. Answer(u, 1, k)
    BY <1>1, <1>6 DEF Answer
  <2>2. /\ Sig(Higher, k) = "offering" /\ OutOf(Higher, k) = GotOf(Lower, k)
        /\ m.ver = DoneOf(Lower, k) /\ Sig(Lower, k) # "answering"
        /\ \A j \in Places(u) : Answer(u, j, k) => j = 1
        /\ Silent(s, k)
    BY <1>1, <2>1 DEF Orderly, AnswerToHigher, s, u
  <2>3. /\ Sig(Higher, k)' = "stable" /\ DoneOf(Higher, k)' = GotOf(Lower, k)
        /\ GotOf(Higher, k)' = DoneOf(Lower, k)
    BY <1>6, <2>2
  <2>4. AnswerToLower(k)' /\ OfferToLower(k)'
    BY <1>2, <2>2 DEF AnswerToLower, OfferToLower, Offer, Answer, Silent, t
  <2>5. AnswerToHigher(k)'
    <3>1. \A i \in Places(v) : ~Answer(v, i, k)
      BY <1>1, <2>2 DEF Answer
    <3>2. QED
      BY <3>1 DEF AnswerToHigher, v
  <2>6. OfferToHigher(k)'
    <3>1. ASSUME NEW i \in Places(v), Live(i, k)'
          PROVE  i + 1 \in Places(u) /\ v[i] = u[i + 1] /\ Live(i + 1, k)
      <4>1. i + 1 \in Places(u) /\ v[i] = u[i + 1] /\ Offer(u, i + 1, k) /\ 1 < i + 1
        BY <1>1, <3>1 DEF Live, Offer, v, Places
      <4>2. QED
        BY <1>1, <2>1, <4>1 DEF Live, u
    <3>2. ASSUME NEW i \in Places(v), Live(i, k)'
          PROVE  /\ Sig(Lower, k) = "offering" /\ v[i].ver = OutOf(Lower, k)
                 /\ \A j \in Places(v) : Live(j, k)' => j = i
      <4>1. i + 1 \in Places(u) /\ v[i] = u[i + 1] /\ Live(i + 1, k)
        BY <3>1, <3>2
      <4>2. /\ Sig(Lower, k) = "offering" /\ u[i + 1].ver = OutOf(Lower, k)
            /\ \A j \in Places(u) : Live(j, k) => j = i + 1
        BY <4>1 DEF Orderly, OfferToHigher, u
      <4>3. ASSUME NEW j \in Places(v), Live(j, k)'
            PROVE  j = i
        <5>1. j + 1 \in Places(u) /\ Live(j + 1, k)
          BY <3>1, <4>3
        <5>2. j + 1 = i + 1
          BY <4>2, <5>1
        <5>3. QED
          BY <1>1, <5>2 DEF Places
      <4>4. QED
        BY <4>1, <4>2, <4>3
    <3>3. QED
      BY <1>3, <3>2 DEF OfferToHigher, v
  <2>7. Accepted(k)' /\ Answering(k)' /\ BothStable(k)'
    BY <1>3, <2>2, <2>3 DEF Accepted, Answering, BothStable
  <2>8. QED
    BY <2>2, <2>4, <2>5, <2>6, <2>7 DEF Orderly
<1>7. QED
  BY <1>5, <1>6

LEMMA RemoteKeeps ==
  ASSUME MeshInv, NEW p \in Peer, NEW k \in Pc, SetRemote(p, k)
  PROVE  MeshInv'
<1>0. renewed' = renewed
  BY DEF SetRemote
<1> DEFINE m == Head(peer[p].todo[k])
<1>1. /\ MeshTables /\ MeshTables' /\ wire' = wire /\ \A q \in Peer : q # p => peer'[q] = peer[q]
      /\ peer[p].todo[k] # <<>> /\ peer'[p].todo[k] = Tail(peer[p].todo[k])
      /\ peer'[p].draft = peer[p].draft /\ peer'[p].making = peer[p].making
      /\ peer'[p].clash = peer[p].clash
      /\ \A j \in Pc : j # k =>
           /\ peer'[p].todo[j] = peer[p].todo[j] /\ peer'[p].sig[j] = peer[p].sig[j]
           /\ peer'[p].out[j] = peer[p].out[j] /\ peer'[p].done[j] = peer[p].done[j]
           /\ peer'[p].got[j] = peer[p].got[j]
      /\ \/ /\ m.type = "offer" /\ Sig(p, k)' = "answering" /\ GotOf(p, k)' = m.ver
            /\ DoneOf(p, k)' = DoneOf(p, k)
         \/ /\ m.type = "answer" /\ Sig(p, k) = "offering" /\ Sig(p, k)' = "stable"
            /\ DoneOf(p, k)' = OutOf(p, k) /\ GotOf(p, k)' = m.ver
         \/ m.type = "answer" /\ Sig(p, k) # "offering"
  BY RemoteSet DEF MeshInv, Sig, OutOf, DoneOf, GotOf
<1> HIDE DEF m
<1> SUFFICES ASSUME Steady'
             PROVE  Making' /\ \A j \in Pc : Orderly(j)'
  BY <1>1 DEF MeshInv
<1>2. Making /\ \A j \in Pc : Orderly(j)
  BY <1>0, <1>1, Others DEF MeshInv, Clashed, Steady
<1>3. ASSUME NEW j \in Pc, j # k
      PROVE  Orderly(j)'
  <2>1. Kept(j)
    BY <1>1, <1>3 DEF Kept, Sig, OutOf, DoneOf, GotOf
  <2>2. \A q \in Peer : peer'[q].todo[j] = peer[q].todo[j]
    BY <1>1, <1>3
  <2>3. QED
    BY <1>1, <1>2, <2>1, <2>2, Unmoved
<1>4. CASE p = Lower
  <2>1. peer'[Higher] = peer[Higher]
    BY <1>1, <1>4, Others DEF Peer
  <2>2. m = Head(peer[Lower].todo[k])
    BY <1>4 DEF m
  <2>3. Orderly(k)'
    BY <1>1, <1>2, <1>4, <2>1, <2>2, RemoteOfLower
  <2>4. Making'
    BY <1>2, <2>1 DEF Making, Sig
  <2>5. QED
    BY <1>3, <2>3, <2>4
<1>5. CASE p = Higher
  <2>1. peer'[Lower] = peer[Lower]
    BY <1>1, <1>5, Others DEF Peer
  <2>2. m = Head(peer[Higher].todo[k])
    BY <1>5 DEF m
  <2>3. /\ Orderly(k)'
        /\ \/ \E i \in 1..Len(peer[Higher].todo[k]) : peer[Higher].todo[k][i].type = "offer"
           \/ Sig(Higher, k) = "offering"
    <3>1. \/ /\ m.type = "offer" /\ Sig(Higher, k)' = "answering" /\ GotOf(Higher, k)' = m.ver
             /\ DoneOf(Higher, k)' = DoneOf(Higher, k)
          \/ /\ m.type = "answer" /\ Sig(Higher, k) = "offering" /\ Sig(Higher, k)' = "stable"
             /\ DoneOf(Higher, k)' = OutOf(Higher, k) /\ GotOf(Higher, k)' = m.ver
          \/ m.type = "answer" /\ Sig(Higher, k) # "offering"
      BY <1>1, <1>5
    <3>2. /\ MeshTables /\ MeshTables' /\ wire' = wire /\ peer[Higher].todo[k] # <<>>
          /\ peer'[Higher].todo[k] = Tail(peer[Higher].todo[k])
      BY <1>1, <1>5
    <3>3. Orderly(k)
      BY <1>2
    <3>4. QED
      BY <2>1, <2>2, <3>1, <3>2, <3>3, RemoteOfHigher
  <2>4. Making'
    <3>1. peer[Higher].draft[k] = 0
      BY <1>2, <2>3 DEF Making
    <3>2. ASSUME NEW j \in Pc, peer'[Higher].draft[j] # 0
          PROVE  /\ peer'[Higher].making /\ Sig(Higher, j)' = "stable"
                 /\ \A i \in 1..Len(peer'[Higher].todo[j]) : peer'[Higher].todo[j][i].type # "offer"
      <4>1. j # k /\ peer[Higher].draft[j] # 0
        BY <1>1, <1>5, <3>1, <3>2
      <4>2. /\ peer'[Higher].todo[j] = peer[Higher].todo[j] /\ peer'[Higher].sig[j] = peer[Higher].sig[j]
            /\ peer'[Higher].making = peer[Higher].making
        BY <1>1, <1>5, <4>1
      <4>3. QED
        BY <1>2, <4>1, <4>2 DEF Making, Sig
    <3>3. QED
      BY <3>2 DEF Making
  <2>5. QED
    BY <1>3, <2>3, <2>4
<1>6. QED
  BY <1>4, <1>5, Others

LEMMA AnswerOfLower ==
  ASSUME MeshTables, MeshTables', NEW k \in Pc, Orderly(k), NEW m \in Signal, Sent(Lower, m),
         m.type = "answer", m.pc = k, m.ver = DoneOf(Lower, k)',
         \A q \in Peer : peer'[q].todo[k] = peer[q].todo[k],
         Sig(Lower, k) = "answering", Sig(Lower, k)' = "stable",
         OutOf(Lower, k)' = OutOf(Lower, k), GotOf(Lower, k)' = GotOf(Lower, k),
         peer'[Higher] = peer[Higher]
  PROVE  Orderly(k)'
<1> DEFINE s == Coming(Lower, k)  t == Coming(Lower, k)'
           u == Coming(Higher, k) v == Coming(Higher, k)'
<1>1. /\ t = s /\ Len(u) \in Nat /\ Len(v) \in Nat
      /\ \A i \in Places(u) : i \in Places(v) /\ v[i] = u[i]
      /\ \A i \in Places(v) : i \in Places(u) \/ (i = Len(u) + 1 /\ v[i] = m)
  <2>1. Lower \in Peer
    BY DEF Peer
  <2>2. QED
    BY <2>1, Arrives, Others
<1>2. /\ Sig(Higher, k)' = Sig(Higher, k) /\ OutOf(Higher, k)' = OutOf(Higher, k)
      /\ DoneOf(Higher, k)' = DoneOf(Higher, k) /\ GotOf(Higher, k)' = GotOf(Higher, k)
  BY DEF Sig, OutOf, DoneOf, GotOf
<1>3. /\ Sig(Higher, k) = "offering" /\ OutOf(Higher, k) = GotOf(Lower, k) /\ Silent(s, k)
      /\ \A i \in Places(u) : ~Answer(u, i, k) /\ ~Live(i, k)
  BY DEF Orderly, Answering, AnswerToHigher, OfferToHigher
<1> HIDE DEF s, t, u, v
<1>4. \A i \in Places(v) : Answer(v, i, k) => i = Len(u) + 1 /\ v[i] = m
  BY <1>1, <1>3 DEF Answer
<1>5. AnswerToLower(k)' /\ OfferToLower(k)'
  BY <1>1, <1>3 DEF AnswerToLower, OfferToLower, Offer, Answer, Silent, t
<1>6. AnswerToHigher(k)'
  BY <1>1, <1>2, <1>3, <1>4 DEF AnswerToHigher, t, v
<1>7. OfferToHigher(k)'
  <2>1. ASSUME NEW i \in Places(v), Live(i, k)'
        PROVE  FALSE
    <3>1. PICK j \in Places(v) : j < i /\ Answer(v, j, k)
      BY <1>2, <1>3, <2>1 DEF Live, v
    <3>2. j = Len(u) + 1
      BY <1>4, <3>1
    <3>3. Offer(v, i, k)
      BY <2>1 DEF Live, v
    <3>4. i \in Places(u)
      BY <1>1, <3>3 DEF Offer
    <3>5. QED
      BY <1>1, <3>1, <3>2, <3>4 DEF Places
  <2>2. QED
    BY <2>1 DEF OfferToHigher, v
<1>8. Accepted(k)' /\ Answering(k)' /\ BothStable(k)'
  BY <1>2, <1>3 DEF Orderly, Accepted, Answering, BothStable
<1>9. QED
  BY <1>5, <1>6, <1>7, <1>8 DEF Orderly

LEMMA AnswerOfHigher ==
  ASSUME MeshTables, MeshTables', NEW k \in Pc, Orderly(k), NEW m \in Signal, Sent(Higher, m),
         m.type = "answer", m.pc = k, m.ver = DoneOf(Higher, k)',
         \A q \in Peer : peer'[q].todo[k] = peer[q].todo[k],
         Sig(Higher, k) = "answering", Sig(Higher, k)' = "stable",
         OutOf(Higher, k)' = OutOf(Higher, k), GotOf(Higher, k)' = GotOf(Higher, k),
         peer'[Lower] = peer[Lower]
  PROVE  Orderly(k)'
<1> DEFINE s == Coming(Lower, k)  t == Coming(Lower, k)'
           u == Coming(Higher, k) v == Coming(Higher, k)'
<1>1. /\ v = u /\ Len(s) \in Nat /\ Len(t) \in Nat
      /\ \A i \in Places(s) : i \in Places(t) /\ t[i] = s[i]
      /\ \A i \in Places(t) : i \in Places(s) \/ (i = Len(s) + 1 /\ t[i] = m)
  <2>1. Higher \in Peer
    BY DEF Peer
  <2>2. QED
    BY <2>1, Arrives, Others
<1>2. /\ Sig(Lower, k)' = Sig(Lower, k) /\ OutOf(Lower, k)' = OutOf(Lower, k)
      /\ DoneOf(Lower, k)' = DoneOf(Lower, k) /\ GotOf(Lower, k)' = GotOf(Lower, k)
  BY DEF Sig, OutOf, DoneOf, GotOf
<1>s. \A i \in Places(s) : s[i].pc = k => s[i].type \in {"offer", "answer"}
  <2>1. s \in Seq(Signal)
    BY ComingType DEF Peer
  <2> HIDE DEF s
  <2>2. \A i \in Places(s) : s[i] \in Signal
    BY <2>1 DEF Places
  <2>3. QED
    BY <2>2 DEF Signal, Description, News, Pc
<1>3. /\ Sig(Lower, k) = "offering" /\ OutOf(Lower, k) = GotOf(Higher, k) /\ Silent(u, k)
      /\ \A i \in Places(s) : ~Answer(s, i, k) /\ ~Offer(s, i, k)
  BY DEF Orderly, Answering, AnswerToLower, OfferToLower
<1> HIDE DEF s, t, u, v
<1>4. \A i \in Places(t) : t[i].pc = k => i = Len(s) + 1 /\ t[i] = m
  BY <1>1, <1>3, <1>s DEF Answer, Offer
<1>5. AnswerToHigher(k)' /\ OfferToHigher(k)'
  BY <1>1, <1>3 DEF AnswerToHigher, OfferToHigher, Live, Offer, Answer, Silent, v
<1>6. AnswerToLower(k)'
  <2>1. ASSUME NEW i \in Places(t), Answer(t, i, k)
        PROVE  t[i] = m /\ \A j \in Places(t) : t[j].pc = k => j = i
    BY <1>4, <2>1 DEF Answer
  <2>2. QED
    BY <1>1, <1>2, <1>3, <2>1 DEF AnswerToLower, t, v
<1>7. OfferToLower(k)'
  BY <1>4 DEF OfferToLower, Offer, t
<1>8. Accepted(k)' /\ Answering(k)' /\ BothStable(k)'
  BY <1>2, <1>3 DEF Accepted, Answering, BothStable
<1>9. QED
  BY <1>5, <1>6, <1>7, <1>8 DEF Orderly

LEMMA AnswerKeeps ==
  ASSUME MeshInv, NEW p \in Peer, NEW k \in Pc, SendAnswer(p, k)
  PROVE  MeshInv'
<1>0. renewed' = renewed
  BY DEF SendAnswer
<1> DEFINE m == [type |-> "answer", pc |-> k, ver |-> peer'[p].done[k]]
<1>1. /\ MeshTables /\ MeshTables' /\ \A q \in Peer : q # p => peer'[q] = peer[q]
      /\ peer[p].sig[k] = "answering" /\ peer'[p].sig[k] = "stable"
      /\ peer'[p].draft = peer[p].draft /\ peer'[p].making = peer[p].making
      /\ peer'[p].clash = peer[p].clash /\ peer'[p].todo = peer[p].todo
      /\ peer'[p].out = peer[p].out /\ peer'[p].got = peer[p].got
      /\ \A j \in Pc : j # k =>
           peer'[p].sig[j] = peer[p].sig[j] /\ peer'[p].done[j] = peer[p].done[j]
      /\ peer'[p].done[k] \in Nat /\ Sent(p, m)
  BY AnswerSent DEF MeshInv
<1>2. m \in Signal /\ m.type = "answer" /\ m.pc = k /\ m.ver = DoneOf(p, k)'
  BY <1>1 DEF Signal, Description, DoneOf
<1> HIDE DEF m
<1> SUFFICES ASSUME Steady'
             PROVE  Making' /\ \A j \in Pc : Orderly(j)'
  BY <1>1 DEF MeshInv
<1>3. Making /\ \A j \in Pc : Orderly(j)
  BY <1>0, <1>1, Others DEF MeshInv, Clashed, Steady
<1>4. \A q \in Peer, j \in Pc : peer'[q].todo[j] = peer[q].todo[j]
  BY <1>1
<1>5. ASSUME NEW j \in Pc, j # k
      PROVE  Orderly(j)'
  <2>1. Kept(j)
    BY <1>1, <1>5 DEF Kept, Sig, OutOf, DoneOf, GotOf
  <2>2. QED
    BY <1>1, <1>2, <1>3, <1>4, <1>5, <2>1, Aloof
<1>6. Making'
  <2>1. ASSUME NEW j \in Pc, peer'[Higher].draft[j] # 0
        PROVE  /\ peer'[Higher].making /\ Sig(Higher, j)' = "stable"
               /\ \A i \in 1..Len(peer'[Higher].todo[j]) : peer'[Higher].todo[j][i].type # "offer"
    <3>1. CASE p = Lower
      <4>1. peer'[Higher] = peer[Higher]
        BY <1>1, <3>1, Others DEF Peer
      <4>2. QED
        BY <1>3, <2>1, <4>1 DEF Making, Sig
    <3>2. CASE p = Higher
      BY <1>1, <1>3, <2>1, <3>2 DEF Making, Sig
    <3>3. QED
      BY <3>1, <3>2, Others
  <2>2. QED
    BY <2>1 DEF Making
<1>7. /\ Sig(p, k) = "answering" /\ Sig(p, k)' = "stable"
      /\ OutOf(p, k)' = OutOf(p, k) /\ GotOf(p, k)' = GotOf(p, k)
  BY <1>1 DEF Sig, OutOf, GotOf
<1>8. CASE p = Lower
  <2>1. peer'[Higher] = peer[Higher]
    BY <1>1, <1>8, Others DEF Peer
  <2>2. Orderly(k)'
    BY <1>1, <1>2, <1>3, <1>4, <1>7, <1>8, <2>1, AnswerOfLower
  <2>3. QED
    BY <1>5, <1>6, <2>2
<1>9. CASE p = Higher
  <2>1. peer'[Lower] = peer[Lower]
    BY <1>1, <1>9, Others DEF Peer
  <2>2. Orderly(k)'
    BY <1>1, <1>2, <1>3, <1>4, <1>7, <1>9, <2>1, AnswerOfHigher
  <2>3. QED
    BY <1>5, <1>6, <2>2
<1>10. QED
  BY <1>8, <1>9, Others

-----------------------------------------------------------------------------
(* The other steps.                                                        *)

LEMMA ReceiveKeeps ==
  ASSUME MeshInv, NEW p \in Peer, Receive(p)
  PROVE  MeshInv'
<1>0. renewed' = renewed
  BY DEF Receive
<1> DEFINE m == Head(wire[p])
<1>1. /\ MeshTables /\ MeshTables'
      /\ \A q \in Peer : q # p => peer'[q] = peer[q] /\ wire'[q] = wire[q]
      /\ m \in Signal /\ wire[p] # <<>> /\ wire'[p] = Tail(wire[p])
      /\ peer'[p].sig = peer[p].sig /\ peer'[p].draft = peer[p].draft /\ peer'[p].out = peer[p].out
      /\ peer'[p].done = peer[p].done /\ peer'[p].got = peer[p].got
      /\ peer'[p].making = peer[p].making /\ peer'[p].clash = peer[p].clash
      /\ \A j \in Pc : j # m.pc => peer'[p].todo[j] = peer[p].todo[j]
      /\ \/ p = Higher /\ peer'[p].todo[m.pc] = peer[p].todo[m.pc]
         \/ /\ peer'[p].todo[m.pc] = Append(peer[p].todo[m.pc], m)
            /\ p = Higher /\ m.type = "offer" => ~peer[p].making /\ peer[p].sig[m.pc] = "stable"
  BY SignalReceived DEF MeshInv
<1> SUFFICES ASSUME Steady'
             PROVE  Making' /\ \A j \in Pc : Orderly(j)'
  BY <1>1 DEF MeshInv
<1>2. Making /\ \A j \in Pc : Orderly(j)
  BY <1>0, <1>1, Others DEF MeshInv, Clashed, Steady
<1>3. ASSUME NEW j \in Pc
      PROVE  Kept(j)
  BY <1>1 DEF Kept, Sig, OutOf, DoneOf, GotOf
\* Either the queue of p loses a signal that is not applied, or a signal moves on in it.
<1>4. ASSUME NEW j \in Pc
      PROVE  Coming(p, j)' = Coming(p, j) \/ Thinner(Coming(p, j)', Coming(p, j), j)
  <2> DEFINE a == peer[p].todo[j]  b == wire[p]
  <2>1. a \in Seq(Signal) /\ b \in Seq(Signal)
    BY <1>1, ComingType
  <2>2. Coming(p, j) = a \o b /\ Coming(p, j)' = peer'[p].todo[j] \o Tail(b) /\ b # <<>>
    BY <1>1 DEF Coming
  <2>3. peer'[p].todo[j] = a \/ peer'[p].todo[j] = Append(a, Head(b))
    BY <1>1
  <2> HIDE DEF a, b, m
  <2>4. CASE peer'[p].todo[j] = a
    BY <2>1, <2>2, <2>4, ThinnerSkip
  <2>5. CASE peer'[p].todo[j] = Append(a, Head(b))
    BY <2>1, <2>2, <2>5, MoveOn
  <2>6. QED
    BY <2>3, <2>4, <2>5
<1> HIDE DEF m
<1>5. m.pc \in Pc /\ m.type \in {"offer", "answer"}
  <2>1. m.pc # "none"
    BY DEF Receive, m
  <2>2. QED
    BY <1>1, <2>1 DEF Signal, Description, News
\* An offer is only let in when the impolite side makes none.
<1>6. ASSUME NEW j \in Pc, NEW i \in 1..Len(peer'[Higher].todo[j]), peer'[Higher].todo[j][i].type = "offer"
      PROVE  \/ \E n \in 1..Len(peer[Higher].todo[j]) : peer[Higher].todo[j][n].type = "offer"
             \/ ~peer[Higher].making /\ Sig(Higher, j) = "stable"
  <2>1. CASE peer'[Higher].todo[j] = peer[Higher].todo[j]
    BY <1>6, <2>1
  <2>2. CASE p = Higher /\ j = m.pc /\ peer'[p].todo[j] = Append(peer[p].todo[j], m)
    <3> DEFINE a == peer[Higher].todo[j]
    <3>1. a \in Seq(Signal)
      BY <1>1, ComingType DEF Peer
    <3>2. peer'[Higher].todo[j] = Append(a, m)
      BY <2>2
    <3>3. p = Higher /\ m.type = "offer" => ~peer[p].making /\ peer[p].sig[m.pc] = "stable"
      <4>1. peer[p].todo[j] # Append(peer[p].todo[j], m)
        <5>1. a # Append(a, m)
          <6> HIDE DEF a
          <6>1. Len(Append(a, m)) = Len(a) + 1 /\ Len(a) \in Nat
            BY <3>1
          <6>2. QED
            BY <6>1
        <5>2. QED
          BY <2>2, <5>1
      <4>2. QED
        BY <1>1, <2>2, <4>1
    <3> HIDE DEF a
    <3>4. (i \in 1..Len(a) /\ Append(a, m)[i] = a[i]) \/ Append(a, m)[i] = m
      BY <3>1, <3>2
    <3>5. QED
      BY <1>6, <2>2, <3>2, <3>3, <3>4 DEF a, Sig
  <2>3. peer'[Higher].todo[j] = peer[Higher].todo[j]
        \/ (p = Higher /\ j = m.pc /\ peer'[p].todo[j] = Append(peer[p].todo[j], m))
    <3>1. CASE p = Higher
      BY <1>1, <3>1
    <3>2. CASE p # Higher
      BY <1>1, <3>2 DEF Peer
    <3>3. QED
      BY <3>1, <3>2
  <2>4. QED
    BY <2>1, <2>2, <2>3
<1>7. /\ peer'[Higher].draft = peer[Higher].draft /\ peer'[Higher].making = peer[Higher].making
      /\ \A j \in Pc : Sig(Higher, j)' = Sig(Higher, j)
  BY <1>1, <1>3 DEF Kept, Peer
<1>8. Making'
  BY <1>2, <1>6, <1>7 DEF Making
<1>9. ASSUME NEW j \in Pc
      PROVE  Orderly(j)'
  <2>1. Accepted(j)'
    BY <1>2, <1>6, <1>7 DEF Orderly, Accepted
  <2>2. ASSUME NEW q \in Peer
        PROVE  /\ Thinner(Coming(q, j)', Coming(q, j), j)
               /\ Len(Coming(q, j)) \in Nat /\ Len(Coming(q, j)') \in Nat
    <3>1. Len(Coming(q, j)) \in Nat
      BY <1>1, ComingType
    <3>2. Len(Coming(q, j)') \in Nat
      <4>1. peer'[q].todo[j] \in Seq(Signal) /\ wire'[q] \in Seq(Signal)
        <5>1. peer'[q] \in Link /\ wire'[q] \in Seq(Signal)
          BY <1>1 DEF MeshTables
        <5>2. QED
          BY <5>1 DEF Link
      <4> DEFINE a == peer'[q].todo[j]  b == wire'[q]
      <4>2. Coming(q, j)' = a \o b
        BY DEF Coming
      <4> HIDE DEF a, b
      <4>3. a \in Seq(Signal) /\ b \in Seq(Signal)
        BY <4>1 DEF a, b
      <4>4. QED
        BY <4>2, <4>3
    <3>3. CASE q = p
      BY <1>4, <3>1, <3>3, ThinnerSame
    <3>4. CASE q # p
      <4>1. Coming(q, j)' = Coming(q, j)
        BY <1>1, <3>4 DEF Coming
      <4>2. QED
        BY <3>1, <3>2, <4>1, ThinnerSame
    <3>5. QED
      BY <3>1, <3>2, <3>3, <3>4
  <2>3. QED
    BY <1>2, <1>3, <2>1, <2>2, Thinned
<1>10. QED
  BY <1>8, <1>9

LEMMA NeededKeeps ==
  ASSUME MeshInv, NEW p \in Peer, NEW k \in Pc, NegotiationNeeded(p, k)
  PROVE  MeshInv'
<1>0. renewed' = renewed
  BY DEF NegotiationNeeded
<1>1. /\ MeshTables /\ MeshTables' /\ wire' = wire /\ \A q \in Peer : q # p => peer'[q] = peer[q]
      /\ peer'[p].sig = peer[p].sig /\ peer'[p].out = peer[p].out /\ peer'[p].todo = peer[p].todo
      /\ peer'[p].done = peer[p].done /\ peer'[p].got = peer[p].got
      /\ peer'[p].clash = peer[p].clash /\ peer'[p].making
      /\ \A j \in Pc : j # k => peer'[p].draft[j] = peer[p].draft[j]
  BY Needed DEF MeshInv
<1>2. Sig(p, k) = "stable" /\ peer[p].todo[k] = <<>>
  BY DEF NegotiationNeeded, Sig
<1> SUFFICES ASSUME Steady'
             PROVE  Making' /\ \A j \in Pc : Orderly(j)'
  BY <1>1 DEF MeshInv
<1>3. Making /\ \A j \in Pc : Orderly(j)
  BY <1>0, <1>1, Others DEF MeshInv, Clashed, Steady
<1>4. ASSUME NEW j \in Pc
      PROVE  Orderly(j)'
  <2>1. Kept(j) /\ \A q \in Peer : peer'[q].todo[j] = peer[q].todo[j]
    BY <1>1 DEF Kept, Sig, OutOf, DoneOf, GotOf
  <2>2. QED
    BY <1>1, <1>3, <2>1, Unmoved
<1>5. Making'
  <2>1. CASE p = Lower
    <3>1. peer'[Higher] = peer[Higher]
      BY <1>1, <2>1, Others DEF Peer
    <3>2. QED
      BY <1>3, <3>1 DEF Making, Sig
  <2>2. CASE p = Higher
    <3>1. ASSUME NEW j \in Pc, peer'[Higher].draft[j] # 0
          PROVE  /\ Sig(Higher, j)' = "stable"
                 /\ \A i \in 1..Len(peer'[Higher].todo[j]) : peer'[Higher].todo[j][i].type # "offer"
      <4>1. Sig(Higher, j)' = Sig(Higher, j) /\ peer'[Higher].todo[j] = peer[Higher].todo[j]
        BY <1>1, <2>2 DEF Sig
      <4>2. CASE j = k
        <5>1. Len(peer'[Higher].todo[j]) = 0
          BY <1>2, <2>2, <4>1, <4>2
        <5>2. QED
          BY <1>2, <2>2, <4>1, <4>2, <5>1
      <4>3. CASE j # k
        BY <1>1, <1>3, <2>2, <3>1, <4>1, <4>3 DEF Making
      <4>4. QED
        BY <4>2, <4>3
    <3>2. QED
      BY <1>1, <2>2, <3>1 DEF Making
  <2>3. QED
    BY <2>1, <2>2, Others
<1>6. QED
  BY <1>4, <1>5

LEMMA AsideHolds ==
  ASSUME MeshInv, NEW p \in Peer, Aside(p)
  PROVE  MeshInv'
<1>0. renewed' = renewed
  BY DEF Aside, Create, Timer, WatchdogFires, GraceEnds, Network, Connected, Disconnected,
         ConnectionFailed, retryNow, AddTrack
<1>1. MeshTables /\ MeshTables' /\ wire' = wire /\ \A q \in Peer : Alike(peer'[q], peer[q])
  BY AsideKeeps DEF MeshInv
<1> SUFFICES ASSUME Steady'
             PROVE  Making' /\ \A j \in Pc : Orderly(j)'
  BY <1>1 DEF MeshInv
<1>2. Alike(peer'[Higher], peer[Higher])
  BY <1>1 DEF Peer
<1>3. Making /\ \A j \in Pc : Orderly(j)
  BY <1>0, <1>2 DEF MeshInv, Clashed, Steady, Alike
<1>4. ASSUME NEW j \in Pc
      PROVE  Orderly(j)'
  <2>1. Kept(j) /\ \A q \in Peer : peer'[q].todo[j] = peer[q].todo[j]
    BY <1>1 DEF Kept, Sig, OutOf, DoneOf, GotOf, Alike
  <2>2. QED
    BY <1>1, <1>3, <2>1, Unmoved
<1>5. Making'
  BY <1>2, <1>3 DEF Making, Sig, Alike
<1>6. QED
  BY <1>4, <1>5

LEMMA MeshStill ==
  ASSUME MeshInv, UNCHANGED meshVars
  PROVE  MeshInv'
<1>1. peer' = peer /\ wire' = wire /\ renewed' = renewed
  BY DEF meshVars
<1>2. MeshTables /\ MeshTables'
  BY <1>1 DEF MeshInv, MeshTables, Sane, Untouched
<1>3. Clashed' = Clashed /\ (Making => Making')
  BY <1>1 DEF Clashed, Making, Sig
<1>4. ASSUME NEW k \in Pc, Orderly(k)
      PROVE  Orderly(k)'
  <2>1. Kept(k)
    BY <1>1 DEF Kept, Sig, OutOf, DoneOf, GotOf
  <2>2. QED
    BY <1>1, <1>2, <1>4, <2>1, Unmoved
<1>5. QED
  BY <1>1, <1>2, <1>3, <1>4 DEF MeshInv, Steady

LEMMA MeshStart == MeshInit => MeshInv
<1> SUFFICES ASSUME MeshInit
             PROVE  MeshInv
  OBVIOUS
<1>1. peer = [p \in Peer |-> NoLink] /\ wire = [p \in Peer |-> <<>>]
  BY DEF MeshInit
<1>2. NoLink \in Link /\ Sane(NoLink)
  BY Blank
<1>3. /\ \A k \in Pc : /\ NoLink.sig[k] = "stable" /\ NoLink.draft[k] = 0 /\ NoLink.out[k] = 0
                      /\ NoLink.todo[k] = <<>> /\ NoLink.done[k] = 0 /\ NoLink.got[k] = 0
                      /\ NoLink.added[k] = 0
  BY DEF NoLink, Fresh0
<1>4. Len(<<>>) = 0
  OBVIOUS
<1>5. MeshTables
  <2>1. peer \in [Peer -> Link] /\ wire \in [Peer -> Seq(Signal)]
    BY <1>1, <1>2
  <2>2. QED
    BY <1>1, <1>2, <2>1 DEF MeshTables
<1>6. Making
  BY <1>1, <1>3 DEF Making, Peer
<1>7. ASSUME NEW k \in Pc
      PROVE  Orderly(k)
  <2>1. ASSUME NEW p \in Peer
        PROVE  Places(Coming(p, k)) = {}
    <3>1. Coming(p, k) = <<>> \o <<>>
      BY <1>1, <1>3 DEF Coming
    <3>2. Len(<<>> \o <<>>) = 0
      OBVIOUS
    <3>3. QED
      BY <3>1, <3>2 DEF Places
  <2>2. Places(Coming(Lower, k)) = {} /\ Places(Coming(Higher, k)) = {}
    BY <2>1 DEF Peer
  <2>3. /\ Sig(Lower, k) = "stable" /\ Sig(Higher, k) = "stable"
        /\ GotOf(Lower, k) = DoneOf(Higher, k) /\ GotOf(Higher, k) = DoneOf(Lower, k)
    BY <1>1, <1>3 DEF Sig, GotOf, DoneOf, Peer
  <2>4. AnswerToLower(k) /\ AnswerToHigher(k) /\ OfferToLower(k) /\ OfferToHigher(k)
    BY <2>2 DEF AnswerToLower, AnswerToHigher, OfferToLower, OfferToHigher
  <2>5. QED
    BY <2>3, <2>4 DEF Orderly, Accepted, Answering, BothStable
<1>8. QED
  BY <1>5, <1>6, <1>7 DEF MeshInv

-----------------------------------------------------------------------------
(* Presence sockets and links that are removed.                            *)

\* A queue loses its end, or gets news that concern no connection.
LEMMA PresenceKeeps ==
  ASSUME MeshInv, NEW p \in Peer, Presence(p)
  PROVE  MeshInv'
<1>0. MeshTables /\ peer' = peer /\ renewed' = renewed /\ wire \in [Peer -> Seq(Signal)]
  BY DEF MeshInv, MeshTables, Presence, SocketLost, Left, Reconnect, HearRoster
\* One of the two queues is not touched, of the other one the descriptions stay or go.
<1>1. /\ wire' \in [Peer -> Seq(Signal)]
      /\ \A q \in Peer :
           \/ wire'[q] = wire[q] \/ wire'[q] = <<>>
           \/ wire[q] # <<>> /\ wire'[q] = Tail(wire[q])
           \/ \E m \in Signal : m.pc = "none" /\ wire'[q] = Append(wire[q], m)
  <2>1. /\ News("left") \in Signal /\ News("left").pc = "none"
        /\ News("joined") \in Signal /\ News("joined").pc = "none"
    BY DEF Signal, News
  <2>2. ASSUME NEW m \in Signal, m.pc = "none", wire' = Announced(p, m)
        PROVE  /\ wire' \in [Peer -> Seq(Signal)]
               /\ \A q \in Peer : wire'[q] = wire[q] \/ wire'[q] = Append(wire[q], m)
    <3>1. Other(p) \in Peer
      BY Others
    <3>2. Append(wire[Other(p)], m) \in Seq(Signal)
      BY <1>0, <3>1
    <3>3. QED
      BY <1>0, <2>2, <3>1, <3>2 DEF Announced
  <2>3. CASE SocketLost(p)
    <3>1. wire' = [wire EXCEPT ![p] = <<>>]
      BY <2>3 DEF SocketLost
    <3>2. <<>> \in Seq(Signal)
      OBVIOUS
    <3>3. QED
      BY <1>0, <3>1, <3>2
  <2>4. CASE Left(p)
    BY <2>1, <2>2, <2>4 DEF Left
  <2>5. CASE Reconnect(p)
    BY <2>1, <2>2, <2>5 DEF Reconnect
  <2>6. CASE HearRoster(p)
    <3>1. wire' = [wire EXCEPT ![p] = Tail(@)] /\ wire[p] # <<>>
      BY <2>6 DEF HearRoster
    <3>2. Tail(wire[p]) \in Seq(Signal)
      BY <1>0, <3>1
    <3>3. QED
      BY <1>0, <3>1, <3>2
  <2>7. QED
    BY <2>3, <2>4, <2>5, <2>6 DEF Presence
<1>2. MeshTables'
  BY <1>0, <1>1 DEF MeshTables, Sane, Untouched
<1> SUFFICES ASSUME Steady'
             PROVE  Making' /\ \A j \in Pc : Orderly(j)'
  BY <1>2 DEF MeshInv
<1>3. Making /\ \A j \in Pc : Orderly(j)
  BY <1>0 DEF MeshInv, Clashed, Steady
<1>4. Making'
  BY <1>0, <1>3 DEF Making, Sig
<1>5. ASSUME NEW j \in Pc
      PROVE  Orderly(j)'
  <2>1. Kept(j) /\ Accepted(j)'
    BY <1>0, <1>3 DEF Kept, Sig, OutOf, DoneOf, GotOf, Orderly, Accepted
  <2>2. ASSUME NEW q \in Peer
        PROVE  /\ Thinner(Coming(q, j)', Coming(q, j), j)
               /\ Len(Coming(q, j)) \in Nat /\ Len(Coming(q, j)') \in Nat
    <3> DEFINE a == peer[q].todo[j]  b == wire[q]  c == wire'[q]
    <3>1. a \in Seq(Signal) /\ b \in Seq(Signal) /\ c \in Seq(Signal)
      BY <1>0, <1>1, ComingType
    <3>2. Coming(q, j) = a \o b /\ Coming(q, j)' = a \o c
      BY <1>0 DEF Coming
    <3>3. \/ c = b \/ c = <<>>
          \/ b # <<>> /\ c = Tail(b)
          \/ \E m \in Signal : m.pc = "none" /\ c = Append(b, m)
      BY <1>1
    <3> HIDE DEF a, b, c
    <3>4. Len(a \o b) \in Nat /\ Len(a \o c) \in Nat
      BY <3>1
    <3>5. CASE c = b
      BY <3>2, <3>4, <3>5, ThinnerSame
    <3>6. CASE c = <<>>
      BY <3>1, <3>2, <3>4, <3>6, ThinnerCut
    <3>7. CASE b # <<>> /\ c = Tail(b)
      BY <3>1, <3>2, <3>4, <3>7, ThinnerSkip
    <3>8. CASE \E m \in Signal : m.pc = "none" /\ c = Append(b, m)
      <4>1. PICK m \in Signal : m.pc = "none" /\ c = Append(b, m)
        BY <3>8
      <4>2. m.pc # j
        BY <4>1 DEF Pc
      <4>3. QED
        BY <3>1, <3>2, <3>4, <4>1, <4>2, ThinnerNews
    <3>9. QED
      BY <3>2, <3>3, <3>4, <3>5, <3>6, <3>7, <3>8
  <2>3. QED
    BY <1>3, <2>1, <2>2, Thinned
<1>6. QED
  BY <1>4, <1>5

\* From then on nothing is claimed but types.
LEMMA RemoveHolds ==
  ASSUME MeshInv, NEW p \in Peer, Remove(p)
  PROVE  MeshInv'
<1>0. MeshTables /\ peer[p] \in Link /\ wire \in [Peer -> Seq(Signal)]
  BY DEF MeshInv, MeshTables
<1> DEFINE M == [NoLink EXCEPT !.clash = peer[p].clash]
<1>1. /\ peer' = [peer EXCEPT ![p] = M] /\ renewed' /\ wire' = wire
  BY DEF Remove
<1>2. M \in Link /\ Sane(M)
  <2>1. NoLink \in Link /\ Sane(NoLink)
    BY Blank
  <2>2. peer[p].clash \in BOOLEAN
    BY <1>0 DEF Link
  <2>3. /\ M \in Link /\ M.link = NoLink.link /\ M.sig = NoLink.sig /\ M.draft = NoLink.draft
        /\ M.out = NoLink.out /\ M.todo = NoLink.todo /\ M.added = NoLink.added
        /\ M.done = NoLink.done /\ M.ice = NoLink.ice /\ M.watchdog = NoLink.watchdog
        /\ M.recovery = NoLink.recovery /\ M.failed = NoLink.failed
    <3> DEFINE N == NoLink
    <3>1. N \in Link
      BY <2>1
    <3> HIDE DEF N
    <3>2. [N EXCEPT !.clash = peer[p].clash] \in Link
      BY <2>2, <3>1 DEF Link
    <3>3. QED
      BY <3>1, <3>2 DEF Link, N
  <2> HIDE DEF M
  <2>4. QED
    BY <2>1, <2>3 DEF Sane, Untouched
<1> HIDE DEF M
<1>3. MeshTables'
  BY <1>0, <1>1, <1>2, Replaced
<1>4. QED
  BY <1>1, <1>3 DEF MeshInv, Steady

LEMMA RefusedHolds ==
  ASSUME MeshInv, NEW p \in Peer, NEW k \in Pc, Refused(p, k)
  PROVE  MeshInv'
<1>0. MeshTables /\ peer[p] \in Link /\ Sane(peer[p]) /\ wire \in [Peer -> Seq(Signal)]
  BY DEF MeshInv, MeshTables
<1>1. renewed' /\ wire' = wire /\ peer[p].link /\ peer[p].todo[k] # <<>>
  BY DEF Refused
<1> DEFINE todo == [peer[p].todo EXCEPT ![k] = Tail(@)]
           sig == [peer[p].sig EXCEPT ![k] = "stable"]
           out == [peer[p].out EXCEPT ![k] = 0]
           L == [peer[p] EXCEPT !.todo = todo]
           M == [L EXCEPT !.sig = sig, !.out = out]
<1>2. peer' = [peer EXCEPT ![p] = L] \/ peer' = [peer EXCEPT ![p] = M]
  <2>1. [peer[p] EXCEPT !.todo[k] = Tail(@)] = L
    BY <1>0 DEF Link
  <2>2. [L EXCEPT !.sig[k] = "stable", !.out[k] = 0] = M
    BY <1>0 DEF Link
  <2>3. QED
    BY <2>1, <2>2 DEF Refused
<1>3. \A j \in Pc : todo[j] \in Seq(Signal) /\ \A i \in 1..Len(todo[j]) : todo[j][i].pc = j
  <2> SUFFICES ASSUME NEW j \in Pc
               PROVE  todo[j] \in Seq(Signal) /\ \A i \in 1..Len(todo[j]) : todo[j][i].pc = j
    OBVIOUS
  <2> DEFINE a == peer[p].todo[j]
  <2>1. a \in Seq(Signal) /\ \A i \in 1..Len(a) : a[i].pc = j
    BY <1>0 DEF Link, Sane
  <2>2. todo[j] = a \/ (a # <<>> /\ todo[j] = Tail(a))
    BY <1>0, <1>1 DEF Link
  <2> HIDE DEF a, todo
  <2>3. CASE todo[j] = a
    BY <2>1, <2>3
  <2>4. CASE a # <<>> /\ todo[j] = Tail(a)
    <3>1. /\ Tail(a) \in Seq(Signal)
          /\ \A i \in 1..Len(Tail(a)) : i + 1 \in 1..Len(a) /\ Tail(a)[i] = a[i + 1]
      BY <2>1, <2>4
    <3>2. QED
      BY <2>1, <2>4, <3>1
  <2>5. QED
    BY <2>2, <2>3, <2>4
<1>4. /\ todo \in [Pc -> Seq(Signal)]
      /\ sig \in [Pc -> {"stable", "offering", "answering"}]
      /\ out \in [Pc -> Nat] /\ \A j \in Pc : out[j] = peer[p].out[j] \/ out[j] = 0
  BY <1>0, <1>3 DEF Link
<1> HIDE DEF todo, sig, out
<1>5. /\ L \in Link /\ L.todo = todo /\ L.done = peer[p].done /\ L.draft = peer[p].draft
      /\ L.out = peer[p].out /\ L.added = peer[p].added /\ L.link
  BY <1>0, <1>1, <1>4 DEF Link
<1> HIDE DEF L
<1>6. /\ M \in Link /\ M.todo = todo /\ M.done = peer[p].done /\ M.draft = peer[p].draft
      /\ M.out = out /\ M.added = peer[p].added /\ M.link
  BY <1>4, <1>5 DEF Link
<1> HIDE DEF M
<1>7. Sane(L)
  BY <1>0, <1>3, <1>5 DEF Sane
<1>8. Sane(M)
  <2>1. \A j \in Pc : peer[p].added[j] \in Nat
    BY <1>0 DEF Link
  <2>2. ASSUME NEW j \in Pc
        PROVE  out[j] <= peer[p].added[j]
    <3>1. peer[p].out[j] <= peer[p].added[j] /\ peer[p].added[j] \in Nat
      BY <1>0, <2>1 DEF Sane
    <3>2. out[j] = peer[p].out[j] \/ out[j] = 0
      BY <1>4
    <3>3. QED
      BY <3>1, <3>2
  <2>3. QED
    BY <1>0, <1>3, <1>6, <2>2 DEF Sane
<1>9. MeshTables'
  BY <1>0, <1>1, <1>2, <1>5, <1>6, <1>7, <1>8, Replaced
<1>10. QED
  BY <1>1, <1>9 DEF MeshInv, Steady

LEMMA MeshStep == MeshInv /\ [MeshNext]_meshVars => MeshInv'
<1> SUFFICES ASSUME MeshInv, [MeshNext]_meshVars
             PROVE  MeshInv'
  OBVIOUS
<1>1. CASE UNCHANGED meshVars
  BY <1>1, MeshStill
<1>2. ASSUME NEW p \in Peer,
             Create(p) \/ Timer(p) \/ Network(p) \/ retryNow(p) \/ \E k \in Pc : AddTrack(p, k)
      PROVE  MeshInv'
  BY <1>2, AsideHolds DEF Aside
<1>3. ASSUME NEW p \in Peer, Receive(p)
      PROVE  MeshInv'
  BY <1>3, ReceiveKeeps
<1>4. ASSUME NEW p \in Peer, NEW k \in Pc, NegotiationNeeded(p, k)
      PROVE  MeshInv'
  BY <1>4, NeededKeeps
<1>5. ASSUME NEW p \in Peer, NEW k \in Pc, SetLocalOffer(p, k)
      PROVE  MeshInv'
  BY <1>5, OfferKeeps
<1>6. ASSUME NEW p \in Peer, NEW k \in Pc, SetRemote(p, k)
      PROVE  MeshInv'
  BY <1>6, RemoteKeeps
<1>7. ASSUME NEW p \in Peer, NEW k \in Pc, SendAnswer(p, k)
      PROVE  MeshInv'
  BY <1>7, AnswerKeeps
<1>8. ASSUME NEW p \in Peer, Presence(p)
      PROVE  MeshInv'
  BY <1>8, PresenceKeeps
<1>9. ASSUME NEW p \in Peer, Remove(p)
      PROVE  MeshInv'
  BY <1>9, RemoveHolds
<1>10. ASSUME NEW p \in Peer, NEW k \in Pc, Refused(p, k)
       PROVE  MeshInv'
  BY <1>10, RefusedHolds
<1>11. QED
  BY <1>1, <1>2, <1>3, <1>4, <1>5, <1>6, <1>7, <1>8, <1>9, <1>10 DEF MeshNext, Negotiate

\* The invariant of the negotiation (mesh.js handleSignal, onnegotiationneeded).
THEOREM MeshInductive == MeshSpec => []MeshInv
BY MeshStart, MeshStep, PTL DEF MeshSpec

\* The links, the pages and the wire have their types, nothing is negotiated that was not
\* added, and no timer runs without a link (mesh.js close, armWatchdog, _recover).
THEOREM MeshTypeCorrect == MeshSpec => []MeshTypeOK
<1> DEFINE Pages == page \in [Peer -> Page]
<1>1. MeshInv /\ Pages => MeshTypeOK
  BY DEF MeshInv, MeshTables, Sane, Untouched, MeshTypeOK
<1>2. MeshInit => Pages
  BY DEF MeshInit, Page
<1>3. Pages /\ [MeshNext]_meshVars => Pages'
  <2> SUFFICES ASSUME Pages, [MeshNext]_meshVars
               PROVE  Pages'
    OBVIOUS
  <2>1. CASE page' = page
    BY <2>1
  <2>2. ASSUME NEW p \in Peer, Presence(p)
        PROVE  Pages'
    <3>1. /\ page[p] \in Page /\ page[p].old + 1 \in Nat
          /\ page[p].old > 0 => page[p].old - 1 \in Nat
      BY DEF Page
    <3>2. CASE SocketLost(p)
      <4>1. [page[p] EXCEPT !.up = FALSE, !.old = @ + 1] \in Page
        BY <3>1 DEF Page
      <4>2. page' = [page EXCEPT ![p] = [page[p] EXCEPT !.up = FALSE, !.old = @ + 1]]
        BY <3>2 DEF SocketLost
      <4>3. QED
        BY <4>1, <4>2
    <3>3. CASE Left(p)
      <4>1. [page[p] EXCEPT !.old = @ - 1] \in Page
        BY <3>1, <3>3 DEF Page, Left
      <4>2. page' = [page EXCEPT ![p] = [page[p] EXCEPT !.old = @ - 1]]
        BY <3>3 DEF Left
      <4>3. QED
        BY <4>1, <4>2
    <3>4. CASE Reconnect(p)
      <4>1. [page[p] EXCEPT !.up = TRUE, !.listed = TRUE] \in Page
        BY <3>1 DEF Page
      <4>2. page' = [page EXCEPT ![p] = [page[p] EXCEPT !.up = TRUE, !.listed = TRUE]]
        BY <3>4 DEF Reconnect
      <4>3. QED
        BY <4>1, <4>2
    <3>5. CASE HearRoster(p)
      <4>1. [page[p] EXCEPT !.listed = Head(wire[p]).type = "joined"] \in Page
        BY <3>1 DEF Page
      <4>2. page' = [page EXCEPT ![p] = [page[p] EXCEPT !.listed = Head(wire[p]).type = "joined"]]
        BY <3>5 DEF HearRoster
      <4>3. QED
        BY <4>1, <4>2
    <3>6. QED
      BY <2>2, <3>2, <3>3, <3>4, <3>5 DEF Presence
  <2>3. CASE UNCHANGED meshVars
    BY <2>3 DEF meshVars
  <2>4. ASSUME NEW p \in Peer,
               \/ Create(p) \/ Remove(p) \/ Timer(p) \/ Network(p) \/ retryNow(p) \/ Negotiate(p)
               \/ \E k \in Pc : AddTrack(p, k)
        PROVE  page' = page
    BY <2>4 DEF Create, Remove, Timer, WatchdogFires, GraceEnds, Network, Connected, Disconnected,
                ConnectionFailed, retryNow, AddTrack, Negotiate, Receive, NegotiationNeeded,
                SetLocalOffer, SetRemote, Refused, SendAnswer
  <2>5. QED
    BY <2>1, <2>2, <2>3, <2>4 DEF MeshNext
<1>4. MeshSpec => []Pages
  BY <1>2, <1>3, PTL DEF MeshSpec
<1>5. QED
  BY <1>1, <1>4, MeshInductive, PTL

\* Two peers that are quiet have what the other one sends, whatever was offered, ignored,
\* rolled back or lost, as long as no link was removed and makingOffer is not reset while
\* the other connection's offer is in the making (mesh.js 79-97, 186-204, 293-321).
THEOREM PeersAgree == MeshSpec => []Agreement
<1>1. ASSUME MeshInv
      PROVE  Agreement
  <2>1. SUFFICES ASSUME Steady, NEW k \in Pc,
                        \A p \in Peer : peer[p].sig[k] = "stable",
                        NEW p \in Peer
                 PROVE  peer[p].got[k] = peer[Other(p)].done[k]
    BY DEF Agreement, Steady
  <2>2. BothStable(k)
    BY <1>1, <2>1 DEF MeshInv, Orderly
  <2>3. Sig(Lower, k) = "stable" /\ Sig(Higher, k) = "stable"
    BY <2>1 DEF Sig, Peer
  <2>4. GotOf(Lower, k) = DoneOf(Higher, k) /\ GotOf(Higher, k) = DoneOf(Lower, k)
    BY <2>2, <2>3 DEF BothStable
  <2>5. QED
    BY <2>4, Others DEF GotOf, DoneOf
<1>2. QED
  BY <1>1, MeshInductive, PTL
=============================================================================
