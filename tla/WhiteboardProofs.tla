-------------------------- MODULE WhiteboardProofs --------------------------
(***************************************************************************)
(* What holds of the whiteboard for any number of sockets, operations and  *)
(* pages: the rows a clear leaves draw what all rows would draw, nothing   *)
(* falls between a snapshot and the live stream, and the whole keeps the   *)
(* promise of module BoardLog.                                             *)
(* The part on viewers replays histories: a page that was sent a snapshot  *)
(* and live operations shows what the table says.                          *)
(* The last part is about gestures: what the server accepts of them.       *)
(***************************************************************************)
EXTENDS Whiteboard, Gestures, FiniteSetTheorems, WellFoundedInduction, TLAPS

\* The table and the consumers.  An operation being stored has an id of its own,
\* and a clear deletes only older rows of its own page.
Storing == [phase : {"idle", "inserted", "committed"}, seq : Nat,
            gone : SUBSET Nat, live : BOOLEAN]

TablesOK ==
  /\ log \in Seq({ log[n] : n \in 1..Len(log) })
  /\ kept \subseteq 1..Len(log)
  /\ busy \in [Sock -> Storing]
  /\ \A s \in Sock : busy[s].seq <= Len(log)
  /\ \A s \in Sock : busy[s].phase # "idle" => busy[s].seq >= 1

ConnsOK ==
  /\ conn \in [Sock -> [st : {"off", "grouped", "open"}, last : Nat]]
  /\ \A s \in Sock : conn[s].last <= Len(log)
  /\ chan \in [Sock -> Seq(1..Len(log))]
  /\ seen \in [Sock -> [base : SUBSET Nat, got : SUBSET Nat, drew : BOOLEAN]]

\* A consumer that has not sent its history has no watermark and stores nothing.
NotOpen ==
  \A s \in Sock : conn[s].st # "open" =>
    /\ conn[s].last = 0
    /\ busy[s].phase = "inserted" => ~busy[s].live

GoneByClear ==
  \A s \in Sock : busy[s].phase = "inserted" => \A n \in busy[s].gone :
    /\ n >= 1 /\ n < busy[s].seq
    /\ SameScope(log[n], log[busy[s].seq])
    /\ log[n].kind \notin {"page_add", "page_setup"}
    /\ log[busy[s].seq].kind = "clear"

\* Every committed operation that has no row any more is neither a page nor its
\* look, and a later clear of the same page and file has a row.
Covered(n) ==
  /\ log[n].kind \notin {"page_add", "page_setup"}
  /\ \E m \in kept : m > n /\ SameScope(log[n], log[m]) /\ log[m].kind = "clear"

RowsOK ==
  /\ \A n \in 1..Len(log) : n \in kept \/ Covered(n)
        \/ \E s \in Sock : busy[s].phase = "inserted" /\ busy[s].seq = n
  /\ \A s \in Sock : busy[s].phase = "inserted" => busy[s].seq \notin kept
  /\ \A s, t \in Sock : s # t /\ busy[s].phase = "inserted" /\ busy[t].phase = "inserted"
        => busy[s].seq # busy[t].seq

BoardInv == TablesOK /\ ConnsOK /\ NotOpen /\ GoneByClear /\ RowsOK

-----------------------------------------------------------------------------
\* Facts about appending, stated once.
LEMMA AppendLog ==
  ASSUME NEW seq, NEW e, seq \in Seq({ seq[n] : n \in 1..Len(seq) })
  PROVE  LET new == Append(seq, e) IN
         /\ Len(seq) \in Nat
         /\ Len(new) = Len(seq) + 1
         /\ \A n \in 1..Len(seq) : new[n] = seq[n]
         /\ new[Len(seq) + 1] = e
         /\ new \in Seq({ new[n] : n \in 1..Len(new) })
<1> DEFINE S == { seq[n] : n \in 1..Len(seq) }
           T == S \cup {e}
           new == Append(seq, e)
<1>1. seq \in Seq(T)
  OBVIOUS
<1>2. /\ Len(seq) \in Nat /\ new \in Seq(T) /\ Len(new) = Len(seq) + 1
      /\ \A n \in 1..Len(seq) : new[n] = seq[n]
      /\ new[Len(seq) + 1] = e
  BY <1>1
<1>3. { new[n] : n \in 1..Len(new) } = T
  BY <1>2
<1> QED BY <1>2, <1>3

\* A click in a browser changes no table, consumer or channel.
LEMMA BrowserStep ==
  ASSUME NEW s \in Sock, Browser(s)
  PROVE  /\ UNCHANGED <<log, author, kept, busy, conn, chan>>
         /\ seen' = [seen EXCEPT ![s].drew = TRUE] \/ seen' = seen
  BY DEF Browser, Draw, Undo, Redo, Clear, PageSetup, AddPage, SetPage, Click

Consumers == [Sock -> [st : {"off", "grouped", "open"}, last : Nat]]

LEMMA SetLast ==
  ASSUME conn \in Consumers, NEW s \in Sock, NEW n \in Nat,
         conn' = [conn EXCEPT ![s].last = n]
  PROVE  /\ conn' \in Consumers
         /\ conn'[s].last = n /\ conn'[s].st = conn[s].st
         /\ \A t \in Sock : t # s => conn'[t] = conn[t]
  BY DEF Consumers

LEMMA InvInit == BoardInit => BoardInv
  BY DEF BoardInit, BoardInv, TablesOK, Storing, ConnsOK, NotOpen, GoneByClear, RowsOK, Idle

LEMMA InsertInv ==
  ASSUME BoardInv, NEW s \in Sock, Insert(s)
  PROVE  BoardInv'
<1> DEFINE op == Head(out[s])
           m  == Len(log) + 1
<1> USE DEF BoardInv
<1>1. /\ log' = Append(log, op) /\ busy[s] = Idle /\ conn[s].st = "open"
      /\ busy' = [busy EXCEPT ![s] = [phase |-> "inserted", seq |-> m,
                                      gone |-> Compacts(op), live |-> TRUE]]
      /\ UNCHANGED <<kept, conn, chan, seen>>
  BY DEF Insert
<1>2. /\ Len(log) \in Nat /\ Len(log') = m
      /\ \A n \in 1..Len(log) : log'[n] = log[n]
      /\ log'[m] = op
      /\ log' \in Seq({ log'[n] : n \in 1..Len(log') })
  BY <1>1, AppendLog DEF TablesOK
<1> HIDE DEF m, op
<1>0. /\ \A t \in Sock : t # s => busy'[t] = busy[t]
      /\ busy'[s] = [phase |-> "inserted", seq |-> m, gone |-> Compacts(op), live |-> TRUE]
  BY <1>1 DEF TablesOK
<1>3. \A n \in Compacts(op) : /\ n \in kept /\ SameScope(log[n], op) /\ op.kind = "clear"
                              /\ log[n].kind \notin {"page_add", "page_setup"}
  BY DEF Compacts
<1>4. m = Len(log) + 1
  BY DEF m
<1>5. TablesOK'
  <2>0. m \in Nat /\ Compacts(op) \subseteq Nat
    <3>1. Compacts(op) \subseteq kept /\ kept \subseteq Nat
      BY <1>3 DEF TablesOK
    <3>2. m \in Nat
      BY <1>2, <1>4
    <3> QED BY <3>1, <3>2
  <2>1. busy' \in [Sock -> Storing]
    <3>1. [phase |-> "inserted", seq |-> m, gone |-> Compacts(op), live |-> TRUE] \in Storing
      BY <2>0 DEF Storing
    <3> QED BY <3>1, <1>1 DEF TablesOK
  <2>2. ASSUME NEW t \in Sock
        PROVE  busy'[t].seq <= Len(log') /\ (busy'[t].phase # "idle" => busy'[t].seq >= 1)
    <3>1. CASE t = s
      BY <3>1, <2>0, <1>0, <1>2, <1>4
    <3>2. CASE t # s
      <4>1. busy[t] \in Storing /\ busy[t].seq <= Len(log)
            /\ (busy[t].phase # "idle" => busy[t].seq >= 1)
        BY DEF TablesOK
      <4>2. busy[t].seq \in Nat
        BY <4>1 DEF Storing
      <4> QED BY <3>2, <4>1, <4>2, <1>0, <1>2, <1>4
    <3> QED BY <3>1, <3>2
  <2>3. kept' \subseteq 1..Len(log')
    BY <1>1, <1>2, <1>4 DEF TablesOK
  <2> QED BY <1>2, <2>1, <2>2, <2>3 DEF TablesOK
<1>6. ConnsOK'
  BY <1>1, <1>2, <1>4 DEF ConnsOK
<1>7. NotOpen'
  BY <1>1 DEF NotOpen, TablesOK
<1>8. GoneByClear'
  <2>1. ASSUME NEW n \in Compacts(op)
        PROVE  /\ n >= 1 /\ n < m /\ SameScope(log'[n], log'[m])
               /\ log'[n].kind \notin {"page_add", "page_setup"} /\ log'[m].kind = "clear"
    <3>1. n \in 1..Len(log)
      BY <2>1, <1>3 DEF TablesOK
    <3>2. log'[n] = log[n] /\ log'[m] = op /\ n >= 1 /\ n < m
      BY <3>1, <1>2, <1>4
    <3> QED BY <2>1, <3>2, <1>3
  <2>2. ASSUME NEW t \in Sock, t # s, busy[t].phase = "inserted", NEW n \in busy[t].gone
        PROVE  /\ n >= 1 /\ n < busy[t].seq /\ SameScope(log'[n], log'[busy[t].seq])
               /\ log'[n].kind \notin {"page_add", "page_setup"}
               /\ log'[busy[t].seq].kind = "clear"
    <3>1. busy[t].seq \in 1..Len(log) /\ n \in 1..Len(log)
      BY <2>2, <1>2, SMTT(30) DEF TablesOK, Storing, GoneByClear
    <3> QED BY <2>2, <3>1, <1>2 DEF GoneByClear
  <2> QED BY <2>1, <2>2, <1>0 DEF GoneByClear
<1>9. RowsOK'
  <2>1. ASSUME NEW n \in 1..Len(log'), n \notin kept',
               ~\E t \in Sock : busy'[t].phase = "inserted" /\ busy'[t].seq = n
        PROVE  Covered(n)'
    <3>1. n # m
      BY <2>1, <1>0
    <3>2. n \in 1..Len(log) /\ n \notin kept
          /\ ~\E t \in Sock : busy[t].phase = "inserted" /\ busy[t].seq = n
      BY <2>1, <3>1, <1>0, <1>1, <1>2, <1>4 DEF Idle
    <3>3. Covered(n)
      BY <3>2 DEF RowsOK
    <3> QED BY <3>2, <3>3, <1>1, <1>2 DEF Covered, SameScope, TablesOK
  <2>2. \A t \in Sock : busy'[t].phase = "inserted" => busy'[t].seq \notin kept'
    BY <1>1, <1>2, <1>4 DEF RowsOK, TablesOK
  <2>3. \A t, u \in Sock : t # u /\ busy'[t].phase = "inserted" /\ busy'[u].phase = "inserted"
           => busy'[t].seq # busy'[u].seq
    BY <1>1, <1>2, <1>4, SMTT(30) DEF RowsOK, TablesOK
  <2> QED BY <2>1, <2>2, <2>3 DEF RowsOK
<1> QED BY <1>5, <1>6, <1>7, <1>8, <1>9

LEMMA CommitInv ==
  ASSUME BoardInv, NEW s \in Sock, Commit(s)
  PROVE  BoardInv'
<1> DEFINE k == busy[s].seq
<1> USE DEF BoardInv
<1>1. /\ busy[s].phase = "inserted"
      /\ kept' = (kept \ busy[s].gone) \cup {k}
      /\ busy' = [busy EXCEPT ![s].phase = "committed", ![s].gone = {}]
      /\ conn' = [conn EXCEPT ![s].last = IF busy[s].live THEN k ELSE @]
      /\ UNCHANGED <<log, chan, seen>>
  BY DEF Commit
<1>2. k \in 1..Len(log) /\ busy[s].gone \subseteq Nat
  <2>1. busy[s] \in Storing /\ busy[s].phase # "idle"
    BY <1>1 DEF TablesOK
  <2>2. k \in Nat /\ k >= 1 /\ k <= Len(log) /\ busy[s].gone \subseteq Nat
    BY <2>1 DEF TablesOK, Storing
  <2>3. Len(log) \in Nat
    BY AppendLog DEF TablesOK
  <2> QED BY <2>2, <2>3
<1>3. \A t \in Sock : t # s => busy'[t] = busy[t]
  BY <1>1 DEF TablesOK
<1>4. busy'[s].phase = "committed" /\ busy'[s].seq = k /\ busy'[s].gone = {}
      /\ busy'[s].live = busy[s].live
  BY <1>1 DEF TablesOK, Storing
<1>5. TablesOK'
  <2>1. busy' \in [Sock -> Storing]
    BY <1>1 DEF TablesOK, Storing
  <2>2. \A t \in Sock : busy'[t].seq = busy[t].seq
                        /\ (busy'[t].phase # "idle" => busy[t].phase # "idle")
    BY <1>1, <1>3, <1>4
  <2> QED BY <2>1, <2>2, <1>1, <1>2 DEF TablesOK
<1>6. ConnsOK'
  <2>1. k \in Nat /\ k <= Len(log)
    BY <1>2 DEF TablesOK
  <2> DEFINE l == IF busy[s].live THEN k ELSE conn[s].last
  <2>2. conn \in Consumers /\ l \in Nat /\ l <= Len(log)
    BY <2>1 DEF ConnsOK, Consumers
  <2>3. conn' = [conn EXCEPT ![s].last = l]
    BY <1>1
  <2> HIDE DEF l
  <2>4. conn' \in Consumers /\ \A t \in Sock : conn'[t].last = conn[t].last \/ conn'[t].last = l
    BY <2>2, <2>3, SetLast
  <2>5. \A t \in Sock : conn'[t].last <= Len(log)
    BY <2>2, <2>4 DEF ConnsOK
  <2> QED BY <2>4, <2>5, <1>1 DEF ConnsOK, Consumers
<1>7. NotOpen'
  <2>1. \A t \in Sock : conn'[t].st = conn[t].st
    BY <1>1 DEF ConnsOK
  <2>2. conn[s].st # "open" => conn'[s].last = conn[s].last
    BY <1>1 DEF NotOpen, ConnsOK
  <2>3. \A t \in Sock : t # s => conn'[t] = conn[t]
    BY <1>1 DEF ConnsOK
  <2> QED BY <2>1, <2>2, <2>3, <1>3, <1>4 DEF NotOpen
<1>8. GoneByClear'
  BY <1>1, <1>3, <1>4 DEF GoneByClear
<1>9. RowsOK'
  <2>1. ASSUME NEW n \in 1..Len(log'), n \notin kept',
               ~\E t \in Sock : busy'[t].phase = "inserted" /\ busy'[t].seq = n
        PROVE  Covered(n)'
    <3>1. n \in 1..Len(log) /\ n # k
      BY <2>1, <1>1
    <3>2. CASE n \in busy[s].gone
      BY <3>1, <3>2, <1>1, <1>2 DEF Covered, GoneByClear
    <3>3. CASE n \notin busy[s].gone
      <4>1. n \notin kept /\ ~\E t \in Sock : busy[t].phase = "inserted" /\ busy[t].seq = n
        BY <3>1, <3>3, <2>1, <1>1, <1>3
      <4>2. log[n].kind \notin {"page_add", "page_setup"}
        BY <3>1, <4>1 DEF RowsOK, Covered
      <4>3. PICK m \in kept : m > n /\ SameScope(log[n], log[m]) /\ log[m].kind = "clear"
        BY <3>1, <4>1 DEF RowsOK, Covered
      <4>4. CASE m \in busy[s].gone
        <5>1. k > n /\ SameScope(log[n], log[k]) /\ log[k].kind = "clear"
          BY <4>3, <4>4, <3>1, <1>1, <1>2 DEF GoneByClear, SameScope
        <5> QED BY <5>1, <4>2, <1>1 DEF Covered
      <4>5. CASE m \notin busy[s].gone
        BY <4>2, <4>3, <4>5, <1>1 DEF Covered
      <4> QED BY <4>4, <4>5
    <3> QED BY <3>2, <3>3
  <2>2. \A t \in Sock : busy'[t].phase = "inserted" => busy'[t].seq \notin kept'
    <3>1. ASSUME NEW t \in Sock, busy'[t].phase = "inserted"
          PROVE  busy'[t].seq \notin kept'
      <4>1. t # s /\ busy'[t] = busy[t]
        BY <3>1, <1>3, <1>4
      <4>2. busy[t].seq # k /\ busy[t].seq \notin kept
        BY <3>1, <4>1, <1>1 DEF RowsOK
      <4> QED BY <4>1, <4>2, <1>1
    <3> QED BY <3>1
  <2>3. \A t, u \in Sock : t # u /\ busy'[t].phase = "inserted" /\ busy'[u].phase = "inserted"
           => busy'[t].seq # busy'[u].seq
    <3>1. \A t \in Sock : busy'[t].phase = "inserted" => t # s /\ busy'[t] = busy[t]
      BY <1>3, <1>4
    <3> QED BY <3>1 DEF RowsOK
  <2> QED BY <2>1, <2>2, <2>3 DEF RowsOK
<1> QED BY <1>5, <1>6, <1>7, <1>8, <1>9

\* RowsOK and GoneByClear speak of the table and of what is being stored.
LEMMA SameRows ==
  ASSUME TablesOK, GoneByClear, RowsOK, UNCHANGED <<log, kept>>, 
         \A t \in Sock : busy'[t].phase = "inserted" <=> busy[t].phase = "inserted",
         \A t \in Sock : busy[t].phase = "inserted" =>
            busy'[t].seq = busy[t].seq /\ busy'[t].gone = busy[t].gone
  PROVE  GoneByClear' /\ RowsOK'
<1>1. GoneByClear'
  BY DEF GoneByClear
<1>2. \A n : Covered(n)' <=> Covered(n)
  BY DEF Covered
<1>3. RowsOK'
  BY <1>2 DEF RowsOK
<1> QED BY <1>1, <1>3

\* A step that leaves the tables alone needs only its consumers looked at.
LEMMA PublishInv ==
  ASSUME BoardInv, NEW s \in Sock, Publish(s)
  PROVE  BoardInv'
<1> USE DEF BoardInv
<1>1. /\ busy[s].phase = "committed"
      /\ chan' = [t \in Sock |-> IF conn[t].st = "off" THEN chan[t]
                                 ELSE Append(chan[t], busy[s].seq)]
      /\ busy' = [busy EXCEPT ![s] = Idle]
      /\ UNCHANGED <<log, kept, conn, seen>>
  BY DEF Publish
<1>2. /\ \A t \in Sock : t # s => busy'[t] = busy[t]
      /\ busy'[s] = Idle
  BY <1>1 DEF TablesOK
<1>3. TablesOK'
  <2>1. Idle \in Storing /\ Idle.phase = "idle" /\ Idle.seq = 0
    BY DEF Idle, Storing
  <2>2. busy' \in [Sock -> Storing]
    BY <1>1, <2>1 DEF TablesOK
  <2>3. Len(log) \in Nat
    BY AppendLog DEF TablesOK
  <2> QED BY <1>1, <1>2, <2>1, <2>2, <2>3 DEF TablesOK
<1>4. ConnsOK'
  <2>1. busy[s].seq \in 1..Len(log)
    BY <1>1, AppendLog DEF TablesOK, Storing
  <2>2. chan' \in [Sock -> Seq(1..Len(log))]
    <3>1. \A t \in Sock : Append(chan[t], busy[s].seq) \in Seq(1..Len(log))
      BY <2>1 DEF ConnsOK
    <3> QED BY <3>1, <1>1 DEF ConnsOK
  <2> QED BY <1>1, <2>2 DEF ConnsOK
<1>5. NotOpen'
  BY <1>1, <1>2 DEF NotOpen, Idle
<1>6. GoneByClear' /\ RowsOK'
  BY <1>1, <1>2, SameRows DEF Idle
<1> QED BY <1>3, <1>4, <1>5, <1>6

LEMMA DispatchInv ==
  ASSUME BoardInv, NEW s \in Sock, Dispatch(s)
  PROVE  BoardInv'
<1> DEFINE n == Head(chan[s])
<1> USE DEF BoardInv
<1>1. /\ chan[s] # <<>>
      /\ conn[s].st = "open"
      /\ chan' = [chan EXCEPT ![s] = Tail(@)]
      /\ \/ conn' = [conn EXCEPT ![s].last = n] /\ seen' = [seen EXCEPT ![s].got = @ \cup {n}]
         \/ conn' = conn /\ seen' = seen
      /\ UNCHANGED <<log, kept, busy>>
  BY DEF Dispatch
<1>2. n \in 1..Len(log) /\ Tail(chan[s]) \in Seq(1..Len(log))
  BY <1>1 DEF ConnsOK
<1> HIDE DEF n
<1>3. /\ conn' \in Consumers
      /\ conn'[s].st = conn[s].st /\ (conn'[s].last = conn[s].last \/ conn'[s].last = n)
      /\ \A t \in Sock : t # s => conn'[t] = conn[t]
  <2>1. conn \in Consumers /\ n \in Nat
    BY <1>2 DEF ConnsOK, Consumers
  <2>2. CASE conn' = conn
    BY <2>1, <2>2
  <2>3. CASE conn' = [conn EXCEPT ![s].last = n]
    BY <2>1, <2>3, SetLast
  <2> QED BY <1>1, <2>2, <2>3
<1>4. ConnsOK' /\ NotOpen'
  <2>1. chan' \in [Sock -> Seq(1..Len(log))]
    BY <1>1, <1>2 DEF ConnsOK
  <2>2. \A t \in Sock : conn'[t].last <= Len(log)
    <3>1. \A t \in Sock : conn'[t].last = conn[t].last \/ conn'[t].last = n
      BY <1>3
    <3>2. n <= Len(log)
      BY <1>2, AppendLog DEF TablesOK
    <3> QED BY <3>1, <3>2 DEF ConnsOK
  <2>3. seen' \in [Sock -> [base : SUBSET Nat, got : SUBSET Nat, drew : BOOLEAN]]
    <3>1. n \in Nat
      BY <1>2
    <3>2. CASE seen' = [seen EXCEPT ![s].got = @ \cup {n}]
      BY <3>1, <3>2 DEF ConnsOK
    <3> QED BY <1>1, <3>2 DEF ConnsOK
  <2>4. NotOpen'
    BY <1>1, <1>3 DEF NotOpen
  <2> QED BY <1>1, <1>3, <2>1, <2>2, <2>3, <2>4 DEF ConnsOK, Consumers
<1>5. TablesOK'
  BY <1>1 DEF TablesOK
<1>6. GoneByClear' /\ RowsOK'
  BY <1>1, SameRows
<1> QED BY <1>4, <1>5, <1>6

LEMMA LoadHistoryInv ==
  ASSUME BoardInv, NEW s \in Sock, LoadHistory(s)
  PROVE  BoardInv'
<1> USE DEF BoardInv
<1>1. /\ conn[s].st = "grouped"
      /\ UNCHANGED <<log, kept, busy, chan>>
      /\ \E d : seen' = [seen EXCEPT ![s] = [base |-> Snapshot, got |-> {}, drew |-> d]] /\ d \in BOOLEAN
  <2>1. (out[s] # <<>> \/ busy[s].phase = "inserted") \in BOOLEAN
    OBVIOUS
  <2> QED BY <2>1 DEF LoadHistory
<1>2. PICK seq \in kept \cup {0} : conn' = [conn EXCEPT ![s] = [st |-> "open", last |-> seq]]
  BY DEF LoadHistory
<1>3. seq \in Nat /\ seq <= Len(log) /\ Snapshot \subseteq Nat
  <2>1. Len(log) \in Nat
    BY AppendLog DEF TablesOK
  <2>2. kept \subseteq Nat /\ Committed \subseteq Nat
    BY <2>1 DEF TablesOK, Committed
  <2>3. Snapshot \subseteq Nat
    BY <2>2 DEF Snapshot, Newest
  <2> QED BY <2>1, <2>3 DEF TablesOK
<1>4. ConnsOK'
  <2>1. conn' \in [Sock -> [st : {"off", "grouped", "open"}, last : Nat]]
    BY <1>2, <1>3 DEF ConnsOK
  <2>2. \A t \in Sock : conn'[t].last <= Len(log)
    BY <1>2, <1>3 DEF ConnsOK
  <2>3. seen' \in [Sock -> [base : SUBSET Nat, got : SUBSET Nat, drew : BOOLEAN]]
    BY <1>1, <1>3 DEF ConnsOK
  <2> QED BY <1>1, <2>1, <2>2, <2>3 DEF ConnsOK
<1>5. NotOpen'
  BY <1>1, <1>2 DEF NotOpen, ConnsOK
<1>6. TablesOK'
  BY <1>1 DEF TablesOK
<1>7. GoneByClear' /\ RowsOK'
  BY <1>1, SameRows
<1> QED BY <1>4, <1>5, <1>6, <1>7

LEMMA DisconnectInv ==
  ASSUME BoardInv, NEW s \in Sock, Disconnect(s)
  PROVE  BoardInv'
<1> USE DEF BoardInv
<1>1. /\ conn' = [conn EXCEPT ![s] = [st |-> "off", last |-> 0]]
      /\ chan' = [chan EXCEPT ![s] = <<>>]
      /\ busy' = [busy EXCEPT ![s].live = FALSE]
      /\ seen' = [seen EXCEPT ![s] = [@ EXCEPT !.base = {}, !.got = {}]]
      /\ UNCHANGED <<log, kept>>
  BY DEF Disconnect
<1>2. \A t \in Sock : /\ busy'[t].phase = busy[t].phase /\ busy'[t].seq = busy[t].seq
                      /\ busy'[t].gone = busy[t].gone
  BY <1>1 DEF TablesOK, Storing
<1>3. TablesOK'
  <2>1. busy' \in [Sock -> Storing]
    BY <1>1 DEF TablesOK, Storing
  <2> QED BY <1>1, <1>2, <2>1 DEF TablesOK
<1>4. ConnsOK'
  <2>1. conn' \in [Sock -> [st : {"off", "grouped", "open"}, last : Nat]]
    BY <1>1 DEF ConnsOK
  <2>2. \A t \in Sock : conn'[t].last <= Len(log)
    BY <1>1, AppendLog DEF ConnsOK, TablesOK
  <2>3. seen' \in [Sock -> [base : SUBSET Nat, got : SUBSET Nat, drew : BOOLEAN]]
    BY <1>1 DEF ConnsOK
  <2> QED BY <1>1, <2>1, <2>2, <2>3 DEF ConnsOK
<1>5. NotOpen'
  <2>1. busy'[s].live = FALSE /\ conn'[s].last = 0
    BY <1>1 DEF TablesOK, Storing, ConnsOK
  <2>2. \A t \in Sock : t # s => busy'[t] = busy[t] /\ conn'[t] = conn[t]
    BY <1>1 DEF TablesOK, ConnsOK
  <2> QED BY <2>1, <2>2 DEF NotOpen
<1>6. GoneByClear' /\ RowsOK'
  BY <1>1, <1>2, SameRows
<1> QED BY <1>3, <1>4, <1>5, <1>6

LEMMA JoinGroupInv ==
  ASSUME BoardInv, NEW s \in Sock, JoinGroup(s)
  PROVE  BoardInv'
<1> USE DEF BoardInv
<1>1. /\ conn[s].st = "off"
      /\ conn' = [conn EXCEPT ![s] = [st |-> "grouped", last |-> 0]]
      /\ chan' = [chan EXCEPT ![s] = <<>>]
      /\ UNCHANGED <<log, kept, busy, seen>>
  BY DEF JoinGroup
<1>2. TablesOK'
  BY <1>1 DEF TablesOK
<1>3. ConnsOK'
  BY <1>1, AppendLog DEF ConnsOK, TablesOK
<1>4. NotOpen'
  BY <1>1 DEF NotOpen, ConnsOK
<1>5. GoneByClear' /\ RowsOK'
  BY <1>1, SameRows
<1> QED BY <1>2, <1>3, <1>4, <1>5

\* Clicks, refusals and stuttering.
LEMMA QuietInv ==
  ASSUME BoardInv, UNCHANGED <<log, kept, busy, conn, chan>>,
         seen' = seen \/ \E s \in Sock : seen' = [seen EXCEPT ![s].drew = TRUE]
  PROVE  BoardInv'
<1> USE DEF BoardInv
<1>1. TablesOK' /\ NotOpen'
  BY DEF TablesOK, NotOpen
<1>2. ConnsOK'
  BY DEF ConnsOK
<1>3. GoneByClear' /\ RowsOK'
  BY SameRows
<1> QED BY <1>1, <1>2, <1>3

LEMMA InvStep == BoardInv /\ [BoardNext]_boardVars => BoardInv'
<1> SUFFICES ASSUME BoardInv, [BoardNext]_boardVars
             PROVE  BoardInv'
  OBVIOUS
<1>1. CASE UNCHANGED boardVars
  BY <1>1, QuietInv DEF boardVars
<1>2. ASSUME NEW s \in Sock, Browser(s)
      PROVE  BoardInv'
  BY <1>2, BrowserStep, QuietInv
<1>3. ASSUME NEW s \in Sock, Refuse(s)
      PROVE  BoardInv'
  BY <1>3, QuietInv DEF Refuse
<1> QED
  BY <1>1, <1>2, <1>3, InsertInv, CommitInv, PublishInv, DispatchInv, LoadHistoryInv,
     DisconnectInv, JoinGroupInv DEF BoardNext, Consumer

\* The invariant that the theorems below rest on.
THEOREM BoardInvariant == BoardSpec => []BoardInv
<1> QED BY InvInit, InvStep, PTL DEF BoardSpec

-----------------------------------------------------------------------------
\* What the invariant says of the rows.
LEMMA KeptCommitted == BoardInv => kept \subseteq Committed
  BY DEF BoardInv, TablesOK, RowsOK, Committed

LEMMA LostCovered ==
  ASSUME BoardInv, NEW n \in Committed, n \notin kept
  PROVE  Covered(n)
  BY DEF BoardInv, RowsOK, Committed

\* The rows a clear leaves draw what all the operations ever committed would draw:
\* _persist may delete exactly the rows it deletes.
LEMMA RowsSuffice == BoardInv => CompactionExact
<1> SUFFICES ASSUME BoardInv, NEW p \in Page, NEW f \in { View[s] : s \in Sock }
             PROVE  /\ Shown(kept, f, p) = Shown(Committed, f, p)
                    /\ Styled(kept, f, p) = Styled(Committed, f, p)
  BY DEF CompactionExact
<1> DEFINE Kept(kind) == On(kept, kind, f, p)
           All(kind)  == On(Committed, kind, f, p)
           Bare(K)    == { k \in On(K, "draw", f, p) : ~\E m \in K : Wipes(m, k) }
<1>1. kept \subseteq Committed /\ kept \subseteq Nat /\ Committed \subseteq Nat
  BY KeptCommitted, AppendLog DEF BoardInv, TablesOK, Committed
<1>2. ASSUME NEW m \in Committed, NEW k \in Committed, Wipes(m, k)
      PROVE  \E w \in kept : Wipes(w, k)
  <2>1. CASE m \in kept
    BY <1>2, <2>1
  <2>2. CASE m \notin kept
    <3>1. PICK w \in kept : w > m /\ SameScope(log[m], log[w]) /\ log[w].kind = "clear"
      BY <2>2, LostCovered DEF Covered
    <3>2. m > k /\ SameScope(log[m], log[k])
      BY <1>2 DEF Wipes
    <3>3. w > k
      BY <3>1, <3>2, <1>1
    <3> QED BY <3>1, <3>2, <3>3 DEF Wipes, SameScope
  <2> QED BY <2>1, <2>2
<1>3. ASSUME NEW k \in Committed, k \notin kept
      PROVE  /\ \E w \in kept : Wipes(w, k)
             /\ log[k].kind # "page_setup"
  BY <1>3, LostCovered DEF Covered, Wipes, SameScope
<1>4. Bare(kept) = Bare(Committed)
  <2>1. Bare(kept) \subseteq Bare(Committed)
    BY <1>1, <1>2 DEF On
  <2>2. Bare(Committed) \subseteq Bare(kept)
    BY <1>1, <1>3 DEF On
  <2> QED BY <2>1, <2>2
<1>5. Kept("page_setup") = All("page_setup")
  BY <1>1, <1>3 DEF On
<1> QED BY <1>4, <1>5 DEF Shown, Styled

THEOREM CompactionIsExact == BoardSpec => []CompactionExact
<1> QED BY BoardInvariant, RowsSuffice, PTL

-----------------------------------------------------------------------------
\* Nothing falls between a snapshot and the live stream.
LEMMA NewerInit == BoardInit => NewerIsOnItsWay
  BY DEF BoardInit, NewerIsOnItsWay, Committed

OnItsWay(s, n) ==
  \/ \E i \in 1..Len(chan[s]) : chan[s][i] = n
  \/ \E t \in Sock : busy[t].phase = "committed" /\ busy[t].seq = n

\* Appending and removing the head, as facts about members of the channel.
LEMMA ChannelAppend ==
  ASSUME NEW S, NEW q \in Seq(S), NEW e \in S
  PROVE  /\ \A n : (\E i \in 1..Len(q) : q[i] = n)
                      => \E i \in 1..Len(Append(q, e)) : Append(q, e)[i] = n
         /\ \E i \in 1..Len(Append(q, e)) : Append(q, e)[i] = e
<1>1. /\ Len(q) \in Nat /\ Len(Append(q, e)) = Len(q) + 1
      /\ \A i \in 1..Len(q) : Append(q, e)[i] = q[i]
      /\ Append(q, e)[Len(q) + 1] = e
  OBVIOUS
<1> QED BY <1>1

LEMMA ChannelTail ==
  ASSUME NEW S, NEW q \in Seq(S), q # <<>>, NEW n, n # Head(q),
         \E i \in 1..Len(q) : q[i] = n
  PROVE  \E i \in 1..Len(Tail(q)) : Tail(q)[i] = n
<1>1. PICK i \in 1..Len(q) : q[i] = n
  OBVIOUS
<1>2. i # 1
  BY <1>1
<1>3. i - 1 \in 1..Len(Tail(q)) /\ Tail(q)[i - 1] = n
  BY <1>1, <1>2
<1> QED BY <1>3

\* The operation a consumer is storing is newer than all it has seen.
Watermark ==
  \A s \in Sock : busy[s].phase = "inserted" /\ busy[s].live => conn[s].last < busy[s].seq

LEMMA WatermarkInit == BoardInit => Watermark
  BY DEF BoardInit, Watermark, Idle

LEMMA WatermarkStep == BoardInv /\ Watermark /\ [BoardNext]_boardVars => Watermark'
<1> SUFFICES ASSUME BoardInv, Watermark, [BoardNext]_boardVars,
                    NEW s \in Sock, busy'[s].phase = "inserted", busy'[s].live
             PROVE  conn'[s].last < busy'[s].seq
  BY DEF Watermark
<1> USE DEF BoardInv
<1>1. CASE UNCHANGED <<busy, conn>>
  BY <1>1 DEF Watermark
<1>2. ASSUME NEW t \in Sock, Insert(t)
      PROVE  conn'[s].last < busy'[s].seq
  <2>1. /\ \A u \in Sock : u # t => busy'[u] = busy[u]
        /\ busy'[t].seq = Len(log) + 1
        /\ UNCHANGED conn
    BY <1>2 DEF Insert, TablesOK
  <2>2. Len(log) \in Nat
    BY AppendLog DEF TablesOK
  <2>3. CASE s = t
    BY <2>1, <2>2, <2>3 DEF ConnsOK
  <2>4. CASE s # t
    BY <2>1, <2>4 DEF Watermark
  <2> QED BY <2>3, <2>4
<1>3. ASSUME NEW t \in Sock, Commit(t) \/ Publish(t)
      PROVE  conn'[s].last < busy'[s].seq
  <2>1. /\ \A u \in Sock : u # t => busy'[u] = busy[u] /\ conn'[u] = conn[u]
        /\ busy'[t].phase # "inserted"
    BY <1>3 DEF Commit, Publish, TablesOK, Storing, ConnsOK, Idle
  <2> QED BY <2>1 DEF Watermark
<1>4. ASSUME NEW t \in Sock, Dispatch(t)
      PROVE  conn'[s].last < busy'[s].seq
  <2>1. /\ busy[t] = Idle /\ UNCHANGED busy
        /\ \A u \in Sock : u # t => conn'[u] = conn[u]
    BY <1>4 DEF Dispatch, ConnsOK
  <2> QED BY <2>1 DEF Watermark, Idle
<1>5. ASSUME NEW t \in Sock, LoadHistory(t) \/ Disconnect(t) \/ JoinGroup(t)
      PROVE  conn'[s].last < busy'[s].seq
  <2>1. /\ \A u \in Sock : u # t => conn'[u] = conn[u] /\ busy'[u] = busy[u]
        /\ busy'[t].phase = "inserted" => ~busy'[t].live
    BY <1>5 DEF LoadHistory, Disconnect, JoinGroup, NotOpen, ConnsOK, TablesOK, Storing
  <2> QED BY <2>1 DEF Watermark
<1>6. ASSUME NEW t \in Sock, Browser(t) \/ Refuse(t)
      PROVE  conn'[s].last < busy'[s].seq
  BY <1>1, <1>6, BrowserStep DEF Refuse
<1> QED
  BY <1>1, <1>2, <1>3, <1>4, <1>5, <1>6 DEF BoardNext, Consumer, boardVars

LEMMA NewerStep ==
  BoardInv /\ Watermark /\ NewerIsOnItsWay /\ [BoardNext]_boardVars => NewerIsOnItsWay'
<1> SUFFICES ASSUME BoardInv, Watermark, NewerIsOnItsWay, [BoardNext]_boardVars,
                    NEW s \in Sock, NEW n \in Committed',
                    conn'[s].st = "open", n > conn'[s].last
             PROVE  OnItsWay(s, n)'
  BY DEF NewerIsOnItsWay, OnItsWay
<1> USE DEF BoardInv
<1>0. n \in Committed /\ conn[s].st = "open" /\ n > conn[s].last => OnItsWay(s, n)
  BY DEF NewerIsOnItsWay, OnItsWay
<1>1. CASE UNCHANGED <<log, kept, busy, conn, chan>>
  BY <1>0, <1>1 DEF Committed, OnItsWay
<1>2. ASSUME NEW t \in Sock, Insert(t)
      PROVE  OnItsWay(s, n)'
  <2>1. /\ \A u \in Sock : u # t => busy'[u] = busy[u]
        /\ busy[t].phase = "idle" /\ busy'[t].phase = "inserted"
        /\ busy'[t].seq = Len(log) + 1 /\ log' = Append(log, Head(out[t]))
        /\ UNCHANGED <<conn, chan>>
    BY <1>2 DEF Insert, TablesOK, Idle
  <2>2. Len(log) \in Nat /\ Len(log') = Len(log) + 1
    BY <2>1, AppendLog DEF TablesOK
  <2>3. n \in Committed
    BY <2>1, <2>2 DEF Committed
  <2> QED BY <1>0, <2>1, <2>3 DEF OnItsWay
<1>3. ASSUME NEW t \in Sock, Commit(t)
      PROVE  OnItsWay(s, n)'
  <2>1. /\ \A u \in Sock : u # t => busy'[u] = busy[u] /\ conn'[u] = conn[u]
        /\ busy[t].phase = "inserted" /\ busy'[t].phase = "committed"
        /\ busy'[t].seq = busy[t].seq
        /\ conn'[t].st = conn[t].st
        /\ \/ conn'[t].last = conn[t].last
           \/ busy[t].live /\ conn'[t].last = busy[t].seq
        /\ UNCHANGED <<log, chan>>
    BY <1>3 DEF Commit, TablesOK, Storing, ConnsOK
  <2>2. CASE n = busy[t].seq
    BY <2>1, <2>2 DEF OnItsWay
  <2>3. CASE n # busy[t].seq
    <3>1. n \in Committed /\ n \in Nat
      BY <2>1, <2>3, AppendLog DEF Committed, TablesOK
    <3>2. conn[s].st = "open"
      BY <2>1
    <3>3. n > conn[s].last
      <4>1. conn[s].last \in Nat /\ busy[s].seq \in Nat
        BY DEF ConnsOK, TablesOK, Storing
      <4>2. conn[s].last <= conn'[s].last
        BY <2>1, <4>1 DEF Watermark
      <4>3. conn'[s].last \in Nat
        BY <2>1, <4>1
      <4> QED BY <3>1, <4>1, <4>2, <4>3
    <3>4. OnItsWay(s, n)
      BY <1>0, <3>1, <3>2, <3>3
    <3> QED BY <3>4, <2>1 DEF OnItsWay
  <2> QED BY <2>2, <2>3
<1>4. ASSUME NEW t \in Sock, Publish(t)
      PROVE  OnItsWay(s, n)'
  <2>1. /\ busy[t].phase = "committed" /\ busy[t].seq \in 1..Len(log)
        /\ busy'[t] = Idle
        /\ \A u \in Sock : u # t => busy'[u] = busy[u]
        /\ chan'[s] = Append(chan[s], busy[t].seq)
        /\ UNCHANGED <<log, conn>>
    <3>1. busy[t].phase = "committed"
      BY <1>4 DEF Publish
    <3>2. busy[t].seq \in 1..Len(log)
      BY <3>1, AppendLog DEF TablesOK, Storing
    <3> QED BY <1>4, <3>1, <3>2 DEF Publish, TablesOK
  <2>2. n \in Committed
    BY <2>1 DEF Committed, Idle
  <2>3. OnItsWay(s, n)
    BY <1>0, <2>1, <2>2
  <2>4. chan[s] \in Seq(1..Len(log))
    BY DEF ConnsOK
  <2> DEFINE after == Append(chan[s], busy[t].seq)
  <2>8. /\ \E i \in 1..Len(after) : after[i] = busy[t].seq
        /\ (\E i \in 1..Len(chan[s]) : chan[s][i] = n) => \E i \in 1..Len(after) : after[i] = n
    <3> DEFINE S == 1..Len(log)
               q == chan[s]
               e == busy[t].seq
    <3>1. q \in Seq(S) /\ e \in S
      BY <2>1, <2>4
    <3>2. /\ \A k : (\E i \in 1..Len(q) : q[i] = k)
                     => \E i \in 1..Len(Append(q, e)) : Append(q, e)[i] = k
          /\ \E i \in 1..Len(Append(q, e)) : Append(q, e)[i] = e
      <4> HIDE DEF S, q, e
      <4> QED BY ONLY <3>1, ChannelAppend
    <3> QED BY <3>2
  <2>9. chan'[s] = after
    BY <2>1
  <2> HIDE DEF after
  <2>5. CASE n = busy[t].seq
    BY <2>5, <2>8, <2>9 DEF OnItsWay
  <2>6. CASE \E i \in 1..Len(chan[s]) : chan[s][i] = n
    BY <2>6, <2>8, <2>9 DEF OnItsWay
  <2>7. CASE n # busy[t].seq /\ \E u \in Sock : busy[u].phase = "committed" /\ busy[u].seq = n
    BY <2>1, <2>7 DEF OnItsWay
  <2> QED BY <2>3, <2>5, <2>6, <2>7 DEF OnItsWay
<1>5. ASSUME NEW t \in Sock, Dispatch(t)
      PROVE  OnItsWay(s, n)'
  <2>1. /\ conn[t].st = "open" /\ chan[t] # <<>>
        /\ chan' = [chan EXCEPT ![t] = Tail(@)]
        /\ \/ conn' = [conn EXCEPT ![t].last = Head(chan[t])] /\ Head(chan[t]) > conn[t].last
           \/ conn' = conn /\ ~(Head(chan[t]) > conn[t].last)
        /\ UNCHANGED <<log, busy>>
    BY <1>5 DEF Dispatch, Fresh
  <2>2. chan[t] \in Seq(1..Len(log)) /\ chan[s] \in Seq(1..Len(log))
    BY DEF ConnsOK
  <2>3. Head(chan[t]) \in Nat /\ conn[t].last \in Nat /\ conn[s].last \in Nat
    BY <2>1, <2>2 DEF ConnsOK
  <2>4. n \in Committed /\ n \in Nat
    BY <2>1, AppendLog DEF Committed, TablesOK
  <2>5. /\ conn[s].st = "open" /\ n > conn[s].last
        /\ s = t => n # Head(chan[t])
    <3>1. CASE s = t
      BY <2>1, <2>3, <2>4, <3>1 DEF ConnsOK
    <3>2. CASE s # t
      BY <2>1, <3>2 DEF ConnsOK
    <3> QED BY <3>1, <3>2
  <2>6. OnItsWay(s, n)
    BY <1>0, <2>4, <2>5
  <2>7. CASE \E i \in 1..Len(chan[s]) : chan[s][i] = n
    <3>1. CASE s = t
      <4>1. chan'[s] = Tail(chan[s])
        BY <2>1, <3>1 DEF ConnsOK
      <4>2. \E i \in 1..Len(Tail(chan[s])) : Tail(chan[s])[i] = n
        <5>1. chan[s] # <<>> /\ n # Head(chan[s])
          BY <2>1, <2>5, <3>1
        <5> QED BY <2>2, <2>7, <5>1, ChannelTail
      <4> QED BY <4>1, <4>2 DEF OnItsWay
    <3>2. CASE s # t
      BY <2>1, <2>7, <3>2 DEF OnItsWay
    <3> QED BY <3>1, <3>2
  <2>8. CASE \E u \in Sock : busy[u].phase = "committed" /\ busy[u].seq = n
    BY <2>1, <2>8 DEF OnItsWay
  <2> QED BY <2>6, <2>7, <2>8 DEF OnItsWay
<1>6. ASSUME NEW t \in Sock, LoadHistory(t)
      PROVE  OnItsWay(s, n)'
  <2>1. UNCHANGED <<log, kept, busy, chan>>
    BY <1>6 DEF LoadHistory
  <2>2. PICK seq \in kept \cup {0} :
          (\A k \in kept : k <= seq) /\ conn' = [conn EXCEPT ![t] = [st |-> "open", last |-> seq]]
    BY <1>6 DEF LoadHistory
  <2>3. n \in Committed /\ n \in Nat
    BY <2>1, AppendLog DEF Committed, TablesOK
  <2>4. CASE s # t
    BY <1>0, <2>1, <2>2, <2>3, <2>4 DEF ConnsOK, OnItsWay
  <2>5. CASE s = t
    <3>1. n > seq
      BY <2>2, <2>5 DEF ConnsOK
    <3>2. kept \subseteq Nat /\ seq \in Nat
      BY KeptCommitted, AppendLog DEF TablesOK, Committed
    <3>3. n \notin kept
      BY <2>2, <2>3, <3>1, <3>2
    <3>4. \E m \in kept : m > n
      BY <2>3, <3>3, LostCovered DEF Covered
    <3> QED BY <2>2, <2>3, <3>1, <3>2, <3>4
  <2> QED BY <2>4, <2>5
<1>7. ASSUME NEW t \in Sock, Disconnect(t)
      PROVE  OnItsWay(s, n)'
  <2>1. /\ s # t /\ conn'[s] = conn[s] /\ chan'[s] = chan[s]
        /\ \A u \in Sock : busy'[u].phase = busy[u].phase /\ busy'[u].seq = busy[u].seq
        /\ UNCHANGED log
    BY <1>7 DEF Disconnect, ConnsOK, TablesOK, Storing
  <2>2. n \in Committed
    BY <2>1 DEF Committed
  <2> QED BY <1>0, <2>1, <2>2 DEF OnItsWay
<1>8. ASSUME NEW t \in Sock, JoinGroup(t)
      PROVE  OnItsWay(s, n)'
  <2>1. /\ s # t /\ conn'[s] = conn[s] /\ chan'[s] = chan[s]
        /\ UNCHANGED <<log, busy>>
    BY <1>8 DEF JoinGroup, ConnsOK
  <2> QED BY <1>0, <2>1 DEF OnItsWay, Committed
<1>9. ASSUME NEW t \in Sock, Browser(t)
      PROVE  OnItsWay(s, n)'
  BY <1>1, <1>9, BrowserStep
<1>10. ASSUME NEW t \in Sock, Refuse(t)
       PROVE  OnItsWay(s, n)'
  BY <1>1, <1>10 DEF Refuse
<1>11. CASE UNCHANGED boardVars
  BY <1>1, <1>11 DEF boardVars
<1> QED
  BY <1>2, <1>3, <1>4, <1>5, <1>6, <1>7, <1>8, <1>9, <1>10, <1>11 DEF BoardNext, Consumer

\* No operation is lost between the snapshot of a connecting browser and the
\* operations it is sent afterwards.
THEOREM NothingFallsBetween == BoardSpec => []NewerIsOnItsWay
<1> QED BY InvInit, InvStep, WatermarkInit, WatermarkStep, NewerInit, NewerStep, PTL DEF BoardSpec

-----------------------------------------------------------------------------
\* The whiteboard implements BoardLog: its variables under the mapping.
Upto == [s \in Sock |-> IF busy[s].phase = "inserted" /\ busy[s].live
                        THEN busy[s].seq ELSE conn[s].last]
Given == [s \in Sock |-> seen[s].got]

LEMMA LogInit == BoardInit => Log!BoardLogInit
  BY DEF BoardInit, Log!BoardLogInit, Idle

\* The mapped state stutters when neither the log, a watermark nor what a
\* browser was sent changes.
LEMMA LogStutter ==
  ASSUME UNCHANGED log, Upto' = Upto, Given' = Given
  PROVE  UNCHANGED Log!boardLogVars
  BY DEF Log!boardLogVars, Upto, Given

LEMMA LogRestart ==
  ASSUME BoardInv, NEW s \in Sock, NEW n \in 0..Len(log), UNCHANGED log,
         Upto' = [Upto EXCEPT ![s] = n], Given' = [Given EXCEPT ![s] = {}]
  PROVE  Log!BoardLogNext
<1>1. Log!Restart(s, n)
  BY DEF Log!Restart, Upto, Given
<1> QED BY <1>1 DEF Log!BoardLogNext

LEMMA LogGive ==
  ASSUME BoardInv, NEW s \in Sock, NEW n \in 0..Len(log), UNCHANGED log,
         n \in (Upto[s] + 1)..Len(log),
         Upto' = [Upto EXCEPT ![s] = n], Given' = [Given EXCEPT ![s] = @ \cup {n}]
  PROVE  Log!BoardLogNext
<1>1. Log!Give(s, n)
  BY DEF Log!Give, Upto, Given
<1> QED BY <1>1 DEF Log!BoardLogNext

LEMMA LogStep == BoardInv /\ [BoardNext]_boardVars => [Log!BoardLogNext]_Log!boardLogVars
<1> SUFFICES ASSUME BoardInv, [BoardNext]_boardVars
             PROVE  [Log!BoardLogNext]_Log!boardLogVars
  OBVIOUS
<1> USE DEF BoardInv
<1>0. Len(log) \in Nat
  BY AppendLog DEF TablesOK
<1>1. ASSUME NEW s \in Sock, Insert(s)
      PROVE  Log!BoardLogNext
  <2>1. /\ busy' = [busy EXCEPT ![s] = [phase |-> "inserted", seq |-> Len(log) + 1,
                                        gone |-> Compacts(Head(out[s])), live |-> TRUE]]
        /\ log' = Append(log, Head(out[s]))
        /\ UNCHANGED <<conn, seen>>
    BY <1>1 DEF Insert
  <2>2. Len(log') = Len(log) + 1
    BY <2>1, AppendLog DEF TablesOK
  <2>3. Upto' = [Upto EXCEPT ![s] = Len(log) + 1] /\ Given' = Given
    BY <2>1 DEF Upto, Given, TablesOK
  <2>4. Log!AcceptOwn(s)
    BY <2>2, <2>3 DEF Log!AcceptOwn, Upto, Given
  <2> QED BY <2>4 DEF Log!BoardLogNext
<1>2. ASSUME NEW s \in Sock, Commit(s)
      PROVE  UNCHANGED Log!boardLogVars
  <2>1. /\ busy[s].phase = "inserted"
        /\ busy' = [busy EXCEPT ![s].phase = "committed", ![s].gone = {}]
        /\ conn' = [conn EXCEPT ![s].last = IF busy[s].live THEN busy[s].seq ELSE @]
        /\ UNCHANGED <<log, seen>>
    BY <1>2 DEF Commit
  <2>2. /\ \A t \in Sock : t # s => busy'[t] = busy[t] /\ conn'[t] = conn[t]
        /\ busy'[s].phase = "committed"
        /\ conn'[s].last = IF busy[s].live THEN busy[s].seq ELSE conn[s].last
    BY <2>1 DEF TablesOK, Storing, ConnsOK
  <2>3. ASSUME NEW t \in Sock
        PROVE  (IF busy'[t].phase = "inserted" /\ busy'[t].live THEN busy'[t].seq ELSE conn'[t].last)
               = (IF busy[t].phase = "inserted" /\ busy[t].live THEN busy[t].seq ELSE conn[t].last)
    <3>1. CASE t = s
      BY <2>1, <2>2, <3>1
    <3>2. CASE t # s
      BY <2>2, <3>2
    <3> QED BY <3>1, <3>2
  <2>4. Upto' = Upto /\ Given' = Given
    BY <2>1, <2>3 DEF Upto, Given
  <2> QED BY <2>1, <2>4, LogStutter
<1>3. ASSUME NEW s \in Sock, Publish(s)
      PROVE  UNCHANGED Log!boardLogVars
  <2>1. /\ busy[s].phase # "inserted" /\ busy'[s].phase # "inserted"
        /\ \A t \in Sock : t # s => busy'[t] = busy[t]
        /\ UNCHANGED <<log, conn, seen>>
    BY <1>3 DEF Publish, TablesOK, Idle
  <2>2. Upto' = Upto /\ Given' = Given
    BY <2>1 DEF Upto, Given
  <2> QED BY <2>1, <2>2, LogStutter
<1>4. ASSUME NEW s \in Sock, Dispatch(s)
      PROVE  [Log!BoardLogNext]_Log!boardLogVars
  <2> DEFINE n == Head(chan[s])
  <2>1. n \in 1..Len(log)
    BY <1>4 DEF Dispatch, ConnsOK
  <2> HIDE DEF n
  <2>2. /\ busy[s].phase # "inserted"
        /\ UNCHANGED <<log, busy>>
        /\ \/ /\ n > conn[s].last
              /\ conn' = [conn EXCEPT ![s].last = n]
              /\ seen' = [seen EXCEPT ![s].got = @ \cup {n}]
           \/ UNCHANGED <<conn, seen>>
    BY <1>4 DEF Dispatch, Fresh, Idle, n
  <2>3. CASE UNCHANGED <<conn, seen>>
    <3>1. Upto' = Upto /\ Given' = Given
      BY <2>2, <2>3 DEF Upto, Given
    <3> QED BY <2>2, <3>1, LogStutter
  <2>4. CASE /\ n > conn[s].last
             /\ conn' = [conn EXCEPT ![s].last = n]
             /\ seen' = [seen EXCEPT ![s].got = @ \cup {n}]
    <3>1. /\ \A t \in Sock : t # s => conn'[t] = conn[t] /\ seen'[t] = seen[t]
          /\ conn'[s].last = n /\ seen'[s].got = seen[s].got \cup {n}
      BY <2>4 DEF ConnsOK
    <3>2. Upto' = [Upto EXCEPT ![s] = n] /\ Given' = [Given EXCEPT ![s] = @ \cup {n}]
      BY <2>2, <3>1 DEF Upto, Given
    <3>3. Upto[s] = conn[s].last /\ conn[s].last \in Nat
      BY <2>2 DEF Upto, ConnsOK
    <3>4. n \in (Upto[s] + 1)..Len(log) /\ n \in 0..Len(log)
      BY <1>0, <2>1, <2>4, <3>3
    <3> QED BY <2>2, <3>2, <3>4, LogGive
  <2> QED BY <2>2, <2>3, <2>4
<1>5. ASSUME NEW s \in Sock, LoadHistory(s)
      PROVE  Log!BoardLogNext
  <2>1. PICK seq \in kept \cup {0} : conn' = [conn EXCEPT ![s] = [st |-> "open", last |-> seq]]
    BY <1>5 DEF LoadHistory
  <2>2. /\ UNCHANGED <<log, busy>>
        /\ \A t \in Sock : t # s => seen'[t].got = seen[t].got
        /\ seen'[s].got = {}
        /\ busy[s].phase = "inserted" => ~busy[s].live
    BY <1>5 DEF LoadHistory, NotOpen, ConnsOK
  <2>3. seq \in 0..Len(log)
    BY <1>0 DEF TablesOK
  <2>4. Upto' = [Upto EXCEPT ![s] = seq] /\ Given' = [Given EXCEPT ![s] = {}]
    BY <2>1, <2>2 DEF Upto, Given, ConnsOK
  <2> QED BY <2>2, <2>3, <2>4, LogRestart
<1>6. ASSUME NEW s \in Sock, Disconnect(s)
      PROVE  Log!BoardLogNext
  <2>1. /\ UNCHANGED log
        /\ conn' = [conn EXCEPT ![s] = [st |-> "off", last |-> 0]]
        /\ busy' = [busy EXCEPT ![s].live = FALSE]
        /\ seen' = [seen EXCEPT ![s] = [@ EXCEPT !.base = {}, !.got = {}]]
    BY <1>6 DEF Disconnect
  <2>2. /\ \A t \in Sock : t # s => busy'[t] = busy[t] /\ conn'[t] = conn[t] /\ seen'[t] = seen[t]
        /\ ~busy'[s].live /\ conn'[s].last = 0 /\ seen'[s].got = {}
    BY <2>1 DEF TablesOK, Storing, ConnsOK
  <2>3. Upto' = [Upto EXCEPT ![s] = 0] /\ Given' = [Given EXCEPT ![s] = {}]
    BY <2>2 DEF Upto, Given
  <2>4. 0 \in 0..Len(log)
    BY <1>0
  <2> QED BY <2>1, <2>3, <2>4, LogRestart
<1>7. ASSUME NEW s \in Sock, JoinGroup(s)
      PROVE  UNCHANGED Log!boardLogVars
  <2>1. /\ UNCHANGED <<log, busy, seen>>
        /\ \A t \in Sock : t # s => conn'[t] = conn[t]
        /\ conn'[s].last = conn[s].last
    BY <1>7 DEF JoinGroup, NotOpen, ConnsOK
  <2>2. Upto' = Upto /\ Given' = Given
    BY <2>1 DEF Upto, Given
  <2> QED BY <2>1, <2>2, LogStutter
<1>8. ASSUME NEW s \in Sock, Browser(s) \/ Refuse(s)
      PROVE  UNCHANGED Log!boardLogVars
  <2>1. /\ UNCHANGED <<log, busy, conn>>
        /\ seen' = [seen EXCEPT ![s].drew = TRUE] \/ seen' = seen
    BY <1>8, BrowserStep DEF Refuse
  <2>2. Upto' = Upto /\ Given' = Given
    BY <2>1 DEF Upto, Given, ConnsOK
  <2> QED BY <2>1, <2>2, LogStutter
<1>9. CASE UNCHANGED boardVars
  BY <1>9, LogStutter DEF boardVars, Upto, Given
<1> QED
  BY <1>1, <1>2, <1>3, <1>4, <1>5, <1>6, <1>7, <1>8, <1>9 DEF BoardNext, Consumer

\* Any number of browsers that draw, connect and disconnect in any order, with
\* their operations stored and published in any order, keep the promise of BoardLog.
THEOREM WhiteboardRefinesLog == BoardSpec => KeepsTheLog
<1> QED BY BoardInvariant, LogInit, LogStep, PTL DEF BoardSpec, KeepsTheLog, Log!BoardLogSpec

-----------------------------------------------------------------------------
(* What the operations of a page draw.                                     *)

\* A nonempty set of numbers has a least one.
LEMMA LeastNumber ==
  ASSUME NEW S, S \subseteq Nat, S # {}
  PROVE  \E m \in S : \A j \in S : m <= j
<1>1. IsWellFoundedOn(OpToRel(<, Nat), Nat)
  BY NatLessThanWellFounded
<1>2. PICK m \in S : \A y \in S : ~ (<<y, m>> \in OpToRel(<, Nat))
  BY <1>1, WFMin
<1>3. \A j \in S : ~(j < m)
  BY <1>2 DEF OpToRel
<1> QED BY <1>3

\* An operation keeps the recorded pages well formed; only page_go moves the page, and
\* outside of a replay the page it opens exists.
LEMMA AppliesTo ==
  ASSUME NEW b \in Board, NEW op \in Op
  PROVE  LET c == ApplyReplaying(b, op)
             d == _applyOp(b, op)
         IN /\ c \in Board /\ d \in Board
            /\ d.ops = c.ops /\ d.style = c.style
            /\ b.page <= b.count => d.page <= d.count
<1> DEFINE c == ApplyReplaying(b, op)
           d == _applyOp(b, op)
           grown == [b EXCEPT !.count = Larger(@, op.page)]
<1>1. Page \subseteq Nat
  BY BoardAssumption DEF Page
<1>2. /\ b.page \in Page /\ b.count \in Page /\ b.ops \in [Page -> SUBSET Id] /\ b.style \in [Page -> Id]
      /\ op.page \in Page /\ op.id \in Id /\ op.kind \in Kind
  BY DEF Board, Op
<1>3. /\ Larger(b.count, op.page) \in Page
      /\ b.page <= b.count => b.page <= Larger(b.count, op.page)
  <2>1. CASE b.count < op.page
    <3>1. Larger(b.count, op.page) = op.page
      BY <2>1 DEF Larger
    <3>2. b.page \in Nat /\ b.count \in Nat /\ op.page \in Nat
      BY <1>1, <1>2
    <3> QED BY <1>2, <2>1, <3>1, <3>2
  <2>2. CASE ~(b.count < op.page)
    BY <1>2, <2>2 DEF Larger
  <2> QED BY <2>1, <2>2
<1>4. grown \in Board /\ grown.page = b.page /\ grown.count = Larger(b.count, op.page)
  BY <1>2, <1>3 DEF Board
<1>5. CASE op.kind = "page_go"
  <2>1. c = [b EXCEPT !.page = op.page]
    BY <1>5 DEF ApplyReplaying
  <2>2. d = [b EXCEPT !.page = IF op.page > b.count THEN b.count ELSE op.page]
    BY <1>5 DEF _applyOp
  <2> QED BY <1>1, <1>2, <2>1, <2>2 DEF Board
<1>6. CASE op.kind = "page_add"
  <2>1. c = grown /\ d = grown
    BY <1>6 DEF ApplyReplaying, _applyOp
  <2> QED BY <1>3, <1>4, <2>1
<1>7. CASE op.kind = "page_setup"
  <2>1. c = [b EXCEPT !.style[op.page] = op.id] /\ d = c
    BY <1>7 DEF ApplyReplaying, _applyOp
  <2> QED BY <1>2, <2>1 DEF Board
<1>8. CASE op.kind \in {"clear", "remove", "draw"}
  <2>1. /\ op.kind = "clear" => c = [grown EXCEPT !.ops[op.page] = {}]
        /\ op.kind = "remove" => c = [grown EXCEPT !.ops[op.page] = @ \ {op.id}]
        /\ op.kind = "draw" => c = [grown EXCEPT !.ops[op.page] = @ \cup {op.id}]
        /\ d = c
    BY <1>8 DEF ApplyReplaying, _applyOp
  <2> DEFINE old == grown.ops[op.page]
             new == IF op.kind = "clear" THEN {}
                    ELSE IF op.kind = "remove" THEN old \ {op.id} ELSE old \cup {op.id}
  <2> HIDE DEF grown
  <2>2. c = [grown EXCEPT !.ops[op.page] = new]
    BY <1>8, <2>1
  <2>3. new \subseteq Id
    <3>1. old \subseteq Id
      BY <1>2, <1>4 DEF Board
    <3> QED BY <1>2, <3>1
  <2> HIDE DEF new
  <2>4. [grown.ops EXCEPT ![op.page] = new] \in [Page -> SUBSET Id]
    BY <1>2, <1>4, <2>3 DEF Board
  <2>5. /\ c \in [page : Page, count : Page, ops : [Page -> SUBSET Id], style : [Page -> Id]]
        /\ c.page = grown.page /\ c.count = grown.count
    BY <1>4, <2>2, <2>4 DEF Board
  <2> QED BY <1>3, <1>4, <2>1, <2>5 DEF Board
<1> QED BY <1>2, <1>5, <1>6, <1>7, <1>8 DEF Kind

\* b draws what the operations K draw of board or file v.
Draws(b, K, v) ==
  \A p \in Page :
    /\ b.ops[p] = Shown(K, v, p)
    /\ b.style[p] \in Styled(K, v, p) \cup (IF Styled(K, v, p) = {} THEN {0} ELSE {})

LEMMA NothingDrawn ==
  ASSUME NEW b \in Board, NEW v
  PROVE  Emptied(b) \in Board /\ Draws(Emptied(b), {}, v)
<1>1. 0 \in Id
  BY BoardAssumption DEF Id
<1>2. Emptied(b) \in Board
  BY <1>1 DEF Emptied, Board
<1>3. \A p \in Page : Emptied(b).ops[p] = {} /\ Emptied(b).style[p] = 0
  BY DEF Emptied, Board
<1>4. \A p \in Page : Shown({}, v, p) = {} /\ Styled({}, v, p) = {}
  BY DEF Shown, Styled, On
<1> QED BY <1>2, <1>3, <1>4 DEF Draws

\* The newest operation of all does to the reference what it does to a page.
LEMMA NewestDraws ==
  ASSUME log \in Seq(Op), NEW K, K \subseteq 1..Len(log), NEW n \in 1..Len(log),
         \A k \in K : k < n, NEW b \in Board, NEW v, Draws(b, K, v)
  PROVE  /\ log[n].file = v => Draws(ApplyReplaying(b, log[n]), K \cup {n}, v)
         /\ log[n].file # v => Draws(b, K \cup {n}, v)
<1> DEFINE op == log[n]
           G == K \cup {n}
           c == ApplyReplaying(b, op)
<1>1. /\ op \in Op /\ op.page \in Page /\ op.kind \in Kind
      /\ K \subseteq Nat /\ n \in Nat /\ n \notin K /\ \A k \in K : n > k /\ ~(k > n)
  <2>1. Len(log) \in Nat
    OBVIOUS
  <2>2. op \in Op
    OBVIOUS
  <2>3. K \subseteq Nat /\ n \in Nat /\ \A k \in K : n > k /\ ~(k > n) /\ k # n
    BY <2>1
  <2>4. n \notin K
    BY <2>3
  <2> QED BY <2>2, <2>3, <2>4 DEF Op
<1>2. b.ops \in [Page -> SUBSET Id] /\ b.style \in [Page -> Id]
  BY DEF Board
<1>3. ASSUME NEW m \in G, NEW k \in G
      PROVE  Wipes(m, k) <=> \/ m \in K /\ k \in K /\ Wipes(m, k)
                             \/ m = n /\ k \in K /\ Wipes(n, k)
  BY <1>1 DEF Wipes
<1>4. ASSUME NEW k \in K
      PROVE  Wipes(n, k) <=> SameScope(op, log[k]) /\ (op.kind = "clear" \/ (op.kind = "remove" /\ op.id = log[k].id))
  BY <1>1 DEF Wipes
<1> DEFINE D(q) == {k \in On(K, "draw", v, q) : ~\E m \in K : Wipes(m, k)}
           E(q) == {k \in On(G, "draw", v, q) : ~\E m \in G : Wipes(m, k)}
<1>5. \A q : Shown(K, v, q) = {log[k].id : k \in D(q)} /\ Shown(G, v, q) = {log[k].id : k \in E(q)}
  BY DEF Shown
<1>6. \A q : E(q) = {k \in D(q) : ~Wipes(n, k)}
                      \cup (IF op.kind = "draw" /\ op.file = v /\ op.page = q THEN {n} ELSE {})
  BY <1>3 DEF On
<1>7. ASSUME NEW q \in Page, op.file # v \/ op.page # q \/ op.kind \notin {"clear", "remove", "draw"}
      PROVE  Shown(G, v, q) = Shown(K, v, q)
  <2>1. \A k \in D(q) : ~Wipes(n, k)
    BY <1>4, <1>7 DEF On, SameScope
  <2>2. E(q) = D(q)
    BY <1>6, <1>7, <2>1
  <2> QED BY <1>5, <2>2
<1>8. ASSUME op.file = v, op.kind = "clear" PROVE Shown(G, v, op.page) = {}
  <2>1. \A k \in D(op.page) : Wipes(n, k)
    BY <1>4, <1>8 DEF On, SameScope
  <2>2. E(op.page) = {}
    BY <1>6, <1>8, <2>1
  <2>3. Shown(G, v, op.page) = {log[k].id : k \in E(op.page)}
    BY <1>5
  <2> QED BY <2>2, <2>3
<1>9. ASSUME op.file = v, op.kind = "remove"
      PROVE  Shown(G, v, op.page) = Shown(K, v, op.page) \ {op.id}
  <2>1. \A k \in D(op.page) : Wipes(n, k) <=> op.id = log[k].id
    BY <1>4, <1>9 DEF On, SameScope
  <2>2. E(op.page) = {k \in D(op.page) : log[k].id # op.id}
    BY <1>6, <1>9, <2>1
  <2> DEFINE X == D(op.page)
             W == E(op.page)
  <2>3. Shown(K, v, op.page) = {log[k].id : k \in X} /\ Shown(G, v, op.page) = {log[k].id : k \in W}
    BY <1>5
  <2> HIDE DEF X, W, D, E, G
  <2> QED BY <2>2, <2>3 DEF X, W
<1>10. ASSUME op.file = v, op.kind = "draw"
       PROVE  Shown(G, v, op.page) = Shown(K, v, op.page) \cup {op.id}
  <2>1. \A k \in D(op.page) : ~Wipes(n, k)
    BY <1>1, <1>4, <1>10 DEF On
  <2>2. E(op.page) = D(op.page) \cup {n}
    BY <1>6, <1>10, <2>1
  <2> DEFINE X == D(op.page)
             W == E(op.page)
  <2>3. Shown(K, v, op.page) = {log[k].id : k \in X} /\ Shown(G, v, op.page) = {log[k].id : k \in W}
    BY <1>5
  <2> HIDE DEF X, W, D, E, G
  <2> QED BY <2>2, <2>3 DEF X, W
<1> DEFINE Y(q) == {k \in On(K, "page_setup", v, q) : ~\E m \in On(K, "page_setup", v, q) : m > k}
           Z(q) == {k \in On(G, "page_setup", v, q) : ~\E m \in On(G, "page_setup", v, q) : m > k}
<1>11. \A q : Styled(K, v, q) = {log[k].id : k \in Y(q)} /\ Styled(G, v, q) = {log[k].id : k \in Z(q)}
  BY DEF Styled
<1>12. ASSUME NEW q \in Page, op.file # v \/ op.page # q \/ op.kind # "page_setup"
       PROVE  Styled(G, v, q) = Styled(K, v, q)
  <2>1. On(G, "page_setup", v, q) = On(K, "page_setup", v, q)
    BY <1>12 DEF On
  <2> QED BY <2>1 DEF Styled
<1>13. ASSUME op.file = v, op.kind = "page_setup" PROVE op.id \in Styled(G, v, op.page)
  <2>1. n \in On(G, "page_setup", v, op.page)
    BY <1>13 DEF On
  <2>2. \A m \in On(G, "page_setup", v, op.page) : ~(m > n)
    <3>1. \A m \in G : ~(m > n)
      BY <1>1
    <3>2. On(G, "page_setup", v, op.page) \subseteq G
      BY DEF On
    <3> QED BY <3>1, <3>2
  <2>3. n \in Z(op.page)
    BY <2>1, <2>2
  <2> HIDE DEF Z, G
  <2> QED BY <1>11, <2>3
<1> HIDE DEF D, E, Y, Z
<1>14. CASE op.file # v
  BY <1>7, <1>12, <1>14 DEF Draws
<1>15. ASSUME op.file = v, NEW q \in Page
       PROVE  /\ c.ops[q] = Shown(G, v, q)
              /\ c.style[q] \in Styled(G, v, q) \cup (IF Styled(G, v, q) = {} THEN {0} ELSE {})
  <2>1. CASE op.kind \in {"page_go", "page_add"}
    <3>1. c.ops = b.ops /\ c.style = b.style
      BY <2>1 DEF ApplyReplaying, Board
    <3> QED BY <2>1, <3>1, <1>7, <1>12 DEF Draws
  <2>2. CASE op.kind = "page_setup"
    <3>1. c.ops = b.ops /\ c.style = [b.style EXCEPT ![op.page] = op.id]
      BY <2>2 DEF ApplyReplaying, Board
    <3>2. CASE q = op.page
      BY <1>1, <1>2, <1>7, <1>13, <1>15, <2>2, <3>1, <3>2 DEF Draws
    <3>3. CASE q # op.page
      BY <1>1, <1>2, <1>7, <1>12, <2>2, <3>1, <3>3 DEF Draws
    <3> QED BY <3>2, <3>3
  <2>3. CASE op.kind \in {"clear", "remove", "draw"}
    <3> DEFINE old == b.ops[op.page]
               new == IF op.kind = "clear" THEN {}
                      ELSE IF op.kind = "remove" THEN old \ {op.id} ELSE old \cup {op.id}
    <3>1. c.ops = [b.ops EXCEPT ![op.page] = new] /\ c.style = b.style
      <4> DEFINE grown == [b EXCEPT !.count = Larger(@, op.page)]
      <4>1. grown.ops = b.ops /\ grown.style = b.style /\ grown \in [{"page", "count", "ops", "style"} -> {grown[x] : x \in {"page", "count", "ops", "style"}}]
        BY DEF Board
      <4>2. /\ op.kind = "clear" => c = [grown EXCEPT !.ops[op.page] = {}]
            /\ op.kind = "remove" => c = [grown EXCEPT !.ops[op.page] = @ \ {op.id}]
            /\ op.kind = "draw" => c = [grown EXCEPT !.ops[op.page] = @ \cup {op.id}]
        BY DEF ApplyReplaying
      <4> HIDE DEF grown
      <4> QED BY <2>3, <4>1, <4>2
    <3>2. CASE q = op.page
      <4>1. old = Shown(K, v, q)
        BY <3>2 DEF Draws
      <4>2. c.ops[q] = new
        BY <1>1, <1>2, <3>1, <3>2
      <4>3. new = Shown(G, v, q)
        BY <1>8, <1>9, <1>10, <1>15, <2>3, <3>2, <4>1
      <4> QED BY <1>12, <2>3, <3>1, <4>2, <4>3 DEF Draws
    <3>3. CASE q # op.page
      BY <1>1, <1>2, <1>7, <1>12, <3>1, <2>3, <3>3 DEF Draws
    <3> QED BY <3>2, <3>3
  <2> QED BY <1>1, <2>1, <2>2, <2>3 DEF Kind
<1> QED BY <1>14, <1>15 DEF Draws

-----------------------------------------------------------------------------
(* Replaying rows in the order of their ids.                               *)

\* What row n does to page b if it is among these.
Replays(s, b, rows, n) == IF n \in rows /\ Mine(s, log[n]) THEN ApplyReplaying(b, log[n]) ELSE b

\* r holds the pages before and after each of the first m operations.
ReplayRun(r, s, b, rows, m) ==
  r = [n \in 0..m |-> IF n = 0 THEN b ELSE Replays(s, r[n - 1], rows, n)]

\* There is such a run: a shortest log without one would extend a log that has one.
LEMMA RunExists ==
  ASSUME NEW s, NEW b, NEW rows, NEW l \in Nat
  PROVE  \E r : ReplayRun(r, s, b, rows, l)
<1> DEFINE None == {m \in Nat : ~\E r : ReplayRun(r, s, b, rows, m)}
<1> SUFFICES ASSUME None # {} PROVE FALSE
  OBVIOUS
<1>1. PICK m \in None : \A j \in None : m <= j
  <2> None \subseteq Nat
    OBVIOUS
  <2> HIDE DEF None
  <2> QED BY LeastNumber
<1>2. CASE m = 0
  <2> DEFINE r == [n \in 0..0 |-> b]
  <2>1. r = [n \in 0..0 |-> IF n = 0 THEN b ELSE Replays(s, r[n - 1], rows, n)]
    OBVIOUS
  <2> QED BY <1>1, <1>2, <2>1 DEF ReplayRun
<1>3. CASE m # 0
  <2>1. m - 1 \in Nat /\ m - 1 \notin None
    BY <1>1, <1>3
  <2>2. PICK r : ReplayRun(r, s, b, rows, m - 1)
    BY <2>1
  <2> DEFINE q == [n \in 0..m |-> IF n = m THEN Replays(s, r[m - 1], rows, m) ELSE r[n]]
  <2>3. ASSUME NEW n \in 0..m
        PROVE  q[n] = IF n = 0 THEN b ELSE Replays(s, q[n - 1], rows, n)
    <3>1. CASE n = m
      <4>1. m - 1 \in 0..m /\ m - 1 # m
        BY <1>1, <1>3
      <4>2. q[m - 1] = r[m - 1]
        BY <4>1
      <4>3. q[n] = Replays(s, r[m - 1], rows, m)
        BY <3>1
      <4> QED BY <1>3, <3>1, <4>2, <4>3
    <3>2. CASE n # m
      <4>1. n \in 0..(m - 1) /\ (n # 0 => n - 1 \in 0..m /\ n - 1 # m)
        BY <1>1, <3>2
      <4>2. r[n] = IF n = 0 THEN b ELSE Replays(s, r[n - 1], rows, n)
        BY <2>2, <4>1 DEF ReplayRun
      <4>3. q[n] = r[n] /\ (n # 0 => q[n - 1] = r[n - 1])
        BY <3>2, <4>1
      <4> QED BY <4>2, <4>3
    <3> QED BY <3>1, <3>2
  <2>4. q = [n \in 0..m |-> IF n = 0 THEN b ELSE Replays(s, q[n - 1], rows, n)]
    <3>1. q = [n \in 0..m |-> q[n]]
      OBVIOUS
    <3> HIDE DEF q
    <3> QED BY <2>3, <3>1
  <2> HIDE DEF q
  <2> QED BY <1>1, <2>4 DEF ReplayRun
<1> QED BY <1>2, <1>3

LEMMA ReplayIs ==
  ASSUME NEW s, NEW b, NEW rows, log \in Seq(Op)
  PROVE  \E r : ReplayRun(r, s, b, rows, Len(log)) /\ Replay(s, b, rows) = r[Len(log)]
<1> DEFINE R == CHOOSE run : run = [n \in 0..Len(log) |->
                  IF n = 0 THEN b
                  ELSE IF n \in rows /\ Mine(s, log[n]) THEN ApplyReplaying(run[n - 1], log[n])
                  ELSE run[n - 1]]
<1>1. \E r : ReplayRun(r, s, b, rows, Len(log))
  <2>1. Len(log) \in Nat
    OBVIOUS
  <2> QED BY <2>1, RunExists
<1>2. R = [n \in 0..Len(log) |->
             IF n = 0 THEN b
             ELSE IF n \in rows /\ Mine(s, log[n]) THEN ApplyReplaying(R[n - 1], log[n])
             ELSE R[n - 1]]
  BY <1>1 DEF ReplayRun, Replays
<1>3. Replay(s, b, rows) = R[Len(log)]
  BY DEF Replay
<1>4. ReplayRun(R, s, b, rows, Len(log))
  BY <1>2 DEF ReplayRun, Replays
<1> QED BY <1>3, <1>4

\* Replaying rows on empty pages draws what the rows draw.
LEMMA ReplayDraws ==
  ASSUME NEW s \in Sock, NEW b \in Board, log \in Seq(Op), NEW rows, rows \subseteq 1..Len(log),
         Draws(b, {}, View[s])
  PROVE  Replay(s, b, rows) \in Board /\ Draws(Replay(s, b, rows), rows, View[s])
<1> DEFINE l == Len(log)
           Among(n) == {k \in rows : k <= n}
<1>1. PICK r : ReplayRun(r, s, b, rows, l) /\ Replay(s, b, rows) = r[l]
  BY ReplayIs
<1>2. l \in Nat /\ l = Len(log) /\ \A k \in rows : k \in Nat /\ 1 <= k /\ k <= l
  OBVIOUS
<1>3. /\ r[0] = b
      /\ \A n \in 1..l : r[n] = Replays(s, r[n - 1], rows, n)
  <2>1. \A n \in 0..l : r[n] = IF n = 0 THEN b ELSE Replays(s, r[n - 1], rows, n)
    BY <1>1 DEF ReplayRun
  <2> QED BY <1>2, <2>1
<1> HIDE DEF l
<1> DEFINE Right(n) == r[n] \in Board /\ Draws(r[n], Among(n), View[s])
           Wrong == {n \in 0..l : ~Right(n)}
<1>4. Wrong = {}
  <2> SUFFICES ASSUME Wrong # {} PROVE FALSE
    OBVIOUS
  <2>1. PICK n \in Wrong : \A j \in Wrong : n <= j
    <3> Wrong \subseteq Nat
      BY <1>2
    <3> HIDE DEF Wrong
    <3> QED BY LeastNumber
  <2>2. n \in 0..l /\ ~Right(n)
    OBVIOUS
  <2>3. n # 0
    <3>0. \A k \in rows : ~(k <= 0)
      BY <1>2
    <3>1. Among(0) = {}
      BY <3>0
    <3> QED BY <1>3, <2>2, <3>1
  <2>4. n \in 1..l /\ n - 1 \in 0..l /\ ~(n <= n - 1)
    BY <1>2, <2>2, <2>3
  <2>5. r[n - 1] \in Board /\ Draws(r[n - 1], Among(n - 1), View[s])
    BY <2>1, <2>4
  <2>6. r[n] = Replays(s, r[n - 1], rows, n)
    BY <1>3, <2>4
  <2>7. log[n] \in Op
    BY <1>2, <2>4
  <2>8. Among(n) = IF n \in rows THEN Among(n - 1) \cup {n} ELSE Among(n - 1)
    <3>1. \A k \in rows : k <= n <=> k = n \/ k <= n - 1
      BY <1>2, <2>4
    <3> QED BY <3>1
  <2>9. Among(n - 1) \subseteq 1..Len(log) /\ n \in 1..Len(log) /\ \A k \in Among(n - 1) : k < n
    <3>1. \A k \in rows : k <= n - 1 => k < n
      BY <1>2, <2>4
    <3>2. n \in 1..Len(log)
      BY <1>2, <2>4
    <3> QED BY <3>1, <3>2
  <2> DEFINE c == r[n - 1]
             K == Among(n - 1)
             G == Among(n)
  <2> HIDE DEF Among, Wrong
  <2>10. /\ log[n].file = View[s] => Draws(ApplyReplaying(c, log[n]), K \cup {n}, View[s])
         /\ log[n].file # View[s] => Draws(c, K \cup {n}, View[s])
    BY <2>5, <2>9, NewestDraws
  <2>11. ApplyReplaying(c, log[n]) \in Board
    BY <2>5, <2>7, AppliesTo
  <2>12. r[n] \in Board /\ Draws(r[n], G, View[s])
    <3>1. CASE n \notin rows
      BY <2>5, <2>6, <2>8, <3>1 DEF Replays
    <3>2. CASE n \in rows /\ log[n].file = View[s]
      <4>1. r[n] = ApplyReplaying(c, log[n]) /\ G = K \cup {n}
        BY <2>6, <2>8, <3>2 DEF Replays, Mine
      <4> QED BY <2>10, <2>11, <3>2, <4>1
    <3>3. CASE n \in rows /\ log[n].file # View[s]
      <4>1. r[n] = c /\ G = K \cup {n}
        BY <2>6, <2>8, <3>3 DEF Replays, Mine
      <4> QED BY <2>5, <2>10, <3>3, <4>1
    <3> QED BY <3>1, <3>2, <3>3
  <2> QED BY <2>2, <2>12
<1>5. Among(l) = rows
  BY <1>2
<1>6. l \in 0..l
  BY <1>2
<1>7. Right(l)
  BY <1>4, <1>6
<1> HIDE DEF Among
<1> QED BY <1>1, <1>5, <1>7 DEF l

\* What a page shows when it has replayed its history.
LEMMA HistoryDraws ==
  ASSUME NEW s \in Sock, NEW t \in Tab, log \in Seq(Op), NEW rows, rows \subseteq 1..Len(log)
  PROVE  LET new == Replayed(s, t, rows) IN
         /\ new \in Tab /\ new.board.page <= new.board.count
         /\ Draws(new.board, rows, View[s])
<1> DEFINE new == Replayed(s, t, rows)
           full == Replay(s, Emptied(t.board), rows)
<1>1. t.board \in Board
  BY DEF Tab
<1>2. full \in Board /\ Draws(full, rows, View[s])
  BY <1>1, NothingDrawn, ReplayDraws
<1>3. new = [t EXCEPT !.board = Clamped(full)]
  BY DEF Replayed
<1> HIDE DEF full, new
<1>4. Page \subseteq Nat
  BY BoardAssumption DEF Page
<1>5. /\ full.page \in Page /\ full.count \in Page
      /\ full.ops \in [Page -> SUBSET Id] /\ full.style \in [Page -> Id]
  BY <1>2 DEF Board
<1>6. /\ Clamped(full) \in Board
      /\ Clamped(full).page <= Clamped(full).count
      /\ Clamped(full).ops = full.ops /\ Clamped(full).style = full.style
  <2> DEFINE to == IF full.page > full.count THEN full.count ELSE full.page
  <2>1. to \in Page /\ to <= full.count
    BY <1>4, <1>5
  <2>2. Clamped(full) = [full EXCEPT !.page = to]
    BY DEF Clamped
  <2> HIDE DEF to
  <2> QED BY <1>2, <1>5, <2>1, <2>2 DEF Board
<1>7. new \in Tab /\ new.board = Clamped(full)
  BY <1>3, <1>6 DEF Tab
<1> QED BY <1>2, <1>6, <1>7 DEF new, Draws

-----------------------------------------------------------------------------
(* Types.  Every operation made is sent at most once, so the table and the *)
(* channels never hold more operations than were made.                     *)

\* The operations on their way to the consumers, by sender and place in the queue.
Sent == { x \in Sock \X Nat : x[2] \in 1..Len(out[x[1]]) }

CountOK ==
  /\ made \in 0..MaxOps
  /\ IsFiniteSet(Sent)
  /\ Len(log) + Cardinality(Sent) <= made

PagesOK ==
  /\ tab \in [Sock -> Tab]
  /\ \A s \in Sock : Visible(s) <= tab[s].board.count

QueuesOK ==
  /\ log \in Seq(Op) /\ author \in Seq(Sock) /\ Len(author) = Len(log)
  /\ out \in [Sock -> Seq(Op)]
  /\ plan \in Plans

HeldOK ==
  \A s \in Sock :
    /\ busy[s].gone \subseteq 1..Len(log)
    /\ seen[s].base \subseteq 1..Len(log) /\ seen[s].got \subseteq 1..Len(log)

TypeInv == CountOK /\ PagesOK /\ QueuesOK /\ HeldOK

LEMMA WiderSeq ==
  ASSUME NEW S, NEW T, S \subseteq T, NEW q \in Seq(S)
  PROVE  q \in Seq(T)
  OBVIOUS

LEMMA TypesFollow == BoardInv /\ TypeInv => BoardTypeOK
<1> SUFFICES ASSUME BoardInv, TypeInv PROVE BoardTypeOK
  OBVIOUS
<1> USE DEF TypeInv, BoardInv
<1>1. Len(log) \in Nat /\ Len(log) <= MaxOps /\ MaxOps \in Nat
  <2>1. Len(log) \in Nat /\ Cardinality(Sent) \in Nat
    BY FS_CardinalityType DEF QueuesOK, CountOK
  <2> QED BY <2>1, BoardAssumption DEF CountOK
<1>2. busy \in [Sock -> Busy]
  <2>1. ASSUME NEW s \in Sock PROVE busy[s] \in Busy
    <3>1. busy[s] \in Storing /\ busy[s].seq <= Len(log) /\ busy[s].gone \subseteq 1..Len(log)
      BY DEF TablesOK, HeldOK
    <3>2. busy[s].seq \in 0..MaxOps /\ busy[s].gone \in SUBSET (1..MaxOps)
      BY <1>1, <3>1 DEF Storing
    <3> QED BY <3>1, <3>2 DEF Storing, Busy
  <2> QED BY <2>1 DEF TablesOK
<1>3. conn \in [Sock -> [st : {"off", "grouped", "open"}, last : 0..MaxOps]]
  <2>1. ASSUME NEW s \in Sock PROVE conn[s] \in [st : {"off", "grouped", "open"}, last : 0..MaxOps]
    <3>1. conn[s] \in [st : {"off", "grouped", "open"}, last : Nat] /\ conn[s].last <= Len(log)
      BY DEF ConnsOK
    <3>2. conn[s].last \in 0..MaxOps
      BY <1>1, <3>1
    <3> QED BY <3>1, <3>2
  <2> QED BY <2>1 DEF ConnsOK
<1>4. chan \in [Sock -> Seq(1..MaxOps)]
  <2>1. 1..Len(log) \subseteq 1..MaxOps
    BY <1>1
  <2>2. ASSUME NEW s \in Sock PROVE chan[s] \in Seq(1..MaxOps)
    <3>1. chan[s] \in Seq(1..Len(log))
      BY DEF ConnsOK
    <3> QED BY <2>1, <3>1, WiderSeq
  <2> QED BY <2>2 DEF ConnsOK
<1>5. seen \in [Sock -> Ghost]
  <2>1. ASSUME NEW s \in Sock PROVE seen[s] \in Ghost
    <3>1. seen[s] \in [base : SUBSET Nat, got : SUBSET Nat, drew : BOOLEAN]
      BY DEF ConnsOK
    <3>2. seen[s].base \in SUBSET (1..MaxOps) /\ seen[s].got \in SUBSET (1..MaxOps)
      BY <1>1 DEF HeldOK
    <3> QED BY <3>1, <3>2 DEF Ghost
  <2> QED BY <2>1 DEF ConnsOK
<1> QED BY <1>2, <1>3, <1>4, <1>5 DEF BoardTypeOK, TablesOK, QueuesOK, PagesOK, CountOK

LEMMA TypesInit == BoardInit => TypeInv
<1> SUFFICES ASSUME BoardInit PROVE TypeInv
  OBVIOUS
<1>1. Sent = {}
  BY DEF Sent, BoardInit
<1>2. CountOK
  BY <1>1, FS_EmptySet, BoardAssumption DEF CountOK, BoardInit
<1>3. PagesOK
  <2>1. MaxPage \in Nat \ {0} /\ 1 \in Page /\ MaxPage \in Page /\ 0 \in Id
    BY BoardAssumption DEF Page, Id
  <2>2. ASSUME NEW s \in Sock PROVE EmptyBoard(s) \in Board /\ EmptyBoard(s).page <= EmptyBoard(s).count
    BY <2>1 DEF EmptyBoard, Board
  <2>3. ASSUME NEW s \in Sock PROVE [board |-> EmptyBoard(s), undo |-> <<>>, redo |-> <<>>] \in Tab
    BY <2>2 DEF Tab
  <2> HIDE DEF EmptyBoard
  <2> QED BY <2>2, <2>3 DEF PagesOK, BoardInit, Visible
<1>4. QueuesOK
  BY DEF QueuesOK, BoardInit
<1>5. HeldOK
  BY DEF HeldOK, BoardInit, Idle
<1> QED BY <1>2, <1>3, <1>4, <1>5 DEF TypeInv

\* One queue that has become longer by at most two.
LEMMA MoreSent ==
  ASSUME NEW s \in Sock, out \in [Sock -> Seq(Op)], out' \in [Sock -> Seq(Op)],
         \A t \in Sock : t # s => out'[t] = out[t],
         NEW k \in 1..2, Len(out'[s]) <= Len(out[s]) + k, IsFiniteSet(Sent)
  PROVE  IsFiniteSet(Sent') /\ Cardinality(Sent') <= Cardinality(Sent) + k
<1> DEFINE l == Len(out[s])
           x == <<s, l + 1>>
           y == <<s, l + 2>>
           X == Sent \cup {x}
           Y == X \cup {y}
<1>1. l \in Nat /\ Len(out'[s]) \in Nat
  OBVIOUS
<1>2. /\ IsFiniteSet(X) /\ Cardinality(X) <= Cardinality(Sent) + 1
      /\ IsFiniteSet(Y) /\ Cardinality(Y) <= Cardinality(Sent) + 2
  <2>1. Cardinality(Sent) \in Nat
    BY FS_CardinalityType
  <2>2. IsFiniteSet(X) /\ Cardinality(X) = IF x \in Sent THEN Cardinality(Sent) ELSE Cardinality(Sent) + 1
    BY FS_AddElement
  <2> HIDE DEF X
  <2>3. IsFiniteSet(Y) /\ Cardinality(Y) = IF y \in X THEN Cardinality(X) ELSE Cardinality(X) + 1
    BY <2>2, FS_AddElement
  <2> QED BY <2>1, <2>2, <2>3
<1>3. Sent' \subseteq IF k = 1 THEN X ELSE Y
  <2> SUFFICES ASSUME NEW z \in Sent', z \notin Sent PROVE z = x \/ (k = 2 /\ z = y)
    OBVIOUS
  <2>1. z \in Sock \X Nat /\ z = <<z[1], z[2]>> /\ z[2] \in 1..Len(out'[z[1]]) /\ z[2] \notin 1..Len(out[z[1]])
    BY DEF Sent
  <2>2. z[1] = s
    BY <2>1
  <2>3. z[2] = l + 1 \/ (k = 2 /\ z[2] = l + 2)
    BY <1>1, <2>1, <2>2
  <2> QED BY <2>1, <2>2, <2>3
<1> HIDE DEF X, Y
<1>4. Cardinality(X) \in Nat /\ Cardinality(Y) \in Nat /\ Cardinality(Sent) \in Nat
  BY <1>2, FS_CardinalityType
<1>5. CASE k = 1
  <2>1. Sent' \in SUBSET X
    BY <1>3, <1>5
  <2>2. IsFiniteSet(Sent') /\ Cardinality(Sent') <= Cardinality(X)
    BY <1>2, <2>1, FS_Subset
  <2>3. Cardinality(Sent') \in Nat
    BY <2>2, FS_CardinalityType
  <2> QED BY <1>2, <1>4, <1>5, <2>2, <2>3
<1>6. CASE k = 2
  <2>1. Sent' \in SUBSET Y
    BY <1>3, <1>6
  <2>2. IsFiniteSet(Sent') /\ Cardinality(Sent') <= Cardinality(Y)
    BY <1>2, <2>1, FS_Subset
  <2>3. Cardinality(Sent') \in Nat
    BY <2>2, FS_CardinalityType
  <2> QED BY <1>2, <1>4, <1>6, <2>2, <2>3
<1> QED BY <1>5, <1>6

\* Queues that have not become longer; one that has become shorter.
LEMMA LessSent ==
  ASSUME out \in [Sock -> Seq(Op)], out' \in [Sock -> Seq(Op)],
         \A t \in Sock : Len(out'[t]) <= Len(out[t]), IsFiniteSet(Sent)
  PROVE  /\ IsFiniteSet(Sent') /\ Cardinality(Sent') \in Nat /\ Cardinality(Sent') <= Cardinality(Sent)
         /\ \A s \in Sock : Len(out'[s]) < Len(out[s]) => Cardinality(Sent') < Cardinality(Sent)
<1>1. \A t \in Sock : Len(out[t]) \in Nat /\ Len(out'[t]) \in Nat
  OBVIOUS
<1>2. Sent' \subseteq Sent
  BY <1>1 DEF Sent
<1>3. IsFiniteSet(Sent') /\ Cardinality(Sent') <= Cardinality(Sent)
  BY <1>2, FS_Subset
<1>4. Cardinality(Sent') \in Nat /\ Cardinality(Sent) \in Nat
  BY <1>3, FS_CardinalityType
<1>5. ASSUME NEW s \in Sock, Len(out'[s]) < Len(out[s]) PROVE Cardinality(Sent') < Cardinality(Sent)
  <2> DEFINE z == <<s, Len(out[s])>>
  <2>1. z \in Sent /\ z \notin Sent'
    BY <1>1, <1>5 DEF Sent
  <2>2. Sent' # Sent
    BY <2>1
  <2>3. Cardinality(Sent') # Cardinality(Sent)
    BY <1>2, <1>3, <2>2, FS_Subset
  <2> QED BY <1>3, <1>4, <2>3
<1> QED BY <1>3, <1>4, <1>5

\* A click: the page it leaves is one of this type, and what it sends too.
LEMMA ClickTypes ==
  ASSUME BoardInv, TypeInv, NEW s \in Sock, NEW t \in Tab, t.board.page <= t.board.count,
         NEW ops \in Seq(Op), Len(ops) \in 1..2, Click(s, t, ops)
  PROVE  TypeInv'
<1> USE DEF TypeInv
<1>1. UNCHANGED <<log, author, kept, busy, conn, chan, plan>>
  BY DEF Click
<1>2. PagesOK'
  BY DEF Click, PagesOK, Visible
<1>3. /\ out' \in [Sock -> Seq(Op)]
      /\ \A u \in Sock : u # s => out'[u] = out[u]
      /\ Len(out'[s]) <= Len(out[s]) + Len(ops)
  <2>1. out[s] \in Seq(Op) /\ out[s] \o ops \in Seq(Op) /\ Len(out[s] \o ops) = Len(out[s]) + Len(ops)
    BY DEF QueuesOK
  <2>2. Len(out[s]) \in Nat
    BY <2>1
  <2>3. CASE IsOpen(s)
    <3>1. out' = [out EXCEPT ![s] = out[s] \o ops]
      BY <2>3 DEF Click
    <3> QED BY <2>1, <2>2, <3>1 DEF QueuesOK
  <2>4. CASE ~IsOpen(s)
    <3>1. out' = out
      BY <2>4 DEF Click
    <3> QED BY <2>2, <3>1 DEF QueuesOK
  <2> QED BY <2>3, <2>4
<1>4. QueuesOK'
  BY <1>1, <1>3 DEF QueuesOK
<1>5. HeldOK'
  <2>1. \A u \in Sock : seen'[u].base = seen[u].base /\ seen'[u].got = seen[u].got
    BY DEF Click, BoardInv, ConnsOK
  <2> QED BY <1>1, <2>1 DEF HeldOK
<1>6. CountOK'
  <2>1. IsFiniteSet(Sent') /\ Cardinality(Sent') <= Cardinality(Sent) + Len(ops)
    BY <1>3, MoreSent DEF QueuesOK, CountOK
  <2>2. made' = made + Len(ops) /\ made' <= MaxOps
    BY DEF Click
  <2>3. Len(log) \in Nat /\ Cardinality(Sent) \in Nat /\ Cardinality(Sent') \in Nat /\ MaxOps \in Nat
    BY <2>1, FS_CardinalityType, BoardAssumption DEF QueuesOK, CountOK
  <2> QED BY <1>1, <2>1, <2>2, <2>3 DEF CountOK
<1> QED BY <1>2, <1>4, <1>5, <1>6

\* What may be undone or done again.
Done == [id : Id, page : Page]

LEMMA AppliedTypes ==
  ASSUME NEW s, NEW t \in Tab, t.board.page <= t.board.count, NEW op \in Op
  PROVE  /\ Applied(s, t, op) \in Tab
         /\ Applied(s, t, op).board.page <= Applied(s, t, op).board.count
<1> DEFINE b == _applyOp(t.board, op)
<1>1. t.board \in Board /\ t.undo \in Seq(Done) /\ t.redo \in Seq(Done)
  BY DEF Tab, Done
<1>2. b \in Board /\ b.page <= b.count
  BY <1>1, AppliesTo
<1> HIDE DEF b
<1>3. CASE ~Mine(s, op)
  BY <1>3 DEF Applied
<1>4. CASE Mine(s, op)
  <2> DEFINE wipes == op.kind = "clear" /\ op.page = t.board.page /\ View[s] = 0
             u == IF wipes THEN <<>> ELSE t.undo
             r == IF wipes THEN <<>> ELSE t.redo
  <2>1. Applied(s, t, op) = [t EXCEPT !.board = b, !.undo = u, !.redo = r]
    BY <1>4 DEF Applied, b
  <2>2. u \in Seq(Done) /\ r \in Seq(Done)
    BY <1>1
  <2> HIDE DEF u, r
  <2> QED BY <1>2, <2>1, <2>2 DEF Tab, Done
<1> QED BY <1>3, <1>4

LEMMA NewOpTypes ==
  ASSUME TypeInv, NEW s \in Sock, NEW kind \in Kind, NEW p \in Page, made + 1 <= MaxOps
  PROVE  NewOp(s, kind, p) \in Op
<1>1. made + 1 \in Id
  BY BoardAssumption DEF TypeInv, CountOK, Id
<1> QED BY <1>1 DEF NewOp, Op

\* A list without one of its elements.
LEMMA Shortened ==
  ASSUME NEW S, NEW q \in Seq(S), NEW i \in 1..Len(q)
  PROVE  RemoveAt(q, i) \in Seq(S)
<1>1. SubSeq(q, 1, i - 1) \in Seq(S) /\ SubSeq(q, i + 1, Len(q)) \in Seq(S)
  OBVIOUS
<1> QED BY <1>1 DEF RemoveAt

LEMMA SelectedLast ==
  ASSUME NEW n \in Nat, NEW I, I \subseteq 1..n
  PROVE  (IF I # {} THEN Max(I) ELSE 0) \in 0..n
<1> DEFINE T == {n - i : i \in I}
<1>1. ASSUME I # {} PROVE Max(I) \in I
  <2>1. \A i \in I : n - i \in T /\ n - i \in Nat /\ i \in Nat
    OBVIOUS
  <2>2. T \subseteq Nat /\ T # {}
    BY <1>1, <2>1
  <2>3. PICK m \in T : \A j \in T : m <= j
    BY <2>2, LeastNumber
  <2>4. PICK x \in I : m = n - x
    OBVIOUS
  <2>5. \A i \in I : m <= n - i
    BY <2>1, <2>3
  <2> HIDE DEF T
  <2>6. \A i \in I : x >= i
    BY <2>1, <2>4, <2>5
  <2> QED BY <2>6 DEF Max
<1>2. CASE I = {}
  BY <1>2
<1>3. CASE I # {}
  <2>1. Max(I) \in 1..n
    BY <1>1, <1>3
  <2>2. Max(I) \in 0..n
    BY <2>1
  <2> QED BY <1>3, <2>2
<1> QED BY <1>2, <1>3

LEMMA BrowserTypes ==
  ASSUME BoardInv, TypeInv, NEW s \in Sock, Browser(s)
  PROVE  TypeInv'
<1> DEFINE t == tab[s]
           p == Visible(s)
<1>1. /\ t \in Tab /\ t.board \in Board /\ p \in Page /\ p = t.board.page /\ p <= t.board.count
      /\ t.undo \in Seq(Done) /\ t.redo \in Seq(Done) /\ t.board.count \in Page
  BY DEF TypeInv, PagesOK, Visible, Tab, Board, Done
<1>2. made \in Nat /\ MaxOps \in Nat /\ Page \subseteq Nat
  BY BoardAssumption DEF TypeInv, CountOK, Page
<1> HIDE DEF t, p
<1>3. ASSUME NEW op, NEW new, Click(s, new, <<op>>) PROVE made + 1 <= MaxOps
  BY <1>3 DEF Click
<1>4. ASSUME NEW op \in Op, NEW new \in Tab, new.board.page <= new.board.count, Click(s, new, <<op>>)
      PROVE  TypeInv'
  <2>1. <<op>> \in Seq(Op) /\ Len(<<op>>) \in 1..2
    OBVIOUS
  <2> QED BY <1>4, <2>1, ClickTypes
<1>5. ASSUME NEW new \in Tab, NEW u \in Seq(Done), NEW r \in Seq(Done)
      PROVE  /\ [new EXCEPT !.undo = u, !.redo = r] \in Tab
             /\ [new EXCEPT !.undo = u, !.redo = r].board = new.board
  BY DEF Tab, Done
<1>6. CASE Draw(s)
  <2> DEFINE op == NewOp(s, "draw", p)
             a == Applied(s, t, op)
             new == [a EXCEPT !.undo = Append(@, [id |-> op.id, page |-> op.page]), !.redo = <<>>]
  <2>1. Click(s, new, <<op>>)
    BY <1>6 DEF Draw, t, p
  <2>2. op \in Op
    BY <1>1, <1>3, <2>1, NewOpTypes DEF Kind
  <2>3. a \in Tab /\ a.board.page <= a.board.count
    BY <1>1, <2>2, AppliedTypes
  <2>4. [id |-> op.id, page |-> op.page] \in Done
    BY <2>2 DEF Op, Done
  <2> HIDE DEF op, a
  <2>5. a.undo \in Seq(Done)
    BY <2>3 DEF Tab, Done
  <2>6. Append(a.undo, [id |-> op.id, page |-> op.page]) \in Seq(Done) /\ <<>> \in Seq(Done)
    BY <2>4, <2>5
  <2>7. new \in Tab /\ new.board = a.board
    BY <1>5, <2>3, <2>6
  <2> HIDE DEF new
  <2> QED BY <1>4, <2>1, <2>2, <2>3, <2>7
<1>7. CASE Undo(s)
  <2> DEFINE i == UndoIndex(s)
             op == [kind |-> "remove", id |-> t.undo[i].id, page |-> p, file |-> View[s]]
             a == Applied(s, t, op)
             r == IF View[s] = 0 THEN Append(a.redo, t.undo[i]) ELSE a.redo
             new == [a EXCEPT !.undo = RemoveAt(@, i), !.redo = IF View[s] = 0 THEN Append(@, t.undo[i]) ELSE @]
  <2>1. Click(s, new, <<op>>) /\ i # 0
    BY <1>7 DEF Undo, t, p
  <2>2. i \in 1..Len(t.undo)
    <3>1. Len(t.undo) \in Nat
      BY <1>1
    <3>2. i \in 0..Len(t.undo)
      <4>1. CASE View[s] = 0
        <5> DEFINE I == {j \in 1..Len(t.undo) : t.undo[j].page = p}
        <5>1. i = IF I # {} THEN Max(I) ELSE 0
          BY <4>1 DEF UndoIndex, SelectLastInSeq, t, p
        <5>2. I \subseteq 1..Len(t.undo)
          OBVIOUS
        <5> HIDE DEF I
        <5> QED BY <3>1, <5>1, <5>2, SelectedLast
      <4>2. CASE View[s] # 0
        BY <3>1, <4>2 DEF UndoIndex, t
      <4> QED BY <4>1, <4>2
    <3> HIDE DEF i
    <3> QED BY <2>1, <3>1, <3>2
  <2> HIDE DEF i
  <2>3. t.undo[i] \in Done
    BY <1>1, <2>2
  <2>4. op \in Op
    BY <1>1, <2>3 DEF Op, Done, Kind
  <2>5. a \in Tab /\ a.board.page <= a.board.count
    BY <1>1, <2>4, AppliedTypes
  <2>6. a.undo = t.undo /\ a.redo = t.redo
    BY <1>1 DEF Applied, Tab
  <2> HIDE DEF op, a
  <2>7. RemoveAt(a.undo, i) \in Seq(Done)
    BY <1>1, <2>2, <2>6, Shortened
  <2>8. r \in Seq(Done)
    BY <1>1, <2>3, <2>6
  <2>9. new = [a EXCEPT !.undo = RemoveAt(a.undo, i), !.redo = r]
    BY <2>5 DEF Tab
  <2> HIDE DEF r, new
  <2>10. new \in Tab /\ new.board = a.board
    BY <1>5, <2>5, <2>7, <2>8, <2>9
  <2> QED BY <1>4, <2>1, <2>4, <2>5, <2>10
<1>8. CASE Redo(s)
  <2> DEFINE i == SelectLastInSeq(t.redo, LAMBDA u : u.page = p)
             op == [kind |-> "draw", id |-> t.redo[i].id, page |-> p, file |-> View[s]]
             a == Applied(s, t, op)
             new == [a EXCEPT !.redo = RemoveAt(@, i), !.undo = Append(@, t.redo[i])]
  <2>1. Click(s, new, <<op>>) /\ i # 0
    BY <1>8 DEF Redo, t, p
  <2>2. i \in 1..Len(t.redo)
    <3>1. Len(t.redo) \in Nat
      BY <1>1
    <3>2. i \in 0..Len(t.redo)
      <4> DEFINE I == {j \in 1..Len(t.redo) : t.redo[j].page = p}
      <4>1. i = IF I # {} THEN Max(I) ELSE 0
        BY DEF SelectLastInSeq
      <4>2. I \subseteq 1..Len(t.redo)
        OBVIOUS
      <4> HIDE DEF I
      <4> QED BY <3>1, <4>1, <4>2, SelectedLast
    <3> HIDE DEF i
    <3> QED BY <2>1, <3>1, <3>2
  <2> HIDE DEF i
  <2>3. t.redo[i] \in Done
    BY <1>1, <2>2
  <2>4. op \in Op
    BY <1>1, <2>3 DEF Op, Done, Kind
  <2>5. a \in Tab /\ a.board.page <= a.board.count
    BY <1>1, <2>4, AppliedTypes
  <2>6. a.undo = t.undo /\ a.redo = t.redo
    BY <1>1 DEF Applied, Tab
  <2> HIDE DEF op, a
  <2>7. RemoveAt(a.redo, i) \in Seq(Done) /\ Append(a.undo, t.redo[i]) \in Seq(Done)
    <3>1. Append(a.undo, t.redo[i]) \in Seq(Done)
      BY <1>1, <2>3, <2>6
    <3> QED BY <1>1, <2>2, <2>6, <3>1, Shortened
  <2>8. new = [a EXCEPT !.undo = Append(a.undo, t.redo[i]), !.redo = RemoveAt(a.redo, i)]
    BY <2>5 DEF Tab
  <2> HIDE DEF new
  <2>9. new \in Tab /\ new.board = a.board
    BY <1>5, <2>5, <2>7, <2>8
  <2> QED BY <1>4, <2>1, <2>4, <2>5, <2>9
<1>9. ASSUME NEW kind \in {"clear", "page_setup"},
             Click(s, Applied(s, t, NewOp(s, kind, p)), <<NewOp(s, kind, p)>>)
      PROVE  TypeInv'
  <2> DEFINE op == NewOp(s, kind, p)
  <2>1. op \in Op
    BY <1>1, <1>3, <1>9, NewOpTypes DEF Kind
  <2> HIDE DEF op
  <2>2. Applied(s, t, op) \in Tab /\ Applied(s, t, op).board.page <= Applied(s, t, op).board.count
    BY <1>1, <2>1, AppliedTypes
  <2> QED BY <1>4, <1>9, <2>1, <2>2 DEF op
<1>10. CASE Clear(s) \/ PageSetup(s)
  BY <1>9, <1>10 DEF Clear, PageSetup, t, p
<1>11. CASE AddPage(s)
  <2> DEFINE target == t.board.count + 1
             add == NewOp(s, "page_add", target)
             go == [add EXCEPT !.kind = "page_go"]
             a == Applied(s, t, add)
             new == Applied(s, a, go)
  <2>1. Click(s, new, <<add, go>>) /\ target \in Page
    BY <1>11 DEF AddPage, t
  <2>2. made + 1 <= MaxOps
    <3>1. Len(<<add, go>>) = 2
      OBVIOUS
    <3>2. made + Len(<<add, go>>) <= MaxOps
      BY <2>1 DEF Click
    <3> QED BY <1>2, <3>1, <3>2
  <2>3. add \in Op
    BY <2>1, <2>2, NewOpTypes DEF Kind
  <2> HIDE DEF target
  <2> HIDE DEF add
  <2>4. go \in Op
    BY <2>3 DEF Op, Kind
  <2>5. a \in Tab /\ a.board.page <= a.board.count
    BY <1>1, <2>3, AppliedTypes
  <2> HIDE DEF go, a
  <2>6. new \in Tab /\ new.board.page <= new.board.count
    BY <2>4, <2>5, AppliedTypes
  <2> HIDE DEF new
  <2>7. <<add, go>> \in Seq(Op) /\ Len(<<add, go>>) \in 1..2
    BY <2>3, <2>4
  <2> QED BY <2>1, <2>6, <2>7, ClickTypes
<1>12. ASSUME NEW q \in Page, SetPage(s, q) PROVE TypeInv'
  <2> DEFINE op == NewOp(s, "page_go", q)
  <2>1. CASE View[s] = 0 /\ s \in CanDraw
    <3>1. Click(s, Applied(s, t, op), <<op>>)
      BY <1>12, <2>1 DEF SetPage, t
    <3>2. op \in Op
      BY <1>3, <3>1, NewOpTypes DEF Kind
    <3> HIDE DEF op
    <3>3. Applied(s, t, op) \in Tab /\ Applied(s, t, op).board.page <= Applied(s, t, op).board.count
      BY <1>1, <3>2, AppliedTypes
    <3> QED BY <1>4, <3>1, <3>2, <3>3
  <2>2. CASE ~(View[s] = 0 /\ s \in CanDraw)
    <3>1. /\ tab' = [tab EXCEPT ![s].board.page = q] /\ q \in 1..t.board.count
          /\ UNCHANGED <<log, author, kept, busy, conn, chan, out, made, plan, seen>>
      BY <1>12, <2>2 DEF SetPage, t
    <3>2. [t EXCEPT !.board.page = q] \in Tab
      BY <1>1 DEF Tab, Board
    <3>3. /\ tab'[s] = [t EXCEPT !.board.page = q] /\ \A u \in Sock : u # s => tab'[u] = tab[u]
          /\ tab' \in [Sock -> Tab]
      BY <3>1, <3>2 DEF TypeInv, PagesOK, t
    <3>4. tab'[s].board.page <= tab'[s].board.count
      <4>1. tab'[s].board.page = q /\ tab'[s].board.count = t.board.count
        BY <1>1, <3>3 DEF Tab, Board
      <4> QED BY <3>1, <4>1
    <3>5. PagesOK'
      BY <3>3, <3>4 DEF PagesOK, Visible, TypeInv
    <3>6. Sent' = Sent
      BY <3>1 DEF Sent
    <3> QED BY <3>1, <3>5, <3>6 DEF TypeInv, CountOK, QueuesOK, HeldOK
  <2> QED BY <2>1, <2>2
<1> QED BY <1>6, <1>7, <1>8, <1>10, <1>11, <1>12 DEF Browser

\* What a consumer does with the table and the queues.
LEMMA ConsumerTypes ==
  ASSUME BoardInv, TypeInv, NEW s \in Sock, Consumer(s) \/ JoinGroup(s) \/ Disconnect(s)
  PROVE  TypeInv'
<1>1. /\ Len(log) \in Nat /\ Cardinality(Sent) \in Nat /\ MaxOps \in Nat /\ made \in 0..MaxOps
      /\ IsFiniteSet(Sent) /\ Len(log) + Cardinality(Sent) <= made
  BY FS_CardinalityType, BoardAssumption DEF TypeInv, QueuesOK, CountOK
<1>2. /\ \A t \in Sock : out[t] \in Seq(Op) /\ busy[t] \in Storing /\ tab[t] \in Tab
      /\ \A t \in Sock : busy[t].gone \subseteq 1..Len(log)
      /\ log \in Seq(Op) /\ author \in Seq(Sock) /\ Len(author) = Len(log) /\ plan \in Plans
      /\ kept \subseteq 1..Len(log)
  BY DEF TypeInv, QueuesOK, PagesOK, HeldOK, BoardInv, TablesOK
\* Operations that are no more on their way.
<1>3. ASSUME UNCHANGED log, UNCHANGED made, out' \in [Sock -> Seq(Op)],
             \A t \in Sock : Len(out'[t]) <= Len(out[t])
      PROVE  CountOK'
  <2>1. IsFiniteSet(Sent') /\ Cardinality(Sent') \in Nat /\ Cardinality(Sent') <= Cardinality(Sent)
    BY <1>1, <1>3, LessSent DEF TypeInv, QueuesOK
  <2> QED BY <1>1, <1>3, <2>1 DEF CountOK
<1>4. ASSUME UNCHANGED <<log, author, out, plan, made>> PROVE CountOK' /\ QueuesOK'
  <2>1. Sent' = Sent
    BY <1>4 DEF Sent
  <2> QED BY <1>4, <2>1 DEF TypeInv, CountOK, QueuesOK
<1>5. ASSUME out' = [out EXCEPT ![s] = Tail(@)], out[s] # <<>>
      PROVE  /\ out' \in [Sock -> Seq(Op)] /\ Len(out'[s]) < Len(out[s])
             /\ \A t \in Sock : Len(out'[t]) <= Len(out[t])
  <2>1. out[s] \in Seq(Op) /\ Tail(out[s]) \in Seq(Op) /\ Len(Tail(out[s])) < Len(out[s])
    BY <1>2, <1>5
  <2>2. \A t \in Sock : Len(out[t]) \in Nat
    BY <1>2
  <2>3. out' \in [Sock -> Seq(Op)] /\ out'[s] = Tail(out[s]) /\ \A t \in Sock : t # s => out'[t] = out[t]
    BY <1>5, <2>1 DEF TypeInv, QueuesOK
  <2> QED BY <2>1, <2>2, <2>3
<1>6. CASE JoinGroup(s)
  BY <1>4, <1>6 DEF JoinGroup, TypeInv, PagesOK, HeldOK, Visible
<1>7. CASE Disconnect(s)
  <2>1. out' = [out EXCEPT ![s] = <<>>] /\ UNCHANGED <<log, author, kept, tab, made, plan>>
    BY <1>7 DEF Disconnect
  <2>2. out' \in [Sock -> Seq(Op)] /\ \A t \in Sock : Len(out'[t]) <= Len(out[t])
    <3>1. <<>> \in Seq(Op) /\ Len(<<>>) = 0 /\ \A t \in Sock : Len(out[t]) \in Nat
      BY <1>2
    <3>2. out' \in [Sock -> Seq(Op)] /\ out'[s] = <<>> /\ \A t \in Sock : t # s => out'[t] = out[t]
      BY <2>1, <3>1 DEF TypeInv, QueuesOK
    <3> QED BY <3>1, <3>2
  <2>3. \A t \in Sock : /\ busy'[t].gone = busy[t].gone
                        /\ seen'[t].base \subseteq seen[t].base /\ seen'[t].got \subseteq seen[t].got
    BY <1>7 DEF Disconnect, BoardInv, TablesOK, ConnsOK, Storing
  <2>4. HeldOK'
    BY <2>1, <2>3 DEF TypeInv, HeldOK
  <2>5. CountOK' /\ QueuesOK' /\ PagesOK'
    BY <1>3, <2>1, <2>2 DEF TypeInv, QueuesOK, PagesOK, Visible
  <2> QED BY <2>4, <2>5 DEF TypeInv
<1>8. CASE LoadHistory(s)
  <2>1. Newest \subseteq 1..Len(log) /\ Snapshot \subseteq 1..Len(log)
    BY <1>2 DEF Newest, Snapshot, Committed
  <2> DEFINE new == Replayed(s, tab[s], Newest)
  <2>2. new \in Tab /\ new.board.page <= new.board.count
    BY <1>2, <2>1, HistoryDraws
  <2> HIDE DEF new
  <2>3. tab' = [tab EXCEPT ![s] = new]
    BY <1>8 DEF LoadHistory, new
  <2>4. PagesOK'
    BY <2>2, <2>3 DEF TypeInv, PagesOK, Visible
  <2>5. /\ seen'[s].base = Snapshot /\ seen'[s].got = {} /\ \A t \in Sock : t # s => seen'[t] = seen[t]
        /\ UNCHANGED <<log, author, out, plan, made, busy>>
    BY <1>8 DEF LoadHistory, BoardInv, ConnsOK
  <2>6. HeldOK'
    BY <2>1, <2>5 DEF TypeInv, HeldOK
  <2> QED BY <1>4, <2>4, <2>5, <2>6 DEF TypeInv
<1>9. CASE Refuse(s)
  <2>1. /\ out' = [out EXCEPT ![s] = Tail(@)] /\ out[s] # <<>>
        /\ UNCHANGED <<log, author, kept, busy, conn, chan, tab, made, plan, seen>>
    BY <1>9 DEF Refuse
  <2> QED BY <1>3, <1>5, <2>1 DEF TypeInv, QueuesOK, PagesOK, HeldOK, Visible
<1>10. CASE Insert(s)
  <2> DEFINE op == Head(out[s])
             gone == Compacts(op)
  <2>1. /\ out' = [out EXCEPT ![s] = Tail(@)] /\ out[s] # <<>>
        /\ log' = Append(log, op) /\ author' = Append(author, s)
        /\ busy' = [busy EXCEPT ![s] = [phase |-> "inserted", seq |-> Len(log) + 1, gone |-> gone, live |-> TRUE]]
        /\ UNCHANGED <<kept, conn, chan, tab, made, plan, seen>>
    BY <1>10 DEF Insert
  <2>2. op \in Op
    BY <1>2, <2>1
  <2>3. gone \subseteq 1..Len(log)
    BY <1>2 DEF Compacts
  <2> HIDE DEF op, gone
  <2>4. /\ log' \in Seq(Op) /\ Len(log') = Len(log) + 1
        /\ author' \in Seq(Sock) /\ Len(author') = Len(author) + 1
    BY <1>2, <2>1, <2>2
  <2>5. /\ IsFiniteSet(Sent') /\ Cardinality(Sent') \in Nat /\ Cardinality(Sent') < Cardinality(Sent)
    BY <1>1, <1>5, <2>1, LessSent DEF TypeInv, QueuesOK
  <2>6. CountOK'
    BY <1>1, <2>1, <2>4, <2>5 DEF CountOK
  <2>7. QueuesOK'
    BY <1>2, <1>5, <2>1, <2>4 DEF QueuesOK
  <2>8. 1..Len(log) \subseteq 1..Len(log')
    BY <1>1, <2>4
  <2>9. \A t \in Sock : busy'[t].gone \subseteq 1..Len(log)
    BY <1>2, <2>1, <2>3 DEF BoardInv, TablesOK
  <2>10. HeldOK'
    BY <2>1, <2>8, <2>9 DEF TypeInv, HeldOK
  <2> QED BY <2>1, <2>6, <2>7, <2>10 DEF TypeInv, PagesOK, Visible
<1>11. CASE Commit(s) \/ Publish(s)
  <2>1. \A t \in Sock : busy'[t].gone \subseteq busy[t].gone
    BY <1>11 DEF Commit, Publish, Idle, BoardInv, TablesOK, Storing
  <2>2. UNCHANGED <<log, author, out, tab, made, plan, seen>>
    BY <1>11 DEF Commit, Publish
  <2> QED BY <1>4, <2>1, <2>2 DEF TypeInv, PagesOK, HeldOK, Visible
<1>12. CASE Dispatch(s)
  <2> DEFINE n == Head(chan[s])
  <2>1. n \in 1..Len(log)
    <3>1. chan[s] \in Seq(1..Len(log)) /\ chan[s] # <<>>
      BY <1>12 DEF Dispatch, BoardInv, ConnsOK
    <3> QED BY <3>1
  <2>2. UNCHANGED <<log, author, kept, busy, out, made, plan>>
    BY <1>12 DEF Dispatch
  <2> HIDE DEF n
  <2>3. CASE Fresh(s, n)
    <3> DEFINE new == IF Who[author[n]] = Who[s] THEN tab[s] ELSE Applied(s, tab[s], log[n])
    <3>1. tab' = [tab EXCEPT ![s] = new] /\ seen' = [seen EXCEPT ![s].got = @ \cup {n}]
      BY <1>12, <2>3 DEF Dispatch, n
    <3>2. new \in Tab /\ new.board.page <= new.board.count
      <4>1. log[n] \in Op /\ tab[s] \in Tab /\ tab[s].board.page <= tab[s].board.count
        BY <1>2, <2>1 DEF TypeInv, PagesOK, Visible
      <4> QED BY <4>1, AppliedTypes
    <3> HIDE DEF new
    <3>3. PagesOK'
      BY <3>1, <3>2 DEF TypeInv, PagesOK, Visible
    <3>4. \A t \in Sock : seen'[t].base = seen[t].base /\ seen'[t].got \subseteq seen[t].got \cup {n}
      BY <3>1 DEF BoardInv, ConnsOK
    <3>5. HeldOK'
      BY <2>1, <2>2, <3>4 DEF TypeInv, HeldOK
    <3> QED BY <1>4, <2>2, <3>3, <3>5 DEF TypeInv
  <2>4. CASE ~Fresh(s, n)
    <3>1. UNCHANGED <<tab, seen>>
      BY <1>12, <2>4 DEF Dispatch, n
    <3> QED BY <1>4, <2>2, <3>1 DEF TypeInv, PagesOK, HeldOK, Visible
  <2> QED BY <2>3, <2>4
<1> QED BY <1>6, <1>7, <1>8, <1>9, <1>10, <1>11, <1>12, <1>1 DEF Consumer

LEMMA TypesStep == BoardInv /\ TypeInv /\ [BoardNext]_boardVars => TypeInv'
<1> SUFFICES ASSUME BoardInv, TypeInv, [BoardNext]_boardVars PROVE TypeInv'
  OBVIOUS
<1>1. CASE UNCHANGED boardVars
  <2>1. Sent' = Sent
    BY <1>1 DEF boardVars, Sent
  <2> QED BY <1>1, <2>1 DEF boardVars, TypeInv, CountOK, PagesOK, QueuesOK, HeldOK, Visible
<1>2. CASE BoardNext
  BY <1>2, BrowserTypes, ConsumerTypes DEF BoardNext
<1> QED BY <1>1, <1>2

\* The table, the queues and the pages hold what they are meant to hold.
THEOREM BoardTypeCorrect == BoardSpec => []BoardTypeOK
<1>1. BoardInv /\ TypeInv /\ [BoardNext]_boardVars => (BoardInv /\ TypeInv)'
  BY InvStep, TypesStep
<1>2. BoardInit => BoardInv /\ TypeInv
  BY InvInit, TypesInit
<1> QED BY <1>1, <1>2, TypesFollow, PTL DEF BoardSpec

-----------------------------------------------------------------------------
(* Viewers.  A browser shows what the snapshot and the live operations it  *)
(* was sent draw, as long as none of them is its own, which it has drawn   *)
(* before: the live ones are newer than the snapshot and come in order.    *)

WasSent(s) == seen[s].base \cup seen[s].got

OthersOnly(s) == \A n \in seen[s].got : Who[author[n]] # Who[s]

ViewOK(s) ==
  conn[s].st = "open" =>
    /\ \A n \in WasSent(s) : n <= conn[s].last
    /\ \A m \in seen[s].base, n \in seen[s].got : m < n
    /\ ~seen[s].drew /\ OthersOnly(s) => Draws(tab[s].board, WasSent(s), View[s])

Views == \A s \in Sock : ViewOK(s)

\* What operations draw does not change when others are appended.
LEMMA DrawsStill ==
  ASSUME NEW s \in Sock, UNCHANGED WasSent(s), \A k \in WasSent(s) : log'[k] = log[k],
         tab'[s].board.ops = tab[s].board.ops, tab'[s].board.style = tab[s].board.style,
         Draws(tab[s].board, WasSent(s), View[s])
  PROVE  Draws(tab[s].board, WasSent(s), View[s])'
<1> DEFINE K == WasSent(s)
           v == View[s]
<1>1. ASSUME NEW kind, NEW p PROVE On(K, kind, v, p)' = On(K, kind, v, p) /\ On(K, kind, v, p) \subseteq K
  BY DEF On
<1>2. ASSUME NEW m \in K, NEW k \in K PROVE Wipes(m, k)' <=> Wipes(m, k)
  BY DEF Wipes, SameScope
<1>3. ASSUME NEW p PROVE Shown(K, v, p)' = Shown(K, v, p)
  <2> DEFINE X == On(K, "draw", v, p)
             D == {k \in X : ~\E m \in K : Wipes(m, k)}
  <2>1. X' = X /\ X \subseteq K
    BY <1>1
  <2> HIDE DEF X
  <2>2. D' = D
    BY <1>2, <2>1
  <2>3. D \subseteq K
    BY <2>1
  <2>4. Shown(K, v, p) = {log[k].id : k \in D} /\ Shown(K, v, p)' = {log'[k].id : k \in D'}
    BY DEF Shown, X
  <2> HIDE DEF D
  <2> QED BY <2>2, <2>3, <2>4
<1>4. ASSUME NEW p PROVE Styled(K, v, p)' = Styled(K, v, p)
  <2> DEFINE X == On(K, "page_setup", v, p)
             D == {k \in X : ~\E m \in X : m > k}
  <2>1. X' = X /\ X \subseteq K
    BY <1>1
  <2> HIDE DEF X
  <2>2. D' = D
    BY <2>1
  <2>3. D \subseteq K
    BY <2>1
  <2>4. Styled(K, v, p) = {log[k].id : k \in D} /\ Styled(K, v, p)' = {log'[k].id : k \in D'}
    BY DEF Styled, X
  <2> HIDE DEF D
  <2> QED BY <2>2, <2>3, <2>4
<1> QED BY <1>3, <1>4 DEF Draws

LEMMA ShownNow ==
  ASSUME NEW s \in Sock, UNCHANGED log, NEW K, WasSent(s)' = K, NEW p
  PROVE  /\ Shown(WasSent(s), View[s], p)' = Shown(K, View[s], p)
         /\ Styled(WasSent(s), View[s], p)' = Styled(K, View[s], p)
<1> DEFINE v == View[s]
           W == WasSent(s)
<1>1. ASSUME NEW kind PROVE On(W, kind, v, p)' = On(K, kind, v, p)
  BY DEF On
<1>2. ASSUME NEW m, NEW k PROVE Wipes(m, k)' <=> Wipes(m, k)
  BY DEF Wipes, SameScope
<1>3. {k \in On(W, "draw", v, p) : ~\E m \in W : Wipes(m, k)}' = {k \in On(K, "draw", v, p) : ~\E m \in K : Wipes(m, k)}
  BY <1>1, <1>2
<1>4. {k \in On(W, "page_setup", v, p) : ~\E m \in On(W, "page_setup", v, p) : m > k}'
        = {k \in On(K, "page_setup", v, p) : ~\E m \in On(K, "page_setup", v, p) : m > k}
  BY <1>1
<1>5. Shown(W, v, p)' = Shown(K, v, p)
  BY <1>3 DEF Shown
<1>6. Styled(W, v, p)' = Styled(K, v, p)
  BY <1>4 DEF Styled
<1> QED BY <1>5, <1>6

\* A step that a viewer does not notice.
LEMMA ViewStill ==
  ASSUME NEW s \in Sock, ViewOK(s), WasSent(s) \subseteq 1..Len(log), Len(log) \in Nat,
         conn'[s].st = conn[s].st, conn[s].last \in Nat, conn'[s].last \in Nat,
         conn[s].last <= conn'[s].last,
         seen'[s].base = seen[s].base, seen'[s].got = seen[s].got, ~seen'[s].drew => ~seen[s].drew,
         ~seen'[s].drew => /\ tab'[s].board.ops = tab[s].board.ops
                           /\ tab'[s].board.style = tab[s].board.style,
         \A k \in 1..Len(log) : log'[k] = log[k] /\ author'[k] = author[k]
  PROVE  ViewOK(s)'
<1>1. UNCHANGED WasSent(s)
  BY DEF WasSent
<1>2. CASE conn[s].st = "open"
  <2>1. /\ \A n \in WasSent(s) : n \in Nat /\ n <= conn[s].last
        /\ \A m \in seen[s].base, n \in seen[s].got : m < n
    BY <1>2 DEF ViewOK
  <2>2. \A n \in WasSent(s) : n <= conn'[s].last
    BY <2>1
  <2>3. OthersOnly(s)' => OthersOnly(s)
    BY DEF OthersOnly, WasSent
  <2>4. ASSUME ~seen'[s].drew, OthersOnly(s)' PROVE Draws(tab[s].board, WasSent(s), View[s])'
    <3>1. Draws(tab[s].board, WasSent(s), View[s])
      BY <1>2, <2>3, <2>4 DEF ViewOK
    <3>2. \A k \in WasSent(s) : log'[k] = log[k]
      OBVIOUS
    <3> QED BY <1>1, <2>4, <3>1, <3>2, DrawsStill
  <2> QED BY <1>1, <2>1, <2>2, <2>4 DEF ViewOK
<1>3. CASE conn[s].st # "open"
  BY <1>3 DEF ViewOK
<1> QED BY <1>2, <1>3

LEMMA ViewsInit == BoardInit => Views
<1> SUFFICES ASSUME BoardInit, NEW s \in Sock, conn[s].st = "open" PROVE ViewOK(s)
  BY DEF Views, ViewOK
<1>1. WasSent(s) = {} /\ seen[s].base = {} /\ seen[s].got = {}
  BY DEF BoardInit, WasSent
<1>2. tab[s].board = EmptyBoard(s)
  BY DEF BoardInit
<1>3. \A p \in Page : EmptyBoard(s).ops[p] = {} /\ EmptyBoard(s).style[p] = 0
  BY DEF EmptyBoard
<1>4. \A p \in Page : Shown({}, View[s], p) = {} /\ Styled({}, View[s], p) = {}
  BY DEF Shown, Styled, On
<1>5. Draws(tab[s].board, {}, View[s])
  BY <1>2, <1>3, <1>4 DEF Draws
<1> QED BY <1>1, <1>5 DEF ViewOK

\* The snapshot stands for all that was committed, and draws the same.
LEMMA SnapshotDraws ==
  ASSUME BoardInv, NEW s \in Sock, NEW b, Draws(b, Newest, View[s])
  PROVE  Draws(b, Snapshot, View[s])
<1>1. CASE Cardinality(kept) <= HISTORY_LIMIT
  <2>1. kept \subseteq 1..Len(log) /\ Len(log) \in Nat
    BY AppendLog DEF BoardInv, TablesOK
  <2>2. IsFiniteSet(kept)
    <3>1. IsFiniteSet(1..Len(log))
      BY <2>1, FS_Interval
    <3> QED BY <2>1, <3>1, FS_Subset
  <2>3. Cardinality(kept) \in Nat
    BY <2>2, FS_CardinalityType
  <2>4. ASSUME NEW n \in kept PROVE Cardinality({m \in kept : m >= n}) <= HISTORY_LIMIT
    <3> DEFINE X == {m \in kept : m >= n}
    <3>1. X \in SUBSET kept
      OBVIOUS
    <3> HIDE DEF X
    <3>2. IsFiniteSet(X) /\ Cardinality(X) <= Cardinality(kept)
      BY <2>2, <3>1, FS_Subset
    <3>3. Cardinality(X) \in Nat /\ HISTORY_LIMIT \in Nat
      BY <3>2, FS_CardinalityType, BoardAssumption
    <3>4. Cardinality(X) <= HISTORY_LIMIT
      BY <1>1, <2>3, <3>2, <3>3
    <3> QED BY <3>4 DEF X
  <2>5. Newest = kept
    BY <2>4 DEF Newest
  <2>6. Snapshot = Committed
    BY <1>1 DEF Snapshot
  <2>7. \A p \in Page : /\ Shown(kept, View[s], p) = Shown(Committed, View[s], p)
                        /\ Styled(kept, View[s], p) = Styled(Committed, View[s], p)
    BY RowsSuffice DEF CompactionExact
  <2> QED BY <2>5, <2>6, <2>7 DEF Draws
<1>2. CASE ~(Cardinality(kept) <= HISTORY_LIMIT)
  BY <1>2 DEF Snapshot
<1> QED BY <1>1, <1>2

\* The newest row is as new as anything committed.
LEMMA SnapshotBound ==
  ASSUME BoardInv, NEW seq \in Nat, \A n \in kept : n <= seq, NEW m \in Snapshot
  PROVE  m <= seq
<1>1. m \in Committed \/ m \in kept
  BY DEF Snapshot, Newest
<1>2. kept \subseteq Nat /\ Committed \subseteq Nat
  BY AppendLog DEF BoardInv, TablesOK, Committed
<1>3. CASE m \in kept
  BY <1>3
<1>4. CASE m \notin kept
  <2>1. PICK w \in kept : w > m
    BY <1>1, <1>4, LostCovered DEF Covered
  <2>2. w \in Nat /\ m \in Nat /\ w <= seq
    BY <1>1, <1>2, <1>4
  <2> QED BY <2>1, <2>2
<1> QED BY <1>3, <1>4

LEMMA ViewsStep == BoardInv /\ TypeInv /\ Watermark /\ Views /\ [BoardNext]_boardVars => Views'
<1> SUFFICES ASSUME BoardInv, TypeInv, Watermark, Views, [BoardNext]_boardVars, NEW s \in Sock
             PROVE  ViewOK(s)'
  BY DEF Views
<1>1. /\ ViewOK(s) /\ WasSent(s) \subseteq 1..Len(log) /\ Len(log) \in Nat
      /\ conn[s].last \in Nat /\ conn[s].last <= Len(log)
      /\ log \in Seq(Op) /\ author \in Seq(Sock) /\ Len(author) = Len(log)
      /\ tab[s] \in Tab /\ tab[s].board \in Board
  <2>1. ViewOK(s) /\ WasSent(s) \subseteq 1..Len(log)
    BY DEF Views, TypeInv, HeldOK, WasSent
  <2>2. log \in Seq(Op) /\ author \in Seq(Sock) /\ Len(author) = Len(log) /\ Len(log) \in Nat
    BY DEF TypeInv, QueuesOK
  <2>3. conn[s].last \in Nat /\ conn[s].last <= Len(log)
    BY DEF BoardInv, ConnsOK
  <2>4. tab[s] \in Tab /\ tab[s].board \in Board
    BY DEF TypeInv, PagesOK, Tab
  <2> QED BY <2>1, <2>2, <2>3, <2>4
<1>2. CASE UNCHANGED boardVars
  BY <1>1, <1>2, ViewStill DEF boardVars
\* A browser that draws, or turns its page.
<1>3. ASSUME NEW t \in Sock, Browser(t) PROVE ViewOK(s)'
  <2>1. UNCHANGED <<log, author, kept, busy, conn, chan>>
    BY <1>3, BrowserStep
  <2>2. CASE \E new, ops : Click(t, new, ops)
    <3>1. PICK new, ops : Click(t, new, ops)
      BY <2>2
    <3>2. seen' = [seen EXCEPT ![t].drew = TRUE] /\ tab' = [tab EXCEPT ![t] = new]
      BY <3>1 DEF Click
    <3>3. /\ seen'[s].base = seen[s].base /\ seen'[s].got = seen[s].got
          /\ ~seen'[s].drew => s # t /\ seen'[s] = seen[s] /\ tab'[s] = tab[s]
      BY <3>2 DEF BoardInv, ConnsOK, TypeInv, PagesOK
    <3> QED BY <1>1, <2>1, <3>3, ViewStill
  <2>3. CASE \E p \in Page : tab' = [tab EXCEPT ![t].board.page = p] /\ seen' = seen
    <3>1. PICK p \in Page : tab' = [tab EXCEPT ![t].board.page = p] /\ seen' = seen
      BY <2>3
    <3>2. tab[t] \in Tab /\ tab[t].board \in Board /\ tab \in [Sock -> Tab]
      BY DEF TypeInv, PagesOK, Tab
    <3>3. tab'[s].board.ops = tab[s].board.ops /\ tab'[s].board.style = tab[s].board.style
      BY <3>1, <3>2 DEF Tab, Board
    <3> QED BY <1>1, <2>1, <3>1, <3>3, ViewStill
  <2>4. (\E new, ops : Click(t, new, ops))
          \/ \E p \in Page : tab' = [tab EXCEPT ![t].board.page = p] /\ seen' = seen
    <3>1. ASSUME NEW p \in Page, SetPage(t, p)
          PROVE  (\E new, ops : Click(t, new, ops)) \/ (tab' = [tab EXCEPT ![t].board.page = p] /\ seen' = seen)
      BY <3>1 DEF SetPage
    <3>2. ASSUME Draw(t) \/ Undo(t) \/ Redo(t) PROVE \E new, ops : Click(t, new, ops)
      BY <3>2 DEF Draw, Undo, Redo
    <3>3. ASSUME Clear(t) \/ PageSetup(t) \/ AddPage(t) PROVE \E new, ops : Click(t, new, ops)
      BY <3>3 DEF Clear, PageSetup, AddPage
    <3> QED BY <1>3, <3>1, <3>2, <3>3 DEF Browser
  <2> QED BY <2>2, <2>3, <2>4
<1>4. ASSUME NEW t \in Sock, Insert(t) PROVE ViewOK(s)'
  <2>1. /\ log' = Append(log, Head(out[t])) /\ author' = Append(author, t)
        /\ UNCHANGED <<conn, tab, seen>>
    BY <1>4 DEF Insert
  <2>2. \A k \in 1..Len(log) : log'[k] = log[k] /\ author'[k] = author[k]
    BY <1>1, <2>1
  <2> QED BY <1>1, <2>1, <2>2, ViewStill
\* The watermark only goes up: what is stored is newer than what was sent.
<1>5. ASSUME NEW t \in Sock, Commit(t) PROVE ViewOK(s)'
  <2>1. /\ conn' = [conn EXCEPT ![t].last = IF busy[t].live THEN busy[t].seq ELSE @]
        /\ busy[t].phase = "inserted" /\ UNCHANGED <<log, author, tab, seen>>
    BY <1>5 DEF Commit
  <2>2. conn'[s].st = conn[s].st /\ conn'[s].last \in Nat /\ conn[s].last <= conn'[s].last
    <3>1. busy[t].seq \in Nat
      BY DEF BoardInv, TablesOK, Storing
    <3>2. CASE s = t /\ busy[t].live
      <4>1. conn'[s].st = conn[s].st /\ conn'[s].last = busy[t].seq
        BY <2>1, <3>2 DEF BoardInv, ConnsOK
      <4>2. conn[s].last < busy[t].seq
        BY <2>1, <3>2 DEF Watermark
      <4> QED BY <1>1, <3>1, <4>1, <4>2
    <3>3. CASE ~(s = t /\ busy[t].live)
      <4>1. conn'[s].st = conn[s].st /\ conn'[s].last = conn[s].last
        BY <2>1, <3>3 DEF BoardInv, ConnsOK
      <4> QED BY <1>1, <4>1
    <3> QED BY <3>2, <3>3
  <2> QED BY <1>1, <2>1, <2>2, ViewStill
<1>6. ASSUME NEW t \in Sock, Publish(t) \/ Refuse(t) PROVE ViewOK(s)'
  <2>1. UNCHANGED <<log, author, conn, tab, seen>>
    BY <1>6 DEF Publish, Refuse
  <2> QED BY <1>1, <2>1, ViewStill
\* Another socket connects or goes.
<1>7. ASSUME NEW t \in Sock, LoadHistory(t) \/ Disconnect(t) \/ JoinGroup(t) \/ Dispatch(t), t # s
      PROVE  ViewOK(s)'
  <2>1. conn'[s] = conn[s] /\ tab'[s] = tab[s] /\ seen'[s] = seen[s] /\ UNCHANGED <<log, author>>
    BY <1>7 DEF LoadHistory, Disconnect, JoinGroup, Dispatch, BoardInv, ConnsOK, TypeInv, PagesOK
  <2> QED BY <1>1, <2>1, ViewStill
<1>8. ASSUME Disconnect(s) \/ JoinGroup(s) PROVE ViewOK(s)'
  <2>1. conn'[s].st # "open"
    BY <1>8 DEF Disconnect, JoinGroup, BoardInv, ConnsOK
  <2> QED BY <2>1 DEF ViewOK
\* The snapshot replaces what was recorded.
<1>9. ASSUME LoadHistory(s) PROVE ViewOK(s)'
  <2>1. PICK seq \in kept \cup {0} : /\ \A n \in kept : n <= seq
                                     /\ conn' = [conn EXCEPT ![s] = [st |-> "open", last |-> seq]]
    BY <1>9 DEF LoadHistory
  <2>2. seq \in Nat /\ Newest \subseteq 1..Len(log)
    <3>1. kept \subseteq 1..Len(log) /\ kept \subseteq Nat
      BY <1>1 DEF BoardInv, TablesOK
    <3>2. Newest \subseteq kept
      BY DEF Newest
    <3> QED BY <2>1, <3>1, <3>2
  <2> DEFINE new == Replayed(s, tab[s], Newest)
  <2>3. Draws(new.board, Newest, View[s])
    BY <1>1, <2>2, HistoryDraws
  <2> HIDE DEF new
  <2>4. Draws(new.board, Snapshot, View[s])
    BY <2>3, SnapshotDraws
  <2>5. /\ tab'[s] = new /\ seen'[s].base = Snapshot /\ seen'[s].got = {} /\ conn'[s].last = seq
        /\ UNCHANGED log
    BY <1>9, <2>1 DEF LoadHistory, new, BoardInv, ConnsOK, TypeInv, PagesOK
  <2>6. WasSent(s)' = Snapshot
    BY <2>5 DEF WasSent
  <2>7. \A m \in Snapshot : m <= seq
    BY <2>1, <2>2, SnapshotBound
  <2>8. Draws(tab[s].board, WasSent(s), View[s])'
    <3>1. \A p \in Page : /\ Shown(WasSent(s), View[s], p)' = Shown(Snapshot, View[s], p)
                          /\ Styled(WasSent(s), View[s], p)' = Styled(Snapshot, View[s], p)
      BY <2>5, <2>6, ShownNow
    <3> QED BY <2>4, <2>5, <3>1 DEF Draws
  <2> QED BY <2>5, <2>6, <2>7, <2>8 DEF ViewOK
<1>10. ASSUME Dispatch(s) PROVE ViewOK(s)'
  <2> DEFINE n == Head(chan[s])
  <2>1. n \in 1..Len(log)
    <3>1. chan[s] \in Seq(1..Len(log)) /\ chan[s] # <<>>
      BY <1>10 DEF Dispatch, BoardInv, ConnsOK
    <3> QED BY <3>1
  <2>2. UNCHANGED <<log, author>> /\ conn[s].st = "open"
    BY <1>10 DEF Dispatch
  <2> HIDE DEF n
  <2>3. CASE ~Fresh(s, n)
    <3>1. UNCHANGED <<conn, tab, seen>>
      BY <1>10, <2>3 DEF Dispatch, n
    <3> QED BY <1>1, <2>2, <3>1, ViewStill
  <2>4. CASE Fresh(s, n)
    <3> DEFINE mine == Who[author[n]] = Who[s]
    <3>1. /\ conn'[s].last = n
          /\ tab'[s] = IF mine THEN tab[s] ELSE Applied(s, tab[s], log[n])
          /\ seen'[s].base = seen[s].base /\ seen'[s].got = seen[s].got \cup {n}
          /\ seen'[s].drew = seen[s].drew
      BY <1>10, <2>4 DEF Dispatch, n, BoardInv, ConnsOK, TypeInv, PagesOK
    <3>2. n > conn[s].last /\ n \in Nat
      BY <1>1, <2>1, <2>4 DEF Fresh
    <3>3. /\ \A m \in WasSent(s) : m \in Nat /\ m <= conn[s].last
          /\ \A m \in seen[s].base, k \in seen[s].got : m < k
      BY <1>1, <2>2 DEF ViewOK
    <3>4. WasSent(s)' = WasSent(s) \cup {n}
      BY <3>1 DEF WasSent
    <3>5. \A m \in WasSent(s) : m < n
      BY <1>1, <3>2, <3>3
    <3>6. \A m \in WasSent(s)' : m <= conn'[s].last
      <4>1. \A m \in WasSent(s) : m <= n
        BY <1>1, <3>2, <3>3, <3>5
      <4> QED BY <3>1, <3>2, <3>4, <4>1
    <3>7. \A m \in seen'[s].base, k \in seen'[s].got : m < k
      BY <3>1, <3>3, <3>5 DEF WasSent
    <3>8. ASSUME ~seen'[s].drew, OthersOnly(s)' PROVE Draws(tab[s].board, WasSent(s), View[s])'
      <4>1. ~mine /\ OthersOnly(s)
        BY <2>2, <3>1, <3>8 DEF OthersOnly
      <4>2. Draws(tab[s].board, WasSent(s), View[s])
        BY <1>1, <2>2, <3>1, <3>8, <4>1 DEF ViewOK
      <4> DEFINE b == tab[s].board
                 K == WasSent(s)
                 c == ApplyReplaying(b, log[n])
                 d == _applyOp(b, log[n])
      <4>3. /\ log[n].file = View[s] => Draws(c, K \cup {n}, View[s])
            /\ log[n].file # View[s] => Draws(b, K \cup {n}, View[s])
        BY <1>1, <2>1, <3>5, <4>2, NewestDraws
      <4>4. log[n] \in Op
        BY <1>1, <2>1
      <4>5. d.ops = c.ops /\ d.style = c.style
        BY <1>1, <4>4, AppliesTo
      <4>6. tab'[s].board = IF log[n].file = View[s] THEN d ELSE b
        BY <1>1, <3>1, <4>1 DEF Applied, Mine, Tab
      <4> HIDE DEF c, d
      <4>7. Draws(tab'[s].board, K \cup {n}, View[s])
        BY <4>3, <4>5, <4>6 DEF Draws
      <4> DEFINE G == K \cup {n}
      <4>8. \A p \in Page : /\ Shown(WasSent(s), View[s], p)' = Shown(G, View[s], p)
                            /\ Styled(WasSent(s), View[s], p)' = Styled(G, View[s], p)
        BY <2>2, <3>4, ShownNow
      <4> HIDE DEF G
      <4> QED BY <4>7, <4>8 DEF Draws, G
    <3> QED BY <3>6, <3>7, <3>8 DEF ViewOK
  <2> QED BY <2>3, <2>4
<1> QED
  BY <1>2, <1>3, <1>4, <1>5, <1>6, <1>7, <1>8, <1>9, <1>10 DEF BoardNext, Consumer

\* Whoever has caught up was sent everything, and everything is what the rows draw.
LEMMA ViewsSuffice == BoardInv /\ TypeInv /\ Views => ViewersAgree
<1> SUFFICES ASSUME BoardInv, TypeInv, Views, NEW s \in Sock, CaughtUp(s), NEW p \in Page
             PROVE  /\ tab[s].board.ops[p] = Shown(kept, View[s], p)
                    /\ tab[s].board.style[p] \in Styled(kept, View[s], p) \cup
                         (IF Styled(kept, View[s], p) = {} THEN {0} ELSE {})
  BY DEF ViewersAgree
<1>1. /\ conn[s].st = "open" /\ ~seen[s].drew /\ \A t \in Sock : busy[t].phase = "idle"
      /\ \A n \in 1..Len(log) : n \in seen[s].base \/ (n \in seen[s].got /\ Who[author[n]] # Who[s])
  BY DEF CaughtUp, Idle
<1>2. /\ seen[s].base \subseteq 1..Len(log) /\ seen[s].got \subseteq 1..Len(log) /\ Len(log) \in Nat
  BY DEF TypeInv, HeldOK, QueuesOK
<1>3. WasSent(s) = 1..Len(log) /\ Committed = 1..Len(log)
  BY <1>1, <1>2 DEF WasSent, Committed
<1>4. \A n \in seen[s].got : n \notin seen[s].base
  <2>1. \A m \in seen[s].base, n \in seen[s].got : m < n
    BY <1>1 DEF Views, ViewOK
  <2> QED BY <1>2, <2>1
<1>5. OthersOnly(s)
  BY <1>1, <1>2, <1>4 DEF OthersOnly
<1>6. Draws(tab[s].board, Committed, View[s])
  BY <1>1, <1>3, <1>5 DEF Views, ViewOK
<1>7. /\ Shown(kept, View[s], p) = Shown(Committed, View[s], p)
      /\ Styled(kept, View[s], p) = Styled(Committed, View[s], p)
  BY RowsSuffice DEF CompactionExact
<1> QED BY <1>6, <1>7 DEF Draws

\* A viewer who has drawn nothing and was sent everything sees what the table says.
THEOREM ViewersSeeTheBoard == BoardSpec => []ViewersAgree
<1>1. BoardInv /\ TypeInv /\ Watermark /\ Views /\ [BoardNext]_boardVars
        => (BoardInv /\ TypeInv /\ Watermark /\ Views)'
  BY InvStep, TypesStep, WatermarkStep, ViewsStep
<1>2. BoardInit => BoardInv /\ TypeInv /\ Watermark /\ Views
  BY InvInit, TypesInit, WatermarkInit, ViewsInit
<1> QED BY <1>1, <1>2, ViewsSuffice, PTL DEF BoardSpec

-----------------------------------------------------------------------------
(* Gestures.  What the server judges is rounded and a share of the canvas; *)
(* the lemmas say which pixels it stands for.                              *)

\* What a quotient is bounded by.
LEMMA Quotient ==
  ASSUME NEW n \in Int, NEW d \in Nat \ {0}, NEW k \in Int
  PROVE  /\ n \div d \in Int
         /\ n \div d <= k <=> n < d * (k + 1)
         /\ k <= n \div d <=> d * k <= n
<1> DEFINE q == n \div d
<1>1. q \in Int /\ d * q <= n /\ n < d * q + d
  OBVIOUS
<1> HIDE DEF q
<1>2. q <= k => d * q + d <= d * (k + 1)
  BY <1>1
<1>3. ~(q <= k) => d * (k + 1) <= d * q
  BY <1>1
<1>4. k <= q => d * k <= d * q
  BY <1>1
<1>5. ~(k <= q) => d * q + d <= d * k
  BY <1>1
<1>6. d * k \in Int /\ d * (k + 1) \in Int /\ d * q \in Int
  BY <1>1
<1>7. q <= k <=> n < d * (k + 1)
  BY <1>1, <1>2, <1>3, <1>6
<1>8. k <= q <=> d * k <= n
  BY <1>1, <1>4, <1>5, <1>6
<1> QED BY <1>1, <1>7, <1>8 DEF q

\* A rounded share is within twice the canvas exactly if the pixels are: a canvas is too
\* small for the rounding to matter.
LEMMA Share ==
  ASSUME NEW v \in Int, NEW d \in Nat \ {0}, d < 20000
  PROVE  /\ _finite_number(Nearest(v * UNIT, d)) <=> -2 * d <= v /\ v <= 2 * d
         /\ v >= 0 => Nearest(v * UNIT, d) >= 0
<1> DEFINE n == 20000 * v + d
           e == 2 * d
<1>1. n \in Int /\ e \in Nat \ {0}
  OBVIOUS
<1>2. n < e * (20000 + 1) <=> v <= 2 * d
  OBVIOUS
<1>3. e * (-20000) <= n <=> -2 * d <= v
  <2>1. e * (-20000) = -40000 * d
    OBVIOUS
  <2>2. -2 * d <= v => -40000 * d <= 20000 * v + d
    OBVIOUS
  <2>3. v <= -2 * d - 1 => 20000 * v + d < -40000 * d
    OBVIOUS
  <2> QED BY <2>1, <2>2, <2>3
<1>4. v >= 0 => e * 0 <= n
  OBVIOUS
<1>5. Nearest(v * UNIT, d) = n \div e
  <2>1. \A i \in Int : 2 * (i * 10000) + d = 20000 * i + d
    OBVIOUS
  <2> QED BY <2>1 DEF Nearest, UNIT
<1> HIDE DEF n, e
<1>6. n \div e <= 20000 <=> n < e * (20000 + 1)
  BY <1>1, Quotient
<1>7. -20000 <= n \div e <=> e * (-20000) <= n
  BY <1>1, Quotient
<1>8. 0 <= n \div e <=> e * 0 <= n
  BY <1>1, Quotient
<1>9. -2 * UNIT = -20000 /\ 2 * UNIT = 20000
  BY DEF UNIT
<1> QED BY <1>2, <1>3, <1>4, <1>5, <1>6, <1>7, <1>8, <1>9 DEF _finite_number

\* The width is refused exactly if it is more than 512 pixels on a board of height 700.
LEMMA Width ==
  ASSUME NEW w \in 1..144, NEW h \in Nat \ {0}, h < 10000
  PROVE  LET width == Nearest(w * REF_H * 100, h) IN
         (0 < width /\ width <= 512 * 100) <=> w * REF_H <= 512 * h
<1> DEFINE n == 140000 * w + h
           e == 2 * h
<1>1. n \in Int /\ e \in Nat \ {0}
  OBVIOUS
<1>2. e * 1 <= n
  OBVIOUS
<1>3. n < e * (51200 + 1) <=> w * 700 <= 512 * h
  OBVIOUS
<1>4. Nearest(w * REF_H * 100, h) = n \div e
  <2>1. 2 * (w * 700 * 100) + h = 140000 * w + h
    OBVIOUS
  <2> QED BY <2>1 DEF Nearest, REF_H
<1> HIDE DEF n, e
<1>5. n \div e <= 51200 <=> n < e * (51200 + 1)
  BY <1>1, Quotient
<1>6. 1 <= n \div e <=> e * 1 <= n
  BY <1>1, Quotient
<1>7. n \div e \in Int
  BY <1>1, Quotient
<1> QED BY <1>2, <1>3, <1>4, <1>5, <1>6, <1>7 DEF REF_H

-----------------------------------------------------------------------------
\* The least and the greatest of two.
LEMMA MinMax ==
  ASSUME NEW a \in Int, NEW b \in Int
  PROVE  /\ Min({a, b}) = IF a <= b THEN a ELSE b
         /\ Max({a, b}) = IF a <= b THEN b ELSE a
<1>1. \A x : x = Min({a, b}) => x \in {a, b} /\ \A y \in {a, b} : x <= y
  <2> DEFINE P(x) == x \in {a, b} /\ \A y \in {a, b} : x <= y
  <2>1. \E x : P(x)
    BY a <= b \/ b <= a
  <2>2. P(CHOOSE x : P(x))
    BY <2>1, Zenon
  <2> QED BY <2>2 DEF Min
<1>2. \A x : x = Max({a, b}) => x \in {a, b} /\ \A y \in {a, b} : x >= y
  <2> DEFINE P(x) == x \in {a, b} /\ \A y \in {a, b} : x >= y
  <2>1. \E x : P(x)
    BY a <= b \/ b <= a
  <2>2. P(CHOOSE x : P(x))
    BY <2>1, Zenon
  <2> QED BY <2>2 DEF Max
<1> QED BY <1>1, <1>2

\* The handshake admits whom the property names.
LEMMA Admitted ==
  ASSUME NEW v \in Visits
  PROVE  ws_origin_allowed(v) <=> v.native \/ Own(v) \/ Listed(v)
<1>1. v \in Visit /\ v.server \in Address /\ (v.native \/ v.page.host = "none" \/ v.page \in Address)
  BY GestureAssumption
<1>2. CASE v.native
  BY <1>2 DEF ws_origin_allowed
<1>3. CASE ~v.native /\ v.page.host = "none"
  <2>1. v.page # Seen(v)
    <3>1. Seen(v).host = v.server.host
      BY <1>1 DEF Seen, Address, Authority
    <3> QED BY <1>1, <1>3, <3>1 DEF Address
  <2>2. ~Listed(v)
    BY <1>3, GestureAssumption DEF Listed
  <2>3. _endpoint(v.page.scheme, Written(v.page)) = NoEndpoint
    BY <1>1, <1>3 DEF _endpoint, Written, Visit, Authority
  <2> QED BY <1>3, <2>1, <2>2, <2>3 DEF ws_origin_allowed, Own
<1>4. CASE ~v.native /\ v.page \in Address
  <2> DEFINE origin == _endpoint(v.page.scheme, Written(v.page))
  <2>1. origin = v.page /\ origin # NoEndpoint
    BY <1>1, <1>4 DEF _endpoint, Written, Visit, Authority, Address, _scheme, _DEFAULT_PORTS, NoEndpoint
  <2>2. _endpoint(IF v.offload THEN "ws" ELSE v.server.scheme, Written(v.server)) = Seen(v)
    <3>1. PICK host \in STRING, port \in Nat :
            /\ v.server \in {[scheme |-> "http", host |-> host, port |-> port],
                             [scheme |-> "https", host |-> host, port |-> port]}
            /\ host # "none" /\ port # 0
      BY <1>1 DEF Address, Authority
    <3>2. CASE v.server = [scheme |-> "http", host |-> host, port |-> port]
      BY <3>1, <3>2 DEF _endpoint, Written, _scheme, _DEFAULT_PORTS, Seen
    <3>3. CASE v.server = [scheme |-> "https", host |-> host, port |-> port]
      <4>1. Written(v.server) = [scheme |-> "https", host |-> host,
                                  port |-> IF port = 443 THEN 0 ELSE port]
        BY <3>3 DEF Written, _scheme, _DEFAULT_PORTS
      <4>2. Seen(v) = IF v.offload
                        THEN [scheme |-> "http", host |-> host,
                              port |-> IF port = 443 THEN 80 ELSE port]
                        ELSE v.server
        BY <3>3 DEF Seen
      <4>3. _endpoint("ws", Written(v.server)) =
              [scheme |-> "http", host |-> host, port |-> IF port = 443 THEN 80 ELSE port]
        BY <3>1, <4>1 DEF _endpoint, _scheme, _DEFAULT_PORTS
      <4>4. _endpoint("https", Written(v.server)) = v.server
        BY <3>1, <3>3, <4>1 DEF _endpoint, _scheme, _DEFAULT_PORTS
      <4> QED BY <3>3, <4>2, <4>3, <4>4
    <3> QED BY <3>1, <3>2, <3>3
  <2>3. ASSUME NEW t \in TRUSTED
        PROVE  origin = _endpoint(IF t.scheme = "none" THEN "https" ELSE t.scheme, t) <=>
                 /\ t.host = v.page.host
                 /\ v.page.scheme = IF t.scheme = "none" THEN "https" ELSE t.scheme
                 /\ t.port \in {0, v.page.port} /\ (t.port = 0 => Written(v.page).port = 0)
    BY <1>1, <1>4, <2>1, GestureAssumption
       DEF _endpoint, Written, Visit, Authority, Address, _scheme, _DEFAULT_PORTS
  <2> QED BY <1>4, <2>1, <2>2, <2>3 DEF ws_origin_allowed, Own, Listed
<1> QED BY <1>1, <1>2, <1>3, <1>4

-----------------------------------------------------------------------------
\* A stroke under the pointer.
IsGesture(s) ==
  /\ s.tool \in VALID_TOOLS /\ s.pen \in Pens
  /\ s.from \in Pixels /\ s.to \in Pixels /\ s.path \subseteq Pixels
  /\ s.count \in Nat /\ 2 <= s.count

\* The record of a stroke that has ended.
Ended(s, answer) ==
  [NoGesture EXCEPT !.tool = s.tool, !.pen = s.pen, !.box = Box(s.from, s.to),
     !.count = s.count, !.path = s.path, !.answer = answer, !.paper = paper, !.page = page]

GestureInv ==
  /\ GestureTypeOK /\ visit \in Visits
  /\ stroke = NoStroke \/ IsGesture(stroke)
  /\ HeardAsDrawn

\* The size of a box is never negative, whichever way it was drawn.
LEMMA Boxes ==
  ASSUME NEW a \in Pixels, NEW b \in Pixels
  PROVE  LET box == Box(a, b) IN
         box \in [left : Int, top : Int, w : Nat, h : Nat]
<1>1. a[1] \in Int /\ a[2] \in Int /\ b[1] \in Int /\ b[2] \in Int
  BY GestureAssumption
<1> QED BY <1>1, MinMax DEF Box

\* The assumption, in parts.
LEMMA Bounds ==
  /\ \A c \in Canvases : c.w \in Nat \ {0} /\ c.h \in Nat \ {0} /\ c.w < 10000 /\ c.h < 10000
  /\ \A p \in Pixels : p[1] \in Int /\ p[2] \in Int
  /\ Pens \subseteq 1..24
  /\ {POINTS_MAX, OP_FITS, FRAME_FITS, PAGE_MAX} \subseteq Nat \ {0}
  /\ 2 <= POINTS_MAX /\ 2 <= OP_FITS /\ OP_FITS <= FRAME_FITS
<1>1. Canvases \subseteq [w : Nat \ {0}, h : Nat \ {0}]
  BY GestureAssumption
<1>2. \A c \in Canvases : c.w < 10000 /\ c.h < 10000
  BY GestureAssumption
<1>3. Pixels \subseteq Int \X Int
  BY GestureAssumption
<1>4. Pens \subseteq 1..24
  BY GestureAssumption
<1>5. {POINTS_MAX, OP_FITS, FRAME_FITS, PAGE_MAX} \subseteq Nat \ {0}
  BY GestureAssumption
<1>6. 2 <= POINTS_MAX /\ 2 <= OP_FITS /\ OP_FITS <= FRAME_FITS
  BY GestureAssumption
<1>7. \A c \in Canvases : c.w \in Nat \ {0} /\ c.h \in Nat \ {0} /\ c.w < 10000 /\ c.h < 10000
  BY <1>1, <1>2
<1>8. \A p \in Pixels : p[1] \in Int /\ p[2] \in Int
  BY <1>3
<1> QED BY <1>4, <1>5, <1>6, <1>7, <1>8

\* A stroke or a shape is valid if and only if it stays within the limits.
LEMMA Strokes ==
  ASSUME NEW s, IsGesture(s), paper \in Canvases, page \in Nat \ {0}, NEW answer
  PROVE  _valid_op(_serialize(s)) <=> WithinLimits(Ended(s, answer))
<1> DEFINE op == _serialize(s)
           g == Ended(s, answer)
           box == Box(s.from, s.to)
<1>1. /\ paper.w \in Nat \ {0} /\ paper.h \in Nat \ {0}
      /\ paper.w < 10000 /\ paper.h < 10000
  BY Bounds
<1>2. box \in [left : Int, top : Int, w : Nat, h : Nat]
  BY Boxes DEF IsGesture
<1>3. s.pen \in 1..24 /\ s.tool \in VALID_TOOLS /\ s.count \in Nat /\ 2 <= s.count
      /\ \A p \in s.path : p[1] \in Int /\ p[2] \in Int
  <2>1. s.pen \in Pens /\ s.tool \in VALID_TOOLS /\ s.count \in Nat /\ 2 <= s.count
        /\ s.path \subseteq Pixels
    BY DEF IsGesture
  <2>2. s.pen \in 1..24
    <3>1. Pens \subseteq 1..24
      BY Bounds
    <3> QED BY <2>1, <3>1
  <2>3. \A p \in s.path : p[1] \in Int /\ p[2] \in Int
    BY <2>1, Bounds
  <2> QED BY <2>1, <2>2, <2>3
<1>4. /\ g.tool = s.tool /\ g.pen = s.pen /\ g.box = box /\ g.count = s.count
      /\ g.path = s.path /\ g.paper = paper /\ g.page = page
  BY DEF Ended, NoGesture
<1>5. /\ op.type = "draw" /\ op.tool = s.tool /\ op.page = page
      /\ op.width = Nearest(StrokeWidth(s) * REF_H * 100, paper.h) /\ "width" \in DOMAIN op
      /\ op.count = IF s.tool \in Boxed THEN 0 ELSE IF s.tool \in Freehand THEN s.count ELSE 2
  BY DEF _serialize
<1>5a. op.at = IF s.tool \in Boxed THEN {nx(box.left), ny(box.top)}
                 ELSE { nx(p[1]) : p \in s.path } \cup { ny(p[2]) : p \in s.path }
  BY DEF _serialize
<1>5b. s.tool = "rectangle" =>
         op.size = {Nearest(box.w * UNIT, paper.w), Nearest(box.h * UNIT, paper.h)}
  <2> SUFFICES ASSUME s.tool = "rectangle"
               PROVE  op.size = {Nearest(box.w * UNIT, paper.w), Nearest(box.h * UNIT, paper.h)}
    OBVIOUS
  <2>1. op.size = {Nearest(box.w * UNIT, 1 * paper.w), Nearest(box.h * UNIT, 1 * paper.h)}
    BY DEF _serialize, Boxed
  <2>2. 1 * paper.w = paper.w /\ 1 * paper.h = paper.h
    BY <1>1
  <2> QED BY <2>1, <2>2
<1>5c. s.tool = "circle" =>
         op.size = {Nearest(box.w * UNIT, 2 * paper.w), Nearest(box.h * UNIT, 2 * paper.h)}
  BY DEF _serialize, Boxed
<1>5d. s.tool \notin Boxed => op.size = {}
  BY DEF _serialize
<1>6. StrokeWidth(g) = StrokeWidth(s) /\ StrokeWidth(s) \in 1..144
  BY <1>3, <1>4 DEF StrokeWidth
<1>7. (0 < op.width /\ op.width <= 512 * 100) <=> StrokeWidth(g) * REF_H <= 512 * paper.h
  <2>1. 0 < Nearest(StrokeWidth(s) * REF_H * 100, paper.h)
        /\ Nearest(StrokeWidth(s) * REF_H * 100, paper.h) <= 512 * 100
        <=> StrokeWidth(s) * REF_H <= 512 * paper.h
    BY <1>1, <1>6, Width
  <2> QED BY <1>5, <1>6, <2>1
<1>8. \A x \in Int : /\ _finite_number(nx(x)) <=> -2 * paper.w <= x /\ x <= 2 * paper.w
                     /\ _finite_number(ny(x)) <=> -2 * paper.h <= x /\ x <= 2 * paper.h
  BY <1>1, Share DEF nx, ny
<1> DEFINE W == 2 * paper.w
           H == 2 * paper.h
           OnPaper(x, y) == -W <= x /\ x <= W /\ -H <= y /\ y <= H
<1>9. (\A v \in op.at : _finite_number(v)) <=>
        IF s.tool \in Boxed THEN OnPaper(box.left, box.top)
        ELSE \A p \in s.path : OnPaper(p[1], p[2])
  <2>1. CASE s.tool \in Boxed
    BY <1>2, <1>5a, <1>8, <2>1
  <2>2. CASE s.tool \notin Boxed
    BY <1>3, <1>5a, <1>8, <2>2
  <2> QED BY <2>1, <2>2
<1>10. (\A v \in op.size : _finite_number(v) /\ v >= 0) <=>
         /\ s.tool = "rectangle" => OnPaper(box.w, box.h)
         /\ s.tool = "circle" => box.w <= 2 * W /\ box.h <= 2 * H
  <2>1. CASE s.tool = "rectangle"
    BY <1>1, <1>2, <1>5b, <2>1, Share
  <2>2. CASE s.tool = "circle"
    <3>1. /\ 2 * paper.w \in Nat \ {0} /\ 2 * paper.h \in Nat \ {0}
          /\ 2 * paper.w < 20000 /\ 2 * paper.h < 20000
      BY <1>1
    <3> QED BY <1>1, <1>2, <1>5c, <2>2, <3>1, Share
  <2>3. CASE s.tool \notin Boxed
    BY <1>5d, <2>3 DEF Boxed
  <2> QED BY <2>1, <2>2, <2>3 DEF Boxed
<1>11. (op.count <= OP_FITS /\ (op.tool \notin Boxed => 2 <= op.count /\ op.count <= POINTS_MAX)) <=>
         (s.tool \in Freehand => s.count <= POINTS_MAX /\ s.count <= OP_FITS)
  <2>1. POINTS_MAX \in Nat /\ OP_FITS \in Nat /\ 2 <= POINTS_MAX /\ 2 <= OP_FITS
    BY Bounds
  <2>2. Freehand \cap Boxed = {}
    BY DEF Freehand, Boxed
  <2> QED BY <1>3, <1>5, <2>1, <2>2
<1>12. op.page \in 1..PAGE_MAX <=> page <= PAGE_MAX
  BY <1>5, Bounds
<1> HIDE DEF op, g, box
<1>13. _valid_op(op) <=>
         /\ op.count <= OP_FITS /\ op.page \in 1..PAGE_MAX
         /\ 0 < op.width /\ op.width <= 512 * 100
         /\ \A v \in op.at : _finite_number(v)
         /\ \A v \in op.size : _finite_number(v) /\ v >= 0
         /\ op.tool \notin Boxed => 2 <= op.count /\ op.count <= POINTS_MAX
  BY <1>3, <1>5 DEF _valid_op
<1>14. WithinLimits(g) <=>
         /\ page <= PAGE_MAX /\ StrokeWidth(g) * REF_H <= 512 * paper.h
         /\ s.tool \in Freehand => s.count <= POINTS_MAX /\ s.count <= OP_FITS
         /\ IF s.tool \in Boxed THEN OnPaper(box.left, box.top)
            ELSE \A p \in s.path : OnPaper(p[1], p[2])
         /\ s.tool = "rectangle" => OnPaper(box.w, box.h)
         /\ s.tool = "circle" => box.w <= 2 * W /\ box.h <= 2 * H
  BY <1>3, <1>4 DEF WithinLimits
<1>15. _valid_op(op) <=> WithinLimits(g)
  BY <1>7, <1>9, <1>10, <1>11, <1>12, <1>13, <1>14
<1> QED BY <1>15 DEF op, g

\* So is an operation of one position.
LEMMA Points ==
  ASSUME NEW type \in {"text", "laser"}, NEW p \in Pixels, paper \in Canvases, page \in Nat \ {0},
         NEW answer
  PROVE  _valid_op(PointOp(type, p)) <=>
           WithinLimits([NoGesture EXCEPT !.tool = type, !.path = {p}, !.answer = answer,
                           !.paper = paper, !.page = page])
<1> DEFINE op == PointOp(type, p)
           g == [NoGesture EXCEPT !.tool = type, !.path = {p}, !.answer = answer,
                   !.paper = paper, !.page = page]
<1>1. /\ paper.w \in Nat \ {0} /\ paper.h \in Nat \ {0}
      /\ paper.w < 10000 /\ paper.h < 10000 /\ p[1] \in Int /\ p[2] \in Int
  BY Bounds
<1>2. /\ g.tool = type /\ g.path = {p} /\ g.paper = paper /\ g.page = page
  BY DEF NoGesture
<1>3. /\ op.type = type /\ op.page = page /\ op.count = 0 /\ op.at = {nx(p[1]), ny(p[2])}
      /\ op.size = {} /\ DOMAIN op = {"type", "page", "count", "at", "size"}
  BY DEF PointOp, PageOp
<1>4. \A x \in Int : /\ _finite_number(nx(x)) <=> -2 * paper.w <= x /\ x <= 2 * paper.w
                     /\ _finite_number(ny(x)) <=> -2 * paper.h <= x /\ x <= 2 * paper.h
  BY <1>1, Share DEF nx, ny
<1>5. op.page \in 1..PAGE_MAX <=> page <= PAGE_MAX
  BY <1>3, Bounds
<1>6. 0 <= OP_FITS
  BY Bounds
<1> HIDE DEF op, g
<1>7. _valid_op(op) <=> op.page \in 1..PAGE_MAX /\ \A v \in op.at : _finite_number(v)
  BY <1>3, <1>6 DEF _valid_op
<1>8. WithinLimits(g) <=>
        /\ page <= PAGE_MAX
        /\ -(2 * paper.w) <= p[1] /\ p[1] <= 2 * paper.w
        /\ -(2 * paper.h) <= p[2] /\ p[2] <= 2 * paper.h
  BY <1>2 DEF WithinLimits, VALID_TOOLS, Freehand, Boxed
<1>9. _valid_op(op) <=> WithinLimits(g)
  BY <1>1, <1>3, <1>4, <1>5, <1>7, <1>8
<1> QED BY <1>9 DEF op, g

\* And one that adds a page or goes to it.
LEMMA Pages ==
  ASSUME NEW n \in Nat \ {0}, NEW type \in {"page_add", "page_go"}, type = "page_add" => n >= 2,
         NEW answer
  PROVE  _valid_op(PageOp(type, n)) <=>
           WithinLimits([NoGesture EXCEPT !.tool = "page", !.answer = answer, !.paper = paper,
                           !.page = n])
<1> DEFINE op == PageOp(type, n)
           g == [NoGesture EXCEPT !.tool = "page", !.answer = answer, !.paper = paper, !.page = n]
<1>1. g.tool = "page" /\ g.path = {} /\ g.page = n
  BY DEF NoGesture
<1>2. /\ op.type = type /\ op.page = n /\ op.count = 0 /\ op.at = {}
      /\ op.size = {} /\ DOMAIN op = {"type", "page", "count", "at", "size"}
  BY DEF PageOp
<1>3. op.page \in 1..PAGE_MAX <=> n <= PAGE_MAX
  BY <1>2, Bounds
<1>4. 0 <= OP_FITS
  BY Bounds
<1> HIDE DEF op, g
<1>5. _valid_op(op) <=> op.page \in 1..PAGE_MAX
  BY <1>2, <1>4 DEF _valid_op
<1>6. WithinLimits(g) <=> n <= PAGE_MAX
  BY <1>1 DEF WithinLimits, VALID_TOOLS, Freehand, Boxed
<1> QED BY <1>3, <1>5, <1>6 DEF op, g

\* What is accepted is what is valid: it fits into a frame.
LEMMA Answered ==
  ASSUME NEW op, op.count \in Nat
  PROVE  /\ receive(op) \in {"accepted", "refused", "closed"}
         /\ receive(op) = "accepted" <=> _valid_op(op)
<1>1. OP_FITS \in Nat /\ FRAME_FITS \in Nat /\ OP_FITS <= FRAME_FITS
  BY Bounds
<1>2. _valid_op(op) => op.count <= FRAME_FITS
  BY <1>1 DEF _valid_op
<1>3. op.count > FRAME_FITS <=> ~(op.count <= FRAME_FITS)
  BY <1>1
<1> QED BY <1>2, <1>3 DEF receive

-----------------------------------------------------------------------------
LEMMA NoGestureIsIn == NoGesture.answer = "unsent" /\ ~IsGesture(NoStroke) /\ NoStroke.tool = "none"
                       /\ NoStroke.path = {}
  BY DEF NoGesture, NoStroke, IsGesture, VALID_TOOLS, Freehand

LEMMA GestureStart == GestureInit => GestureInv
<1> SUFFICES ASSUME GestureInit PROVE GestureInv
  OBVIOUS
<1>1. visit \in Visits
  BY GestureAssumption DEF GestureInit
<1> QED BY <1>1, NoGestureIsIn DEF GestureInit, GestureInv, GestureTypeOK, HeardAsDrawn

\* _sendOp of a judged operation.
LEMMA SendKeeps ==
  ASSUME GestureInv, NEW gesture, NEW op, op.count \in Nat, _sendOp(gesture, op),
         {"answer", "paper", "page"} \subseteq DOMAIN gesture,
         \A answer : _valid_op(op) <=>
           WithinLimits([gesture EXCEPT !.answer = answer, !.paper = paper, !.page = op.page]),
         visit' = visit
  PROVE  /\ sock' \in {"none", "open", "rejected", "closed"}
         /\ last'.answer \in {"unsent", "accepted", "refused", "closed"}
         /\ HeardAsDrawn'
<1> DEFINE answer == IF sock = "open" THEN receive(op) ELSE "unsent"
           g == [gesture EXCEPT !.answer = answer, !.paper = paper, !.page = op.page]
<1>1. last' = g /\ sock' = IF answer = "closed" THEN "closed" ELSE sock
  BY DEF _sendOp
<1>2. g.answer = answer
  OBVIOUS
<1>3. answer \in {"unsent", "accepted", "refused", "closed"}
      /\ (answer # "unsent" => (answer = "accepted" <=> _valid_op(op)))
  BY Answered
<1>4. _valid_op(op) <=> WithinLimits(g)
  OBVIOUS
<1>5. WithinLimits(g) \in BOOLEAN /\ WithinLimits(last') = WithinLimits(last)'
  BY DEF WithinLimits
<1> HIDE DEF answer, g
<1>6. sock' \in {"none", "open", "rejected", "closed"} /\ (sock' # sock => sock' = "closed")
  BY <1>1 DEF GestureInv, GestureTypeOK
<1>7. last'.answer # "unsent" => (last'.answer = "accepted") = WithinLimits(last')
  BY <1>1, <1>2, <1>3, <1>4, <1>5
<1>8. sock' = "open" => visit.native \/ Own(visit) \/ Listed(visit)
  BY <1>6 DEF GestureInv, HeardAsDrawn
<1>9. sock' = "rejected" => ~visit.native /\ ~Own(visit) /\ ~Listed(visit)
  BY <1>6 DEF GestureInv, HeardAsDrawn
<1> QED BY <1>1, <1>2, <1>3, <1>5, <1>6, <1>7, <1>8, <1>9 DEF HeardAsDrawn

LEMMA GestureStep == GestureInv /\ [GestureNext]_gestureVars => GestureInv'
<1> SUFFICES ASSUME GestureInv, [GestureNext]_gestureVars PROVE GestureInv'
  OBVIOUS
<1> USE DEF GestureInv, GestureTypeOK
<1>t. paper \in Canvases /\ page \in Nat \ {0} /\ pageCount \in Nat \ {0} /\ page <= pageCount
  OBVIOUS
<1>d. DOMAIN NoGesture = {"tool", "pen", "box", "count", "path", "paper", "page", "answer"}
  BY DEF NoGesture
<1>1. CASE Open
  <2>1. UNCHANGED <<visit, paper, page, pageCount, stroke, last>>
    BY <1>1 DEF Open
  <2>2. sock' \in {"open", "rejected"} /\ (sock' = "open" <=> ws_origin_allowed(visit))
    BY <1>1 DEF Open
  <2>3. HeardAsDrawn'
    BY <2>1, <2>2, Admitted DEF HeardAsDrawn
  <2> QED BY <2>1, <2>2, <2>3
<1>2. CASE _up
  <2> DEFINE g == [NoGesture EXCEPT !.tool = stroke.tool, !.pen = stroke.pen,
                     !.box = Box(stroke.from, stroke.to), !.count = stroke.count,
                     !.path = stroke.path]
             op == _serialize(stroke)
  <2>1. IsGesture(stroke) /\ stroke' = NoStroke /\ UNCHANGED <<visit, paper, page, pageCount>>
        /\ _sendOp(g, op)
    BY <1>2 DEF _up
  <2>2. DOMAIN g = DOMAIN NoGesture /\ op.page = page
    BY DEF NoGesture, _serialize
  <2>3. \A answer : [g EXCEPT !.answer = answer, !.paper = paper, !.page = op.page]
                      = Ended(stroke, answer)
    BY <2>2 DEF Ended, NoGesture
  <2>4. ASSUME NEW answer
        PROVE  _valid_op(op) <=>
                 WithinLimits([g EXCEPT !.answer = answer, !.paper = paper, !.page = op.page])
    <3>1. _valid_op(_serialize(stroke)) <=> WithinLimits(Ended(stroke, answer))
      BY <2>1, <1>t, Strokes
    <3>2. [g EXCEPT !.answer = answer, !.paper = paper, !.page = op.page] = Ended(stroke, answer)
      BY <2>3
    <3> HIDE DEF g
    <3> QED BY <3>1, <3>2
  <2>5. op.count \in Nat
    BY <2>1 DEF _serialize, IsGesture
  <2> HIDE DEF g, op
  <2>6. /\ sock' \in {"none", "open", "rejected", "closed"} /\ HeardAsDrawn'
        /\ last'.answer \in {"unsent", "accepted", "refused", "closed"}
    BY <2>1, <2>2, <2>4, <2>5, <1>d, SendKeeps
  <2> QED BY <2>1, <2>6, <1>t, NoGestureIsIn
<1>3. CASE addPage
  <2> DEFINE g == [NoGesture EXCEPT !.tool = "page"]
             op == PageOp("page_add", pageCount + 1)
  <2>1. /\ _sendOp(g, op) /\ pageCount' = pageCount + 1 /\ page' = pageCount + 1
        /\ UNCHANGED <<visit, paper, stroke>>
    BY <1>3 DEF addPage
  <2>2. DOMAIN g = DOMAIN NoGesture /\ op.page = pageCount + 1 /\ op.count \in Nat
    BY DEF NoGesture, PageOp
  <2>3. \A answer : [g EXCEPT !.answer = answer, !.paper = paper, !.page = op.page] =
          [NoGesture EXCEPT !.tool = "page", !.answer = answer, !.paper = paper,
             !.page = pageCount + 1]
    BY <2>2 DEF NoGesture
  <2>4. ASSUME NEW answer
        PROVE  _valid_op(op) <=>
                 WithinLimits([g EXCEPT !.answer = answer, !.paper = paper, !.page = op.page])
    <3>1. _valid_op(PageOp("page_add", pageCount + 1)) <=>
            WithinLimits([NoGesture EXCEPT !.tool = "page", !.answer = answer, !.paper = paper,
                            !.page = pageCount + 1])
      <4>1. pageCount + 1 \in Nat \ {0} /\ pageCount + 1 >= 2
        BY <1>t
      <4> QED BY <4>1, Pages
    <3>2. [g EXCEPT !.answer = answer, !.paper = paper, !.page = op.page] =
            [NoGesture EXCEPT !.tool = "page", !.answer = answer, !.paper = paper,
               !.page = pageCount + 1]
      BY <2>3
    <3> HIDE DEF g
    <3> QED BY <3>1, <3>2
  <2> HIDE DEF g, op
  <2>6. /\ sock' \in {"none", "open", "rejected", "closed"} /\ HeardAsDrawn'
        /\ last'.answer \in {"unsent", "accepted", "refused", "closed"}
    BY <2>1, <2>2, <2>4, <1>d, SendKeeps
  <2> QED BY <2>1, <2>6, <1>t DEF IsGesture
<1>4. ASSUME NEW tool \in VALID_TOOLS, NEW pen \in Pens, NEW p \in Pixels, _down(tool, pen, p)
      PROVE  GestureInv'
  <2>1. stroke' = [tool |-> tool, pen |-> pen, from |-> p, to |-> p, count |-> 2, path |-> {p}]
        /\ UNCHANGED <<visit, sock, paper, page, pageCount, last>>
    BY <1>4 DEF _down
  <2>2. IsGesture(stroke')
    BY <2>1 DEF IsGesture
  <2>3. IsGesture(stroke)'
    BY <2>2 DEF IsGesture
  <2> QED BY <2>1, <2>3 DEF HeardAsDrawn, IsGesture
<1>5. ASSUME NEW p \in Pixels, _move(p)
      PROVE  GestureInv'
  <2>1. IsGesture(stroke) /\ UNCHANGED <<visit, sock, paper, page, pageCount, last>>
        /\ stroke' = IF stroke.tool \in Freehand
                 THEN [stroke EXCEPT !.to = p, !.count = @ + 1, !.path = @ \cup {p}]
                 ELSE [stroke EXCEPT !.to = p, !.path = {stroke.from, p}]
    BY <1>5 DEF _move
  <2>2. IsGesture(stroke)'
    BY <2>1 DEF IsGesture
  <2> QED BY <2>1, <2>2 DEF HeardAsDrawn, IsGesture
<1>6. ASSUME NEW p \in Pixels, NEW type \in {"text", "laser"}, Point(type, p)
      PROVE  GestureInv'
  <2> DEFINE g == [NoGesture EXCEPT !.tool = type, !.path = {p}]
             op == PointOp(type, p)
  <2>1. _sendOp(g, op) /\ UNCHANGED <<visit, paper, page, pageCount, stroke>>
    BY <1>6 DEF Point
  <2>2. DOMAIN g = DOMAIN NoGesture /\ op.page = page /\ op.count \in Nat
    BY DEF NoGesture, PointOp, PageOp
  <2>3. \A answer : [g EXCEPT !.answer = answer, !.paper = paper, !.page = op.page] =
          [NoGesture EXCEPT !.tool = type, !.path = {p}, !.answer = answer, !.paper = paper,
             !.page = page]
    BY <2>2 DEF NoGesture
  <2>4. ASSUME NEW answer
        PROVE  _valid_op(op) <=>
                 WithinLimits([g EXCEPT !.answer = answer, !.paper = paper, !.page = op.page])
    <3>1. _valid_op(PointOp(type, p)) <=>
            WithinLimits([NoGesture EXCEPT !.tool = type, !.path = {p}, !.answer = answer,
                            !.paper = paper, !.page = page])
      BY <1>t, Points
    <3>2. [g EXCEPT !.answer = answer, !.paper = paper, !.page = op.page] =
            [NoGesture EXCEPT !.tool = type, !.path = {p}, !.answer = answer,
               !.paper = paper, !.page = page]
      BY <2>3
    <3> HIDE DEF g
    <3> QED BY <3>1, <3>2
  <2> HIDE DEF g, op
  <2>6. /\ sock' \in {"none", "open", "rejected", "closed"} /\ HeardAsDrawn'
        /\ last'.answer \in {"unsent", "accepted", "refused", "closed"}
    BY <2>1, <2>2, <2>4, <1>d, SendKeeps
  <2> QED BY <2>1, <2>6, <1>t DEF IsGesture
<1>7. ASSUME NEW n \in 1..pageCount, NEW broadcast \in BOOLEAN, setPage(n, broadcast)
      PROVE  GestureInv'
  <2>1. page' = n /\ UNCHANGED <<visit, paper, pageCount, stroke>>
    BY <1>7 DEF setPage
  <2>2. /\ sock' \in {"none", "open", "rejected", "closed"} /\ HeardAsDrawn'
        /\ last'.answer \in {"unsent", "accepted", "refused", "closed"}
    <3>1. CASE UNCHANGED <<last, sock>>
      BY <2>1, <3>1 DEF HeardAsDrawn
    <3>2. CASE _sendOp([NoGesture EXCEPT !.tool = "page"], PageOp("page_go", n))
      <4> DEFINE g == [NoGesture EXCEPT !.tool = "page"]
                 op == PageOp("page_go", n)
      <4>2. DOMAIN g = DOMAIN NoGesture /\ op.page = n /\ op.count \in Nat
        BY DEF NoGesture, PageOp
      <4>3. \A answer : [g EXCEPT !.answer = answer, !.paper = paper, !.page = op.page] =
              [NoGesture EXCEPT !.tool = "page", !.answer = answer, !.paper = paper, !.page = n]
        BY <4>2 DEF NoGesture
      <4>4. ASSUME NEW answer
            PROVE  _valid_op(op) <=>
                     WithinLimits([g EXCEPT !.answer = answer, !.paper = paper, !.page = op.page])
        <5>1. _valid_op(PageOp("page_go", n)) <=>
                WithinLimits([NoGesture EXCEPT !.tool = "page", !.answer = answer,
                                !.paper = paper, !.page = n])
          <6>1. n \in Nat \ {0} /\ "page_go" # "page_add"
            BY <1>t
          <6> QED BY <6>1, Pages
        <5>2. [g EXCEPT !.answer = answer, !.paper = paper, !.page = op.page] =
                [NoGesture EXCEPT !.tool = "page", !.answer = answer, !.paper = paper, !.page = n]
          BY <4>3
        <5> HIDE DEF g
        <5> QED BY <5>1, <5>2
      <4>5. _sendOp(g, op)
        BY <3>2
      <4> HIDE DEF g, op
      <4> QED BY <2>1, <4>2, <4>4, <4>5, <1>d, SendKeeps
    <3> QED BY <1>7, <3>1, <3>2 DEF setPage
  <2> QED BY <2>1, <2>2, <1>t DEF IsGesture
<1>8. ASSUME NEW size \in Canvases, resize(size)
      PROVE  GestureInv'
  <2>1. paper' = size /\ UNCHANGED <<visit, sock, page, pageCount, stroke, last>>
    BY <1>8 DEF resize
  <2> QED BY <2>1 DEF HeardAsDrawn, IsGesture
<1>9. CASE UNCHANGED gestureVars
  BY <1>9 DEF gestureVars, HeardAsDrawn, IsGesture
<1> QED BY <1>1, <1>2, <1>3, <1>4, <1>5, <1>6, <1>7, <1>8, <1>9 DEF GestureNext

\* The inductive invariant of gestures: the stroke under the pointer has positions, a pen
\* and at least two points, the pages exist, and the property below.
THEOREM GestureInductive == GestureSpec => []GestureInv
<1> QED BY GestureStart, GestureStep, PTL DEF GestureSpec

\* For any canvas below 10000 pixels, any positions and any sequence of moves, resizes
\* and turns of the page: a gesture is accepted if and only if it stays within the limits
\* (_valid_op, receive), and a page is connected if and only if it is the server's own or
\* listed (ws_origin_allowed).
THEOREM WhatIsDrawnIsHeard == GestureSpec => []HeardAsDrawn
<1>1. GestureInv => HeardAsDrawn
  BY DEF GestureInv
<1> QED BY <1>1, GestureInductive, PTL
=============================================================================
