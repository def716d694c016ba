----------------------------- MODULE Whiteboard -----------------------------
(***************************************************************************)
(* The shared whiteboard: WhiteboardConsumer and the WhiteboardEvent table *)
(* on the server, whiteboard.js and presentation.js in the browsers.       *)
(*                                                                         *)
(* A browser applies its own operation at once and sends it.  The consumer *)
(* of the tab inserts a row (whose id is the operation's sequence number), *)
(* commits, and publishes the operation to the group.  Every consumer      *)
(* drops what is not newer than its last_seq and sends the rest to its     *)
(* browser, which ignores the operations of its own user.  A consumer      *)
(* handles one message at a time, and the table may be written by several  *)
(* consumers at once, so ids may be committed out of order.                *)
(*                                                                         *)
(* A strip of stroke points, a text, a colour and a grid are just the id   *)
(* of the operation that brought them.  Lasers change no state.            *)
(***************************************************************************)
EXTENDS Integers, SequencesExt

CONSTANTS
  Sock,          \* WebSockets: one per whiteboard, one per presentation view
  Member,
  Who,           \* [Sock -> Member]: the identity behind a socket
  View,          \* [Sock -> 0 for whiteboard.js, or the file a presentation shows]
  MaxPage,       \* bound: pages of a board or a file
  MaxOps,        \* bound: operations the browsers make altogether
  Plans,         \* bound: what is done in a behaviour, see `plan'
  CanDraw,       \* the sockets of users who have the permission to draw
  HISTORY_LIMIT  \* newest events a snapshot holds

ASSUME BoardAssumption ==
  /\ Who \in [Sock -> Member]
  /\ View \in [Sock -> Nat]
  /\ MaxPage \in Nat \ {0}
  /\ MaxOps \in Nat
  /\ HISTORY_LIMIT \in Nat \ {0}
  /\ CanDraw \subseteq Sock

Page == 1..MaxPage
Kind == {"draw", "remove", "clear", "page_add", "page_setup", "page_go"}
Id   == 0..MaxOps
Op   == [kind : Kind, id : Id, page : Page, file : { View[s] : s \in Sock }]

ASSUME PlansAssumption ==
  Plans \subseteq [clicks : [Sock -> SUBSET Kind], steady : SUBSET Sock, restless : SUBSET Sock]

VARIABLES
  log,      \* the operations inserted: log[n] is the WhiteboardEvent with id n
  author,   \* author[n]: the socket it came from
  kept,     \* the committed rows that no clear has deleted
  busy,     \* [Sock -> the operation receive_json is storing]
  conn,     \* [Sock -> the consumer: its state and last_seq]
  chan,     \* [Sock -> the events in its channel, not dispatched yet]
  out,      \* [Sock -> operations sent and not received by the consumer]
  tab,      \* [Sock -> the page's variables]
  made,     \* number of operations made by the browsers
  plan,     \* bound, see below
  seen      \* history, see below

boardVars == <<log, author, kept, busy, conn, chan, out, tab, made, plan, seen>>

(***************************************************************************)
(* `plan' says what may be done in this behaviour: the kinds of operation  *)
(* each user makes, the sockets that have connected before anything was    *)
(* drawn and stay, and those that come and go.                             *)
(*                                                                         *)
(* `seen' is history: `base' are the operations its snapshot stands for,   *)
(* `got' those whose event was sent to this browser since; `drew' says     *)
(* that it has made one of its own since, or had one on the way.           *)
(***************************************************************************)
Ghost == [base : SUBSET (1..MaxOps), got : SUBSET (1..MaxOps), drew : BOOLEAN]

Board == [page  : Page,
          count : Page,                      \* pageCount
          ops   : [Page -> SUBSET Id],       \* _pageOps, as the set of ids
          style : [Page -> Id]]              \* _pageColors and _pageGrid

Tab == [board : Board, undo : Seq([id : Id, page : Page]),
        redo : Seq([id : Id, page : Page])]

Idle == [phase |-> "idle", seq |-> 0, gone |-> {}, live |-> FALSE]

Busy == [phase : {"idle", "inserted", "committed"}, seq : 0..MaxOps,
         gone : SUBSET (1..MaxOps),          \* rows a clear is deleting
         live : BOOLEAN]                     \* its socket is still this one

Committed ==
  1..Len(log) \ { busy[s].seq : s \in { t \in Sock : busy[t].phase = "inserted" } }

SameScope(a, b) == a.page = b.page /\ a.file = b.file

Larger(a, b) == IF a < b THEN b ELSE a

-----------------------------------------------------------------------------
(* The browser: _applyOp of whiteboard.js, _receiveOp of presentation.js.  *)

\* Whether this page records op at all: file-tagged operations belong to the
\* presentation of that file, the others to the board.
Mine(s, op) == op.file = View[s]

\* While a history is replayed, page_go is not checked.
\* (also a mutant of _applyOp: a page that is not there yet is shown)
ApplyReplaying(b, op) ==
  LET grown == [b EXCEPT !.count = Larger(@, op.page)] IN
  CASE op.kind = "page_go"    -> [b EXCEPT !.page = op.page]
    [] op.kind = "page_add"   -> grown
    [] op.kind = "page_setup" -> [b EXCEPT !.style[op.page] = op.id]
    [] op.kind = "clear"      -> [grown EXCEPT !.ops[op.page] = {}]
    [] op.kind = "remove"     -> [grown EXCEPT !.ops[op.page] = @ \ {op.id}]
    [] op.kind = "draw"       -> [grown EXCEPT !.ops[op.page] = @ \cup {op.id}]

_applyOp(b, op) ==
  IF op.kind = "page_go" THEN [b EXCEPT !.page = IF op.page > b.count THEN b.count ELSE op.page]
  ELSE ApplyReplaying(b, op)

\* A clear of the visible page forgets what could be undone (the board only).
Applied(s, t, op) ==
  IF ~Mine(s, op) THEN t
  ELSE LET wipes == op.kind = "clear" /\ op.page = t.board.page /\ View[s] = 0 IN
       [t EXCEPT !.board = _applyOp(@, op),
                 !.undo = IF wipes THEN <<>> ELSE @,
                 !.redo = IF wipes THEN <<>> ELSE @]

\* The operations of these rows, one after the other.
Replay(s, b, rows) ==
  LET run[n \in 0..Len(log)] ==
        IF n = 0 THEN b
        ELSE IF n \in rows /\ Mine(s, log[n]) THEN ApplyReplaying(run[n - 1], log[n])
        ELSE run[n - 1]
  IN run[Len(log)]

Clamped(b) == [b EXCEPT !.page = IF @ > b.count THEN b.count ELSE @]

\* whiteboard_history: the recorded pages are dropped and the events replayed, and the
\* page is clamped at the end; pageCount and the undo lists stay.
\* (mutant: the pages are not emptied first)
ReplayOnTop(s, t, rows) == [t EXCEPT !.board = Clamped(Replay(s, @, rows))]

Emptied(b) == [b EXCEPT !.ops = [p \in Page |-> {}], !.style = [p \in Page |-> 0]]

Replayed(s, t, rows) == [t EXCEPT !.board = Clamped(Replay(s, Emptied(@), rows))]

-----------------------------------------------------------------------------
(* What a user does in the browser.  Each operation is applied locally and *)
(* sent if the socket is open; `ops' are the operations of one click.      *)

IsOpen(s) == conn[s].st \in {"grouped", "open"}

Click(s, t, ops) ==
  /\ made + Len(ops) <= MaxOps
  /\ ops[1].kind \in plan.clicks[s]
  /\ made' = made + Len(ops)
  /\ tab' = [tab EXCEPT ![s] = t]
  /\ out' = IF IsOpen(s) THEN [out EXCEPT ![s] = @ \o ops] ELSE out
  /\ seen' = [seen EXCEPT ![s].drew = TRUE]
  /\ UNCHANGED <<log, author, kept, busy, conn, chan, plan>>

NewOp(s, kind, page) == [kind |-> kind, id |-> made + 1, page |-> page, file |-> View[s]]

Visible(s) == tab[s].board.page

\* A finished stroke, shape or text.
Draw(s) ==
  LET op == NewOp(s, "draw", Visible(s)) IN
  /\ s \in CanDraw
  /\ Click(s, [Applied(s, tab[s], op) EXCEPT
                 !.undo = Append(@, [id |-> op.id, page |-> op.page]), !.redo = <<>>],
           <<op>>)

\* The whiteboard undoes this user's last operation of the visible page; the
\* presentation pops the last one and removes it from the visible page.
UndoIndex(s) ==
  IF View[s] = 0 THEN SelectLastInSeq(tab[s].undo, LAMBDA u : u.page = Visible(s))
                 ELSE Len(tab[s].undo)

Undo(s) ==
  LET i  == UndoIndex(s)
      op == [kind |-> "remove", id |-> tab[s].undo[i].id, page |-> Visible(s), file |-> View[s]]
  IN /\ s \in CanDraw
     /\ i # 0
     /\ Click(s, [Applied(s, tab[s], op) EXCEPT
                    !.undo = RemoveAt(@, i),
                    !.redo = IF View[s] = 0 THEN Append(@, tab[s].undo[i]) ELSE @],
              <<op>>)

Redo(s) ==
  LET i  == SelectLastInSeq(tab[s].redo, LAMBDA u : u.page = Visible(s))
      op == [kind |-> "draw", id |-> tab[s].redo[i].id, page |-> Visible(s), file |-> View[s]]
  IN /\ s \in CanDraw
     /\ View[s] = 0
     /\ i # 0
     /\ Click(s, [Applied(s, tab[s], op) EXCEPT
                    !.redo = RemoveAt(@, i), !.undo = Append(@, tab[s].redo[i])], <<op>>)

Clear(s) ==
  LET op == NewOp(s, "clear", Visible(s)) IN
  /\ s \in CanDraw
  /\ Click(s, Applied(s, tab[s], op), <<op>>)

PageSetup(s) ==
  LET op == NewOp(s, "page_setup", Visible(s)) IN
  /\ s \in CanDraw
  /\ View[s] = 0
  /\ Click(s, Applied(s, tab[s], op), <<op>>)

\* addPage: page_add, then setPage, which sends page_go.
AddPage(s) ==
  LET target == tab[s].board.count + 1
      add == NewOp(s, "page_add", target)
      go  == [add EXCEPT !.kind = "page_go"]
  IN /\ s \in CanDraw
     /\ View[s] = 0
     /\ target \in Page
     /\ Click(s, Applied(s, Applied(s, tab[s], add), go), <<add, go>>)

\* setPage by the buttons: shared by those who may draw, local for the others.
\* A presentation's pages do not travel over this socket.
SetPage(s, p) ==
  LET go == NewOp(s, "page_go", p) IN
  /\ p \in 1..tab[s].board.count /\ p # Visible(s)
  /\ "page_go" \in plan.clicks[s]
  /\ IF View[s] = 0 /\ s \in CanDraw
       THEN Click(s, Applied(s, tab[s], go), <<go>>)
       ELSE /\ tab' = [tab EXCEPT ![s].board.page = p]
            /\ UNCHANGED <<log, author, kept, busy, conn, chan, out, made, plan, seen>>

-----------------------------------------------------------------------------
(* connect() and disconnect().                                             *)

\* _load_membership, the two group_adds and accept().
JoinGroup(s) ==
  /\ s \in plan.restless
  /\ conn[s].st = "off"
  /\ conn' = [conn EXCEPT ![s] = [st |-> "grouped", last |-> 0]]
  /\ chan' = [chan EXCEPT ![s] = <<>>]
  /\ UNCHANGED <<log, author, kept, busy, out, tab, made, plan, seen>>

\* _load_history: the newest rows.
Newest == { n \in kept : Cardinality({ m \in kept : m >= n }) <= HISTORY_LIMIT }

\* The operations a snapshot stands for: if no row is cut off, all there were.
Snapshot == IF Cardinality(kept) <= HISTORY_LIMIT THEN Committed ELSE Newest

\* The whiteboard_history message, which the browser replays.
\* The tab's page of a presentation is moved by presentation_changed instead.
\* The watermark is the newest row of the snapshot.
\* (mutant: last_seq is not set from the snapshot)
LoadUnmarked(s) ==
  /\ conn[s].st = "grouped"
  /\ conn' = [conn EXCEPT ![s].st = "open"]
  /\ tab' = [tab EXCEPT ![s] = Replayed(s, @, Newest)]
  /\ seen' = [seen EXCEPT ![s] =
       [base |-> Snapshot,
        got  |-> {},
        drew |-> out[s] # <<>> \/ busy[s].phase = "inserted"]]
  /\ UNCHANGED <<log, author, kept, busy, chan, out, made, plan>>

LoadHistory(s) ==
  /\ conn[s].st = "grouped"
  /\ \E seq \in kept \cup {0} :
       /\ \A n \in kept : n <= seq
       /\ conn' = [conn EXCEPT ![s] = [st |-> "open", last |-> seq]]
  /\ tab' = [tab EXCEPT ![s] = Replayed(s, @, Newest)]
  /\ seen' = [seen EXCEPT ![s] =
       [base |-> Snapshot,
        got  |-> {},
        drew |-> out[s] # <<>> \/ busy[s].phase = "inserted"]]
  /\ UNCHANGED <<log, author, kept, busy, chan, out, made, plan>>

\* The connection breaks, or the member was removed: what is on the way is
\* lost, except the operation that receive_json has in hand.
Disconnect(s) ==
  /\ s \in plan.restless
  /\ conn[s].st # "off"
  /\ conn' = [conn EXCEPT ![s] = [st |-> "off", last |-> 0]]
  /\ chan' = [chan EXCEPT ![s] = <<>>]
  /\ out' = [out EXCEPT ![s] = <<>>]
  /\ busy' = [busy EXCEPT ![s].live = FALSE]
  /\ seen' = [seen EXCEPT ![s] = [@ EXCEPT !.base = {}, !.got = {}]]
  /\ UNCHANGED <<log, author, kept, tab, made, plan>>

-----------------------------------------------------------------------------
(* receive_json().                                                         *)

\* The rate limit drops silently; validation and both permission checks answer
\* with an error.  The browser undoes nothing in any of these cases.  Permissions
\* change at any time (module Membership), so this may happen to any operation.
Refuse(s) ==
  /\ conn[s].st = "open"
  /\ busy[s] = Idle
  /\ out[s] # <<>>
  /\ out' = [out EXCEPT ![s] = Tail(@)]
  /\ UNCHANGED <<log, author, kept, busy, conn, chan, tab, made, plan, seen>>

\* The rows a clear deletes: the same page, the same file or none, and neither
\* page_add nor page_setup.
\* (mutant: the page markers are deleted too)
CompactsMarkers(op) ==
  IF op.kind # "clear" THEN {} ELSE { n \in kept : SameScope(log[n], op) }

Compacts(op) ==
  IF op.kind # "clear" THEN {}
  ELSE { n \in kept : SameScope(log[n], op) /\ log[n].kind \notin {"page_add", "page_setup"} }

\* _persist up to the INSERT.  select_for_update makes the consumers of one
\* member wait for each other.
Insert(s) ==
  LET op == Head(out[s]) IN
  /\ conn[s].st = "open"
  /\ busy[s] = Idle
  /\ out[s] # <<>>
  /\ \A t \in Sock : Who[t] = Who[s] => busy[t].phase # "inserted"
  /\ log' = Append(log, op)
  /\ author' = Append(author, s)
  /\ busy' = [busy EXCEPT ![s] = [phase |-> "inserted", seq |-> Len(log) + 1,
                                  gone |-> Compacts(op), live |-> TRUE]]
  /\ out' = [out EXCEPT ![s] = Tail(@)]
  /\ UNCHANGED <<kept, conn, chan, tab, made, plan, seen>>

\* The transaction commits and receive_json sets last_seq.  The consumer does
\* nothing else in between; a tab that has reconnected has another consumer.
Commit(s) ==
  /\ busy[s].phase = "inserted"
  /\ kept' = (kept \ busy[s].gone) \cup {busy[s].seq}
  /\ busy' = [busy EXCEPT ![s].phase = "committed", ![s].gone = {}]
  /\ conn' = [conn EXCEPT ![s].last = IF busy[s].live THEN busy[s].seq ELSE @]
  /\ UNCHANGED <<log, author, chan, out, tab, made, plan, seen>>

\* group_send to every consumer in the group.
Publish(s) ==
  /\ busy[s].phase = "committed"
  /\ chan' = [t \in Sock |-> IF conn[t].st = "off" THEN chan[t]
                             ELSE Append(chan[t], busy[s].seq)]
  /\ busy' = [busy EXCEPT ![s] = Idle]
  /\ UNCHANGED <<log, author, kept, conn, out, tab, made, plan, seen>>

\* whiteboard_operation, and onmessage in the browser.  The way from consumer
\* to browser is not a step of its own: a click that crosses an operation on
\* that way is a click made just before it arrives and received afterwards.
\* (mutant: the guard against the snapshot race is off by one)
FreshOrSame(s, n) == n >= conn[s].last
Fresh(s, n) == n > conn[s].last

Dispatch(s) ==
  LET n == Head(chan[s]) IN
  /\ conn[s].st = "open"
  /\ busy[s] = Idle
  /\ chan[s] # <<>>
  /\ chan' = [chan EXCEPT ![s] = Tail(@)]
  /\ IF Fresh(s, n)
       THEN /\ conn' = [conn EXCEPT ![s].last = n]
            /\ tab' = [tab EXCEPT ![s] = IF Who[author[n]] = Who[s] THEN @
                                         ELSE Applied(s, @, log[n])]
            /\ seen' = [seen EXCEPT ![s].got = @ \cup {n}]
       ELSE UNCHANGED <<conn, tab, seen>>
  /\ UNCHANGED <<log, author, kept, busy, out, made, plan>>

-----------------------------------------------------------------------------
EmptyBoard(s) ==
  [page |-> 1, count |-> IF View[s] = 0 THEN 1 ELSE MaxPage,
   ops |-> [p \in Page |-> {}], style |-> [p \in Page |-> 0]]

BoardInit ==
  /\ plan \in Plans
  /\ log = <<>> /\ author = <<>> /\ kept = {}
  /\ busy = [s \in Sock |-> Idle]
  /\ conn = [s \in Sock |-> [st |-> IF s \in plan.steady THEN "open" ELSE "off", last |-> 0]]
  /\ chan = [s \in Sock |-> <<>>]
  /\ out = [s \in Sock |-> <<>>]
  /\ tab = [s \in Sock |-> [board |-> EmptyBoard(s), undo |-> <<>>, redo |-> <<>>]]
  /\ made = 0
  /\ seen = [s \in Sock |-> [base |-> {}, got |-> {}, drew |-> FALSE]]

Browser(s) ==
  \/ Draw(s) \/ Undo(s) \/ Redo(s) \/ Clear(s) \/ PageSetup(s) \/ AddPage(s)
  \/ \E p \in Page : SetPage(s, p)

Consumer(s) ==
  \/ LoadHistory(s) \/ Refuse(s) \/ Insert(s) \/ Commit(s) \/ Publish(s) \/ Dispatch(s)

BoardNext ==
  \/ \E s \in Sock : Browser(s) \/ Consumer(s) \/ JoinGroup(s) \/ Disconnect(s)

BoardSpec == BoardInit /\ [][BoardNext]_boardVars

-----------------------------------------------------------------------------
(* Properties.                                                             *)

\* The table, the queues and the pages hold values of their types, and the page a
\* browser shows exists, although page_add and page_go travel separately and
\* either may be refused.
BoardTypeOK ==
  /\ log \in Seq(Op) /\ author \in Seq(Sock) /\ Len(author) = Len(log)
  /\ kept \subseteq 1..Len(log)
  /\ busy \in [Sock -> Busy]
  /\ conn \in [Sock -> [st : {"off", "grouped", "open"}, last : 0..MaxOps]]
  /\ chan \in [Sock -> Seq(1..MaxOps)]
  /\ out \in [Sock -> Seq(Op)]
  /\ tab \in [Sock -> Tab]
  /\ \A s \in Sock : Visible(s) <= tab[s].board.count
  /\ made \in 0..MaxOps
  /\ plan \in Plans
  /\ seen \in [Sock -> Ghost]

(* What a set K of operations, taken in the order of their ids, draws on   *)
(* page p of board or file f: the reference that replays are compared to.  *)
Wipes(m, n) ==
  /\ m > n /\ SameScope(log[m], log[n])
  /\ log[m].kind = "clear" \/ (log[m].kind = "remove" /\ log[m].id = log[n].id)

On(K, kind, f, p) == { n \in K : log[n].kind = kind /\ log[n].file = f /\ log[n].page = p }

Shown(K, f, p) ==
  { log[n].id : n \in { k \in On(K, "draw", f, p) : ~\E m \in K : Wipes(m, k) } }

Styled(K, f, p) ==
  { log[n].id : n \in { k \in On(K, "page_setup", f, p) :
                          ~\E m \in On(K, "page_setup", f, p) : m > k } }

\* "History is compacted server-side on clear": the rows that are left draw what
\* all operations ever committed would draw, on every page of the board and of
\* every file, although clears and strokes commit in any order.
CompactionExact ==
  \A p \in Page, f \in { View[s] : s \in Sock } :
    /\ Shown(kept, f, p) = Shown(Committed, f, p)
    /\ Styled(kept, f, p) = Styled(Committed, f, p)

\* No operation falls between the snapshot and the live stream: one that is
\* newer than what this browser has is in its channel or about to be published.
NewerIsOnItsWay ==
  \A s \in Sock, n \in Committed :
    conn[s].st = "open" /\ n > conn[s].last =>
      \/ \E i \in 1..Len(chan[s]) : chan[s][i] = n
      \/ \E t \in Sock : busy[t].phase = "committed" /\ busy[t].seq = n

\* A viewer who has not drawn since connecting and was sent everything by others
\* sees exactly what the table says, whatever mixture of snapshot, compaction and
\* live operations brought it there.
CaughtUp(s) ==
  /\ conn[s].st = "open"
  /\ chan[s] = <<>>
  /\ ~seen[s].drew
  /\ \A t \in Sock : busy[t] = Idle
  /\ \A n \in 1..Len(log) :
       n \in seen[s].base \/ (n \in seen[s].got /\ Who[author[n]] # Who[s])

ViewersAgree ==
  \A s \in Sock : CaughtUp(s) =>
    \A p \in Page :
      /\ tab[s].board.ops[p] = Shown(kept, View[s], p)
      /\ tab[s].board.style[p] \in Styled(kept, View[s], p) \cup
            (IF Styled(kept, View[s], p) = {} THEN {0} ELSE {})

\* "whiteboard_history (on connect), then one whiteboard_operation per accepted
\* operation": what was accepted, by somebody else, and is no longer on its way
\* has been sent to every connected browser.
OneOperationEach ==
  \A s \in Sock, n \in Committed :
    conn[s].st = "open" /\ Who[author[n]] # Who[s] =>
      \/ n \in seen[s].base \cup seen[s].got
      \/ \E i \in 1..Len(chan[s]) : chan[s][i] = n
      \/ \E t \in Sock : busy[t].seq = n

\* The whiteboard keeps the promise of module BoardLog.
Log == INSTANCE BoardLog WITH
  Viewer <- Sock,
  size   <- Len(log),
  upto   <- [s \in Sock |-> IF busy[s].phase = "inserted" /\ busy[s].live
                               THEN busy[s].seq ELSE conn[s].last],
  given  <- [s \in Sock |-> seen[s].got]

KeepsTheLog == Log!BoardLogSpec
=============================================================================
