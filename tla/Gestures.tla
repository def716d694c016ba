------------------------------ MODULE Gestures ------------------------------
(***************************************************************************)
(* From the pointer to the server: a page opens the socket of the           *)
(* whiteboard (the Origin check of classrooms/ws_security.py), a gesture on *)
(* the canvas becomes an operation (whiteboard.js), and the consumer judges *)
(* its size and its fields (receive, WhiteboardConsumer._valid_op).  The    *)
(* page paints before it sends: what is refused stays on its own board.     *)
(*                                                                         *)
(* A pointer position is a pair of pixels and may lie off the canvas while  *)
(* the button is down.  A coordinate on the wire is the pixel over the size *)
(* of the canvas, in units of 1/10000 (toFixed(4)); a stroke width is in    *)
(* hundredths (toFixed(2)).  Colours, texts and ids are left out: the       *)
(* controls of the page only yield valid ones.  Membership, permission and  *)
(* rate are judged elsewhere (modules Membership, Throttle).                *)
(***************************************************************************)
EXTENDS Integers, FiniteSetsExt

CONSTANTS
  Visits,       \* bound: the pages that open a socket, see Visit
  TRUSTED,      \* CSRF_TRUSTED_ORIGINS, see Authority; the scheme may be "none"
  Canvases,     \* bound: sizes of the canvas
  Pixels,       \* bound: positions of the pointer
  Pens,         \* bound: values of the width slider
  POINTS_MAX,   \* points of a stroke that _valid_op accepts (4096)
  OP_FITS,      \* points that fit into MAX_OP_BYTES
  FRAME_FITS,   \* points that fit into max_message_bytes
  PAGE_MAX,     \* pages that _valid_op accepts (999)
  GesturePlans  \* bounds on a behaviour, see gestureLeft

Authority == [scheme : STRING, host : STRING, port : Nat]

\* The page, the address it opens its socket at, and whether a proxy in front of the
\* server ends the TLS.  A native client has no origin.
Visit == [native : BOOLEAN, page : Authority, server : Authority, offload : BOOLEAN]

\* The address of a page that browsers can open.
Address == {a \in Authority : a.scheme \in {"http", "https"} /\ a.host # "none" /\ a.port # 0}

\* No screen has 10000 pixels a side.
ASSUME GestureAssumption ==
  /\ \A v \in Visits : v \in Visit /\ v.server \in Address
                        /\ (v.native \/ v.page.host = "none" \/ v.page \in Address)
  /\ \A t \in TRUSTED : t \in Authority /\ t.scheme \in {"none", "http", "https"} /\ t.host # "none"
  /\ Canvases \subseteq [w : Nat \ {0}, h : Nat \ {0}]
  /\ \A c \in Canvases : c.w < 10000 /\ c.h < 10000
  /\ Pixels \subseteq Int \X Int
  /\ Pens \subseteq 1..24
  /\ {POINTS_MAX, OP_FITS, FRAME_FITS, PAGE_MAX} \subseteq Nat \ {0}
  /\ 2 <= POINTS_MAX /\ 2 <= OP_FITS /\ OP_FITS <= FRAME_FITS
  /\ \A plan \in GesturePlans : plan.visits \subseteq Visits /\ plan.gestures \in Nat
                                /\ plan.moves \in Nat /\ plan.resizes \in Nat

VARIABLES
  visit,         \* who opens the socket
  sock,          \* the socket: "none", "open", "rejected" or "closed"
  paper,        \* the size of the canvas by now
  page,          \* the page that is open
  pageCount,
  stroke,        \* the shape under the pointer
  last,          \* history: the last gesture and what became of it
  gestureLeft

gestureVars == <<visit, sock, paper, page, pageCount, stroke, last, gestureLeft>>

-----------------------------------------------------------------------------
(* The handshake.  A port 0 is one that is not written.                    *)

NoEndpoint == [scheme |-> "none", host |-> "none", port |-> 0]

_scheme(s) ==
  IF s \in {"http", "ws"} THEN "http" ELSE IF s \in {"https", "wss"} THEN "https" ELSE "none"

_DEFAULT_PORTS == [http |-> 80, https |-> 443]

_endpoint(scheme, a) ==
  IF _scheme(scheme) = "none" \/ a.host = "none" THEN NoEndpoint
  ELSE [scheme |-> _scheme(scheme), host |-> a.host,
        port |-> IF a.port = 0 THEN _DEFAULT_PORTS[_scheme(scheme)] ELSE a.port]

\* Browsers write no default port, neither into Origin nor into Host.
Written(a) == [a EXCEPT !.port = IF @ = _DEFAULT_PORTS[_scheme(a.scheme)] THEN 0 ELSE @]

ws_origin_allowed(v) ==
  \/ v.native
  \/ LET origin  == _endpoint(v.page.scheme, Written(v.page))
         request == _endpoint(IF v.offload THEN "ws" ELSE v.server.scheme, Written(v.server))
     IN /\ origin # NoEndpoint
        /\ \/ origin = request
           \/ \E t \in TRUSTED : origin = _endpoint(IF t.scheme = "none" THEN "https" ELSE t.scheme, t)

Open ==
  /\ sock \in {"none", "closed"}
  /\ sock' = IF ws_origin_allowed(visit) THEN "open" ELSE "rejected"
  /\ UNCHANGED <<visit, paper, page, pageCount, stroke, last, gestureLeft>>

-----------------------------------------------------------------------------
(* What the page makes of a gesture.                                       *)

Freehand == {"pen", "highlighter", "eraser"}
VALID_TOOLS == Freehand \cup {"line", "arrow", "rectangle", "circle"}

UNIT == 10000
REF_H == 700

\* Number.toFixed: the nearest multiple.
Nearest(n, d) == (2 * n + d) \div (2 * d)

nx(v) == Nearest(v * UNIT, paper.w)
ny(v) == Nearest(v * UNIT, paper.h)

\* The corners of a shape are the two ends of the gesture, in whatever order.
\* (mutant: the size of a shape keeps its sign)
SignedBox(a, b) ==
  [left |-> Min({a[1], b[1]}), top |-> Min({a[2], b[2]}), w |-> b[1] - a[1], h |-> b[2] - a[2]]

Box(a, b) ==
  [left |-> Min({a[1], b[1]}), top |-> Min({a[2], b[2]}),
   w |-> Max({a[1], b[1]}) - Min({a[1], b[1]}),
   h |-> Max({a[2], b[2]}) - Min({a[2], b[2]})]

StrokeWidth(s) == IF s.tool = "eraser" THEN s.pen * 6 ELSE s.pen

Boxed == {"rectangle", "circle"}

\* _serialize: the points of a line, the corner and the size of a rectangle, the corner
\* and the radii of an ellipse.
_serialize(s) ==
  LET box == Box(s.from, s.to)
      part == IF s.tool = "circle" THEN 2 ELSE 1
  IN
  [type |-> "draw", tool |-> s.tool, page |-> page,
   width |-> Nearest(StrokeWidth(s) * REF_H * 100, paper.h),
   count |-> IF s.tool \in Boxed THEN 0 ELSE IF s.tool \in Freehand THEN s.count ELSE 2,
   at    |-> IF s.tool \in Boxed THEN {nx(box.left), ny(box.top)}
             ELSE { nx(p[1]) : p \in s.path } \cup { ny(p[2]) : p \in s.path },
   size  |-> IF s.tool \in Boxed
               THEN {Nearest(box.w * UNIT, part * paper.w), Nearest(box.h * UNIT, part * paper.h)}
               ELSE {}]

PageOp(type, n) == [type |-> type, page |-> n, count |-> 0, at |-> {}, size |-> {}]

PointOp(type, p) == [PageOp(type, page) EXCEPT !.at = {nx(p[1]), ny(p[2])}]

-----------------------------------------------------------------------------
(* What the server makes of it.                                            *)

_finite_number(v) == -2 * UNIT <= v /\ v <= 2 * UNIT

_valid_op(op) ==
  /\ op.count <= OP_FITS
  /\ op.page \in 1..PAGE_MAX
  /\ "width" \in DOMAIN op => 0 < op.width /\ op.width <= 512 * 100
  /\ \A v \in op.at : _finite_number(v)
  /\ \A v \in op.size : _finite_number(v) /\ v >= 0
  /\ op.type = "draw" =>
       /\ op.tool \in VALID_TOOLS
       /\ op.tool \notin Boxed => 2 <= op.count /\ op.count <= POINTS_MAX
  /\ op.type = "page_add" => op.page >= 2

\* SafeJsonWebsocketConsumer.receive, and receive_json up to the permission.
receive(op) ==
  IF op.count > FRAME_FITS THEN "closed" ELSE IF _valid_op(op) THEN "accepted" ELSE "refused"

\* _sendOp: without an open socket the operation goes nowhere.
_sendOp(gesture, op) ==
  LET answer == IF sock = "open" THEN receive(op) ELSE "unsent" IN
  /\ last' = [gesture EXCEPT !.answer = answer, !.paper = paper, !.page = op.page]
  /\ sock' = IF answer = "closed" THEN "closed" ELSE sock

-----------------------------------------------------------------------------
(* Gestures.                                                               *)

NoStroke == [tool |-> "none", pen |-> 1, from |-> <<0, 0>>, to |-> <<0, 0>>, count |-> 0,
             path |-> {}]

NoGesture == [tool |-> "none", pen |-> 1, box |-> Box(<<0, 0>>, <<0, 0>>), count |-> 0,
              path |-> {}, paper |-> [w |-> 1, h |-> 1], page |-> 1, answer |-> "unsent"]

Spend == gestureLeft.gestures > 0 /\ gestureLeft' = [gestureLeft EXCEPT !.gestures = @ - 1]

_down(tool, pen, p) ==
  /\ stroke = NoStroke
  /\ tool \in gestureLeft.tools \cap VALID_TOOLS
  /\ Spend
  /\ stroke' = [tool |-> tool, pen |-> pen, from |-> p, to |-> p, count |-> 2, path |-> {p}]
  /\ UNCHANGED <<visit, sock, paper, page, pageCount, last>>

_move(p) ==
  /\ stroke # NoStroke
  /\ gestureLeft.moves > 0
  /\ gestureLeft' = [gestureLeft EXCEPT !.moves = @ - 1]
  /\ stroke' = IF stroke.tool \in Freehand
                 THEN [stroke EXCEPT !.to = p, !.count = @ + 1, !.path = @ \cup {p}]
                 ELSE [stroke EXCEPT !.to = p, !.path = {stroke.from, p}]
  /\ UNCHANGED <<visit, sock, paper, page, pageCount, last>>

_up ==
  /\ stroke # NoStroke
  /\ stroke' = NoStroke
  /\ _sendOp([NoGesture EXCEPT !.tool = stroke.tool, !.pen = stroke.pen,
                !.box = Box(stroke.from, stroke.to), !.count = stroke.count,
                !.path = stroke.path],
             _serialize(stroke))
  /\ UNCHANGED <<visit, paper, page, pageCount, gestureLeft>>

\* A click with the text tool and a move with the laser have one position.
Point(type, p) ==
  /\ stroke = NoStroke
  /\ type \in gestureLeft.tools \cap {"text", "laser"}
  /\ Spend
  /\ _sendOp([NoGesture EXCEPT !.tool = type, !.path = {p}], PointOp(type, p))
  /\ UNCHANGED <<visit, paper, page, pageCount, stroke>>

\* addPage: applied before it is sent.  setPage then takes the class there with a page_go
\* that is judged alike.
addPage ==
  /\ stroke = NoStroke
  /\ "page" \in gestureLeft.tools
  /\ Spend
  /\ pageCount' = pageCount + 1
  /\ page' = pageCount + 1
  /\ _sendOp([NoGesture EXCEPT !.tool = "page"], PageOp("page_add", pageCount + 1))
  /\ UNCHANGED <<visit, paper, stroke>>

\* A click on one's own page buttons tells the others; a page_go of somebody else does
\* not, and may come while a stroke is being drawn.
setPage(n, broadcast) ==
  /\ "page" \in gestureLeft.tools
  /\ n \in 1..pageCount /\ n # page
  /\ broadcast => stroke = NoStroke
  /\ Spend
  /\ page' = n
  /\ \/ broadcast /\ _sendOp([NoGesture EXCEPT !.tool = "page"], PageOp("page_go", n))
     \/ ~broadcast /\ UNCHANGED <<last, sock>>
  /\ UNCHANGED <<visit, paper, pageCount, stroke>>

\* The window changes its size, in the middle of a stroke too: the pixels of its points
\* stay and are divided by the new size.
resize(size) ==
  /\ gestureLeft.resizes > 0
  /\ size # paper
  /\ gestureLeft' = [gestureLeft EXCEPT !.resizes = @ - 1]
  /\ paper' = size
  /\ UNCHANGED <<visit, sock, page, pageCount, stroke, last>>

-----------------------------------------------------------------------------
GestureInit ==
  /\ gestureLeft \in GesturePlans
  /\ visit \in gestureLeft.visits
  /\ sock = "none"
  /\ paper \in Canvases
  /\ page = 1 /\ pageCount = 1
  /\ stroke = NoStroke
  /\ last = NoGesture

GestureNext ==
  \/ Open \/ _up \/ addPage
  \/ \E tool \in VALID_TOOLS, pen \in Pens, p \in Pixels : _down(tool, pen, p)
  \/ \E p \in Pixels : _move(p) \/ \E type \in {"text", "laser"} : Point(type, p)
  \/ \E n \in 1..pageCount, broadcast \in BOOLEAN : setPage(n, broadcast)
  \/ \E size \in Canvases : resize(size)

GestureSpec == GestureInit /\ [][GestureNext]_gestureVars

-----------------------------------------------------------------------------
(* Properties.                                                             *)

GestureTypeOK ==
  /\ sock \in {"none", "open", "rejected", "closed"}
  /\ paper \in Canvases
  /\ pageCount \in Nat /\ page \in 1..pageCount
  /\ stroke.tool \in VALID_TOOLS \cup {"none"} /\ stroke.path \subseteq Pixels
  /\ last.answer \in {"unsent", "accepted", "refused", "closed"}

\* A page gets its socket if it is a page of the server as the server sees itself, over
\* http where a proxy ends the TLS; or if its address is listed.
Seen(v) ==
  IF v.offload /\ v.server.scheme = "https"
    THEN [scheme |-> "http", host |-> v.server.host,
          port |-> IF v.server.port = 443 THEN 80 ELSE v.server.port]
    ELSE v.server

Own(v) == v.page = Seen(v)

Listed(v) ==
  \E t \in TRUSTED :
    /\ t.host = v.page.host
    /\ v.page.scheme = IF t.scheme = "none" THEN "https" ELSE t.scheme
    /\ t.port \in {0, v.page.port} /\ (t.port = 0 => Written(v.page).port = 0)

\* The gesture stays within twice the canvas, in its positions and in its size (an
\* ellipse in its radii), the stroke is no wider than 512 pixels on a board of height
\* 700, it has no more points than fit, and the page is one of those the server counts.
WithinLimits(g) ==
  LET W == 2 * g.paper.w
      H == 2 * g.paper.h
      OnPaper(x, y) == -W <= x /\ x <= W /\ -H <= y /\ y <= H
  IN
  /\ g.page <= PAGE_MAX
  /\ g.tool \in VALID_TOOLS => StrokeWidth(g) * REF_H <= 512 * g.paper.h
  /\ g.tool \in Freehand => g.count <= POINTS_MAX /\ g.count <= OP_FITS
  /\ g.tool \in Boxed => OnPaper(g.box.left, g.box.top)
  /\ g.tool = "rectangle" => OnPaper(g.box.w, g.box.h)
  /\ g.tool = "circle" => g.box.w <= 2 * W /\ g.box.h <= 2 * H
  /\ g.tool \notin Boxed => \A p \in g.path : OnPaper(p[1], p[2])

\* A page is heard: the socket opens for native clients, for the pages of this server and
\* of the listed addresses and for no other page, and the operation of a gesture is accepted if and
\* only if the gesture stays within the limits, whichever way it was drawn and whatever
\* happened to the window and to the page meanwhile.
HeardAsDrawn ==
  /\ sock = "open" => visit.native \/ Own(visit) \/ Listed(visit)
  /\ sock = "rejected" => ~visit.native /\ ~Own(visit) /\ ~Listed(visit)
  /\ last.answer # "unsent" => (last.answer = "accepted") = WithinLimits(last)
=============================================================================
