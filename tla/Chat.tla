-------------------------------- MODULE Chat --------------------------------
(***************************************************************************)
(* The chat: ChatConsumer (chat/consumers.py), one per socket, and the     *)
(* ChatClient of the page behind it (chat.js).  Messages are persisted, a  *)
(* moderator may delete one, and a page that connects gets the history.    *)
(* A message is its row number; its text is left out.                      *)
(***************************************************************************)
EXTENDS Naturals, SequencesExt

CONSTANTS
  Chatters,       \* members with a page
  ChatMods,       \* those who are privileged
  HISTORY_LIMIT,  \* messages in a history
  ChatPlans       \* bounds on a behaviour, see chatLeft

ASSUME ChatAssumption ==
  /\ ChatMods \subseteq Chatters
  /\ HISTORY_LIMIT \in Nat \ {0}
  /\ ChatPlans \subseteq [sends : Nat, drops : Nat, deletes : Nat, bans : Nat]

VARIABLES
  log,       \* the rows: sequence of [by, deleted]
  relays,    \* group_send calls not made yet
  chatPage,  \* [Chatters -> the socket and what the page shows]
  banned,    \* members whose right to send is gone (settings, permissions)
  chatLeft,  \* messages, lost sockets, deletions and bans still to come
  overtaken  \* history: rows deleted before chat_message was broadcast

chatVars == <<log, relays, chatPage, banned, chatLeft, overtaken>>

Row       == [by : Chatters, deleted : BOOLEAN]
Shown     == [id : Nat \ {0}, deleted : BOOLEAN]
ChatEvent == [type : {"chat_message", "chat_deleted"}, id : Nat \ {0}]

ChatSocket == [
  conn  : {"off", "joined", "on", "refused"},  \* in the group before the history is read
  inbox : Seq(ChatEvent),                      \* of the channel
  asked : Seq(ChatEvent),                      \* frames from the page
  list  : Seq(Shown)]                          \* the message elements

ToGroup(e) ==
  chatPage' = [c \in Chatters |->
                 IF chatPage[c].conn \in {"joined", "on"}
                   THEN [chatPage[c] EXCEPT !.inbox = Append(@, e)] ELSE chatPage[c]]

-----------------------------------------------------------------------------
(* ChatConsumer.                                                           *)

\* connect up to accept.
ChatConnect(c) ==
  /\ chatPage[c].conn = "off"
  /\ chatPage' = [chatPage EXCEPT ![c].conn = "joined"]
  /\ UNCHANGED <<log, relays, banned, chatLeft, overtaken>>

\* _load_history and chat_history, which replaces what the page shows.
_load_history ==
  LET all == [i \in DOMAIN log |-> [id |-> i, deleted |-> log[i].deleted]]
  IN SubSeq(all, 1 + (IF Len(log) > HISTORY_LIMIT THEN Len(log) - HISTORY_LIMIT ELSE 0), Len(log))

\* (mutant: the socket joins the group after the history is read)
HistoryFirst(c) ==
  /\ chatPage[c].conn = "joined"
  /\ \/ chatPage' = [chatPage EXCEPT ![c].list = _load_history]
     \/ chatPage' = [chatPage EXCEPT ![c].conn = "on", ![c].inbox = <<>>]
  /\ UNCHANGED <<log, relays, banned, chatLeft, overtaken>>

ChatHistory(c) ==
  /\ chatPage[c].conn = "joined"
  /\ chatPage' = [chatPage EXCEPT ![c].conn = "on", ![c].list = _load_history]
  /\ UNCHANGED <<log, relays, banned, chatLeft, overtaken>>

\* send_message: the rights are read again, the row is saved, then comes group_send.
_handle_send(c) ==
  LET q == chatPage[c].asked IN
  /\ chatPage[c].conn = "on" /\ q # <<>> /\ Head(q).type = "chat_message"
  /\ ~\E r \in relays : r.by = c
  /\ chatPage' = [chatPage EXCEPT ![c].asked = Tail(@)]
  /\ IF c \in banned THEN UNCHANGED <<log, relays>>
     ELSE /\ log' = Append(log, [by |-> c, deleted |-> FALSE])
          /\ relays' = relays \cup {[by |-> c, event |-> [type |-> "chat_message", id |-> Len(log) + 1]]}
  /\ UNCHANGED <<banned, chatLeft, overtaken>>

\* delete_message: only privileged members; the row is marked, then comes group_send.
_handle_delete(c) ==
  LET q == chatPage[c].asked
      id == Head(q).id
  IN /\ chatPage[c].conn = "on" /\ q # <<>> /\ Head(q).type = "chat_deleted"
     /\ ~\E r \in relays : r.by = c
     /\ chatPage' = [chatPage EXCEPT ![c].asked = Tail(@)]
     /\ IF c \notin ChatMods \/ id \notin DOMAIN log THEN UNCHANGED <<log, relays, overtaken>>
        ELSE /\ log' = [log EXCEPT ![id].deleted = TRUE]
             /\ relays' = relays \cup {[by |-> c, event |-> Head(q)]}
             /\ overtaken' = IF \E r \in relays : r.event = [type |-> "chat_message", id |-> id]
                               THEN overtaken \cup {id} ELSE overtaken
     /\ UNCHANGED <<banned, chatLeft>>

\* A consumer that is gone before its group_send still makes it: the handler runs on.
Relay(r) ==
  /\ relays' = relays \ {r}
  /\ ToGroup(r.event)
  /\ UNCHANGED <<log, banned, chatLeft, overtaken>>

\* Settings or permissions take the right to send away (settings_changed).
ChatBan(c) ==
  /\ c \notin banned /\ c \notin ChatMods
  /\ chatLeft.bans > 0
  /\ chatLeft' = [chatLeft EXCEPT !.bans = @ - 1]
  /\ banned' = banned \cup {c}
  /\ UNCHANGED <<log, relays, chatPage, overtaken>>

\* A removed member's socket is closed with 4403, and the page does not retry.
ChatRevoke(c) ==
  /\ chatPage[c].conn = "on"
  /\ chatLeft.bans > 0
  /\ chatLeft' = [chatLeft EXCEPT !.bans = @ - 1]
  /\ chatPage' = [chatPage EXCEPT ![c].conn = "refused", ![c].inbox = <<>>, ![c].asked = <<>>]
  /\ banned' = banned \cup {c}
  /\ UNCHANGED <<log, relays, overtaken>>

-----------------------------------------------------------------------------
(* ChatClient.                                                             *)

\* Any other close is answered with a new socket; the page keeps its list.
ChatDrop(c) ==
  /\ chatPage[c].conn = "on"
  /\ chatLeft.drops > 0
  /\ chatLeft' = [chatLeft EXCEPT !.drops = @ - 1]
  /\ chatPage' = [chatPage EXCEPT ![c].conn = "off", ![c].inbox = <<>>, ![c].asked = <<>>]
  /\ UNCHANGED <<log, relays, banned, overtaken>>

ChatSend(c) ==
  /\ chatPage[c].conn = "on"
  /\ chatLeft.sends > 0
  /\ chatLeft' = [chatLeft EXCEPT !.sends = @ - 1]
  /\ chatPage' = [chatPage EXCEPT ![c].asked = Append(@, [type |-> "chat_message", id |-> 1])]
  /\ UNCHANGED <<log, relays, banned, overtaken>>

\* The delete button is on the elements of other members' messages.
deleteMessage(c) ==
  /\ chatPage[c].conn = "on" /\ c \in ChatMods
  /\ chatLeft.deletes > 0
  /\ chatLeft' = [chatLeft EXCEPT !.deletes = @ - 1]
  /\ \E s \in ToSet(chatPage[c].list) :
       /\ ~s.deleted /\ log[s.id].by # c
       /\ chatPage' = [chatPage EXCEPT ![c].asked = Append(@, [type |-> "chat_deleted", id |-> s.id])]
  /\ UNCHANGED <<log, relays, banned, overtaken>>

\* renderMessage appends without looking for the id; markDeleted marks the first
\* element with the id.  The payload of chat_message was made when the row was saved.
\* (mutant: a deletion marks the element at that position)
markDeletedAt(list, id) == IF id <= Len(list) THEN [list EXCEPT ![id].deleted = TRUE] ELSE list

markDeleted(list, id) ==
  LET at == SelectInSeq(list, LAMBDA s : s.id = id)
  IN IF at = 0 THEN list ELSE [list EXCEPT ![at].deleted = TRUE]

ChatHear(c) ==
  LET e == Head(chatPage[c].inbox) IN
  /\ chatPage[c].conn = "on" /\ chatPage[c].inbox # <<>>
  /\ chatPage' = [chatPage EXCEPT ![c].inbox = Tail(@),
       ![c].list = IF e.type = "chat_message" THEN Append(@, [id |-> e.id, deleted |-> FALSE])
                   ELSE markDeleted(@, e.id)]
  /\ UNCHANGED <<log, relays, banned, chatLeft, overtaken>>

-----------------------------------------------------------------------------
ChatInit ==
  /\ log = <<>>
  /\ relays = {}
  /\ chatPage = [c \in Chatters |-> [conn |-> "off", inbox |-> <<>>, asked |-> <<>>, list |-> <<>>]]
  /\ banned = {}
  /\ chatLeft \in ChatPlans
  /\ overtaken = {}

ChatNext ==
  \/ \E c \in Chatters :
       \/ ChatConnect(c) \/ ChatHistory(c) \/ _handle_send(c) \/ _handle_delete(c)
       \/ ChatBan(c) \/ ChatRevoke(c) \/ ChatDrop(c)
       \/ ChatSend(c) \/ deleteMessage(c) \/ ChatHear(c)
  \/ \E r \in relays : Relay(r)

ChatSpec == ChatInit /\ [][ChatNext]_chatVars

-----------------------------------------------------------------------------
(* Properties.                                                             *)

ChatTypeOK ==
  /\ log \in Seq(Row)
  /\ chatPage \in [Chatters -> ChatSocket]
  /\ banned \subseteq Chatters /\ overtaken \subseteq DOMAIN log

\* Nothing is on the way to this page.
ChatDrained(c) ==
  chatPage[c].conn = "on" /\ chatPage[c].inbox = <<>> /\ relays = {}

\* Whenever a socket joins and however the history and live messages interleave, a
\* drained page shows the last HISTORY_LIMIT messages; some perhaps twice.
NothingIsMissed ==
  \A c \in Chatters : ChatDrained(c) =>
    \A i \in DOMAIN log : i + HISTORY_LIMIT > Len(log) =>
      \E s \in ToSet(chatPage[c].list) : s.id = i

\* "applies moderator deletions": on a drained page the first element of a deleted
\* message is blank, unless the deletion was broadcast before the message itself.
DeletionsShow ==
  \A c \in Chatters : ChatDrained(c) =>
    LET list == chatPage[c].list IN
    \A k \in DOMAIN list :
      /\ log[list[k].id].deleted /\ list[k].id \notin overtaken
      /\ \A j \in 1..(k - 1) : list[j].id # list[k].id
      => list[k].deleted
=============================================================================
