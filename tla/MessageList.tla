----------------------------- MODULE MessageList ----------------------------
(***************************************************************************)
(* The list of messages on the screen, MessageListView of                  *)
(* src/src/views/chat_view.cpp, over the history of the chat model.  The   *)
(* list observes the history: every change of it calls setMessages(),      *)
(* which compares the rows it has with the new history and changes as few  *)
(* as it can, then scrolls or keeps its place.                             *)
(*                                                                         *)
(* A row or message is known by its id and its two flags; its text does    *)
(* not change.  Positions are in rows of unit height; `top' is the place   *)
(* of the list in its window, which LVGL keeps within the content.         *)
(***************************************************************************)
EXTENDS Integers, Sequences, SequencesExt

CONSTANTS
  HistoryLimit,  (* kMessageHistoryLimit                                   *)
  LastId,        (* bound: how many messages are appended                  *)
  Height,        (* of the row of each message                             *)
  Window,        (* kScreenHeight                                          *)
  FollowDistance,(* kBottomFollowThreshold                                 *)
  ScrollStep     (* kMessageScrollStep                                     *)

ASSUME ListAssumption ==
  /\ HistoryLimit \in Nat \ {0} /\ LastId \in Nat
  /\ Height \in [1..LastId -> Nat \ {0}]
  /\ Window \in Nat /\ FollowDistance \in Nat /\ ScrollStep \in Nat \ {0}

VARIABLES
  messages,  (* ChatModel's _messages                                      *)
  lastId,    (* its _next_message_id, less one                             *)
  list       (* the rows, the place, the end of the scroll animation or    *)
             (* NoTarget, and _follow_bottom                               *)

vars == <<messages, lastId, list>>

NoTarget == -1
Message(id, pending, failed)  == [id |-> id, pending |-> pending, failed |-> failed]
List(rows, top, goal, follow) == [rows |-> rows, top |-> top, goal |-> goal, follow |-> follow]

Least(a, b) == IF a < b THEN a ELSE b
Clamp(n, high) == IF n < 0 THEN 0 ELSE Least(n, high)

(* The height of some rows, and how far a list of them can be scrolled.    *)
Extent(rows)    == FoldLeft(LAMBDA sum, row : sum + Height[row.id], 0, rows)
MaxScroll(rows) == Clamp(Extent(rows) - Window, Extent(rows))

(* updateFollowState()                                                     *)
Near(rows, top) == rows = <<>> \/ MaxScroll(rows) - top <= FollowDistance

(* setScrollImmediate()                                                    *)
ScrolledTo(rows, n) ==
  LET top == Clamp(n, MaxScroll(rows)) IN List(rows, top, NoTarget, Near(rows, top))

(* animateScrollTo()                                                       *)
AnimatedTo(l, n) ==
  LET goal == Clamp(n, MaxScroll(l.rows)) IN
  IF l.goal = NoTarget /\ goal = l.top THEN l ELSE [l EXCEPT !.goal = goal]

(* scrollToBottom(), for a list whose rows may just have become fewer.     *)
ToBottom(l) ==
  LET end == MaxScroll(l.rows) IN
  AnimatedTo(List(l.rows, Least(l.top, end), l.goal, TRUE), end)
-----------------------------------------------------------------------------
(* setMessages()                                                           *)

(* MessageBubble::matches().  Mutant: only the failure flag is compared.   *)
MatchesFailedOnly(row, m) == row.id = m.id /\ row.failed = m.failed
Matches(row, m) == row = m

SameIds(rows, ms) ==
  Len(rows) = Len(ms) /\ \A i \in DOMAIN rows : rows[i].id = ms[i].id

AllMatch(rows, ms) == \A i \in DOMAIN rows : Matches(rows[i], ms[i])

(* The rows from the first message of the history on, and those before it. *)
Kept(rows, ms) ==
  LET found == {i \in DOMAIN rows : rows[i].id = ms[1].id} IN
  IF found = {} THEN <<>> ELSE SubSeq(rows, Min(found), Len(rows))
Gone(rows, ms) == SubSeq(rows, 1, Len(rows) - Len(Kept(rows, ms)))

Incremental(rows, ms) ==
  LET kept == Kept(rows, ms) IN
  /\ rows = <<>> \/ kept # <<>>
  /\ Len(kept) <= Len(ms) /\ \A i \in DOMAIN kept : kept[i].id = ms[i].id

Grown(kept, ms) == kept \o SubSeq(ms, Len(kept) + 1, Len(ms))

(* rebuild()                                                               *)
Rebuilt(ms) == ScrolledTo(ms, MaxScroll(ms))

(* Rows that go above a reader who does not follow take the place with     *)
(* them, before the new rows are there.  Mutant: the place is kept as it   *)
(* is.                                                                     *)
NotShifted(l, ms) == [l EXCEPT !.rows = Grown(Kept(@, ms), ms)]

Shifted(l, ms) ==
  LET gone == Extent(Gone(l.rows, ms))
      kept == IF gone > 0 THEN ScrolledTo(Kept(l.rows, ms), l.top - gone) ELSE l
  IN [kept EXCEPT !.rows = Grown(@, ms)]

Following(l, ms) == ToBottom([l EXCEPT !.rows = Grown(Kept(@, ms), ms)])

SetMessages(l, ms) ==
  CASE SameIds(l.rows, ms) /\ AllMatch(l.rows, ms)  -> l
    [] SameIds(l.rows, ms) /\ ~AllMatch(l.rows, ms) -> Rebuilt(ms)
    [] ~SameIds(l.rows, ms) /\ ~Incremental(l.rows, ms) -> Rebuilt(ms)
    [] ~SameIds(l.rows, ms) /\ Incremental(l.rows, ms) ->
         IF l.rows = <<>> \/ l.follow THEN Following(l, ms) ELSE Shifted(l, ms)
-----------------------------------------------------------------------------
(* The first history that the list is given is the empty one.              *)
Init == messages = <<>> /\ lastId = 0 /\ list = Rebuilt(<<>>)

(* appendMessage()                                                         *)
AppendMessage(pending) ==
  /\ lastId < LastId /\ lastId' = lastId + 1
  /\ messages' = Append(IF Len(messages) >= HistoryLimit THEN Tail(messages) ELSE messages,
                        Message(lastId', pending, FALSE))

Receive == AppendMessage(FALSE) /\ list' = SetMessages(list, messages')

(* sendCompose(): the message is appended, and the list sent to its end.   *)
Send == AppendMessage(TRUE) /\ list' = ToBottom(SetMessages(list, messages'))

(* updateMessageStatus() of a message that is still in the history.        *)
Conclude(i, failed) ==
  /\ messages[i].pending
  /\ messages' = [messages EXCEPT ![i].pending = FALSE, ![i].failed = failed]
  /\ list' = SetMessages(list, messages')
  /\ UNCHANGED lastId

(* scrollBy(), up or down: from where an animation would end.              *)
ScrollBy(amount) ==
  LET from == IF list.goal # NoTarget THEN list.goal ELSE list.top
      goal == Clamp(from - amount, MaxScroll(list.rows))
  IN /\ list' = AnimatedTo([list EXCEPT !.follow = MaxScroll(list.rows) - goal <= FollowDistance],
                           goal)
     /\ UNCHANGED <<messages, lastId>>

(* tick(): the spring takes the list anywhere on its way, and ends at its  *)
(* goal.                                                                   *)
Animate ==
  /\ list.goal # NoTarget
  /\ \/ \E top \in 0..MaxScroll(list.rows) : list' = [list EXCEPT !.top = top]
     \/ list' = ScrolledTo(list.rows, list.goal)
  /\ UNCHANGED <<messages, lastId>>

Next ==
  \/ Receive \/ Send
  \/ \E i \in DOMAIN messages, failed \in BOOLEAN : Conclude(i, failed)
  \/ \E amount \in {ScrollStep, -ScrollStep} : ScrollBy(amount)
  \/ Animate

Spec == Init /\ [][Next]_vars
-----------------------------------------------------------------------------
Rows == [id : 1..LastId, pending : BOOLEAN, failed : BOOLEAN]

ListTypeOK ==
  /\ lastId \in 0..LastId /\ messages \in Seq(Rows)
  /\ list.rows \in Seq(Rows) /\ list.top \in 0..MaxScroll(list.rows)
  /\ list.goal \in 0..Extent(list.rows) \cup {NoTarget} /\ list.follow \in BOOLEAN

(* Whatever way the list took from one history to the next, its rows are   *)
(* the messages, in order, each with its own status (chat_view.cpp:434-529).*)
RowsShowHistory == list.rows = messages

(* A reader who has scrolled away from the end keeps the place: a message  *)
(* that arrives moves none of the rows that stay, unless the one being     *)
(* read goes (chat_view.cpp:502-517).                                      *)
ReaderKeepsPlace ==
  [][Receive /\ ~list.follow /\ list.goal = NoTarget =>
       list'.top = Clamp(list.top - Extent(Gone(list.rows, messages')), list.top)]_vars
=============================================================================
