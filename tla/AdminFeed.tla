------------------------------ MODULE AdminFeed ------------------------------
(***************************************************************************)
(* The administrators' dashboards: every booking and enquiry leaves one    *)
(* notice in the database, and the request that made it pushes the notice  *)
(* into the queue of each dashboard that is connected to its own worker.   *)
(* Requests run in threads of the worker, so their pushes cross.           *)
(***************************************************************************)
EXTENDS Naturals, SequencesExt

CONSTANTS
    NoticeId,       \* admin_notifications: one for each (booking_ref, event_type)
    Dashboard,      \* open pages of the admin portal
    Worker,         \* server processes
    Pusher,         \* threads that push
    MaxWaiting,     \* the queue's maxsize (100)
    PageSize        \* the limit of the list (50 unless the page asks otherwise)

VARIABLES
    posted,     \* admin_notifications: whether the notice is there, unread or read
    newer,      \* their created_at: the notices that came after this one
    board,      \* the dashboards with their streams
    pusher,
    recent,     \* history: the last MaxWaiting notices put to a stream
    missed,     \* history: notices whose push did not reach a stream, or long ago
    crowded     \* history: streams that two threads pushed to at once

feedVars == <<posted, newer, board, pusher, recent, missed, crowded>>

ASSUME FeedAssumption ==
    /\ MaxWaiting \in Nat \ {0} /\ PageSize \in Nat \ {0}
    /\ "none" \notin Dashboard \cup Worker

Away == [worker |-> "none", listening |-> FALSE, queue |-> <<>>, caughtUp |-> FALSE, shown |-> {}]
NotPushing == [pc |-> "off", notice |-> "none", worker |-> "none", todo |-> {}, at |-> "none"]
Connected == {d \in Dashboard : board[d].worker # "none"}

FeedInit ==
    /\ posted = [n \in NoticeId |-> "none"] /\ newer = [n \in NoticeId |-> {}]
    /\ board = [d \in Dashboard |-> Away]
    /\ pusher = [p \in Pusher |-> NotPushing]
    /\ recent = [d \in Dashboard |-> <<>>]
    /\ missed = [d \in Dashboard |-> {}]
    /\ crowded = {}

-----------------------------------------------------------------------------
(* A booking's or a charter's notice                                       *)

\* create_or_get_notification: a repeated event finds the notice there.
PostNotice(p, n, w) ==
    /\ pusher[p].pc = "off"
    /\ posted' = [posted EXCEPT ![n] = IF @ = "none" THEN "unread" ELSE @]
    /\ newer' = IF posted[n] # "none" THEN newer
                ELSE [m \in NoticeId |-> IF posted[m] = "none" THEN newer[m] ELSE newer[m] \cup {n}]
    /\ pusher' = [pusher EXCEPT ![p] = [NotPushing EXCEPT !.pc = "posted", !.notice = n, !.worker = w]]
    /\ UNCHANGED <<board, recent, missed, crowded>>

\* The subscribers of this worker as they are now; the NOTIFY that would tell the
\* other workers has no listener.
Snapshot(p) ==
    LET own == {d \in Connected : board[d].worker = pusher[p].worker /\ board[d].listening} IN
    /\ pusher[p].pc = "posted"
    /\ pusher' = [pusher EXCEPT ![p] = [@ EXCEPT !.pc = "push", !.todo = own]]
    /\ missed' = [d \in Dashboard |->
                    IF d \in Connected \ own THEN missed[d] \cup {pusher[p].notice} ELSE missed[d]]
    /\ UNCHANGED <<posted, newer, board, recent, crowded>>

\* Faulty: the queue stays full.
KeepFull(p, d) ==
    /\ pusher[p].pc = "push" /\ pusher[p].at = "none" /\ d \in pusher[p].todo
    /\ pusher' = [pusher EXCEPT ![p].at = d]
    /\ crowded' = IF \E q \in Pusher : pusher[q].at = d THEN crowded \cup {d} ELSE crowded
    /\ UNCHANGED <<posted, newer, board, recent, missed>>

\* The oldest one goes when the queue is full ...
MakeRoom(p, d) ==
    /\ pusher[p].pc = "push" /\ pusher[p].at = "none" /\ d \in pusher[p].todo
    /\ pusher' = [pusher EXCEPT ![p].at = d]
    /\ board' = IF Len(board[d].queue) = MaxWaiting
                THEN [board EXCEPT ![d].queue = Tail(@)] ELSE board
    /\ crowded' = IF \E q \in Pusher : pusher[q].at = d THEN crowded \cup {d} ELSE crowded
    /\ UNCHANGED <<posted, newer, recent, missed>>

\* ... and the notice is put; a stream whose queue another thread filled meanwhile
\* is taken for dead and is not pushed to again, though it goes on.
Put(p) ==
    LET d == pusher[p].at
        n == pusher[p].notice
        fits == Len(board[d].queue) < MaxWaiting
        before == Append(recent[d], n) IN
    /\ pusher[p].pc = "push" /\ d # "none"
    /\ pusher' = [pusher EXCEPT ![p].todo = @ \ {d}, ![p].at = "none"]
    /\ board' = IF fits THEN [board EXCEPT ![d].queue = Append(@, n)]
                        ELSE [board EXCEPT ![d].listening = FALSE]
    /\ IF fits
       THEN /\ recent' = [recent EXCEPT ![d] = IF Len(before) > MaxWaiting THEN Tail(before) ELSE before]
            /\ missed' = IF Len(before) > MaxWaiting
                         THEN [missed EXCEPT ![d] = @ \cup {before[1]}] ELSE missed
       ELSE UNCHANGED <<recent, missed>>
    /\ UNCHANGED <<posted, newer, crowded>>

PushEnds(p) ==
    /\ pusher[p].pc = "push" /\ pusher[p].todo = {}
    /\ pusher' = [pusher EXCEPT ![p] = NotPushing]
    /\ UNCHANGED <<posted, newer, board, recent, missed, crowded>>

\* The process dies, or a failing database ends the hook before the push; a death
\* between the two steps of a push takes its stream along (Disconnect).
PushStops(p) ==
    /\ pusher[p].pc # "off" /\ pusher[p].at = "none"
    /\ pusher' = [pusher EXCEPT ![p] = NotPushing]
    /\ missed' = [d \in Dashboard |->
                    IF (pusher[p].pc = "posted" /\ d \in Connected) \/ d \in pusher[p].todo
                    THEN missed[d] \cup {pusher[p].notice} ELSE missed[d]]
    /\ UNCHANGED <<posted, newer, board, recent, crowded>>

-----------------------------------------------------------------------------
(* A dashboard                                                             *)

\* notifications_stream: the queue is there before the first byte is sent.
Subscribe(d, w) ==
    /\ d \notin Connected
    /\ board' = [board EXCEPT ![d] = [Away EXCEPT !.worker = w, !.listening = TRUE]]
    /\ UNCHANGED <<posted, newer, pusher, recent, missed, crowded>>

\* Faulty: the list starts with the oldest ("order_by(created_at)").
CatchUpOldest(d) ==
    /\ d \in Connected
    /\ \E only \in {{"unread"}, {"unread", "read"}} :
          LET rows == {n \in NoticeId : posted[n] \in only}
              page == {n \in rows : Cardinality({m \in rows : n \in newer[m]}) < PageSize}
          IN board' = [board EXCEPT ![d].caughtUp = TRUE, ![d].shown = @ \cup page]
    /\ UNCHANGED <<posted, newer, pusher, recent, missed, crowded>>

\* list_notifications, "for initial load and reconnection catch-up": the newest
\* rows, or the newest unread ones, up to the limit.
CatchUp(d) ==
    /\ d \in Connected
    /\ \E only \in {{"unread"}, {"unread", "read"}} :
          LET rows == {n \in NoticeId : posted[n] \in only}
              page == {n \in rows : Cardinality(newer[n] \cap rows) < PageSize}
          IN board' = [board EXCEPT ![d].caughtUp = TRUE, ![d].shown = @ \cup page]
    /\ UNCHANGED <<posted, newer, pusher, recent, missed, crowded>>

ShowNotice(d) ==
    /\ board[d].queue # <<>>
    /\ board' = [board EXCEPT ![d].queue = Tail(@), ![d].shown = @ \cup {Head(board[d].queue)}]
    /\ UNCHANGED <<posted, newer, pusher, recent, missed, crowded>>

\* The page is closed or its worker restarts: a push underway no longer meets it.
Disconnect(d) ==
    /\ d \in Connected
    /\ board' = [board EXCEPT ![d] = Away]
    /\ pusher' = [p \in Pusher |-> [pusher[p] EXCEPT !.todo = @ \ {d},
                                                     !.at = IF @ = d THEN "none" ELSE @]]
    /\ recent' = [recent EXCEPT ![d] = <<>>] /\ missed' = [missed EXCEPT ![d] = {}]
    /\ crowded' = crowded \ {d}
    /\ UNCHANGED <<posted, newer>>

\* mark_as_read of a notice that is shown; who read it last is not kept here.
MarkRead(d, n) ==
    /\ n \in board[d].shown /\ posted[n] = "unread"
    /\ posted' = [posted EXCEPT ![n] = "read"]
    /\ UNCHANGED <<newer, board, pusher, recent, missed, crowded>>

\* mark_all_as_read: also those nobody was shown.
MarkAll(d) ==
    /\ d \in Connected
    /\ posted' = [n \in NoticeId |-> IF posted[n] = "unread" THEN "read" ELSE posted[n]]
    /\ UNCHANGED <<newer, board, pusher, recent, missed, crowded>>

FeedNext ==
    \/ \E p \in Pusher : \/ \E n \in NoticeId, w \in Worker : PostNotice(p, n, w)
                         \/ \E d \in Dashboard : MakeRoom(p, d)
                         \/ Snapshot(p) \/ Put(p) \/ PushEnds(p) \/ PushStops(p)
    \/ \E d \in Dashboard : \/ \E w \in Worker : Subscribe(d, w)
                            \/ CatchUp(d) \/ ShowNotice(d) \/ Disconnect(d) \/ MarkAll(d)
                            \/ \E n \in NoticeId : MarkRead(d, n)

FeedSpec == FeedInit /\ [][FeedNext]_feedVars

-----------------------------------------------------------------------------
FeedTypeOK ==
    /\ \A n \in NoticeId : posted[n] \in {"none", "unread", "read"} /\ newer[n] \subseteq NoticeId
    /\ \A d \in Dashboard : /\ board[d].worker \in Worker \cup {"none"}
                            /\ Len(board[d].queue) <= MaxWaiting
                            /\ board[d].shown \subseteq NoticeId
    /\ \A p \in Pusher : pusher[p].todo \subseteq Dashboard

MidPush(d) == \E p \in Pusher : pusher[p].at = d
HasBoard(d) == board[d].shown \cup ToSet(board[d].queue)
Underway(d) == {pusher[p].notice : p \in {q \in Pusher : pusher[q].pc = "posted" \/ d \in pusher[q].todo}}

\* What any list still reaches back to.
Newest == {n \in NoticeId : Cardinality(newer[n]) < PageSize}
UnreadNewest == {n \in Newest : posted[n] = "unread"}

\* A dashboard that loaded the list after it subscribed has every unread notice on
\* its page or in its queue ("Persists record, broadcasts to connected admins"),
\* unless the push was another worker's, broke off, or as many newer ones came as
\* the queue or the list holds; the newest are never the ones dropped, and a stream
\* is given up only when two threads pushed to it at once (broadcast_local).
FeedComplete ==
    \A d \in Connected :
        /\ board[d].caughtUp /\ board[d].listening /\ ~MidPush(d) =>
              UnreadNewest \subseteq HasBoard(d) \cup Underway(d) \cup missed[d]
        /\ board[d].listening /\ ~MidPush(d) => ToSet(recent[d]) \subseteq HasBoard(d)
        /\ ~board[d].listening => d \in crowded
=============================================================================
