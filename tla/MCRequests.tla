----------------------------- MODULE MCRequests -----------------------------
(***************************************************************************)
(* Requests and what they leave behind, for TLC: a request that is sent    *)
(* again ("retry"), the draft several tabs work on ("drafts"), the news of *)
(* a booking ("news") and the dashboards' feed ("feed").  Each initial     *)
(* state opens one of them and the others rest, so that their state spaces *)
(* add up instead of multiplying.                                          *)
(***************************************************************************)
EXTENDS MCIdempotency, BookingDrafts, BookingNews, AdminFeed

VARIABLE focus

Part == {"retry", "drafts", "news", "feed"}

RequestsInit ==
    /\ focus \in Part
    /\ Init /\ DraftsInit /\ NewsInit /\ FeedInit
    \* The choices of a part that rests do not matter.
    /\ focus # "retry" => /\ home = [r \in Request |-> CHOOSE p \in Proc : TRUE]
                          /\ print = [r \in Request |-> CHOOSE f \in Fingerprint : TRUE]
    /\ focus # "news" => language = "base"

\* A column written unseen, a slip and a missed notice are each excused by name:
\* one column and one kind of slip in a behaviour, and not every notice missed.
OneColumn == Cardinality(crossed') <= 1
OneSlip == Cardinality(slip') <= 1
SomeSeen == \A d \in Dashboard : missed'[d] # NoticeId

Rests(part, variables) == IF focus = part THEN TRUE ELSE UNCHANGED variables

RequestsNext ==
    /\ \/ focus = "retry" /\ Next
       \/ focus = "drafts" /\ DraftsNext /\ OneColumn
       \/ focus = "news" /\ NewsNext /\ OneSlip
       \/ focus = "feed" /\ FeedNext /\ SomeSeen
    /\ Rests("retry", vars) /\ Rests("drafts", draftVars)
    /\ Rests("news", newsVars) /\ Rests("feed", feedVars)
    /\ UNCHANGED focus

RequestsSpec == RequestsInit /\ [][RequestsNext]_<<vars, draftVars, newsVars, feedVars, focus>>

\* The variables of each part keep to their types.
RequestsTypeOK == TypeOK /\ DraftsTypeOK /\ NewsTypeOK /\ FeedTypeOK

\* The customer and the administrators hear what became of a booking.
NewsKept == NewsTold /\ FeedComplete
=============================================================================
