---------------------------- MODULE BookingDrafts ----------------------------
(***************************************************************************)
(* One unfinished booking of the web shop (booking_drafts), kept for the   *)
(* browsers of a guest and for the accounts that log in on them.  Every    *)
(* request reads the row, decides and commits; the row has no version, so  *)
(* requests of several tabs cross.                                         *)
(***************************************************************************)
EXTENDS FiniteSets

CONSTANTS
    Tab,        \* open pages, each with one request at a time
    Customer    \* accounts

VARIABLES
    draft,
    tab,
    settled,    \* history: the draft was completed
    assured,       \* history: the accounts that were told the draft is theirs
    crossed     \* history: columns written over what another committed since they were read

draftVars == <<draft, tab, settled, assured, crossed>>

OpenStatus == {"draft", "in_progress", "pending_payment"}
Closing == {"completed", "cancelled"}
NoDraft == [status |-> "none", owner |-> "guest", fresh |-> FALSE]
NothingRead == [status |-> "none", owner |-> "guest"]
Browsing == [account |-> "guest", token |-> FALSE, op |-> "off", read |-> NothingRead, to |-> "draft"]

DraftsInit ==
    /\ draft = NoDraft
    /\ tab = [t \in Tab |-> Browsing]
    /\ settled = FALSE
    /\ assured = {}
    /\ crossed = {}

LogInTab(t) ==
    /\ tab[t].op = "off" /\ tab[t].account = "guest"
    /\ \E c \in Customer : tab' = [tab EXCEPT ![t].account = c]
    /\ UNCHANGED <<draft, settled, assured, crossed>>

\* create_or_update without a draft: the token is given out once, to the tabs of
\* one browser; the status is computed from the step the customer is at.
CreateDraft(t) ==
    /\ draft.status = "none" /\ tab[t].op = "off"
    /\ \E status \in OpenStatus :
          draft' = [status |-> status, owner |-> tab[t].account, fresh |-> TRUE]
    /\ \E browser \in {S \in SUBSET Tab : t \in S} :
          tab' = [u \in Tab |-> [tab[u] EXCEPT !.token = u \in browser]]
    /\ assured' = {tab[t].account} \ {"guest"}
    /\ UNCHANGED <<settled, crossed>>

-----------------------------------------------------------------------------
\* _authorised
Authorised(t) == tab[t].token \/ (tab[t].account # "guest" /\ tab[t].account = draft.owner)
Lapsed(row) == row.status \in OpenStatus /\ ~row.fresh

\* Faulty: a closed draft is updated like any other.
AdmitsClosed(t, op) ==
    CASE op \in {"save", "complete"} -> TRUE
      [] op = "cancel" -> draft.status # "completed"
      [] op = "claim" -> tab[t].account # "guest" /\ tab[t].token /\ draft.owner \in {"guest", tab[t].account}
      [] op = "expire" -> Lapsed(draft)

\* What the operations refuse: an update a closed draft, a removal a completed
\* one, a claim a closed one and one of another account.  Reading writes only when
\* the time is over; completion asks for nothing.
Admits(t, op) ==
    CASE op = "save" -> draft.status \notin Closing
      [] op = "cancel" -> draft.status # "completed"
      [] op = "claim" -> /\ tab[t].account # "guest" /\ tab[t].token
                         /\ draft.owner \in {"guest", tab[t].account}
                         /\ draft.status \notin Closing
      [] op = "expire" -> Lapsed(draft)
      [] op = "complete" -> TRUE

OpenRequest(t, op) ==
    /\ draft.status # "none" /\ tab[t].op = "off"
    /\ Authorised(t) /\ Admits(t, op)
    /\ \E to \in IF op = "save" THEN OpenStatus ELSE {"draft"} :
          tab' = [tab EXCEPT ![t] = [@ EXCEPT !.op = op, !.to = to, !.read.status = draft.status,
                                             !.read.owner = draft.owner]]
    /\ UNCHANGED <<draft, settled, assured, crossed>>

\* A column is written only when its value is another than the one read.
Unless(read, value, now) == IF value = read THEN now ELSE value

Updated(t) ==
    LET read == tab[t].read IN
    CASE tab[t].op = "save" -> [draft EXCEPT !.status = Unless(read.status, tab[t].to, @), !.fresh = TRUE]
      [] tab[t].op = "cancel" -> [draft EXCEPT !.status = Unless(read.status, "cancelled", @)]
      [] tab[t].op = "claim" -> [draft EXCEPT !.owner = Unless(read.owner, tab[t].account, @)]
      [] tab[t].op = "expire" -> [draft EXCEPT !.status = "expired"]
      [] tab[t].op = "complete" -> [draft EXCEPT !.status = Unless(read.status, "completed", @)]

EndRequest(t) == tab' = [tab EXCEPT ![t] = [@ EXCEPT !.op = "off", !.read = NothingRead, !.to = "draft"]]

\* The columns that change hands unseen; a save that leaves the status as it read
\* it does not undo a lapse that came between.
Overwritten(t) ==
    LET row == Updated(t)
        lapses == \/ tab[t].op = "expire" /\ draft.fresh
                  \/ tab[t].op = "save" /\ row.status = "expired" IN
    {column \in {"status", "owner"} :
        row[column] # draft[column] /\ draft[column] # tab[t].read[column]}
    \cup (IF lapses THEN {"lapse"} ELSE {})

CommitDraft(t) ==
    /\ tab[t].op # "off"
    /\ draft' = Updated(t)
    /\ settled' = (settled \/ tab[t].op = "complete")
    /\ assured' = IF tab[t].op = "claim" THEN assured \cup {tab[t].account} ELSE assured
    /\ crossed' = crossed \cup Overwritten(t)
    /\ EndRequest(t)

\* The page is closed or the worker dies before the commit.
DropTab(t) ==
    /\ tab[t].op # "off"
    /\ EndRequest(t)
    /\ UNCHANGED <<draft, settled, assured, crossed>>

DaysPass ==
    /\ draft.fresh
    /\ draft' = [draft EXCEPT !.fresh = FALSE]
    /\ UNCHANGED <<tab, settled, assured, crossed>>

DraftsNext ==
    \/ \E t \in Tab : \/ LogInTab(t) \/ CreateDraft(t) \/ CommitDraft(t) \/ DropTab(t)
                      \/ \E op \in {"save", "cancel", "claim", "expire", "complete"} : OpenRequest(t, op)
    \/ DaysPass

DraftsSpec == DraftsInit /\ [][DraftsNext]_draftVars

-----------------------------------------------------------------------------
DraftsTypeOK ==
    /\ draft.status \in OpenStatus \cup Closing \cup {"none", "expired"}
    /\ draft.owner \in Customer \cup {"guest"}
    /\ \A t \in Tab : tab[t].account \in Customer \cup {"guest"}
    /\ crossed \subseteq {"status", "owner", "lapse"}

\* A draft whose booking was made is not offered again ("This draft is closed and
\* cannot be updated"), belongs to the only account that was told so
\* (claim_drafts) and is not called expired after a save (_expire_if_needed),
\* unless a request wrote that column over a commit it had not seen.
DraftsKept ==
    /\ "status" \in crossed \/ (settled => draft.status = "completed")
    /\ "owner" \in crossed \/ assured \subseteq {draft.owner}
    /\ "lapse" \in crossed \/ (draft.status = "expired" => ~draft.fresh)
=============================================================================
