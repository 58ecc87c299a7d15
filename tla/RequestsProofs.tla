--------------------------- MODULE RequestsProofs ---------------------------
(***************************************************************************)
(* Theorems about what requests leave behind, for any number of tabs and   *)
(* accounts, of tellers, and of dashboards and threads: the drafts of the  *)
(* web shop, the news of a booking and the dashboards' feed.  The draft's  *)
(* invariant says, column by column, what a request that wrote over        *)
(* nothing may rely on since it read the row; that of the news, what the   *)
(* round that is under way still owes; that of the feed, where each unread *)
(* notice is that a dashboard does not have yet.  At the end the composed  *)
(* specification that TLC runs: each of its behaviours is one of every     *)
(* part, so that the parts' theorems hold in it.                           *)
(***************************************************************************)
EXTENDS MCRequests, IdempotencyProofs, SequenceTheorems, FiniteSetTheorems

-----------------------------------------------------------------------------
(* The draft.                                                              *)

Requests == {"save", "cancel", "claim", "expire", "complete"}
RowStatus == OpenStatus \cup Closing \cup {"none", "expired"}
Account == Customer \cup {"guest"}
TabType == [account : Account, token : BOOLEAN, op : Requests \cup {"off"},
            read : [status : RowStatus, owner : Account], to : OpenStatus]
DraftType == [status : RowStatus, owner : Account, fresh : BOOLEAN]
Typed ==
    /\ draft \in DraftType
    /\ tab \in [Tab -> TabType]
    /\ settled \in BOOLEAN
    /\ crossed \subseteq {"status", "owner", "lapse"}

\* What a request saw when it was admitted.
Admitted ==
    \A t \in Tab :
        /\ tab[t].op = "save" => tab[t].read.status \notin Closing
        /\ tab[t].op = "cancel" => tab[t].read.status # "completed"
        /\ tab[t].op = "claim" => tab[t].account # "guest" /\ tab[t].read.owner \in {"guest", tab[t].account}
        /\ tab[t].op = "expire" => tab[t].read.status \in OpenStatus
        /\ tab[t].op # "off" => tab[t].read.status # "none" /\ draft.status # "none"

\* The status: nothing follows completion.
StatusInv ==
    /\ draft.status = "completed" => settled
    /\ \A t \in Tab : tab[t].read.status = "completed" => settled
    /\ "status" \in crossed \/ (settled => draft.status = "completed")

\* The owner: once somebody owns the draft, nobody else does.
OwnerInv ==
    /\ "guest" \notin assured
    /\ "owner" \in crossed \/
          /\ assured \subseteq {draft.owner}
          /\ \A t \in Tab : tab[t].op # "off" /\ tab[t].read.owner # "guest" => draft.owner = tab[t].read.owner

\* The lapse: only a draft whose time is over is called expired.
LapseInv == "lapse" \in crossed \/ (draft.status = "expired" => ~draft.fresh)

DraftsInv == Typed /\ Admitted /\ StatusInv /\ OwnerInv /\ LapseInv

\* There is no draft yet.
LEMMA InitDrafts == DraftsInit => DraftsInv
<1> SUFFICES ASSUME DraftsInit
             PROVE  DraftsInv
  OBVIOUS
<1>1. draft = [status |-> "none", owner |-> "guest", fresh |-> FALSE]
  BY DEF DraftsInit, NoDraft
<1>2. \A t \in Tab : tab[t] = Browsing
  BY DEF DraftsInit
<1>3. Browsing \in TabType /\ Browsing.op = "off" /\ Browsing.read.status = "none"
  BY DEF Browsing, NothingRead, TabType, Account, Requests, RowStatus, OpenStatus
<1>4. draft \in DraftType
  BY <1>1 DEF DraftType, RowStatus, Account
<1>5. Typed
  BY <1>3, <1>4 DEF DraftsInit, Typed
<1> QED
  BY <1>1, <1>2, <1>3, <1>5 DEF DraftsInit, DraftsInv, Admitted, StatusInv, OwnerInv, LapseInv

-----------------------------------------------------------------------------
\* What a request changes of its tab.
LEMMA TabToken ==
    ASSUME NEW r \in TabType, NEW b \in BOOLEAN
    PROVE  /\ [r EXCEPT !.token = b] \in TabType
           /\ [r EXCEPT !.token = b].op = r.op
           /\ [r EXCEPT !.token = b].read = r.read
<1> DEFINE new == [r EXCEPT !.token = b]
<1>1. new = [account |-> r.account, token |-> b, op |-> r.op, read |-> r.read, to |-> r.to]
  BY DEF TabType
<1>2. /\ r.account \in Account /\ r.op \in Requests \cup {"off"} /\ r.to \in OpenStatus
      /\ r.read \in [status : RowStatus, owner : Account]
  BY DEF TabType
<1> HIDE DEF new
<1>3. new \in TabType /\ new.op = r.op /\ new.read = r.read
  BY <1>1, <1>2 DEF TabType
<1> QED
  BY <1>3 DEF new

\* A request and what it read are taken off again.
LEMMA TabRests ==
    ASSUME NEW r \in TabType, NEW rests,
           rests = [r EXCEPT !.op = "off", !.read = NothingRead, !.to = "draft"]
    PROVE  /\ rests \in TabType
           /\ rests.op = "off" /\ rests.account = r.account /\ rests.read = NothingRead
<1>1. NothingRead \in [status : RowStatus, owner : Account] /\ "draft" \in OpenStatus
  BY DEF NothingRead, RowStatus, Account, OpenStatus
<1>2. rests \in TabType
  BY <1>1 DEF TabType
<1>3. rests.op = "off" /\ rests.account = r.account /\ rests.read = NothingRead
  BY DEF TabType
<1> QED
  BY <1>2, <1>3

\* A tab that stops asking leaves nothing behind.
LEMMA EndTab ==
    ASSUME Typed, NEW t \in Tab, EndRequest(t)
    PROVE  /\ tab' \in [Tab -> TabType]
           /\ tab'[t].op = "off" /\ tab'[t].read = NothingRead /\ tab'[t].account = tab[t].account
           /\ \A u \in Tab \ {t} : tab'[u] = tab[u]
<1> DEFINE rest == [tab[t] EXCEPT !.op = "off", !.read = NothingRead, !.to = "draft"]
<1>1. rest \in TabType /\ rest.op = "off" /\ rest.read = NothingRead /\ rest.account = tab[t].account
  BY TabRests DEF Typed
<1>2. tab' = [tab EXCEPT ![t] = rest]
  BY DEF EndRequest
<1> HIDE DEF rest
<1> QED
  BY <1>1, <1>2 DEF Typed

\* Steps that write no row: the tabs that have a request have the one they had.
LEMMA TabsOnly ==
    ASSUME DraftsInv, UNCHANGED <<draft, settled, assured, crossed>>, tab' \in [Tab -> TabType],
           \A t \in Tab : \/ tab'[t].op = "off" /\ tab'[t].read \in {tab[t].read, NothingRead}
                          \/ tab'[t] = tab[t]
    PROVE  DraftsInv'
  BY DEF DraftsInv, Typed, Admitted, StatusInv, OwnerInv, LapseInv, NothingRead, DraftType

\* The first request of a browser makes the draft.
LEMMA CreateDrafts ==
    ASSUME DraftsInv, NEW t \in Tab, CreateDraft(t)
    PROVE  DraftsInv'
<1>1. PICK status \in OpenStatus :
         draft' = [status |-> status, owner |-> tab[t].account, fresh |-> TRUE]
  BY DEF CreateDraft
<1>2. PICK browser \in {S \in SUBSET Tab : t \in S} :
         tab' = [u \in Tab |-> [tab[u] EXCEPT !.token = u \in browser]]
  BY DEF CreateDraft
<1>3. /\ draft.status = "none" /\ assured' = {tab[t].account} \ {"guest"}
      /\ UNCHANGED <<settled, crossed>>
  BY DEF CreateDraft
<1>4. tab[t] \in TabType /\ tab[t].account \in Account
  BY DEF DraftsInv, Typed, TabType
<1>5. \A u \in Tab : tab[u].op = "off"
  BY <1>3 DEF DraftsInv, Admitted, Typed, TabType
<1>6. \A u \in Tab : /\ tab'[u] \in TabType /\ tab'[u].op = tab[u].op /\ tab'[u].read = tab[u].read
  <2> TAKE u \in Tab
  <2> DEFINE given == u \in browser
  <2>1. tab'[u] = [tab[u] EXCEPT !.token = given]
    BY <1>2
  <2>2. given \in BOOLEAN /\ tab[u] \in TabType
    BY DEF DraftsInv, Typed
  <2> HIDE DEF given
  <2> QED
    BY <2>1, <2>2, TabToken
<1>7. Typed'
  <2>1. draft' \in DraftType
    BY <1>1, <1>4 DEF DraftType, RowStatus
  <2>2. tab' \in [Tab -> TabType]
    BY <1>2, <1>6
  <2> QED
    BY <1>3, <2>1, <2>2 DEF DraftsInv, Typed
<1>8. /\ draft'.status \in OpenStatus /\ draft'.status \notin {"completed", "expired"}
      /\ draft'.owner = tab[t].account
  BY <1>1 DEF OpenStatus
<1>9. settled => "status" \in crossed
  BY <1>3 DEF DraftsInv, StatusInv
<1> QED
  BY <1>3, <1>5, <1>6, <1>7, <1>8, <1>9 DEF DraftsInv, Admitted, StatusInv, OwnerInv, LapseInv

\* A request is admitted by the row as it is.
LEMMA OpenDrafts ==
    ASSUME DraftsInv, NEW t \in Tab, NEW op \in Requests, OpenRequest(t, op)
    PROVE  DraftsInv'
<1>1. PICK to \in OpenStatus :
         tab' = [tab EXCEPT ![t] = [tab[t] EXCEPT !.op = op, !.to = to, !.read.status = draft.status,
                                                  !.read.owner = draft.owner]]
  BY DEF OpenRequest, OpenStatus
<1>2. /\ draft.status # "none" /\ Admits(t, op)
      /\ UNCHANGED <<draft, settled, assured, crossed>>
  BY DEF OpenRequest
<1> DEFINE new == [tab[t] EXCEPT !.op = op, !.to = to, !.read.status = draft.status,
                                 !.read.owner = draft.owner]
<1>3. /\ new \in TabType /\ new.op = op /\ new.account = tab[t].account
      /\ new.read.status = draft.status /\ new.read.owner = draft.owner
  <2>1. tab[t] \in TabType /\ draft.status \in RowStatus /\ draft.owner \in Account
    BY DEF DraftsInv, Typed, DraftType
  <2>2. new \in TabType
    BY <2>1 DEF TabType
  <2>3. new.op = op /\ new.account = tab[t].account
    BY <2>1 DEF TabType
  <2>4. new.read.status = draft.status /\ new.read.owner = draft.owner
    BY <2>1 DEF TabType
  <2> QED
    BY <2>2, <2>3, <2>4
<1> HIDE DEF new
<1>4. tab' \in [Tab -> TabType] /\ tab'[t] = new /\ \A u \in Tab \ {t} : tab'[u] = tab[u]
  BY <1>1, <1>3 DEF DraftsInv, Typed, new
<1>5. /\ op = "save" => draft.status \notin Closing
      /\ op = "cancel" => draft.status # "completed"
      /\ op = "claim" => tab[t].account # "guest" /\ draft.owner \in {"guest", tab[t].account}
      /\ op = "expire" => draft.status \in OpenStatus
  BY <1>2 DEF Admits, Lapsed
<1>6. Admitted'
  BY <1>2, <1>3, <1>4, <1>5 DEF DraftsInv, Admitted
<1> QED
  BY <1>2, <1>3, <1>4, <1>6 DEF DraftsInv, Typed, StatusInv, OwnerInv, LapseInv

-----------------------------------------------------------------------------
(* The commit, column by column.                                           *)

\* What each request writes.
LEMMA WrittenRow ==
    ASSUME Typed, NEW t \in Tab, tab[t].op \in Requests
    PROVE  /\ Updated(t) \in DraftType
           /\ tab[t].op # "claim" => Updated(t).owner = draft.owner
           /\ tab[t].op = "claim" => /\ Updated(t).status = draft.status
                                     /\ Updated(t).owner = IF tab[t].account = tab[t].read.owner
                                                           THEN draft.owner ELSE tab[t].account
           /\ tab[t].op = "save" => Updated(t).status = IF tab[t].to = tab[t].read.status
                                                        THEN draft.status ELSE tab[t].to
           /\ tab[t].op = "cancel" => Updated(t).status = IF tab[t].read.status = "cancelled"
                                                          THEN draft.status ELSE "cancelled"
           /\ tab[t].op = "expire" => Updated(t).status = "expired"
           /\ tab[t].op = "complete" => Updated(t).status = IF tab[t].read.status = "completed"
                                                            THEN draft.status ELSE "completed"
           /\ tab[t].op # "save" => Updated(t).fresh = draft.fresh
<1>1. draft \in DraftType /\ tab[t].account \in Account /\ tab[t].to \in OpenStatus
      /\ OpenStatus \subseteq RowStatus /\ {"cancelled", "completed", "expired"} \subseteq RowStatus
  BY DEF Typed, TabType, RowStatus, Closing
<1>2. CASE tab[t].op = "save"
  <2>1. Updated(t) = [draft EXCEPT !.status = IF tab[t].to = tab[t].read.status THEN draft.status ELSE tab[t].to,
                                   !.fresh = TRUE]
    BY <1>2 DEF Updated, Unless
  <2> QED
    BY <1>1, <1>2, <2>1 DEF DraftType
<1>3. CASE tab[t].op = "cancel"
  <2>1. Updated(t) = [draft EXCEPT !.status = IF tab[t].read.status = "cancelled" THEN draft.status
                                              ELSE "cancelled"]
    BY <1>3 DEF Updated, Unless
  <2> QED
    BY <1>1, <1>3, <2>1 DEF DraftType
<1>4. CASE tab[t].op = "claim"
  <2>1. Updated(t) = [draft EXCEPT !.owner = IF tab[t].account = tab[t].read.owner THEN draft.owner
                                             ELSE tab[t].account]
    BY <1>4 DEF Updated, Unless
  <2> QED
    BY <1>1, <1>4, <2>1 DEF DraftType
<1>5. CASE tab[t].op = "expire"
  <2>1. Updated(t) = [draft EXCEPT !.status = "expired"]
    BY <1>5 DEF Updated
  <2> QED
    BY <1>1, <1>5, <2>1 DEF DraftType
<1>6. CASE tab[t].op = "complete"
  <2>1. Updated(t) = [draft EXCEPT !.status = IF tab[t].read.status = "completed" THEN draft.status
                                              ELSE "completed"]
    BY <1>6 DEF Updated, Unless
  <2> QED
    BY <1>1, <1>6, <2>1 DEF DraftType
<1> QED
  BY <1>2, <1>3, <1>4, <1>5, <1>6 DEF Requests

\* A commit that changes a column another one changed is known to have crossed it.
LEMMA CommitDrafts ==
    ASSUME DraftsInv, NEW t \in Tab, CommitDraft(t)
    PROVE  DraftsInv'
<1>1. /\ tab[t].op \in Requests /\ draft' = Updated(t)
      /\ settled' = (settled \/ tab[t].op = "complete")
      /\ assured' = IF tab[t].op = "claim" THEN assured \cup {tab[t].account} ELSE assured
      /\ crossed' = crossed \cup Overwritten(t)
  BY DEF CommitDraft, DraftsInv, Typed, TabType
<1>2. /\ tab' \in [Tab -> TabType] /\ tab'[t].op = "off" /\ tab'[t].read = NothingRead
      /\ \A u \in Tab \ {t} : tab'[u] = tab[u]
  BY EndTab DEF CommitDraft, DraftsInv
<1> DEFINE was == tab[t].read
           row == Updated(t)
<1>3. /\ row.status # draft.status /\ draft.status # was.status => "status" \in crossed'
      /\ row.owner # draft.owner /\ draft.owner # was.owner => "owner" \in crossed'
      /\ tab[t].op = "expire" /\ draft.fresh => "lapse" \in crossed'
      /\ tab[t].op = "save" /\ row.status = "expired" => "lapse" \in crossed'
      /\ crossed \subseteq crossed' /\ crossed' \subseteq crossed \cup {"status", "owner", "lapse"}
  BY <1>1 DEF Overwritten
<1>w. /\ row \in DraftType
      /\ tab[t].op # "claim" => row.owner = draft.owner
      /\ tab[t].op = "claim" => /\ row.status = draft.status
                                /\ row.owner = IF tab[t].account = was.owner THEN draft.owner ELSE tab[t].account
      /\ tab[t].op = "save" => row.status = IF tab[t].to = was.status THEN draft.status ELSE tab[t].to
      /\ tab[t].op = "cancel" => row.status = IF was.status = "cancelled" THEN draft.status ELSE "cancelled"
      /\ tab[t].op = "expire" => row.status = "expired"
      /\ tab[t].op = "complete" => row.status = IF was.status = "completed" THEN draft.status ELSE "completed"
      /\ tab[t].op # "save" => row.fresh = draft.fresh
  BY <1>1, WrittenRow DEF DraftsInv
<1> HIDE DEF was, row
<1>d. draft' = row
  BY <1>1 DEF row
<1>t. tab[t].to \in OpenStatus /\ OpenStatus \cap {"completed", "expired", "none"} = {}
  BY DEF DraftsInv, Typed, TabType, OpenStatus
<1>a. /\ tab[t].op = "save" => was.status \notin Closing
      /\ tab[t].op = "cancel" => was.status # "completed"
      /\ tab[t].op = "claim" => tab[t].account # "guest" /\ was.owner \in {"guest", tab[t].account}
      /\ tab[t].op = "expire" => was.status \in OpenStatus
      /\ was.status = "completed" => settled
      /\ draft.status # "none"
  BY <1>1 DEF was, DraftsInv, Admitted, StatusInv, Requests
<1>4. Typed'
  <2>1. crossed' \subseteq {"status", "owner", "lapse"} /\ settled' \in BOOLEAN
    BY <1>1, <1>3 DEF DraftsInv, Typed
  <2> QED
    BY <1>2, <1>d, <1>w, <2>1 DEF Typed
<1>5. draft'.status # "none"
  BY <1>1, <1>a, <1>d, <1>t, <1>w DEF Requests
<1>6. Admitted'
  BY <1>2, <1>5 DEF DraftsInv, Admitted
<1>7. StatusInv'
  <2>1. draft'.status = "completed" => settled'
    BY <1>1, <1>d, <1>t, <1>w DEF DraftsInv, StatusInv, Requests
  <2>2. \A u \in Tab : tab'[u].read.status = "completed" => settled'
    <3>1. tab'[t].read.status = "none"
      BY <1>2 DEF NothingRead
    <3>2. \A u \in Tab : tab[u].read.status = "completed" => settled
      BY DEF DraftsInv, StatusInv
    <3> QED
      BY <1>1, <1>2, <3>1, <3>2
  <2>3. ASSUME "status" \notin crossed', settled'
        PROVE  draft'.status = "completed"
    <3>1. settled => draft.status = "completed"
      BY <1>3, <2>3 DEF DraftsInv, StatusInv
    <3>2. CASE tab[t].op = "complete"
      BY <1>a, <1>d, <1>w, <3>1, <3>2
    <3>3. CASE tab[t].op # "complete"
      <4>1. draft.status = "completed"
        BY <1>1, <2>3, <3>1, <3>3
      <4>2. row.status = draft.status \/ was.status = "completed"
        BY <1>3, <2>3, <4>1
      <4>3. was.status = "completed" => row.status = draft.status
        BY <1>1, <1>a, <1>t, <1>w, <3>3 DEF Requests, Closing
      <4> QED
        BY <1>d, <4>1, <4>2, <4>3
    <3> QED
      BY <3>2, <3>3
  <2> QED
    BY <2>1, <2>2, <2>3 DEF StatusInv
<1>8. OwnerInv'
  <2>1. "guest" \notin assured'
    BY <1>1, <1>a DEF DraftsInv, OwnerInv
  <2>2. ASSUME "owner" \notin crossed'
        PROVE  /\ assured' \subseteq {draft'.owner}
               /\ \A u \in Tab : tab'[u].op # "off" /\ tab'[u].read.owner # "guest"
                                   => draft'.owner = tab'[u].read.owner
    <3>1. /\ assured \subseteq {draft.owner} /\ "guest" \notin assured
          /\ \A u \in Tab : tab[u].op # "off" /\ tab[u].read.owner # "guest" => draft.owner = tab[u].read.owner
      BY <1>3, <2>2 DEF DraftsInv, OwnerInv
    <3>2. was.owner # "guest" => draft.owner = was.owner
      BY <1>1, <3>1 DEF was, Requests
    <3>3. row.owner = draft.owner \/ (draft.owner = "guest" /\ tab[t].op = "claim")
      BY <1>3, <1>a, <1>w, <2>2, <3>2
    <3>4. tab[t].op = "claim" => row.owner = tab[t].account
      BY <1>a, <1>w, <3>2
    <3>5. assured' \subseteq {row.owner}
      BY <1>1, <3>1, <3>3, <3>4
    <3>6. \A u \in Tab : tab'[u].op # "off" /\ tab'[u].read.owner # "guest" => row.owner = tab'[u].read.owner
      BY <1>2, <3>1, <3>3
    <3> QED
      BY <1>d, <3>5, <3>6
  <2> QED
    BY <2>1, <2>2 DEF OwnerInv
<1>9. LapseInv'
  <2> SUFFICES ASSUME "lapse" \notin crossed', row.status = "expired"
               PROVE  ~row.fresh
    BY <1>d DEF LapseInv
  <2>1. draft.status = "expired" => ~draft.fresh
    BY <1>3 DEF DraftsInv, LapseInv
  <2> QED
    BY <1>1, <1>3, <1>t, <1>w, <2>1 DEF Requests
<1> QED
  BY <1>4, <1>6, <1>7, <1>8, <1>9 DEF DraftsInv

-----------------------------------------------------------------------------
\* Every step keeps the invariant.
LEMMA NextDrafts == DraftsInv /\ [DraftsNext]_draftVars => DraftsInv'
<1> SUFFICES ASSUME DraftsInv, [DraftsNext]_draftVars
             PROVE  DraftsInv'
  OBVIOUS
<1>1. ASSUME NEW t \in Tab, LogInTab(t)
      PROVE  DraftsInv'
  <2>1. PICK c \in Customer : tab' = [tab EXCEPT ![t].account = c]
    BY <1>1 DEF LogInTab
  <2> DEFINE new == [tab[t] EXCEPT !.account = c]
  <2>2. new \in TabType /\ new.op = tab[t].op /\ new.read = tab[t].read
    BY DEF DraftsInv, Typed, TabType, Account
  <2>3. tab' = [tab EXCEPT ![t] = new]
    BY <2>1 DEF DraftsInv, Typed
  <2> HIDE DEF new
  <2>4. /\ tab' \in [Tab -> TabType] /\ tab'[t].op = "off" /\ tab'[t].read = tab[t].read
        /\ \A u \in Tab \ {t} : tab'[u] = tab[u]
    BY <1>1, <2>2, <2>3 DEF LogInTab, DraftsInv, Typed
  <2> QED
    BY <1>1, <2>4, TabsOnly DEF LogInTab
<1>2. ASSUME NEW t \in Tab, DropTab(t)
      PROVE  DraftsInv'
  <2>1. Typed
    BY DEF DraftsInv
  <2> QED
    BY <1>2, <2>1, EndTab, TabsOnly DEF DropTab
<1>3. CASE DaysPass
  <2>1. /\ draft'.status = draft.status /\ draft'.owner = draft.owner /\ ~draft'.fresh
        /\ draft' \in DraftType /\ UNCHANGED <<tab, settled, assured, crossed>>
    BY <1>3 DEF DaysPass, DraftsInv, Typed, DraftType
  <2> QED
    BY <2>1 DEF DraftsInv, Typed, Admitted, StatusInv, OwnerInv, LapseInv
<1>4. CASE UNCHANGED draftVars
  BY <1>4 DEF draftVars, DraftsInv, Typed, Admitted, StatusInv, OwnerInv, LapseInv
<1> QED
  BY <1>1, <1>2, <1>3, <1>4, CreateDrafts, CommitDrafts, OpenDrafts DEF DraftsNext, Requests

\* A finished draft stays finished, an owner stays the only one and a saved draft
\* is not called expired, for any number of tabs and accounts, unless a request
\* wrote that column over a commit it had not seen (claim_drafts,
\* _expire_if_needed).
THEOREM DraftsTheorem == DraftsSpec => []DraftsKept
<1>1. DraftsInv => DraftsKept
  BY DEF DraftsInv, StatusInv, OwnerInv, LapseInv, DraftsKept
<1> QED
  BY <1>1, InitDrafts, NextDrafts, PTL DEF DraftsSpec

-----------------------------------------------------------------------------
(* The news of a booking.                                                  *)

About == {"created", "enquiry", "again", "confirmed"}
Place == {"off", "ask", "send", "feed", "mail", "ops"}
Standing == {"none", "PENDING", "CONFIRMED", "CANCELLED"}
TellerState == [pc : Place, about : About, read : Standing]
Told == [ack : {"none", "COMPLETED", "PENDING", "FAILED"},
         confirm : {"none", "COMPLETED", "PENDING", "FAILED"},
         customer : BOOLEAN, ops : BOOLEAN, feed : BOOLEAN]
NewsTyped ==
    /\ standing \in Standing
    /\ language \in {"base", "regional"}
    /\ told \in Told
    /\ chat \in [wording : Wording, status : Standing]
    /\ teller \in [Teller -> TellerState]
    /\ slip \subseteq {"refused", "window", "broken"}

\* Who writes to the chat found the booking as the message says it.
SendsDue == \A t \in Teller : teller[t].pc = "send" => Due(WordingOf(t), teller[t].read)

\* A round of notices of the confirmed booking that reaches everybody: it goes on,
\* with what it passed already sent.
OnRound(t) ==
    /\ teller[t].about = "confirmed" /\ teller[t].pc # "off"
    /\ teller[t].pc # "mail" => told.customer
    /\ teller[t].pc = "ops" => told.confirm # "none"
RoundGoesOn ==
    standing = "CONFIRMED" /\ "broken" \notin slip =>
        \/ told.customer /\ told.ops /\ told.confirm # "none"
        \/ \E t \in Teller : OnRound(t)
OnItsWay ==
    \A t \in Teller : teller[t].about = "confirmed" => teller[t].pc \in {"mail", "ask", "send", "ops"}

NewsInv == NewsTyped /\ SendsDue /\ OnItsWay /\ RoundGoesOn /\ NewsTrue /\ NewsReaches

\* A message the provider refuses for no reason of its own met the closed window
\* and the wrong language at once.
LEMMA FailsForBoth ==
    ASSUME NEW believed \in BOOLEAN, NEW open \in BOOLEAN, language \in {"base", "regional"},
           ChatOutcome(believed, open) # "ok"
    PROVE  language = "regional" /\ believed /\ ~open
BY DEF ChatOutcome, AfterLanguage, AfterWindow, ProviderReply, Template

LEMMA NewsBegins == NewsInit => NewsInv
BY DEF NewsInit, NewsInv, NewsTyped, SendsDue, OnItsWay, RoundGoesOn, NewsTrue, NewsReaches,
       Told, TellerState, Standing, Place, About, Wording, Silent

LEMMA NewsStutter == NewsInv /\ UNCHANGED newsVars => NewsInv'
BY DEF newsVars, NewsInv, NewsTyped, SendsDue, OnItsWay, RoundGoesOn, OnRound, NewsTrue, NewsReaches,
       WordingOf, Due

\* The booking moves and somebody starts to tell.
LEMMA BookingMoves ==
    ASSUME NewsInv, NEW t \in Teller, Created(t) \/ Confirmed(t) \/ Resend(t)
    PROVE  NewsInv'
<1> USE DEF NewsInv, NewsTyped
<1>1. PICK about \in About, place \in {"ask", "mail"} :
         /\ StartTelling(t, about, place)
         /\ about = "confirmed" <=> place = "mail"
         /\ standing' = "CONFIRMED" => about = "confirmed"
  <2>1. CASE Created(t)
    BY <2>1 DEF Created, About
  <2>2. CASE Confirmed(t) \/ Resend(t)
    BY <2>2 DEF Confirmed, Resend, About
  <2> QED
    BY <2>1, <2>2
<1>2. /\ standing' \in Standing
      /\ UNCHANGED <<language, told, chat, slip>>
  BY <1>1 DEF Created, Confirmed, Resend, StartTelling, Silent, TellerState, Standing
<1>3. /\ teller' \in [Teller -> TellerState]
      /\ teller'[t] = [pc |-> place, about |-> about, read |-> "none"]
      /\ \A s \in Teller \ {t} : teller'[s] = teller[s]
  BY <1>1 DEF StartTelling, Silent, TellerState, Place, Standing
<1>4. SendsDue'
  BY <1>2, <1>3 DEF SendsDue, WordingOf, Due
<1>5. OnItsWay'
  BY <1>1, <1>3 DEF OnItsWay
<1>6. RoundGoesOn'
  <2>1. standing' = "CONFIRMED" => OnRound(t)'
    BY <1>1, <1>2, <1>3 DEF OnRound
  <2> QED
    BY <2>1 DEF RoundGoesOn
<1> QED
  BY <1>2, <1>3, <1>4, <1>5, <1>6 DEF NewsTrue, NewsReaches

LEMMA BookingTurns == NewsInv /\ CancelOrReopen => NewsInv'
BY DEF CancelOrReopen, NewsInv, NewsTyped, Standing, SendsDue, OnItsWay, RoundGoesOn, OnRound, NewsTrue,
       NewsReaches, WordingOf, Due

\* A teller goes on.
LEMMA OneGoesOn ==
    ASSUME NewsTyped, NEW t \in Teller, NEW place \in Place, Onto(t, place)
    PROVE  /\ teller' \in [Teller -> TellerState]
           /\ teller'[t] = [pc |-> place, about |-> teller[t].about, read |-> teller[t].read]
           /\ \A s \in Teller \ {t} : teller'[s] = teller[s]
BY DEF Onto, NewsTyped, TellerState

LEMMA OneStops ==
    ASSUME NewsTyped, NEW t \in Teller, Quiet(t)
    PROVE  /\ teller' \in [Teller -> TellerState]
           /\ teller'[t] = Silent
           /\ \A s \in Teller \ {t} : teller'[s] = teller[s]
BY DEF Quiet, NewsTyped, TellerState, Silent, Place, About, Standing

LEMMA AfterChatMoves ==
    ASSUME NewsTyped, NEW t \in Teller, AfterChat(t)
    PROVE  /\ teller' \in [Teller -> TellerState]
           /\ teller[t].about = "confirmed" =>
                 teller'[t].pc = "ops" /\ teller'[t].about = "confirmed"
           /\ teller[t].about # "confirmed" =>
                 teller'[t].pc \in {"feed", "off"} /\ teller'[t].about # "confirmed"
           /\ \A s \in Teller \ {t} : teller'[s] = teller[s]
<1>1. CASE teller[t].about = "confirmed"
  <2>1. Onto(t, "ops") /\ "ops" \in Place
    BY <1>1 DEF AfterChat, Place
  <2>2. /\ teller' \in [Teller -> TellerState]
        /\ teller'[t] = [pc |-> "ops", about |-> teller[t].about, read |-> teller[t].read]
        /\ \A s \in Teller \ {t} : teller'[s] = teller[s]
    BY <2>1, OneGoesOn
  <2> QED
    BY <1>1, <2>2
<1>2. CASE teller[t].about \in {"created", "enquiry"}
  <2>1. Onto(t, "feed") /\ "feed" \in Place
    BY <1>2 DEF AfterChat, Place
  <2>2. /\ teller' \in [Teller -> TellerState]
        /\ teller'[t] = [pc |-> "feed", about |-> teller[t].about, read |-> teller[t].read]
        /\ \A s \in Teller \ {t} : teller'[s] = teller[s]
    BY <2>1, OneGoesOn
  <2> QED
    BY <1>2, <2>2
<1>3. CASE teller[t].about = "again"
  <2>1. Quiet(t)
    BY <1>3 DEF AfterChat
  <2> QED
    BY <1>3, <2>1, OneStops DEF Silent
<1> QED
  BY <1>1, <1>2, <1>3 DEF NewsTyped, TellerState, About

\* Dashboards and mails.
LEMMA MailStep ==
    ASSUME NewsInv, NEW t \in Teller, ToDashboards(t) \/ MailCustomer(t) \/ MailOperations(t)
    PROVE  NewsInv'
<1> USE DEF NewsInv
<1>1. CASE ToDashboards(t)
  <2>1. /\ teller' \in [Teller -> TellerState]
        /\ teller'[t].about # "confirmed" /\ teller'[t].pc \in {"ask", "off"}
        /\ \A s \in Teller \ {t} : teller'[s] = teller[s]
    <3>1. CASE teller[t].about = "enquiry"
      <4>1. teller' = [teller EXCEPT ![t] = [pc |-> "ask", about |-> "again", read |-> "none"]]
        BY <1>1, <3>1 DEF ToDashboards
      <4> QED
        BY <4>1 DEF NewsTyped, TellerState, Place, About, Standing
    <3>2. CASE teller[t].about # "enquiry"
      <4>1. Quiet(t)
        BY <1>1, <3>2 DEF ToDashboards
      <4> QED
        BY <4>1, OneStops DEF Silent
    <3> QED
      BY <3>1, <3>2
  <2>2. /\ teller[t].about # "confirmed"
        /\ told' = [told EXCEPT !.feed = TRUE] /\ UNCHANGED <<standing, language, chat, slip>>
    BY <1>1 DEF ToDashboards, OnItsWay
  <2>3. NewsTyped'
    BY <2>1, <2>2 DEF NewsTyped, Told
  <2>4. SendsDue' /\ OnItsWay'
    BY <2>1, <2>2 DEF SendsDue, OnItsWay, WordingOf, Due
  <2>5. told'.customer = told.customer /\ told'.ops = told.ops /\ told'.confirm = told.confirm
        /\ told'.ack = told.ack
    BY <2>2 DEF NewsTyped, Told
  <2>6. RoundGoesOn'
    BY <2>1, <2>2, <2>5 DEF RoundGoesOn, OnRound
  <2> QED
    BY <2>2, <2>3, <2>4, <2>5, <2>6 DEF NewsTrue, NewsReaches, Wording
<1>2. CASE MailCustomer(t)
  <2>1. /\ teller' \in [Teller -> TellerState]
        /\ teller'[t] = [pc |-> "ask", about |-> teller[t].about, read |-> teller[t].read]
        /\ \A s \in Teller \ {t} : teller'[s] = teller[s]
    BY <1>2, OneGoesOn DEF MailCustomer, Place
  <2>2. told' = [told EXCEPT !.customer = TRUE] /\ UNCHANGED <<standing, language, chat, slip>>
    BY <1>2 DEF MailCustomer
  <2>3. NewsTyped'
    BY <2>1, <2>2 DEF NewsTyped, Told
  <2>4. SendsDue' /\ OnItsWay'
    BY <2>1, <2>2 DEF SendsDue, OnItsWay, WordingOf, Due
  <2>5. told'.customer /\ told'.ops = told.ops /\ told'.confirm = told.confirm
        /\ told'.ack = told.ack
    BY <2>2 DEF NewsTyped, Told
  <2>6. \A s \in Teller : OnRound(s) => OnRound(s)'
    BY <2>1, <2>2, <2>5 DEF OnRound
  <2>7. RoundGoesOn'
    BY <2>2, <2>5, <2>6 DEF RoundGoesOn
  <2> QED
    BY <2>2, <2>3, <2>4, <2>5, <2>7 DEF NewsTrue, NewsReaches, Wording
<1>3. CASE MailOperations(t)
  <2>1. /\ teller' \in [Teller -> TellerState]
        /\ teller'[t] = Silent
        /\ \A s \in Teller \ {t} : teller'[s] = teller[s]
    BY <1>3, OneStops DEF MailOperations
  <2>2. told' = [told EXCEPT !.ops = TRUE] /\ UNCHANGED <<standing, language, chat, slip>>
    BY <1>3 DEF MailOperations
  <2>3. NewsTyped'
    BY <2>1, <2>2 DEF NewsTyped, Told
  <2>4. SendsDue' /\ OnItsWay'
    BY <2>1, <2>2 DEF SendsDue, OnItsWay, WordingOf, Due, Silent
  <2>5. told'.customer = told.customer /\ told'.ops /\ told'.confirm = told.confirm
        /\ told'.ack = told.ack
    BY <2>2 DEF NewsTyped, Told
  <2>6. \A s \in Teller \ {t} : OnRound(s) => OnRound(s)'
    BY <2>1, <2>5 DEF OnRound
  <2>7. OnRound(t) => told'.customer /\ told'.ops /\ told'.confirm # "none"
    BY <1>3, <2>5 DEF OnRound, MailOperations
  <2>8. RoundGoesOn'
    BY <2>2, <2>5, <2>6, <2>7 DEF RoundGoesOn
  <2> QED
    BY <2>2, <2>3, <2>4, <2>5, <2>8 DEF NewsTrue, NewsReaches, Wording
<1> QED
  BY <1>1, <1>2, <1>3

\* The look at the booking.
LEMMA AskStep ==
    ASSUME NewsInv, NEW t \in Teller, AskBooking(t)
    PROVE  NewsInv'
<1> USE DEF NewsInv
<1> DEFINE due == /\ Due(WordingOf(t), standing)
                  /\ told[WordingOf(t)] \notin {"COMPLETED", "PENDING", "SENDING"}
<1>1. teller[t].pc = "ask" /\ UNCHANGED <<standing, language, told, chat, slip>>
  BY DEF AskBooking
<1>2. CASE due
  <2>1. /\ teller' \in [Teller -> TellerState]
        /\ teller'[t] = [pc |-> "send", about |-> teller[t].about, read |-> standing]
        /\ \A s \in Teller \ {t} : teller'[s] = teller[s]
    BY <1>2 DEF AskBooking, NewsTyped, TellerState, Place
  <2>2. NewsTyped' /\ OnItsWay'
    BY <1>1, <2>1 DEF NewsTyped, OnItsWay
  <2>3. SendsDue'
    BY <1>1, <1>2, <2>1 DEF SendsDue, WordingOf, Due
  <2>4. \A s \in Teller : OnRound(s) => OnRound(s)'
    BY <1>1, <2>1 DEF OnRound
  <2> QED
    BY <1>1, <2>2, <2>3, <2>4 DEF RoundGoesOn, NewsTrue, NewsReaches
<1>3. CASE ~due
  <2>1. AfterChat(t)
    BY <1>3 DEF AskBooking
  <2>2. NewsTyped' /\ OnItsWay'
    BY <1>1, <2>1, AfterChatMoves DEF NewsTyped, OnItsWay
  <2>3. SendsDue'
    BY <1>1, <2>1, AfterChatMoves DEF SendsDue, WordingOf, Due
  <2>4. \A s \in Teller \ {t} : OnRound(s) => OnRound(s)'
    BY <1>1, <2>1, AfterChatMoves DEF OnRound
  <2>5. OnRound(t) /\ standing = "CONFIRMED" => OnRound(t)'
    <3>1. teller[t].about = "confirmed" /\ standing = "CONFIRMED" => told.confirm # "none"
      BY <1>3 DEF Due, WordingOf
    <3> QED
      BY <1>1, <2>1, <3>1, AfterChatMoves DEF OnRound
  <2> QED
    BY <1>1, <2>2, <2>3, <2>4, <2>5 DEF RoundGoesOn, NewsTrue, NewsReaches
<1> QED
  BY <1>2, <1>3

\* The message.
LEMMA ChatStep ==
    ASSUME NewsInv, NEW t \in Teller, SendChat(t)
    PROVE  NewsInv'
<1> USE DEF NewsInv
<1> DEFINE wording == WordingOf(t)
<1>1. /\ teller[t].pc = "send" /\ AfterChat(t) /\ UNCHANGED <<standing, language>>
      /\ wording \in Wording /\ (teller[t].about = "confirmed" <=> wording = "confirm")
  BY DEF SendChat, WordingOf, Wording
<1>2. PICK result \in {"COMPLETED", "PENDING", "FAILED"}, more \in SUBSET {"refused", "window"} :
         /\ told' = [told EXCEPT ![wording] = result]
         /\ chat' = IF result = "FAILED" \/ teller[t].read # standing THEN chat
                    ELSE [wording |-> wording, status |-> standing]
         /\ slip' = slip \cup more
         /\ result = "FAILED" => "refused" \in more \/ (language = "regional" /\ "window" \in more)
  <2>1. PICK believed \in BOOLEAN, open \in BOOLEAN, fate \in {"answered", "timeout", "refused"} :
       LET result == CASE fate = "timeout" -> "PENDING"
                       [] fate = "answered" /\ ChatOutcome(believed, open) = "ok" -> "COMPLETED"
                       [] OTHER -> "FAILED" IN
       /\ told' = [told EXCEPT ![wording] = result]
       /\ chat' = IF result = "FAILED" \/ teller[t].read # standing THEN chat
                  ELSE [wording |-> wording, status |-> standing]
       /\ slip' = slip \cup (IF fate = "refused" THEN {"refused"} ELSE {})
                       \cup (IF believed /\ ~open THEN {"window"} ELSE {})
    BY DEF SendChat
  <2> DEFINE result == CASE fate = "timeout" -> "PENDING"
                       [] fate = "answered" /\ ChatOutcome(believed, open) = "ok" -> "COMPLETED"
                       [] OTHER -> "FAILED"
             more == (IF fate = "refused" THEN {"refused"} ELSE {})
                       \cup (IF believed /\ ~open THEN {"window"} ELSE {})
  <2>2. result \in {"COMPLETED", "PENDING", "FAILED"} /\ more \in SUBSET {"refused", "window"}
    OBVIOUS
  <2>3. slip' = slip \cup more
    BY <2>1
  <2>4. result = "FAILED" => "refused" \in more \/ (language = "regional" /\ "window" \in more)
    <3>1. CASE fate = "refused"
      BY <3>1
    <3>2. CASE fate = "answered"
      BY <3>2, FailsForBoth DEF NewsTyped
    <3> QED
      BY <3>1, <3>2
  <2> HIDE DEF more
  <2>5. /\ told' = [told EXCEPT ![wording] = result]
        /\ chat' = IF result = "FAILED" \/ teller[t].read # standing THEN chat
                   ELSE [wording |-> wording, status |-> standing]
    BY <2>1
  <2> HIDE DEF result
  <2> QED
    BY <2>2, <2>3, <2>4, <2>5
<1>3. /\ told' \in Told /\ told'[wording] = result
      /\ \A w \in Wording \ {wording} : told'[w] = told[w]
      /\ told'.customer = told.customer /\ told'.ops = told.ops
  <2>1. CASE wording = "ack"
    BY <1>2, <2>1 DEF NewsTyped, Told, Wording
  <2>2. CASE wording = "confirm"
    BY <1>2, <2>2 DEF NewsTyped, Told, Wording
  <2> QED
    BY <1>1, <2>1, <2>2 DEF Wording
<1>4. NewsTyped' /\ OnItsWay'
  <2>1. chat' \in [wording : Wording, status : Standing]
    <3>1. CASE result = "FAILED" \/ teller[t].read # standing
      BY <1>2, <3>1 DEF NewsTyped
    <3>2. CASE ~(result = "FAILED" \/ teller[t].read # standing)
      BY <1>1, <1>2, <3>2 DEF NewsTyped
    <3> QED
      BY <3>1, <3>2
  <2>2. slip' \subseteq {"refused", "window", "broken"}
    BY <1>2 DEF NewsTyped
  <2> QED
    BY <1>1, <1>3, <2>1, <2>2, AfterChatMoves DEF NewsTyped, OnItsWay
<1>5. SendsDue'
  BY <1>1, AfterChatMoves DEF SendsDue, WordingOf, Due
<1>6. NewsTrue'
  <2>1. Due(wording, teller[t].read)
    BY <1>1 DEF SendsDue
  <2> QED
    BY <1>1, <1>2, <2>1 DEF NewsTrue, Due, Wording, NewsTyped
<1>7. NewsReaches'
  BY <1>1, <1>2, <1>3 DEF NewsReaches
<1>8. RoundGoesOn'
  <2>1. told.confirm # "none" => told'.confirm # "none"
    BY <1>1, <1>3 DEF Wording
  <2>2. \A s \in Teller \ {t} : OnRound(s) => OnRound(s)'
    BY <1>1, <1>3, <2>1, AfterChatMoves DEF OnRound
  <2>3. OnRound(t) => OnRound(t)'
    BY <1>1, <1>3, AfterChatMoves DEF OnRound
  <2>4. "broken" \notin slip' => "broken" \notin slip
    BY <1>2
  <2> QED
    BY <1>1, <1>3, <2>1, <2>2, <2>3, <2>4 DEF RoundGoesOn
<1> QED
  BY <1>4, <1>5, <1>6, <1>7, <1>8

\* Something goes wrong and is put down.
LEMMA TellerFails ==
    ASSUME NewsInv, NEW t \in Teller, Raises(t) \/ TellerDies(t)
    PROVE  NewsInv'
<1> USE DEF NewsInv
<1>1. slip' = slip \cup {"broken"} /\ UNCHANGED <<standing, language, told, chat>>
  BY DEF Raises, TellerDies
<1>2. /\ teller' \in [Teller -> TellerState]
      /\ teller'[t].pc # "send"
      /\ teller'[t].about = "confirmed" => teller'[t].pc = "ops"
      /\ \A s \in Teller \ {t} : teller'[s] = teller[s]
  <2>1. CASE AfterChat(t)
    BY <2>1, AfterChatMoves
  <2>2. CASE Quiet(t)
    BY <2>2, OneStops DEF Silent
  <2> QED
    BY <2>1, <2>2 DEF Raises, TellerDies
<1>3. NewsTyped' /\ OnItsWay'
  BY <1>1, <1>2 DEF NewsTyped, OnItsWay
<1>4. SendsDue'
  BY <1>1, <1>2 DEF SendsDue, WordingOf, Due
<1> QED
  BY <1>1, <1>3, <1>4 DEF RoundGoesOn, NewsTrue, NewsReaches

LEMMA NewsStep == NewsInv /\ [NewsNext]_newsVars => NewsInv'
<1> SUFFICES ASSUME NewsInv, [NewsNext]_newsVars
             PROVE  NewsInv'
  OBVIOUS
<1>1. CASE \E t \in Teller : Created(t) \/ Confirmed(t) \/ Resend(t)
  BY <1>1, BookingMoves
<1>2. CASE \E t \in Teller : ToDashboards(t) \/ MailCustomer(t) \/ MailOperations(t)
  BY <1>2, MailStep
<1>3. CASE \E t \in Teller : AskBooking(t)
  BY <1>3, AskStep
<1>4. CASE \E t \in Teller : SendChat(t)
  BY <1>4, ChatStep
<1>5. CASE \E t \in Teller : Raises(t) \/ TellerDies(t)
  BY <1>5, TellerFails
<1>6. CASE CancelOrReopen
  BY <1>6, BookingTurns
<1>7. CASE UNCHANGED newsVars
  BY <1>7, NewsStutter
<1> QED
  BY <1>1, <1>2, <1>3, <1>4, <1>5, <1>6, <1>7 DEF NewsNext

LEMMA NewsFollows == NewsInv => NewsTypeOK /\ NewsTold
<1> SUFFICES ASSUME NewsInv
             PROVE  NewsTypeOK /\ NewsTold
  OBVIOUS
<1>1. NewsTypeOK
  BY DEF NewsInv, NewsTyped, NewsTypeOK, Wording, Told, Standing
<1>2. EveryoneTold
  BY DEF NewsInv, EveryoneTold, RoundGoesOn, OnRound, Telling
<1> QED
  BY <1>1, <1>2 DEF NewsInv, NewsTold

\* However many requests and threads tell at once: the chat never confirms a
\* cancelled booking, a message that failed was refused or met the closed window in
\* the wrong language, and of a confirmed booking customer, chat and operations
\* were each tried (notify_booking_created, notify_booking_confirmed).
THEOREM NewsTheorem == NewsSpec => []NewsTold
<1>1. NewsSpec => []NewsInv
  BY NewsBegins, NewsStep, PTL DEF NewsSpec
<1> QED
  BY <1>1, NewsFollows, PTL

-----------------------------------------------------------------------------
(* The dashboards' feed.                                                   *)

Stream == [worker : Worker \cup {"none"}, listening : BOOLEAN, queue : Seq(NoticeId),
           caughtUp : BOOLEAN, shown : SUBSET NoticeId]
Push == [pc : {"off", "posted", "push"}, notice : NoticeId \cup {"none"}, worker : Worker \cup {"none"},
         todo : SUBSET Dashboard, at : Dashboard \cup {"none"}]
FeedTyped ==
    /\ posted \in [NoticeId -> {"none", "unread", "read"}]
    /\ newer \in [NoticeId -> SUBSET NoticeId] /\ \A n \in NoticeId : IsFiniteSet(newer[n])
    /\ board \in [Dashboard -> Stream]
    /\ pusher \in [Pusher -> Push]
    /\ recent \in [Dashboard -> Seq(NoticeId)]
    /\ missed \in [Dashboard -> SUBSET NoticeId]
    /\ crowded \subseteq Dashboard

\* Who pushes has a notice, and only connected streams left.
PushesNamed ==
    \A p \in Pusher :
        /\ pusher[p].pc # "off" => pusher[p].notice \in NoticeId
        /\ pusher[p].pc # "push" => pusher[p].todo = {} /\ pusher[p].at = "none"
        /\ pusher[p].todo \subseteq Connected
        /\ pusher[p].at # "none" => pusher[p].at \in pusher[p].todo

\* The queue is the newest part of what was put.
QueueNewest(d) ==
    LET queue == board[d].queue
        put == recent[d] IN
    /\ Len(queue) <= Len(put) /\ Len(put) <= MaxWaiting
    /\ \A i \in 1 .. Len(queue) : queue[i] = put[Len(put) - Len(queue) + i]
    /\ d \notin Connected => put = <<>> /\ board[d] = Away

\* What was put is there, but for the oldest of a full queue while its room is
\* being made.
PutKept(d) ==
    board[d].listening => \A i \in 1 .. Len(recent[d]) :
        recent[d][i] \in HasBoard(d) \/ (i = 1 /\ Len(recent[d]) = MaxWaiting /\ MidPush(d))

\* A push that no other crosses finds room.
RoomMade(d) ==
    d \notin crowded => \A p, q \in Pusher :
        pusher[p].at = d => Len(board[d].queue) < MaxWaiting /\ (pusher[q].at = d => q = p)

\* What is unread was shown or put, or is named as underway or missed.
Known(d) == board[d].shown \cup ToSet(recent[d]) \cup Underway(d) \cup missed[d]
UnreadKnown(d) == board[d].caughtUp /\ board[d].listening => UnreadNewest \subseteq Known(d)

GivenUp(d) == d \in Connected /\ ~board[d].listening => d \in crowded
FeedKept(d) == QueueNewest(d) /\ PutKept(d) /\ RoomMade(d) /\ UnreadKnown(d) /\ GivenUp(d)
FeedInv == FeedTyped /\ PushesNamed /\ \A d \in Dashboard : FeedKept(d)

LEMMA FeedBegins == FeedInit => FeedInv
<1> SUFFICES ASSUME FeedInit PROVE FeedInv
  OBVIOUS
<1> USE DEF FeedInit
<1>1. Away \in Stream /\ NotPushing \in Push
  BY DEF Away, NotPushing, Stream, Push
<1>2. FeedTyped
  BY <1>1, FS_EmptySet DEF FeedTyped
<1>3. PushesNamed
  BY DEF PushesNamed, NotPushing
<1>4. ASSUME NEW d \in Dashboard
      PROVE  FeedKept(d)
  <2>1. board[d] = Away /\ recent[d] = <<>> /\ d \notin Connected
    BY DEF Away, Connected
  <2>2. QueueNewest(d)
    BY <2>1, FeedAssumption DEF QueueNewest, Away
  <2>3. RoomMade(d)
    BY FeedAssumption DEF RoomMade, NotPushing
  <2> QED
    BY <2>1, <2>2, <2>3 DEF FeedKept, PutKept, UnreadKnown, GivenUp, Away
<1> QED
  BY <1>2, <1>3, <1>4 DEF FeedInv

\* A step that leaves a stream alone and forgets none of its notices.
LEMMA StreamAlone ==
    ASSUME NEW d \in Dashboard, FeedKept(d),
           board'[d] = board[d], recent'[d] = recent[d], missed[d] \subseteq missed'[d],
           d \in crowded => d \in crowded',
           d \in Connected <=> d \in Connected',
           \A p \in Pusher : pusher'[p].at = d <=> pusher[p].at = d,
           d \in Connected => Underway(d) \subseteq Underway(d)' \cup missed'[d],
           UnreadNewest' \subseteq UnreadNewest \cup Underway(d)'
    PROVE  FeedKept(d)'
<1> USE DEF FeedKept
<1>1. HasBoard(d)' = HasBoard(d) /\ (MidPush(d) <=> MidPush(d)')
  BY DEF HasBoard, MidPush
<1>2. QueueNewest(d)'
  BY DEF QueueNewest
<1>3. PutKept(d)'
  BY <1>1 DEF PutKept
<1>4. RoomMade(d)'
  BY DEF RoomMade
<1>5. UnreadKnown(d)'
  <2>1. CASE d \in Connected
    BY <2>1 DEF UnreadKnown, Known
  <2>2. CASE d \notin Connected
    BY <2>2 DEF UnreadKnown, QueueNewest, Away
  <2> QED
    BY <2>1, <2>2
<1>6. GivenUp(d)'
  BY DEF GivenUp
<1> QED
  BY <1>2, <1>3, <1>4, <1>5, <1>6

LEMMA FeedStutter == FeedInv /\ UNCHANGED feedVars => FeedInv'
<1> SUFFICES ASSUME FeedInv, UNCHANGED feedVars PROVE FeedInv'
  OBVIOUS
<1>1. FeedTyped' /\ PushesNamed'
  BY DEF FeedInv, FeedTyped, PushesNamed, Connected, feedVars
<1>2. \A d \in Dashboard : FeedKept(d)'
  BY StreamAlone DEF FeedInv, feedVars, Connected, Underway, UnreadNewest, Newest
<1> QED
  BY <1>1, <1>2 DEF FeedInv

-----------------------------------------------------------------------------
(* A push's steps that touch no stream.                                    *)

LEMMA PostStep ==
    ASSUME FeedInv, NEW p \in Pusher, NEW n \in NoticeId, NEW w \in Worker, PostNotice(p, n, w)
    PROVE  FeedInv'
<1> USE DEF FeedInv
<1>1. /\ pusher[p].pc = "off"
      /\ posted' = [posted EXCEPT ![n] = IF @ = "none" THEN "unread" ELSE @]
      /\ UNCHANGED <<board, recent, missed, crowded>>
  BY DEF PostNotice
<1>2. /\ pusher' \in [Pusher -> Push]
      /\ pusher'[p] = [pc |-> "posted", notice |-> n, worker |-> w, todo |-> {}, at |-> "none"]
      /\ \A q \in Pusher \ {p} : pusher'[q] = pusher[q]
  BY DEF PostNotice, NotPushing, FeedTyped, Push
<1>3. /\ posted' \in [NoticeId -> {"none", "unread", "read"}]
      /\ newer' \in [NoticeId -> SUBSET NoticeId] /\ \A m \in NoticeId : IsFiniteSet(newer'[m])
      /\ UnreadNewest' \subseteq UnreadNewest \cup {n}
  <2>1. ASSUME NEW m \in NoticeId
        PROVE  /\ newer'[m] \in SUBSET NoticeId /\ IsFiniteSet(newer'[m])
               /\ Cardinality(newer'[m]) < PageSize => Cardinality(newer[m]) < PageSize
    <3>1. newer'[m] = newer[m] \/ newer'[m] = newer[m] \cup {n}
      BY DEF PostNotice, FeedTyped
    <3>2. /\ newer[m] \in SUBSET NoticeId /\ IsFiniteSet(newer[m]) /\ IsFiniteSet(newer[m] \cup {n})
          /\ Cardinality(newer[m]) <= Cardinality(newer[m] \cup {n})
          /\ Cardinality(newer[m]) \in Nat /\ Cardinality(newer[m] \cup {n}) \in Nat
      <4>1. newer[m] \in SUBSET NoticeId /\ IsFiniteSet(newer[m])
        BY DEF FeedTyped
      <4>2. IsFiniteSet(newer[m] \cup {n})
        BY <4>1, FS_AddElement
      <4>3. newer[m] \in SUBSET (newer[m] \cup {n})
        OBVIOUS
      <4> QED
        BY <4>1, <4>2, <4>3, FS_Subset, FS_CardinalityType
    <3> QED
      BY <3>1, <3>2, FeedAssumption
  <2>2. newer' \in [NoticeId -> SUBSET NoticeId]
    BY <2>1 DEF PostNotice, FeedTyped
  <2>3. posted' \in [NoticeId -> {"none", "unread", "read"}]
    BY <1>1 DEF FeedTyped
  <2>4. \A m \in NoticeId \ {n} : posted'[m] = posted[m]
    BY <1>1 DEF FeedTyped
  <2>5. UnreadNewest' \subseteq UnreadNewest \cup {n}
    BY <2>1, <2>4 DEF UnreadNewest, Newest
  <2> QED
    BY <2>1, <2>2, <2>3, <2>5
<1>4. FeedTyped' /\ PushesNamed'
  BY <1>1, <1>2, <1>3 DEF FeedTyped, PushesNamed, Connected
<1>5. ASSUME NEW d \in Dashboard
      PROVE  FeedKept(d)'
  <2>1. \A q \in Pusher : pusher'[q].at = d <=> pusher[q].at = d
    BY <1>1, <1>2, FeedAssumption DEF PushesNamed
  <2>2. n \in Underway(d)'
    BY <1>2 DEF Underway
  <2>3. Underway(d) \subseteq Underway(d)'
    BY <1>1, <1>2 DEF Underway, PushesNamed
  <2> QED
    BY <1>1, <1>3, <2>1, <2>2, <2>3, StreamAlone DEF Connected
<1> QED
  BY <1>4, <1>5

LEMMA SnapshotStep ==
    ASSUME FeedInv, NEW p \in Pusher, Snapshot(p)
    PROVE  FeedInv'
<1> USE DEF FeedInv
<1> DEFINE own == {d \in Connected : board[d].worker = pusher[p].worker /\ board[d].listening}
<1>1. /\ pusher[p].pc = "posted" /\ pusher[p].notice \in NoticeId
      /\ missed' = [d \in Dashboard |->
                    IF d \in Connected \ own THEN missed[d] \cup {pusher[p].notice} ELSE missed[d]]
      /\ UNCHANGED <<posted, newer, board, recent, crowded>>
  BY DEF Snapshot, PushesNamed
<1>2. own \subseteq Connected /\ Connected \subseteq Dashboard
  BY DEF Connected
<1>3. /\ pusher' \in [Pusher -> Push]
      /\ pusher'[p] = [pusher[p] EXCEPT !.pc = "push", !.todo = own]
      /\ \A q \in Pusher \ {p} : pusher'[q] = pusher[q]
  <2>1. pusher' = [pusher EXCEPT ![p] = [@ EXCEPT !.pc = "push", !.todo = own]]
    BY DEF Snapshot
  <2>2. own \in SUBSET Dashboard /\ pusher[p] \in Push
    BY <1>2 DEF FeedTyped
  <2> HIDE DEF own
  <2>3. [pusher[p] EXCEPT !.pc = "push", !.todo = own] \in Push
    BY <2>2 DEF Push
  <2> QED
    BY <2>1, <2>3 DEF FeedTyped
<1>4. /\ pusher'[p].pc = "push" /\ pusher'[p].todo = own /\ pusher'[p].notice = pusher[p].notice
      /\ pusher'[p].at = pusher[p].at
  BY <1>3 DEF FeedTyped, Push
<1> HIDE DEF own
<1>5. FeedTyped' /\ PushesNamed'
  <2>1. missed' \in [Dashboard -> SUBSET NoticeId]
    BY <1>1 DEF FeedTyped
  <2> QED
    BY <1>1, <1>2, <1>3, <1>4, <2>1 DEF FeedTyped, PushesNamed, Connected
<1>6. ASSUME NEW d \in Dashboard
      PROVE  FeedKept(d)'
  <2>1. \A q \in Pusher : pusher'[q].at = d <=> pusher[q].at = d
    BY <1>3, <1>4
  <2>2. d \in Connected => pusher[p].notice \in Underway(d)' \cup missed'[d]
    BY <1>1, <1>4 DEF Underway
  <2>3. d \in Connected => Underway(d) \subseteq Underway(d)' \cup missed'[d]
    BY <1>1, <1>3, <2>2 DEF Underway
  <2>4. missed[d] \subseteq missed'[d]
    BY <1>1
  <2> QED
    BY <1>1, <2>1, <2>3, <2>4, StreamAlone DEF Connected, UnreadNewest, Newest
<1> QED
  BY <1>5, <1>6

LEMMA PushEnded ==
    ASSUME FeedInv, NEW p \in Pusher, PushEnds(p) \/ PushStops(p)
    PROVE  FeedInv'
<1> USE DEF FeedInv
<1>1. /\ UNCHANGED <<posted, newer, board, recent, crowded>>
      /\ pusher' = [pusher EXCEPT ![p] = NotPushing]
      /\ pusher[p].at = "none" /\ pusher[p].notice \in NoticeId
  <2>1. CASE PushEnds(p)
    BY <2>1 DEF PushEnds, PushesNamed
  <2>2. CASE PushStops(p)
    BY <2>2 DEF PushStops, PushesNamed
  <2> QED
    BY <2>1, <2>2
<1>2. /\ pusher' \in [Pusher -> Push]
      /\ pusher'[p] = NotPushing
      /\ \A q \in Pusher \ {p} : pusher'[q] = pusher[q]
  BY <1>1 DEF FeedTyped, Push, NotPushing
<1>3. /\ missed' \in [Dashboard -> SUBSET NoticeId]
      /\ \A d \in Dashboard : missed[d] \subseteq missed'[d]
      /\ \A d \in Connected : pusher[p].pc = "posted" \/ d \in pusher[p].todo =>
            pusher[p].notice \in missed'[d]
  <2>1. CASE PushEnds(p)
    BY <2>1 DEF PushEnds, FeedTyped
  <2>2. CASE PushStops(p)
    <3>1. missed' = [d \in Dashboard |->
                    IF (pusher[p].pc = "posted" /\ d \in Connected) \/ d \in pusher[p].todo
                    THEN missed[d] \cup {pusher[p].notice} ELSE missed[d]]
      BY <2>2 DEF PushStops
    <3> QED
      BY <1>1, <3>1 DEF FeedTyped, Connected
  <2> QED
    BY <2>1, <2>2
<1>4. FeedTyped' /\ PushesNamed'
  BY <1>1, <1>2, <1>3 DEF FeedTyped, PushesNamed, Connected, NotPushing
<1>5. ASSUME NEW d \in Dashboard
      PROVE  FeedKept(d)'
  <2>1. \A q \in Pusher : pusher'[q].at = d <=> pusher[q].at = d
    BY <1>1, <1>2 DEF NotPushing
  <2>2. d \in Connected => Underway(d) \subseteq Underway(d)' \cup missed'[d]
    BY <1>2, <1>3 DEF Underway
  <2> QED
    BY <1>1, <1>3, <2>1, <2>2, StreamAlone DEF Connected, UnreadNewest, Newest
<1> QED
  BY <1>4, <1>5

LEMMA ReadStep ==
    ASSUME FeedInv, NEW d \in Dashboard, MarkAll(d) \/ \E n \in NoticeId : MarkRead(d, n)
    PROVE  FeedInv'
<1> USE DEF FeedInv
<1>1. UNCHANGED <<newer, board, pusher, recent, missed, crowded>>
  BY DEF MarkAll, MarkRead
<1>2. posted' \in [NoticeId -> {"none", "unread", "read"}] /\ UnreadNewest' \subseteq UnreadNewest
  <2>1. CASE MarkAll(d)
    BY <2>1 DEF MarkAll, FeedTyped, UnreadNewest, Newest
  <2>2. CASE \E n \in NoticeId : MarkRead(d, n)
    BY <2>2 DEF MarkRead, FeedTyped, UnreadNewest, Newest
  <2> QED
    BY <2>1, <2>2
<1>3. FeedTyped' /\ PushesNamed'
  BY <1>1, <1>2 DEF FeedTyped, PushesNamed, Connected
<1>4. \A e \in Dashboard : FeedKept(e)'
  BY <1>1, <1>2, StreamAlone DEF Connected, Underway
<1> QED
  BY <1>3, <1>4

-----------------------------------------------------------------------------
(* A push's steps at a stream.                                             *)

LEMMA TailOf ==
    ASSUME NEW S, NEW s \in Seq(S), Len(s) > 0
    PROVE  /\ Tail(s) \in Seq(S) /\ Len(Tail(s)) = Len(s) - 1
           /\ \A i \in 1 .. Len(s) - 1 : Tail(s)[i] = s[i + 1]
           /\ Head(s) = s[1] /\ s[1] \in S
OBVIOUS

LEMMA AppendOf ==
    ASSUME NEW S, NEW s \in Seq(S), NEW n \in S
    PROVE  /\ Append(s, n) \in Seq(S) /\ Len(Append(s, n)) = Len(s) + 1
           /\ \A i \in 1 .. Len(s) : Append(s, n)[i] = s[i]
           /\ Append(s, n)[Len(s) + 1] = n
OBVIOUS

LEMMA StreamHas ==
    ASSUME NEW shown, NEW s \in Seq(NoticeId)
    PROVE  /\ \A i \in 1 .. Len(s) : s[i] \in shown \cup ToSet(s)
           /\ shown \subseteq shown \cup ToSet(s)
           /\ \A n \in shown \cup ToSet(s) : n \in shown \/ \E i \in 1 .. Len(s) : n = s[i]
<1>1. DOMAIN s = 1 .. Len(s)
  OBVIOUS
<1> QED
  BY <1>1 DEF ToSet

LEMMA RoomStep ==
    ASSUME FeedInv, NEW p \in Pusher, NEW d \in Dashboard, MakeRoom(p, d)
    PROVE  FeedInv'
<1> USE DEF FeedInv
<1>1. /\ pusher[p].pc = "push" /\ pusher[p].at = "none" /\ d \in pusher[p].todo
      /\ pusher' = [pusher EXCEPT ![p].at = d]
      /\ board' = IF Len(board[d].queue) = MaxWaiting
                  THEN [board EXCEPT ![d].queue = Tail(@)] ELSE board
      /\ crowded' = IF \E q \in Pusher : pusher[q].at = d THEN crowded \cup {d} ELSE crowded
      /\ UNCHANGED <<posted, newer, recent, missed>>
  BY DEF MakeRoom
<1>2. d # "none" /\ d \in Connected
  BY <1>1, FeedAssumption DEF PushesNamed
<1>3. /\ pusher' \in [Pusher -> Push]
      /\ pusher'[p] = [pusher[p] EXCEPT !.at = d] /\ pusher'[p].at = d
      /\ pusher'[p].pc = pusher[p].pc /\ pusher'[p].notice = pusher[p].notice
      /\ pusher'[p].todo = pusher[p].todo
      /\ \A q \in Pusher \ {p} : pusher'[q] = pusher[q]
  BY <1>1 DEF FeedTyped, Push
<1> DEFINE queue == board[d].queue
<1>4. queue \in Seq(NoticeId) /\ recent[d] \in Seq(NoticeId) /\ MaxWaiting \in Nat /\ MaxWaiting > 0
  BY FeedAssumption DEF FeedTyped, Stream
<1>5. /\ board' \in [Dashboard -> Stream]
      /\ \A e \in Dashboard \ {d} : board'[e] = board[e]
      /\ board'[d].worker = board[d].worker /\ board'[d].listening = board[d].listening
      /\ board'[d].caughtUp = board[d].caughtUp /\ board'[d].shown = board[d].shown
      /\ board'[d].queue = IF Len(queue) = MaxWaiting THEN Tail(queue) ELSE queue
  <2>1. CASE Len(queue) = MaxWaiting
    <3>1. Tail(queue) \in Seq(NoticeId)
      BY <1>4, <2>1, TailOf
    <3>2. board' = [board EXCEPT ![d] = [board[d] EXCEPT !.queue = Tail(queue)]]
      BY <1>1, <2>1
    <3> HIDE DEF queue
    <3> QED
      BY <2>1, <3>1, <3>2 DEF FeedTyped, Stream
  <2>2. CASE Len(queue) # MaxWaiting
    BY <1>1, <2>2 DEF FeedTyped
  <2> QED
    BY <2>1, <2>2
<1>6. Connected' = Connected
  BY <1>5 DEF Connected
<1>7. FeedTyped' /\ PushesNamed'
  <2>1. crowded' \subseteq Dashboard
    BY <1>1 DEF FeedTyped
  <2> QED
    BY <1>1, <1>2, <1>3, <1>5, <1>6, <2>1 DEF FeedTyped, PushesNamed
<1>8. \A e \in Dashboard : Underway(e)' = Underway(e)
  <2>1. \A q \in Pusher : /\ pusher'[q].pc = pusher[q].pc /\ pusher'[q].notice = pusher[q].notice
                          /\ pusher'[q].todo = pusher[q].todo
    BY <1>3
  <2> QED
    BY <2>1 DEF Underway
<1>9. ASSUME NEW e \in Dashboard, e # d
      PROVE  FeedKept(e)'
  <2>1. \A q \in Pusher : pusher'[q].at = e <=> pusher[q].at = e
    BY <1>1, <1>3, <1>9, FeedAssumption
  <2> QED
    BY <1>1, <1>5, <1>6, <1>8, <1>9, <2>1, StreamAlone DEF UnreadNewest, Newest
<1>10. FeedKept(d)'
  <2>0. FeedKept(d) /\ FeedTyped
    OBVIOUS
  <2> USE DEF FeedKept
  <2>1. Len(queue) <= Len(recent[d]) /\ Len(recent[d]) <= MaxWaiting
    BY DEF QueueNewest
  <2>2. QueueNewest(d)'
    <3>1. CASE Len(queue) = MaxWaiting
      <4>1. /\ Len(board'[d].queue) = Len(queue) - 1
            /\ \A i \in 1 .. Len(queue) - 1 : board'[d].queue[i] = queue[i + 1]
        BY <1>4, <1>5, <3>1, TailOf
      <4>2. \A i \in 1 .. Len(queue) : queue[i] = recent[d][Len(recent[d]) - Len(queue) + i]
        BY DEF QueueNewest
      <4> HIDE DEF queue
      <4>3. \A i \in 1 .. Len(queue) - 1 :
              board'[d].queue[i] = recent[d][Len(recent[d]) - (Len(queue) - 1) + i]
        <5> SUFFICES ASSUME NEW i \in 1 .. Len(queue) - 1
                     PROVE  board'[d].queue[i] = recent[d][Len(recent[d]) - (Len(queue) - 1) + i]
          OBVIOUS
        <5>1. Len(queue) \in Nat /\ Len(recent[d]) \in Nat
          BY <1>4
        <5>2. /\ i + 1 \in 1 .. Len(queue)
              /\ Len(recent[d]) - Len(queue) + (i + 1) = Len(recent[d]) - (Len(queue) - 1) + i
          <6> DEFINE m == Len(queue)  n == Len(recent[d])
          <6>1. m \in Nat /\ n \in Nat /\ i \in 1 .. m - 1
            BY <5>1
          <6> HIDE DEF m, n
          <6>2. i + 1 \in 1 .. m /\ n - m + (i + 1) = n - (m - 1) + i
            BY <6>1
          <6> QED
            BY <6>2 DEF m, n
        <5>3. queue[i + 1] = recent[d][Len(recent[d]) - Len(queue) + (i + 1)]
          BY <4>2, <5>2
        <5>4. board'[d].queue[i] = queue[i + 1]
          BY <4>1
        <5> QED
          BY <5>2, <5>3, <5>4
      <4> QED
        BY <1>1, <1>2, <1>4, <1>6, <2>1, <4>1, <4>3 DEF QueueNewest
    <3>2. CASE Len(queue) # MaxWaiting
      BY <1>1, <1>2, <1>5, <1>6, <3>2 DEF QueueNewest
    <3> QED
      BY <3>1, <3>2
  <2>3. PutKept(d)'
    <3>1. MidPush(d)'
      BY <1>3 DEF MidPush
    <3>2. CASE Len(queue) = MaxWaiting
      <4>1. Len(recent[d]) = MaxWaiting
        BY <1>4, <2>1, <3>2
      <4>2. \A i \in 1 .. Len(queue) - 1 : queue[i + 1] \in HasBoard(d)'
        <5>1. Tail(queue) \in Seq(NoticeId) /\ board'[d].queue = Tail(queue)
          BY <1>4, <1>5, <3>2, TailOf
        <5>2. \A i \in 1 .. Len(queue) - 1 : Tail(queue)[i] = queue[i + 1]
          BY <1>4, <3>2, TailOf
        <5>3. Len(Tail(queue)) = Len(queue) - 1
          BY <1>4, <3>2, TailOf
        <5>4. \A i \in 1 .. Len(queue) - 1 : Tail(queue)[i] \in HasBoard(d)'
          BY <5>1, <5>3, StreamHas DEF HasBoard
        <5> QED
          BY <5>2, <5>4
      <4>3. \A i \in 1 .. Len(queue) : queue[i] = recent[d][i]
        <5>1. \A i \in 1 .. Len(queue) : queue[i] = recent[d][Len(recent[d]) - Len(queue) + i]
          BY DEF QueueNewest
        <5> HIDE DEF queue
        <5> QED
          BY <1>4, <3>2, <4>1, <5>1
      <4>4. \A i \in 2 .. Len(recent[d]) : recent[d][i] \in HasBoard(d)'
        <5> SUFFICES ASSUME NEW i \in 2 .. Len(recent[d])
                     PROVE  recent[d][i] \in HasBoard(d)'
          OBVIOUS
        <5>1. i - 1 \in 1 .. Len(queue) - 1 /\ (i - 1) + 1 = i /\ i \in 1 .. Len(queue)
          BY <1>4, <3>2, <4>1
        <5> QED
          BY <4>2, <4>3, <5>1
      <4> QED
        BY <1>1, <1>4, <3>1, <4>1, <4>4 DEF PutKept
    <3>3. CASE Len(queue) # MaxWaiting
      <4>1. HasBoard(d)' = HasBoard(d)
        BY <1>5, <3>3 DEF HasBoard
      <4> QED
        BY <1>1, <1>5, <3>1, <4>1 DEF PutKept
    <3> QED
      BY <3>2, <3>3
  <2>4. RoomMade(d)'
    <3> SUFFICES ASSUME d \notin crowded', NEW q \in Pusher, pusher'[q].at = d
                 PROVE  Len(board'[d].queue) < MaxWaiting /\ q = p
      BY <1>3 DEF RoomMade
    <3>1. ~\E r \in Pusher : pusher[r].at = d
      BY <1>1
    <3>2. q = p
      BY <1>3, <3>1
    <3>3. Len(board'[d].queue) < MaxWaiting
      <4>1. CASE Len(queue) = MaxWaiting
        BY <1>4, <1>5, <4>1, TailOf
      <4>2. CASE Len(queue) # MaxWaiting
        BY <1>4, <1>5, <2>1, <4>2
      <4> QED
        BY <4>1, <4>2
    <3> QED
      BY <3>2, <3>3
  <2>5. UnreadKnown(d)'
    BY <1>1, <1>5, <1>8 DEF UnreadKnown, Known, UnreadNewest, Newest
  <2>6. GivenUp(d)'
    BY <1>1, <1>5, <1>6 DEF GivenUp
  <2> QED
    BY <2>2, <2>3, <2>4, <2>5, <2>6
<1> QED
  BY <1>7, <1>9, <1>10

\* Where the notices of the queue are in what was put, when the oldest leave.
LEMMA PlaceShifted ==
    ASSUME NEW q \in Nat, NEW r \in Nat, NEW shift \in {0, 1}, q <= r - shift, NEW i \in 1 .. q + 1,
           NEW j, j = (r + 1 - shift) - (q + 1) + i
    PROVE  /\ j \in 1 .. r + 1 - shift
           /\ i = q + 1 => j + shift = r + 1
           /\ i # q + 1 => i \in 1 .. q /\ j + shift \in 1 .. r /\ j + shift = r - q + i
OBVIOUS

LEMMA PutStep ==
    ASSUME FeedInv, NEW p \in Pusher, Put(p)
    PROVE  FeedInv'
<1> USE DEF FeedInv
<1>0. PICK d \in Dashboard, n \in NoticeId :
         d = pusher[p].at /\ n = pusher[p].notice /\ d \in Connected
  BY DEF Put, PushesNamed, Connected
<1> DEFINE queue == board[d].queue
           fits == Len(queue) < MaxWaiting
           before == Append(recent[d], n)
           long == Len(before) > MaxWaiting
<1>1. /\ pusher[p].pc = "push" /\ d # "none"
      /\ pusher' = [pusher EXCEPT ![p].todo = @ \ {d}, ![p].at = "none"]
      /\ board' = IF fits THEN [board EXCEPT ![d].queue = Append(@, n)]
                          ELSE [board EXCEPT ![d].listening = FALSE]
      /\ fits => /\ recent' = [recent EXCEPT ![d] = IF long THEN Tail(before) ELSE before]
                 /\ missed' = IF long THEN [missed EXCEPT ![d] = @ \cup {before[1]}] ELSE missed
      /\ ~fits => UNCHANGED <<recent, missed>>
      /\ UNCHANGED <<posted, newer, crowded>>
  BY <1>0 DEF Put
<1>2. d \in Connected /\ d \in Dashboard /\ n \in NoticeId
  BY <1>0
<1>3. /\ queue \in Seq(NoticeId) /\ recent[d] \in Seq(NoticeId) /\ MaxWaiting \in Nat /\ MaxWaiting > 0
      /\ missed[d] \subseteq NoticeId
  BY <1>2, FeedAssumption DEF FeedTyped, Stream
<1>4. /\ before \in Seq(NoticeId) /\ Len(before) = Len(recent[d]) + 1
      /\ \A i \in 1 .. Len(recent[d]) : before[i] = recent[d][i]
      /\ before[Len(recent[d]) + 1] = n
  BY <1>2, <1>3, AppendOf
<1>5. Len(queue) <= Len(recent[d]) /\ Len(recent[d]) <= MaxWaiting
  BY <1>2 DEF FeedKept, QueueNewest
<1>6. /\ pusher' \in [Pusher -> Push]
      /\ pusher'[p].at = "none" /\ pusher'[p].todo = pusher[p].todo \ {d}
      /\ pusher'[p].pc = pusher[p].pc /\ pusher'[p].notice = pusher[p].notice
      /\ \A q \in Pusher \ {p} : pusher'[q] = pusher[q]
  <2>1. pusher[p].todo \ {d} \in SUBSET Dashboard /\ pusher[p] \in Push
    BY DEF FeedTyped, Push
  <2> QED
    BY <1>1, <2>1 DEF FeedTyped, Push
<1>7. /\ board' \in [Dashboard -> Stream]
      /\ \A e \in Dashboard \ {d} : board'[e] = board[e]
      /\ board'[d].worker = board[d].worker /\ board'[d].caughtUp = board[d].caughtUp
      /\ board'[d].shown = board[d].shown
      /\ board'[d].listening => fits /\ board[d].listening
      /\ ~board'[d].listening => ~board[d].listening \/ ~fits
      /\ board'[d].queue = IF fits THEN Append(queue, n) ELSE queue
  <2>1. CASE fits
    <3>1. Append(queue, n) \in Seq(NoticeId)
      BY <1>2, <1>3, AppendOf
    <3>2. board' = [board EXCEPT ![d] = [board[d] EXCEPT !.queue = Append(queue, n)]]
      BY <1>1, <2>1
    <3> HIDE DEF queue
    <3> QED
      BY <1>2, <2>1, <3>1, <3>2 DEF FeedTyped, Stream
  <2>2. CASE ~fits
    <3>1. board' = [board EXCEPT ![d] = [board[d] EXCEPT !.listening = FALSE]]
      BY <1>1, <2>2
    <3> QED
      BY <1>2, <2>2, <3>1 DEF FeedTyped, Stream
  <2> QED
    BY <2>1, <2>2
<1>8. Connected' = Connected
  BY <1>2, <1>7 DEF Connected
<1>9. /\ recent' \in [Dashboard -> Seq(NoticeId)] /\ missed' \in [Dashboard -> SUBSET NoticeId]
      /\ \A e \in Dashboard \ {d} : recent'[e] = recent[e] /\ missed'[e] = missed[e]
      /\ recent'[d] = IF fits THEN IF long THEN Tail(before) ELSE before ELSE recent[d]
      /\ fits /\ long => missed'[d] = missed[d] \cup {before[1]}
      /\ ~(fits /\ long) => missed'[d] = missed[d]
  <2>1. CASE fits
    <3> DEFINE kept == IF long THEN Tail(before) ELSE before
               oldest == before[1]
    <3>1. kept \in Seq(NoticeId) /\ oldest \in NoticeId
      BY <1>3, <1>4, TailOf
    <3>2. /\ recent' = [recent EXCEPT ![d] = kept]
          /\ missed' = IF long THEN [missed EXCEPT ![d] = @ \cup {oldest}] ELSE missed
      BY <1>1, <2>1
    <3>3. recent' \in [Dashboard -> Seq(NoticeId)] /\ recent'[d] = kept
          /\ \A e \in Dashboard \ {d} : recent'[e] = recent[e]
      <4> HIDE DEF kept
      <4> QED
        BY <3>1, <3>2 DEF FeedTyped
    <3>4. /\ missed' \in [Dashboard -> SUBSET NoticeId]
          /\ \A e \in Dashboard \ {d} : missed'[e] = missed[e]
          /\ long => missed'[d] = missed[d] \cup {oldest}
          /\ ~long => missed'[d] = missed[d]
      <4> HIDE DEF oldest, long, kept
      <4> QED
        BY <3>1, <3>2 DEF FeedTyped
    <3> HIDE DEF long, before
    <3> QED
      BY <2>1, <3>3, <3>4
  <2>2. CASE ~fits
    BY <1>1, <2>2 DEF FeedTyped
  <2> QED
    BY <2>1, <2>2
<1>10. FeedTyped' /\ PushesNamed'
  BY <1>1, <1>6, <1>7, <1>8, <1>9 DEF FeedTyped, PushesNamed
<1>11. ASSUME NEW e \in Dashboard, e # d
       PROVE  FeedKept(e)'
  <2>1. \A q \in Pusher : pusher'[q].at = e <=> pusher[q].at = e
    BY <1>1, <1>6, <1>0, <1>11, FeedAssumption
  <2>2. Underway(e)' = Underway(e)
    <3>1. \A q \in Pusher : /\ pusher'[q].pc = pusher[q].pc /\ pusher'[q].notice = pusher[q].notice
                            /\ e \in pusher'[q].todo <=> e \in pusher[q].todo
      BY <1>6, <1>11
    <3> QED
      BY <3>1 DEF Underway
  <2> QED
    BY <1>1, <1>7, <1>8, <1>9, <1>11, <2>1, <2>2, StreamAlone DEF UnreadNewest, Newest
<1>12. FeedKept(d)'
  <2>0. FeedKept(d)
    BY <1>2
  <2> USE DEF FeedKept
  <2>1. CASE ~fits
    <3>1. /\ recent'[d] = recent[d] /\ board'[d].queue = queue /\ ~board'[d].listening
      BY <1>7, <1>9, <2>1
    <3>2. QueueNewest(d)'
      BY <1>2, <1>8, <2>0, <3>1 DEF QueueNewest
    <3>3. d \in crowded
      BY <1>3, <1>0, <1>5, <2>0, <2>1 DEF RoomMade
    <3> QED
      BY <1>1, <3>1, <3>2, <3>3 DEF PutKept, RoomMade, UnreadKnown, GivenUp
  <2>2. CASE fits
    <3>1. /\ board'[d].queue = Append(queue, n) /\ Len(board'[d].queue) = Len(queue) + 1
          /\ \A i \in 1 .. Len(queue) : board'[d].queue[i] = queue[i]
          /\ board'[d].queue[Len(queue) + 1] = n
      BY <1>2, <1>3, <1>7, <2>2, AppendOf
    <3>2. \A i \in 1 .. Len(queue) : queue[i] = recent[d][Len(recent[d]) - Len(queue) + i]
      BY <2>0 DEF QueueNewest
    \* shift: how many of the oldest leave recent.
    <3>0. PICK shift \in {0, 1} : shift = 1 <=> long
      <4>1. CASE long
        BY <4>1
      <4>2. CASE ~long
        BY <4>2
      <4> QED
        BY <4>1, <4>2
    <3>3. /\ Len(recent'[d]) = Len(recent[d]) + 1 - shift
          /\ \A i \in 1 .. Len(recent'[d]) : recent'[d][i] = before[i + shift]
          /\ shift \in {0, 1} /\ (shift = 1 <=> Len(recent[d]) = MaxWaiting)
      <4>1. CASE long
        <5>1. recent'[d] = Tail(before)
          BY <1>9, <2>2, <4>1
        <5>2. Len(before) = Len(recent[d]) + 1 /\ Len(recent[d]) = MaxWaiting /\ Len(recent[d]) \in Nat
          BY <1>3, <1>4, <1>5, <4>1
        <5>3. /\ Len(Tail(before)) = Len(before) - 1
              /\ \A i \in 1 .. Len(before) - 1 : Tail(before)[i] = before[i + 1]
          BY <1>4, <5>2, TailOf
        <5>4. shift = 1
          BY <3>0, <4>1
        <5> HIDE DEF before
        <5> QED
          BY <5>1, <5>2, <5>3, <5>4
      <4>2. CASE ~long
        <5>1. recent'[d] = before
          BY <1>9, <2>2, <4>2
        <5>2. /\ Len(before) = Len(recent[d]) + 1 /\ Len(recent[d]) \in Nat
              /\ Len(recent[d]) # MaxWaiting
          BY <1>3, <1>4, <1>5, <4>2
        <5>3. shift = 0
          BY <3>0, <4>2
        <5> HIDE DEF before
        <5> QED
          BY <5>1, <5>2, <5>3
      <4> QED
        BY <4>1, <4>2
    <3>4. Len(queue) \in Nat /\ Len(recent[d]) \in Nat
      BY <1>3
    <3>5. QueueNewest(d)'
      <4>1. Len(board'[d].queue) <= Len(recent'[d]) /\ Len(recent'[d]) <= MaxWaiting
        BY <1>3, <1>5, <2>2, <3>1, <3>3, <3>4
      <4>2. ASSUME NEW i \in 1 .. Len(board'[d].queue)
            PROVE  board'[d].queue[i] = recent'[d][Len(recent'[d]) - Len(board'[d].queue) + i]
        <5>1. PICK j : j = Len(recent'[d]) - Len(board'[d].queue) + i
          OBVIOUS
        <5>2. PICK q \in Nat, r \in Nat : q = Len(queue) /\ r = Len(recent[d])
          BY <3>4
        <5>3. /\ Len(recent'[d]) = r + 1 - shift /\ Len(board'[d].queue) = q + 1
              /\ q <= r - shift /\ i \in 1 .. q + 1
          BY <3>1, <3>3, <4>1, <5>2
        <5>4. j = (r + 1 - shift) - (q + 1) + i
          BY <5>1, <5>3
        <5>5. /\ j \in 1 .. r + 1 - shift
              /\ i = q + 1 => j + shift = r + 1
              /\ i # q + 1 => i \in 1 .. q /\ j + shift \in 1 .. r /\ j + shift = r - q + i
          BY <5>3, <5>4, PlaceShifted
        <5>6. recent'[d][j] = before[j + shift]
          BY <3>3, <5>3, <5>5
        <5> HIDE DEF before
        <5>7. CASE i = q + 1
          BY <1>4, <3>1, <5>1, <5>2, <5>5, <5>6, <5>7
        <5>8. CASE i # q + 1
          <6>1. before[j + shift] = recent[d][r - q + i]
            BY <1>4, <5>2, <5>5, <5>8
          <6>2. board'[d].queue[i] = recent[d][r - q + i]
            BY <3>1, <3>2, <5>2, <5>5, <5>8
          <6> QED
            BY <5>1, <5>6, <6>1, <6>2
        <5> QED
          BY <5>7, <5>8
      <4> QED
        BY <1>2, <1>8, <4>1, <4>2 DEF QueueNewest
    <3>6. HasBoard(d) \subseteq HasBoard(d)' /\ n \in HasBoard(d)'
      <4>1. /\ Append(queue, n) \in Seq(NoticeId) /\ Len(Append(queue, n)) = Len(queue) + 1
            /\ \A i \in 1 .. Len(queue) : Append(queue, n)[i] = queue[i]
            /\ Append(queue, n)[Len(queue) + 1] = n
        BY <1>2, <1>3, AppendOf
      <4>2. \A i \in 1 .. Len(queue) + 1 : Append(queue, n)[i] \in HasBoard(d)'
        BY <3>1, <4>1, StreamHas DEF HasBoard
      <4>3. \A m \in HasBoard(d) : m \in board[d].shown \/ \E i \in 1 .. Len(queue) : m = queue[i]
        BY <1>3, StreamHas DEF HasBoard
      <4>4. board[d].shown \subseteq HasBoard(d)'
        BY <1>7 DEF HasBoard
      <4>5. \A i \in 1 .. Len(queue) : queue[i] \in HasBoard(d)'
        BY <3>4, <4>1, <4>2
      <4>6. n \in HasBoard(d)'
        BY <3>4, <4>1, <4>2
      <4> HIDE DEF queue
      <4> QED
        BY <4>3, <4>4, <4>5, <4>6
    <3>7. ASSUME board'[d].listening
          PROVE  /\ \A i \in 1 .. Len(recent'[d]) : recent'[d][i] \in HasBoard(d)'
                 /\ \A i \in 1 .. Len(recent[d]) :
                       recent[d][i] \in ToSet(recent'[d]) \cup missed'[d]
                 /\ n \in ToSet(recent'[d])
      <4>1. \A i \in 1 .. Len(recent[d]) :
               recent[d][i] \in HasBoard(d) \/ (i = 1 /\ Len(recent[d]) = MaxWaiting)
        BY <1>7, <2>0, <3>7 DEF PutKept
      <4>2. ASSUME NEW i \in 1 .. Len(recent'[d])
            PROVE  recent'[d][i] \in HasBoard(d)'
        <5>1. i + shift \in 1 .. Len(recent[d]) + 1
          BY <3>3, <3>4
        <5>2. CASE i + shift = Len(recent[d]) + 1
          BY <1>4, <3>3, <3>6, <5>2
        <5>3. CASE i + shift # Len(recent[d]) + 1
          <6>1. i + shift \in 1 .. Len(recent[d])
            BY <3>4, <5>1, <5>3
          <6>2. recent[d][i + shift] \in HasBoard(d)
            BY <3>3, <4>1, <6>1
          <6> QED
            BY <1>4, <3>3, <3>6, <6>1, <6>2
        <5> QED
          BY <5>2, <5>3
      <4>3. recent'[d] \in Seq(NoticeId)
        BY <1>2, <1>9
      <4>4. \A i \in 1 .. Len(recent'[d]) : recent'[d][i] \in ToSet(recent'[d])
        BY <4>3, StreamHas
      <4>5. ASSUME NEW i \in 1 .. Len(recent[d])
            PROVE  recent[d][i] \in ToSet(recent'[d]) \cup missed'[d]
        <5>1. CASE i - shift \in 1 .. Len(recent'[d])
          <6>1. (i - shift) + shift = i /\ i \in 1 .. Len(recent[d])
            BY <3>3, <3>4
          <6>2. recent'[d][i - shift] = before[i]
            BY <3>3, <5>1, <6>1
          <6>3. recent'[d][i - shift] \in ToSet(recent'[d])
            BY <4>4, <5>1
          <6> QED
            BY <1>4, <6>2, <6>3
        <5>2. CASE i - shift \notin 1 .. Len(recent'[d])
          <6>1. i = 1 /\ shift = 1
            BY <3>3, <3>4, <5>2
          <6>2. before[1] \in missed'[d]
            BY <1>9, <2>2, <3>0, <6>1
          <6> QED
            BY <1>4, <6>1, <6>2
        <5> QED
          BY <5>1, <5>2
      <4>6. n \in ToSet(recent'[d])
        <5>1. Len(recent'[d]) \in 1 .. Len(recent'[d]) /\ Len(recent'[d]) + shift = Len(recent[d]) + 1
          BY <1>3, <3>3, <3>4
        <5> QED
          BY <1>4, <3>3, <4>4, <5>1
      <4> QED
        BY <4>2, <4>5, <4>6
    <3>8. PutKept(d)'
      BY <3>7 DEF PutKept
    <3>9. RoomMade(d)'
      <4> SUFFICES ASSUME d \notin crowded', NEW q \in Pusher, pusher'[q].at = d
                   PROVE  FALSE
        BY DEF RoomMade
      <4>1. q # p /\ pusher[q].at = d
        BY <1>1, <1>6
      <4> QED
        BY <1>0, <1>1, <2>0, <4>1 DEF RoomMade
    <3>10. UnreadKnown(d)'
      <4> SUFFICES ASSUME board'[d].caughtUp, board'[d].listening, NEW m \in UnreadNewest
                   PROVE  m \in Known(d)'
        BY <1>1 DEF UnreadKnown, UnreadNewest, Newest
      <4>1. m \in Known(d)
        BY <1>7, <2>0 DEF UnreadKnown
      <4>2. CASE m \in board[d].shown \cup missed[d]
        BY <1>7, <1>9, <4>2 DEF Known
      <4>3. CASE m \in ToSet(recent[d])
        <5>1. PICK i \in 1 .. Len(recent[d]) : m = recent[d][i]
          <6>1. DOMAIN recent[d] = 1 .. Len(recent[d])
            BY <1>3
          <6> QED
            BY <4>3, <6>1 DEF ToSet
        <5> QED
          BY <3>7, <5>1 DEF Known
      <4>4. CASE m \in Underway(d)
        <5>1. PICK q \in Pusher : m = pusher[q].notice /\ (pusher[q].pc = "posted" \/ d \in pusher[q].todo)
          BY <4>4 DEF Underway
        <5>2. CASE q = p
          BY <1>0, <3>7, <5>1, <5>2 DEF Known
        <5>3. CASE q # p
          BY <1>6, <5>1, <5>3 DEF Known, Underway
        <5> QED
          BY <5>2, <5>3
      <4> QED
        BY <4>1, <4>2, <4>3, <4>4 DEF Known
    <3>11. GivenUp(d)'
      BY <1>1, <1>7, <1>8, <2>0, <2>2 DEF GivenUp
    <3> QED
      BY <3>5, <3>8, <3>9, <3>10, <3>11
  <2> QED
    BY <2>1, <2>2
<1> QED
  BY <1>10, <1>11, <1>12

-----------------------------------------------------------------------------
(* A dashboard.                                                            *)

LEMMA SubscribeStep ==
    ASSUME FeedInv, NEW d \in Dashboard, NEW w \in Worker, Subscribe(d, w)
    PROVE  FeedInv'
<1> USE DEF FeedInv
<1>1. /\ d \notin Connected
      /\ board' = [board EXCEPT ![d] = [Away EXCEPT !.worker = w, !.listening = TRUE]]
      /\ UNCHANGED <<posted, newer, pusher, recent, missed, crowded>>
  BY DEF Subscribe
<1>2. w # "none"
  BY FeedAssumption
<1>3. /\ board' \in [Dashboard -> Stream]
      /\ board'[d].worker = w /\ board'[d].listening /\ board'[d].queue = <<>>
      /\ ~board'[d].caughtUp /\ board'[d].shown = {}
      /\ \A e \in Dashboard \ {d} : board'[e] = board[e]
  <2> DEFINE fresh == [Away EXCEPT !.worker = w, !.listening = TRUE]
  <2>1. Away \in Stream
    BY DEF Away, Stream
  <2>2. fresh \in Stream
    BY <2>1 DEF Stream
  <2>3. /\ fresh.worker = w /\ fresh.listening /\ fresh.queue = <<>>
        /\ ~fresh.caughtUp /\ fresh.shown = {}
    BY DEF Away
  <2> HIDE DEF fresh
  <2>4. board' \in [Dashboard -> Stream] /\ board'[d] = fresh /\ \A e \in Dashboard \ {d} : board'[e] = board[e]
    BY <1>1, <2>2 DEF FeedTyped, fresh
  <2> QED
    BY <2>3, <2>4
<1>4. Connected' = Connected \cup {d}
  BY <1>2, <1>3 DEF Connected
<1>5. FeedTyped' /\ PushesNamed'
  BY <1>1, <1>3, <1>4 DEF FeedTyped, PushesNamed
<1>6. ASSUME NEW e \in Dashboard, e # d
      PROVE  FeedKept(e)'
  <2>1. e \in Connected <=> e \in Connected'
    BY <1>4, <1>6
  <2> QED
    BY <1>1, <1>3, <1>6, <2>1, StreamAlone DEF Underway, UnreadNewest, Newest
<1>7. FeedKept(d)'
  <2>1. recent'[d] = <<>> /\ board'[d].queue = <<>> /\ d \in Connected'
    BY <1>1, <1>3, <1>4 DEF FeedKept, QueueNewest
  <2>2. QueueNewest(d)' /\ PutKept(d)'
    BY <2>1, FeedAssumption DEF QueueNewest, PutKept
  <2>3. \A q \in Pusher : pusher'[q].at # d
    BY <1>1, FeedAssumption DEF PushesNamed
  <2> QED
    BY <1>3, <2>2, <2>3 DEF FeedKept, RoomMade, UnreadKnown, GivenUp
<1> QED
  BY <1>5, <1>6, <1>7

LEMMA CatchUpStep ==
    ASSUME FeedInv, NEW d \in Dashboard, CatchUp(d)
    PROVE  FeedInv'
<1> USE DEF FeedInv
<1>1. PICK got \in SUBSET NoticeId :
         /\ board' = [board EXCEPT ![d].caughtUp = TRUE, ![d].shown = @ \cup got]
         /\ UnreadNewest \subseteq got
  <2>1. PICK only \in {{"unread"}, {"unread", "read"}} :
           LET rows == {n \in NoticeId : posted[n] \in only}
               page == {n \in rows : Cardinality(newer[n] \cap rows) < PageSize}
           IN board' = [board EXCEPT ![d].caughtUp = TRUE, ![d].shown = @ \cup page]
    BY DEF CatchUp
  <2> DEFINE rows == {n \in NoticeId : posted[n] \in only}
             got == {n \in rows : Cardinality(newer[n] \cap rows) < PageSize}
  <2>2. got \in SUBSET NoticeId
    OBVIOUS
  <2>3. ASSUME NEW n \in UnreadNewest
        PROVE  n \in got
    <3>1. n \in NoticeId /\ n \in rows /\ Cardinality(newer[n]) < PageSize
      BY <2>3 DEF UnreadNewest, Newest
    <3>2. IsFiniteSet(newer[n])
      BY <3>1 DEF FeedTyped
    <3>3. newer[n] \cap rows \in SUBSET newer[n]
      OBVIOUS
    <3>4. /\ Cardinality(newer[n] \cap rows) <= Cardinality(newer[n])
          /\ Cardinality(newer[n] \cap rows) \in Nat /\ Cardinality(newer[n]) \in Nat
      <4> HIDE DEF rows
      <4> QED
        BY <3>2, <3>3, FS_Subset, FS_CardinalityType
    <3> QED
      BY <3>1, <3>4, FeedAssumption
  <2>4. board' = [board EXCEPT ![d].caughtUp = TRUE, ![d].shown = @ \cup got]
    BY <2>1
  <2> HIDE DEF got, rows
  <2> QED
    BY <2>2, <2>3, <2>4
<1>2. UNCHANGED <<posted, newer, pusher, recent, missed, crowded>>
  BY DEF CatchUp
<1>3. /\ board' \in [Dashboard -> Stream]
      /\ board'[d].worker = board[d].worker /\ board'[d].listening = board[d].listening
      /\ board'[d].queue = board[d].queue /\ board'[d].shown = board[d].shown \cup got
      /\ \A e \in Dashboard \ {d} : board'[e] = board[e]
  BY <1>1 DEF FeedTyped, Stream
<1>4. Connected' = Connected /\ d \in Connected
  BY <1>3 DEF Connected, CatchUp
<1>5. FeedTyped' /\ PushesNamed'
  BY <1>2, <1>3, <1>4 DEF FeedTyped, PushesNamed
<1>6. ASSUME NEW e \in Dashboard, e # d
      PROVE  FeedKept(e)'
  BY <1>2, <1>3, <1>4, <1>6, StreamAlone DEF Underway, UnreadNewest, Newest
<1>7. FeedKept(d)'
  <2> USE DEF FeedKept
  <2>0. FeedKept(d)
    OBVIOUS
  <2>1. HasBoard(d) \subseteq HasBoard(d)' /\ (MidPush(d) <=> MidPush(d)')
    BY <1>2, <1>3 DEF HasBoard, MidPush
  <2>2. QueueNewest(d)'
    BY <1>2, <1>3, <1>4, <2>0 DEF QueueNewest
  <2>3. PutKept(d)'
    BY <1>2, <1>3, <2>0, <2>1 DEF PutKept
  <2>4. RoomMade(d)'
    BY <1>2, <1>3, <2>0 DEF RoomMade
  <2>5. UnreadKnown(d)'
    BY <1>1, <1>2, <1>3 DEF UnreadKnown, Known, UnreadNewest, Newest
  <2> QED
    BY <1>2, <1>3, <1>4, <2>0, <2>2, <2>3, <2>4, <2>5 DEF GivenUp
<1> QED
  BY <1>5, <1>6, <1>7

LEMMA ShowStep ==
    ASSUME FeedInv, NEW d \in Dashboard, ShowNotice(d)
    PROVE  FeedInv'
<1> USE DEF FeedInv
<1> DEFINE queue == board[d].queue
<1>1. /\ queue # <<>>
      /\ board' = [board EXCEPT ![d].queue = Tail(@), ![d].shown = @ \cup {Head(queue)}]
      /\ UNCHANGED <<posted, newer, pusher, recent, missed, crowded>>
  BY DEF ShowNotice
<1>2. /\ queue \in Seq(NoticeId) /\ Len(queue) > 0 /\ Len(queue) \in Nat
      /\ recent[d] \in Seq(NoticeId) /\ Len(recent[d]) \in Nat
  BY <1>1 DEF FeedTyped, Stream
<1>3. /\ Tail(queue) \in Seq(NoticeId) /\ Len(Tail(queue)) = Len(queue) - 1
      /\ \A i \in 1 .. Len(queue) - 1 : Tail(queue)[i] = queue[i + 1]
      /\ Head(queue) = queue[1] /\ queue[1] \in NoticeId
  BY <1>2, TailOf
<1>4. /\ board' \in [Dashboard -> Stream]
      /\ board'[d].worker = board[d].worker /\ board'[d].listening = board[d].listening
      /\ board'[d].caughtUp = board[d].caughtUp
      /\ board'[d].queue = Tail(queue) /\ board'[d].shown = board[d].shown \cup {Head(queue)}
      /\ \A e \in Dashboard \ {d} : board'[e] = board[e]
  <2> DEFINE shown == board[d].shown \cup {Head(queue)}
             tail == Tail(queue)
             read == [board[d] EXCEPT !.queue = tail, !.shown = shown]
  <2>1. shown \in SUBSET NoticeId /\ tail \in Seq(NoticeId) /\ board[d] \in Stream
    BY <1>3 DEF FeedTyped, Stream
  <2>2. board' = [board EXCEPT ![d] = read]
    BY <1>1
  <2> HIDE DEF shown, tail
  <2>3. /\ read \in Stream /\ read.worker = board[d].worker /\ read.listening = board[d].listening
        /\ read.caughtUp = board[d].caughtUp /\ read.queue = tail /\ read.shown = shown
    BY <2>1 DEF Stream
  <2> HIDE DEF read
  <2>4. board' \in [Dashboard -> Stream] /\ board'[d] = read /\ \A e \in Dashboard \ {d} : board'[e] = board[e]
    BY <2>2, <2>3 DEF FeedTyped
  <2> QED
    BY <2>3, <2>4 DEF shown, tail
<1>5. Connected' = Connected /\ d \in Connected
  BY <1>1, <1>4 DEF Connected, FeedKept, QueueNewest, Away
<1>6. FeedTyped' /\ PushesNamed'
  BY <1>1, <1>4, <1>5 DEF FeedTyped, PushesNamed
<1>7. ASSUME NEW e \in Dashboard, e # d
      PROVE  FeedKept(e)'
  BY <1>1, <1>4, <1>5, <1>7, StreamAlone DEF Underway, UnreadNewest, Newest
<1>8. FeedKept(d)'
  <2> USE DEF FeedKept
  <2>0. FeedKept(d)
    OBVIOUS
  <2>1. HasBoard(d) \subseteq HasBoard(d)'
    <3>1. \A i \in 1 .. Len(queue) - 1 : Tail(queue)[i] \in HasBoard(d)'
      BY <1>3, <1>4, StreamHas DEF HasBoard
    <3>2. queue[1] \in HasBoard(d)' /\ board[d].shown \subseteq HasBoard(d)'
      BY <1>3, <1>4 DEF HasBoard
    <3>3. ASSUME NEW i \in 1 .. Len(queue)
          PROVE  queue[i] \in HasBoard(d)'
      <4>1. CASE i = 1
        BY <3>2, <4>1
      <4>2. CASE i # 1
        <5>1. i - 1 \in 1 .. Len(queue) - 1 /\ (i - 1) + 1 = i
          BY <1>2, <4>2
        <5> QED
          BY <1>3, <3>1, <5>1
      <4> QED
        BY <4>1, <4>2
    <3>4. \A n \in HasBoard(d) : n \in board[d].shown \/ \E i \in 1 .. Len(queue) : n = queue[i]
      BY <1>2, StreamHas DEF HasBoard
    <3> QED
      BY <3>2, <3>3, <3>4
  <2>2. QueueNewest(d)'
    <3>1. /\ Len(queue) <= Len(recent[d]) /\ Len(recent[d]) <= MaxWaiting
          /\ \A i \in 1 .. Len(queue) : queue[i] = recent[d][Len(recent[d]) - Len(queue) + i]
      BY <2>0 DEF QueueNewest
    <3>2. PICK q \in Nat, r \in Nat : q = Len(queue) /\ r = Len(recent[d]) /\ q > 0
      BY <1>2
    <3>3. q - 1 <= r /\ \A i \in 1 .. q : queue[i] = recent[d][r - q + i]
      <4>1. q - 1 <= r
        BY <3>1, <3>2
      <4>2. ASSUME NEW i \in 1 .. q
            PROVE  queue[i] = recent[d][r - q + i]
        BY <3>1, <3>2
      <4> QED
        BY <4>1, <4>2
    <3>4. /\ Len(board'[d].queue) = q - 1
          /\ \A i \in 1 .. q - 1 : board'[d].queue[i] = queue[i + 1]
      BY <1>3, <1>4, <3>2
    <3>5. \A i \in 1 .. q - 1 : i + 1 \in 1 .. q /\ r - (q - 1) + i = r - q + (i + 1)
      OBVIOUS
    <3> HIDE DEF queue
    <3>6. \A i \in 1 .. q - 1 : board'[d].queue[i] = recent[d][r - (q - 1) + i]
      BY <3>3, <3>4, <3>5
    <3> QED
      BY <1>1, <1>5, <3>1, <3>2, <3>3, <3>4, <3>6 DEF QueueNewest
  <2>3. PutKept(d)'
    BY <1>1, <1>4, <2>0, <2>1 DEF PutKept, MidPush
  <2>4. RoomMade(d)'
    <3>1. MaxWaiting \in Nat /\ (Len(queue) < MaxWaiting => Len(queue) - 1 < MaxWaiting)
      BY <1>2, FeedAssumption
    <3> QED
      BY <1>1, <1>3, <1>4, <2>0, <3>1 DEF RoomMade
  <2>5. UnreadKnown(d)'
    BY <1>1, <1>4, <2>0 DEF UnreadKnown, Known, UnreadNewest, Newest, Underway
  <2> QED
    BY <1>1, <1>4, <1>5, <2>0, <2>2, <2>3, <2>4, <2>5 DEF GivenUp
<1> QED
  BY <1>6, <1>7, <1>8

LEMMA DisconnectStep ==
    ASSUME FeedInv, NEW d \in Dashboard, Disconnect(d)
    PROVE  FeedInv'
<1> USE DEF FeedInv
<1>1. /\ board' = [board EXCEPT ![d] = Away]
      /\ pusher' = [p \in Pusher |-> [pusher[p] EXCEPT !.todo = @ \ {d},
                                                       !.at = IF @ = d THEN "none" ELSE @]]
      /\ recent' = [recent EXCEPT ![d] = <<>>] /\ missed' = [missed EXCEPT ![d] = {}]
      /\ crowded' = crowded \ {d}
      /\ UNCHANGED <<posted, newer>>
  BY DEF Disconnect
<1>2. /\ pusher' \in [Pusher -> Push]
      /\ \A p \in Pusher : /\ pusher'[p].pc = pusher[p].pc /\ pusher'[p].notice = pusher[p].notice
                           /\ pusher'[p].todo = pusher[p].todo \ {d}
                           /\ pusher'[p].at = IF pusher[p].at = d THEN "none" ELSE pusher[p].at
  <2>1. ASSUME NEW p \in Pusher
        PROVE  /\ [pusher[p] EXCEPT !.todo = pusher[p].todo \ {d},
                             !.at = IF pusher[p].at = d THEN "none" ELSE pusher[p].at] \in Push
               /\ pusher'[p].pc = pusher[p].pc /\ pusher'[p].notice = pusher[p].notice
               /\ pusher'[p].todo = pusher[p].todo \ {d}
               /\ pusher'[p].at = IF pusher[p].at = d THEN "none" ELSE pusher[p].at
    <3>1. pusher[p] \in Push
      BY DEF FeedTyped
    <3>2. pusher'[p] = [pusher[p] EXCEPT !.todo = pusher[p].todo \ {d},
                                  !.at = IF pusher[p].at = d THEN "none" ELSE pusher[p].at]
      BY <1>1
    <3> QED
      BY <3>1, <3>2 DEF Push
  <2>2. pusher' \in [Pusher -> Push]
    BY <1>1, <2>1
  <2> QED
    BY <2>1, <2>2
<1>3. /\ board' \in [Dashboard -> Stream] /\ board'[d] = Away
      /\ recent' \in [Dashboard -> Seq(NoticeId)] /\ recent'[d] = <<>>
      /\ missed' \in [Dashboard -> SUBSET NoticeId]
      /\ crowded' \subseteq Dashboard
      /\ \A e \in Dashboard \ {d} : /\ board'[e] = board[e] /\ recent'[e] = recent[e]
                                    /\ missed'[e] = missed[e]
  <2>1. <<>> \in Seq(NoticeId) /\ Away \in Stream
    BY DEF Away, Stream
  <2> QED
    BY <1>1, <2>1 DEF FeedTyped
<1>4. Connected' = Connected \ {d}
  BY <1>3 DEF Connected, Away
<1>5. FeedTyped' /\ PushesNamed'
  <2>1. FeedTyped'
    BY <1>1, <1>2, <1>3 DEF FeedTyped
  <2>2. ASSUME NEW p \in Pusher
        PROVE  /\ pusher'[p].pc # "off" => pusher'[p].notice \in NoticeId
               /\ pusher'[p].pc # "push" => pusher'[p].todo = {} /\ pusher'[p].at = "none"
               /\ pusher'[p].todo \subseteq Connected'
               /\ pusher'[p].at # "none" => pusher'[p].at \in pusher'[p].todo
    BY <1>2, <1>4 DEF PushesNamed
  <2> QED
    BY <2>1, <2>2 DEF PushesNamed
<1>6. ASSUME NEW e \in Dashboard, e # d
      PROVE  FeedKept(e)'
  <2>1. \A q \in Pusher : pusher'[q].at = e <=> pusher[q].at = e
    BY <1>2, <1>6, FeedAssumption
  <2>2. Underway(e)' = Underway(e)
    BY <1>2, <1>6 DEF Underway
  <2>3. e \in Connected <=> e \in Connected'
    BY <1>4, <1>6
  <2> QED
    <3>1. /\ board'[e] = board[e] /\ recent'[e] = recent[e] /\ missed'[e] = missed[e]
          /\ UnreadNewest' = UnreadNewest /\ FeedKept(e)
          /\ e \in crowded => e \in crowded'
      BY <1>1, <1>3, <1>6 DEF UnreadNewest, Newest
    <3> HIDE DEF FeedInv
    <3> QED
      BY <2>1, <2>2, <2>3, <3>1, StreamAlone
<1>7. FeedKept(d)'
  <2>1. \A q \in Pusher : pusher'[q].at # d
    BY <1>2, FeedAssumption
  <2>2. QueueNewest(d)'
    BY <1>3, FeedAssumption DEF QueueNewest, Away
  <2> QED
    BY <1>3, <1>4, <2>1, <2>2 DEF FeedKept, PutKept, RoomMade, UnreadKnown, GivenUp, Away
<1> QED
  BY <1>5, <1>6, <1>7

LEMMA FeedStep == FeedInv /\ [FeedNext]_feedVars => FeedInv'
<1> SUFFICES ASSUME FeedInv, [FeedNext]_feedVars
             PROVE  FeedInv'
  OBVIOUS
<1>1. CASE \E p \in Pusher, n \in NoticeId, w \in Worker : PostNotice(p, n, w)
  BY <1>1, PostStep
<1>2. CASE \E p \in Pusher, d \in Dashboard : MakeRoom(p, d)
  BY <1>2, RoomStep
<1>3. CASE \E p \in Pusher : Snapshot(p) \/ Put(p) \/ PushEnds(p) \/ PushStops(p)
  BY <1>3, SnapshotStep, PutStep, PushEnded
<1>4. CASE \E d \in Dashboard, w \in Worker : Subscribe(d, w)
  BY <1>4, SubscribeStep
<1>5. CASE \E d \in Dashboard : CatchUp(d) \/ ShowNotice(d) \/ Disconnect(d)
  BY <1>5, CatchUpStep, ShowStep, DisconnectStep
<1>6. CASE \E d \in Dashboard : MarkAll(d) \/ \E n \in NoticeId : MarkRead(d, n)
  BY <1>6, ReadStep
<1>7. CASE UNCHANGED feedVars
  BY <1>7, FeedStutter
<1> QED
  BY <1>1, <1>2, <1>3, <1>4, <1>5, <1>6, <1>7 DEF FeedNext

LEMMA FeedFollows == FeedInv => FeedComplete
<1> SUFFICES ASSUME FeedInv, NEW d \in Connected
             PROVE  /\ board[d].caughtUp /\ board[d].listening /\ ~MidPush(d) =>
                          UnreadNewest \subseteq HasBoard(d) \cup Underway(d) \cup missed[d]
                    /\ board[d].listening /\ ~MidPush(d) => ToSet(recent[d]) \subseteq HasBoard(d)
                    /\ ~board[d].listening => d \in crowded
  BY DEF FeedComplete, UnreadNewest, Newest
<1>1. d \in Dashboard /\ FeedKept(d)
  BY DEF Connected, FeedInv
<1>2. board[d].listening /\ ~MidPush(d) => ToSet(recent[d]) \subseteq HasBoard(d)
  <2>1. DOMAIN recent[d] = 1 .. Len(recent[d])
    BY <1>1 DEF FeedInv, FeedTyped
  <2> QED
    BY <1>1, <2>1 DEF FeedKept, PutKept, ToSet
<1>3. board[d].shown \subseteq HasBoard(d)
  BY DEF HasBoard
<1> QED
  BY <1>1, <1>2, <1>3 DEF FeedKept, UnreadKnown, Known, GivenUp

\* However many threads push to however many dashboards: one that loaded the list
\* has every unread notice, but those another worker pushed, that broke off, or
\* that fell out of a full queue behind as many newer ones; and a stream is given
\* up only when two threads pushed to it at once (create_or_get_notification,
\* broadcast_local).
THEOREM FeedTheorem == FeedSpec => []FeedComplete
<1>1. FeedSpec => []FeedInv
  BY FeedBegins, FeedStep, PTL DEF FeedSpec
<1> QED
  BY <1>1, FeedFollows, PTL

-----------------------------------------------------------------------------
(* The composition.                                                        *)

LEMMA DraftsTyped == DraftsInv => DraftsTypeOK
BY DEF DraftsInv, Typed, DraftsTypeOK, DraftType, TabType, Account, RowStatus

LEMMA FeedTypeFollows == FeedInv => FeedTypeOK
<1> SUFFICES ASSUME FeedInv PROVE FeedTypeOK
  OBVIOUS
<1>1. \A d \in Dashboard : board[d] \in Stream /\ FeedKept(d)
  BY DEF FeedInv, FeedTyped
<1>2. \A d \in Dashboard : /\ board[d].worker \in Worker \cup {"none"}
                           /\ board[d].shown \subseteq NoticeId
  BY <1>1 DEF Stream
<1>3. \A d \in Dashboard : Len(board[d].queue) <= MaxWaiting
  <2> SUFFICES ASSUME NEW d \in Dashboard PROVE Len(board[d].queue) <= MaxWaiting
    OBVIOUS
  <2>1. PICK q \in Nat, r \in Nat : q = Len(board[d].queue) /\ r = Len(recent[d])
    <3>1. board[d].queue \in Seq(NoticeId) /\ recent[d] \in Seq(NoticeId)
      BY <1>1 DEF FeedInv, FeedTyped, Stream
    <3> QED
      BY <3>1
  <2>2. Len(board[d].queue) <= Len(recent[d]) /\ Len(recent[d]) <= MaxWaiting
    BY <1>1 DEF FeedKept, QueueNewest
  <2> QED
    BY <2>1, <2>2, FeedAssumption
<1>4. \A p \in Pusher : pusher[p].todo \subseteq Dashboard
  BY DEF FeedInv, FeedTyped, Push
<1> QED
  BY <1>2, <1>3, <1>4 DEF FeedInv, FeedTyped, FeedTypeOK

\* One part moves and the others rest: every step of the whole is a step of each
\* part or leaves it alone.
LEMMA PartsStep ==
    ASSUME [RequestsNext]_<<vars, draftVars, newsVars, feedVars, focus>>
    PROVE  [Next]_vars /\ [DraftsNext]_draftVars /\ [NewsNext]_newsVars /\ [FeedNext]_feedVars
<1>1. CASE UNCHANGED <<vars, draftVars, newsVars, feedVars, focus>>
  BY <1>1
<1>2. CASE RequestsNext
  <2>1. [Next]_vars
    BY <1>2 DEF RequestsNext, Rests
  <2>2. [DraftsNext]_draftVars
    BY <1>2 DEF RequestsNext, Rests
  <2>3. [NewsNext]_newsVars
    BY <1>2 DEF RequestsNext, Rests
  <2>4. [FeedNext]_feedVars
    BY <1>2 DEF RequestsNext, Rests
  <2> QED
    BY <2>1, <2>2, <2>3, <2>4
<1> QED
  BY <1>1, <1>2

LEMMA PartsBegin == RequestsInit => Init /\ DraftsInit /\ NewsInit /\ FeedInit
BY DEF RequestsInit

\* Every behaviour of the whole is one of each part.
THEOREM RequestsCompose == RequestsSpec => Spec /\ DraftsSpec /\ NewsSpec /\ FeedSpec
<1>1. [RequestsNext]_<<vars, draftVars, newsVars, feedVars, focus>>
         => [Next]_vars /\ [DraftsNext]_draftVars /\ [NewsNext]_newsVars /\ [FeedNext]_feedVars
  BY PartsStep
<1> QED
  BY <1>1, PartsBegin, PTL DEF RequestsSpec, Spec, DraftsSpec, NewsSpec, FeedSpec

\* The variables of each part keep to their types, in the specification that TLC
\* runs and for every value of its constants.
THEOREM RequestsTyped == RequestsSpec => []RequestsTypeOK
<1>1. RequestsSpec => []DraftsInv
  BY RequestsCompose, InitDrafts, NextDrafts, PTL DEF DraftsSpec
<1>2. RequestsSpec => []NewsInv
  BY RequestsCompose, NewsBegins, NewsStep, PTL DEF NewsSpec
<1>3. RequestsSpec => []FeedInv
  BY RequestsCompose, FeedBegins, FeedStep, PTL DEF FeedSpec
<1>4. RequestsSpec => []TypeOK
  BY RequestsCompose, StoresTyped, PTL
<1>5. TypeOK /\ DraftsInv /\ NewsInv /\ FeedInv => RequestsTypeOK
  BY DraftsTyped, NewsFollows, FeedTypeFollows DEF RequestsTypeOK
<1> QED
  BY <1>1, <1>2, <1>3, <1>4, <1>5, PTL

\* The customer and the administrators hear what became of a booking, in the
\* specification that TLC runs: NewsTold and FeedComplete for any number of
\* requests, dashboards and threads.
THEOREM NewsKeptTheorem == RequestsSpec => []NewsKept
<1>1. NewsTold /\ FeedComplete => NewsKept
  BY DEF NewsKept
<1> QED
  BY <1>1, RequestsCompose, NewsTheorem, FeedTheorem, PTL
=============================================================================
