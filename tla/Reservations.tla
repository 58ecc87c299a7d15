---------------------------- MODULE Reservations ----------------------------
(***************************************************************************)
(* What a customer's requests promise, whatever the conversation about     *)
(* them does: a request is withdrawn only while it waits, is confirmed     *)
(* only when its link was paid, and is then confirmed for good.            *)
(***************************************************************************)
EXTENDS Naturals, Sequences

VARIABLES
    request,    \* the statuses of the requests, in order of creation
    paid        \* requests a link was paid for

Init == request = <<>> /\ paid = {}

Withdrawn(S) ==
    [r \in DOMAIN request |-> IF r \in S /\ request[r] = "PENDING" THEN "CANCELLED" ELSE request[r]]

\* A new request may supersede others.
Make ==
    /\ \E S \in SUBSET DOMAIN request : request' = Append(Withdrawn(S), "PENDING")
    /\ UNCHANGED paid

Withdraw ==
    /\ \E S \in SUBSET DOMAIN request : request' = Withdrawn(S)
    /\ UNCHANGED paid

Pay ==
    /\ \E r \in DOMAIN request : paid' = paid \cup {r}
    /\ UNCHANGED request

Confirm ==
    /\ \E r \in paid : request' = [request EXCEPT ![r] = "CONFIRMED"]
    /\ UNCHANGED paid

Next == Make \/ Withdraw \/ Pay \/ Confirm

Spec == Init /\ [][Next]_<<request, paid>>
=============================================================================
