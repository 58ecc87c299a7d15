-------------------------- MODULE WorkflowInstance --------------------------
(***************************************************************************)
(* One airport booking and the workflow instance behind it.  Requests read *)
(* the instance, decide, and commit later; there is no version and no lock *)
(* that outlives the read.  The booking's status is a copy of the          *)
(* instance's state, made in a commit of its own, and only by the          *)
(* operations that come through the booking.                               *)
(***************************************************************************)
CONSTANTS
    Request,
    ForceTarget     \* states an administrator forces the instance to

VARIABLES
    instance,   \* workflow_instances: its row
    last,       \* where the newest row of workflow_history ends
    airport,    \* airport_bookings: its row
    request,
    aside       \* history: the copy was passed by or cut off

workflowVars == <<instance, last, airport, request, aside>>

-----------------------------------------------------------------------------
(* definitions.py: AIRPORT_MEET_AND_ASSIST.  What the staff who meet the     *)
(* passenger may do, the operations manager may do too.                    *)

Terminal == {"COMPLETED", "CANCELLED", "REJECTED"}
Edge(from, to, roles) == [from |-> from, to |-> to, roles |-> roles]
Edges == {
    Edge("DRAFT", "BOOKED", {"customer"}),
    Edge("BOOKED", "STAFF_ASSIGNED", {"manager"}),
    Edge("BOOKED", "CANCELLED", {"customer", "manager"}),
    Edge("STAFF_ASSIGNED", "PASSENGER_MET", {"manager"}),
    Edge("STAFF_ASSIGNED", "CANCELLED", {"manager"}),
    Edge("PASSENGER_MET", "ASSISTANCE_IN_PROGRESS", {"manager"}),
    Edge("ASSISTANCE_IN_PROGRESS", "COMPLETED", {"manager"})}
States == {e.from : e \in Edges} \cup Terminal
ASSUME ForceAssumption == ForceTarget \subseteq States
Role == {"customer", "manager", "admin"}

\* validate_transition; an administrator needs no role.
Allowed(role, from, to) ==
    \E e \in Edges : e.from = from /\ e.to = to /\ (role = "admin" \/ role \in e.roles)

-----------------------------------------------------------------------------
Free == [pc |-> "free", op |-> "none", via |-> "none", role |-> "none",
         read |-> "none", to |-> "none", crossed |-> FALSE]

\* create_booking: create_instance commits the booking without its instance.
WorkflowInit ==
    /\ instance = [state |-> "DRAFT", frozen |-> FALSE]
    /\ last = [to |-> "DRAFT", crossed |-> FALSE]
    /\ airport = [linked |-> FALSE, status |-> "BOOKED"]
    /\ request = [q \in Request |-> Free]
    /\ aside = FALSE

\* ... and names it in a second commit, with the state it was created in.
Link ==
    /\ ~airport.linked /\ airport.status = "BOOKED"
    /\ airport' = [linked |-> TRUE, status |-> "DRAFT"]
    /\ UNCHANGED <<instance, last, request, aside>>

Begin(q, op, via, role, to) ==
    request' = [request EXCEPT ![q] = [pc |-> "write", op |-> op, via |-> via, role |-> role,
                                       read |-> instance.state, to |-> to, crossed |-> FALSE]]

Vias == {"engine"} \cup (IF airport.linked THEN {"airport"} ELSE {})

\* Faulty: nobody asks whether the instance is frozen.
ReadFrozenToo(q) ==
    /\ request[q].pc = "free"
    /\ \E role \in Role, via \in Vias, to \in States :
          /\ Allowed(role, instance.state, to)
          /\ Begin(q, "transition", via, role, to)
    /\ UNCHANGED <<instance, last, airport, aside>>

\* execute_transition reads: a refusal leaves no trace but its event.
ReadTransition(q) ==
    /\ request[q].pc = "free"
    /\ \E role \in Role, via \in Vias, to \in States :
          /\ instance.frozen => role = "admin"
          /\ Allowed(role, instance.state, to)
          /\ Begin(q, "transition", via, role, to)
    /\ UNCHANGED <<instance, last, airport, aside>>

\* cancel_instance and force_transition read nothing but the old state.
ReadOverride(q) ==
    /\ request[q].pc = "free"
    /\ \/ \E via \in Vias : Begin(q, "cancel", via, "admin", "CANCELLED")
       \/ \E to \in ForceTarget : Begin(q, "force", "engine", "admin", to)
    /\ UNCHANGED <<instance, last, airport, aside>>

\* The requests that have read and not yet written.
Crossed(q) == [p \in Request |-> IF p # q /\ request[p].pc = "write"
                                 THEN [request[p] EXCEPT !.crossed = TRUE] ELSE request[p]]

\* The commit: a state that was read already is not written (only
\* lists read is_completed).
Write(q) ==
    /\ request[q].pc = "write"
    /\ LET r == request[q] IN
       /\ instance' = [instance EXCEPT !.state = IF r.to = r.read THEN @ ELSE r.to]
       /\ last' = [to |-> r.to, crossed |-> r.crossed]
       /\ request' = [Crossed(q) EXCEPT ![q] =
              IF r.via = "airport" THEN [Free EXCEPT !.pc = "refresh", !.via = "airport", !.op = r.op]
                                   ELSE Free]
       /\ aside' = (aside \/ r.via = "engine" \/ r.crossed \/ \E p \in Request \ {q} :
                        request[p].via = "airport" /\ request[p].pc \in {"refresh", "status"})
    /\ UNCHANGED airport

\* AirportService.execute_transition and cancel_booking after the engine: the
\* instance is read again, ...
Refresh(q) ==
    /\ request[q].pc = "refresh"
    /\ request' = [request EXCEPT ![q].pc = "status",
                      ![q].to = IF request[q].op = "cancel" THEN "CANCELLED" ELSE instance.state]
    /\ UNCHANGED <<instance, last, airport, aside>>

\* Faulty: the booking is left as it was.
KeepStatus(q) ==
    /\ request[q].pc = "status"
    /\ request' = [request EXCEPT ![q] = Free]
    /\ UNCHANGED <<instance, last, airport, aside>>

\* ... and the status committed with the timeline entry.
CopyStatus(q) ==
    /\ request[q].pc = "status"
    /\ airport' = [airport EXCEPT !.status = request[q].to]
    /\ request' = [request EXCEPT ![q] = Free]
    /\ UNCHANGED <<instance, last, aside>>

\* cancel_booking of a booking without an instance.
CancelUnlinked ==
    /\ ~airport.linked /\ airport.status = "BOOKED"
    /\ airport' = [airport EXCEPT !.status = "CANCELLED"]
    /\ UNCHANGED <<instance, last, request, aside>>

\* freeze_instance, resume_instance and retry_workflow, which unfreezes.
SetFrozen(frozen) ==
    /\ instance.frozen # frozen
    /\ instance' = [instance EXCEPT !.frozen = frozen]
    /\ request' = [p \in Request |-> IF request[p].pc = "write"
                                     THEN [request[p] EXCEPT !.crossed = TRUE] ELSE request[p]]
    /\ UNCHANGED <<last, airport, aside>>

\* A worker dies, or a commit fails and is rolled back.
Abandon(q) ==
    /\ request[q].pc # "free"
    /\ request' = [request EXCEPT ![q] = Free]
    /\ aside' = (aside \/ request[q].pc \in {"refresh", "status"})
    /\ UNCHANGED <<instance, last, airport>>

WorkflowNext ==
    \/ Link \/ CancelUnlinked
    \/ \E q \in Request : \/ ReadTransition(q) \/ ReadOverride(q) \/ Write(q)
                          \/ Refresh(q) \/ CopyStatus(q) \/ Abandon(q)
    \/ \E frozen \in BOOLEAN : SetFrozen(frozen)

WorkflowSpec == WorkflowInit /\ [][WorkflowNext]_workflowVars

-----------------------------------------------------------------------------
WorkflowTypeOK ==
    /\ instance \in [state : States, frozen : BOOLEAN]
    /\ last \in [to : States, crossed : BOOLEAN]
    /\ airport \in [linked : BOOLEAN, status : States]
    /\ request \in [Request -> [pc : {"free", "write", "refresh", "status"},
          op : {"none", "transition", "cancel", "force"}, via : {"none", "engine", "airport"},
          role : Role \cup {"none"}, read : States \cup {"none"}, to : States \cup {"none"},
          crossed : BOOLEAN]]
    /\ aside \in BOOLEAN

\* What a request writes into the history, unless it was crossed.
LegalRow(q) ==
    LET r == request[q] IN
    last' # last /\ r.pc = "write" /\ request'[q].pc # "write" /\ ~r.crossed =>
        /\ last.crossed \/ r.read = last.to
        /\ r.op = "transition" =>
              /\ Allowed(r.role, r.read, last'.to)
              /\ instance.frozen => r.role = "admin"

\* The history is a walk through the definition: each row starts where the one
\* before it ended, and an ordinary transition follows an edge its role may use,
\* by an administrator alone while the instance is frozen ("Freezes a workflow
\* instance preventing further non-admin transitions", freeze_instance), unless
\* another commit or a freeze fell between the request's read and its own commit
\* (execute_transition).  A crossed row may have written no state at all.
HistoryLegal == [][\A q \in Request : LegalRow(q)]_workflowVars

\* The customer sees the state of the workflow: with no request under way the
\* booking's status is the instance's state, unless an administrator moved the
\* instance itself, a request died before it copied the state, or a commit fell
\* between another request's read and its copy (AirportService.execute_transition).
StatusFollows ==
    airport.linked /\ ~aside /\ (\A q \in Request : request[q].pc \in {"free", "write"})
        => airport.status = instance.state
=============================================================================
