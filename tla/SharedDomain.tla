---------------------------- MODULE SharedDomain ----------------------------
(***************************************************************************)
(* What the desk keeps beside any entity, in tables of their own: who is   *)
(* assigned to it, the notes on it and the time it has (SLA).  Every       *)
(* request reads a row, decides, and commits later; no table has a version *)
(* and nothing is locked, so two requests may cross on one row.            *)
(***************************************************************************)
EXTENDS Naturals, FiniteSets

CONSTANTS
    Clerk,          \* requests of staff, managers and the assistant
    MaxAssignment,  \* bound: rows of assignments
    MaxRevision,    \* bound: rows of note_revisions
    MaxHour         \* bound: the clock
ASSUME SharedAssumption == {MaxAssignment, MaxRevision, MaxHour} \subseteq Nat \ {0}

VARIABLES
    table,      \* which of the tables the clerks work on
    assigned,   \* assignments, and the newest row of assignment_history of each
    doubled,    \* history: reassignments that crossed another commit, by first row
    note,       \* notes, and the newest of note_revisions
    sla,        \* sla_definitions and sla_instances
    hour,
    clerk

sharedVars == <<table, assigned, doubled, note, sla, hour, clerk>>

Content == {"first", "second"}
Post == 1 .. MaxAssignment
NoPost == [first |-> 0, status |-> "none", last |-> "none", linked |-> TRUE]
AtRest == [op |-> "none", on |-> 0, status |-> "none", content |-> "none", count |-> 0,
           to |-> "none", at |-> 0, breached |-> FALSE]

SharedInit ==
    /\ table \in {"assignments", "notes", "sla"}
    /\ assigned = [p \in Post |-> NoPost]
    /\ doubled = [p \in Post |-> 0]
    /\ note = [content |-> "none", deleted |-> FALSE, count |-> 0, blind |-> FALSE,
               last |-> [number |-> 0, content |-> "none", crossed |-> FALSE]]
    /\ sla = [minutes |-> 0, status |-> "none", deadline |-> 0, resolved |-> 0,
              breached |-> FALSE, times |-> 0]
    /\ hour = 0
    /\ clerk = [c \in Clerk |-> AtRest]

Rest(c) == clerk' = [clerk EXCEPT ![c] = AtRest]

-----------------------------------------------------------------------------
(* AssignmentService                                                       *)

Vacant == {p \in Post : assigned[p].first = 0}
Lowest(S) == CHOOSE p \in S : \A q \in S : p <= q
Open(first) == [first |-> first, status |-> "ASSIGNED", last |-> "ASSIGNED", linked |-> TRUE]

\* assign: nobody asks who is assigned already.  The desk, the airport booking's
\* endpoint and the assistant's tool come here.
AssignStaff ==
    /\ table = "assignments" /\ Vacant # {}
    /\ LET p == Lowest(Vacant) IN assigned' = [assigned EXCEPT ![p] = Open(p)]
    /\ UNCHANGED <<table, doubled, note, sla, hour, clerk>>

Becomes(op) == CASE op = "reassign" -> "REASSIGNED" [] op = "release" -> "RELEASED"
                 [] op = "complete" -> "COMPLETED"
Closed(op) == CASE op = "reassign" -> {"COMPLETED", "RELEASED", "REASSIGNED"}
                [] op = "release" -> {"COMPLETED", "RELEASED"}
                [] op = "complete" -> {"COMPLETED"}

\* reassign, release and complete read the row and refuse some of its states.
TakePost(c, op, p) ==
    /\ table = "assignments" /\ clerk[c].op = "none"
    /\ assigned[p].first # 0 /\ assigned[p].status \notin Closed(op)
    /\ clerk' = [clerk EXCEPT ![c] = [AtRest EXCEPT !.op = op, !.on = p, !.status = assigned[p].status]]
    /\ UNCHANGED <<table, assigned, doubled, note, sla, hour>>

Entry(c) ==
    LET p == clerk[c].on
        read == clerk[c].status IN
    [from |-> IF clerk[c].op = "reassign" THEN "ASSIGNED" ELSE read,
     to |-> Becomes(clerk[c].op), crossed |-> assigned[p].status # read]
Logged(p, entry) ==
    [assigned EXCEPT ![p] = [@ EXCEPT !.status = entry.to, !.last = entry.to,
                                      !.linked = entry.crossed \/ entry.from = assigned[p].last]]

\* Faulty: the old assignment stays open.
HandOver(c) ==
    /\ clerk[c].op = "reassign" /\ Vacant # {}
    /\ assigned' = [assigned EXCEPT ![Lowest(Vacant)] = Open(assigned[clerk[c].on].first)]
    /\ Rest(c)
    /\ UNCHANGED <<table, doubled, note, sla, hour>>

\* reassign commits the end of the old assignment and the new one together.
Reassign(c) ==
    /\ clerk[c].op = "reassign" /\ Vacant # {}
    /\ LET p == clerk[c].on IN
       /\ assigned' = [Logged(p, Entry(c)) EXCEPT ![Lowest(Vacant)] = Open(assigned[p].first)]
       /\ doubled' = [doubled EXCEPT ![assigned[p].first] = IF Entry(c).crossed THEN @ + 1 ELSE @]
    /\ Rest(c)
    /\ UNCHANGED <<table, note, sla, hour>>

\* release and complete.
ClosePost(c) ==
    /\ clerk[c].op \in {"release", "complete"}
    /\ assigned' = Logged(clerk[c].on, Entry(c))
    /\ Rest(c)
    /\ UNCHANGED <<table, doubled, note, sla, hour>>

-----------------------------------------------------------------------------
(* NotesService                                                            *)

Revision(number, content, crossed) == [number |-> number, content |-> content, crossed |-> crossed]

CreateNote ==
    /\ table = "notes" /\ note.content = "none"
    /\ \E content \in Content :
          note' = [note EXCEPT !.content = content, !.count = 1, !.last = Revision(1, content, FALSE)]
    /\ UNCHANGED <<table, assigned, doubled, sla, hour, clerk>>

\* update and delete read the note; update counts its revisions.
OpenNote(c, op) ==
    /\ table = "notes" /\ clerk[c].op = "none" /\ note.content # "none"
    /\ op = "edit" => ~note.deleted
    /\ \E to \in Content :
          clerk' = [clerk EXCEPT ![c] = [AtRest EXCEPT !.op = op, !.content = note.content,
                                         !.count = note.count, !.to = to]]
    /\ UNCHANGED <<table, assigned, doubled, note, sla, hour>>

\* A text that is the one it read is not written, its revision is.
EditNote(c) ==
    /\ clerk[c].op = "edit" /\ note.count < MaxRevision
    /\ LET same == clerk[c].to = clerk[c].content IN
       note' = [note EXCEPT !.content = IF same THEN @ ELSE clerk[c].to,
                            !.count = @ + 1,
                            !.last = Revision(clerk[c].count + 1, clerk[c].to, clerk[c].count # note.count),
                            !.blind = same /\ note.content # clerk[c].to]
    /\ Rest(c)
    /\ UNCHANGED <<table, assigned, doubled, sla, hour>>

DeleteNote(c) ==
    /\ clerk[c].op = "delete"
    /\ note' = [note EXCEPT !.deleted = TRUE]
    /\ Rest(c)
    /\ UNCHANGED <<table, assigned, doubled, sla, hour>>

-----------------------------------------------------------------------------
(* SLAService                                                              *)

\* create_definition updates the one there is.
DefineSla ==
    /\ table = "sla"
    /\ \E minutes \in 1 .. MaxHour : sla' = [sla EXCEPT !.minutes = minutes]
    /\ UNCHANGED <<table, assigned, doubled, note, hour, clerk>>

StartSla ==
    /\ table = "sla" /\ sla.minutes # 0 /\ sla.status = "none"
    /\ sla' = [sla EXCEPT !.status = "ACTIVE", !.deadline = hour + sla.minutes]
    /\ UNCHANGED <<table, assigned, doubled, note, hour, clerk>>

HourPasses ==
    /\ table = "sla" /\ hour < MaxHour
    /\ hour' = hour + 1
    /\ UNCHANGED <<table, assigned, doubled, note, sla, clerk>>

\* resolve_sla does not ask for the state, ...
TakeSla(c) ==
    /\ table = "sla" /\ clerk[c].op = "none" /\ sla.status # "none"
    /\ clerk' = [clerk EXCEPT ![c] = [AtRest EXCEPT !.op = "resolve", !.at = hour,
                                                    !.breached = sla.breached]]
    /\ UNCHANGED <<table, assigned, doubled, note, sla, hour>>

\* ... so that an instance is resolved again; a late one was breached.
ResolveSla(c) ==
    /\ clerk[c].op = "resolve" /\ sla.times < 3
    /\ sla' = [sla EXCEPT !.status = "RESOLVED", !.resolved = clerk[c].at, !.times = @ + 1,
                          !.breached = @ \/ (clerk[c].at > sla.deadline /\ ~clerk[c].breached)]
    /\ Rest(c)
    /\ UNCHANGED <<table, assigned, doubled, note, hour>>

\* get_overdue, which the desk looks at.
Overdue == sla.status = "ACTIVE" /\ sla.deadline < hour

\* A commit fails or a worker dies.
DropRequest(c) ==
    /\ clerk[c].op # "none"
    /\ Rest(c)
    /\ UNCHANGED <<table, assigned, doubled, note, sla, hour>>

SharedNext ==
    \/ AssignStaff \/ CreateNote \/ DefineSla \/ StartSla \/ HourPasses
    \/ \E c \in Clerk : \/ \E p \in Post, op \in {"reassign", "release", "complete"} : TakePost(c, op, p)
                        \/ Reassign(c) \/ ClosePost(c)
                        \/ \E op \in {"edit", "delete"} : OpenNote(c, op)
                        \/ EditNote(c) \/ DeleteNote(c)
                        \/ TakeSla(c) \/ ResolveSla(c)
                        \/ DropRequest(c)

SharedSpec == SharedInit /\ [][SharedNext]_sharedVars

-----------------------------------------------------------------------------
SharedTypeOK ==
    /\ \A p \in Post : /\ assigned[p].first \in 0 .. p
                       /\ assigned[p].status \in {"none", "ASSIGNED", "REASSIGNED", "RELEASED", "COMPLETED"}
    /\ doubled \in [Post -> Nat]
    /\ note.content \in Content \cup {"none"} /\ note.count \in 0 .. MaxRevision
    /\ sla.status \in {"none", "ACTIVE", "RESOLVED"}
    /\ hour \in 0 .. MaxHour

\* What was handed on has one owner: an assignment and those it was reassigned to
\* have one open row between them, and one more for each reassignment that read
\* a row another request then changed (AssignmentService.reassign: "Releases old
\* assignment and creates new one").
OneOwner ==
    \A first \in Post :
        Cardinality({p \in Post : assigned[p].first = first /\ assigned[p].status = "ASSIGNED"})
            <= 1 + doubled[first]

\* The "immutable assignment history log" leads to the row's status, and each
\* entry starts where the one before it ended, unless it crossed a commit.
HistoryTold == \A p \in Post : assigned[p].last = assigned[p].status /\ assigned[p].linked

\* A note reads as the revision committed last, unless that one was written over
\* a text it did not know and kept the words it had read; the revisions are
\* numbered through unless two edits crossed (NotesService.update).
NoteTold ==
    /\ note.blind \/ note.content = note.last.content
    /\ note.last.crossed \/ note.last.number = note.count

\* Lateness shows: past its deadline an instance is listed as overdue, was
\* resolved in time or is marked breached; and the mark is true unless it was
\* resolved more than once (SLAService.get_overdue, resolve_sla).
LatenessTold ==
    sla.status # "none" =>
        /\ hour > sla.deadline => Overdue \/ sla.breached \/ sla.resolved <= sla.deadline
        /\ sla.status = "RESOLVED" /\ sla.resolved > sla.deadline => sla.breached
        /\ sla.breached /\ sla.resolved <= sla.deadline => sla.times > 1

\* What the desk keeps beside the bookings tells what happened.
DeskTold == OneOwner /\ HistoryTold /\ NoteTold /\ LatenessTold
=============================================================================
