------------------------------ MODULE WorkOrders ------------------------------
(***************************************************************************)
(* One assessment that awaits its human review, the work order an approval *)
(* creates, the people who move the order through its life, and the        *)
(* periodic task that notes overdue orders.                                *)
(*                                                                         *)
(* Reviews and moves guard themselves differently.  review_workflow locks  *)
(* the workflow row but checks the copy its session loaded before the      *)
(* lock, so the lock alone does not stop a second decision; what remains   *)
(* is the look-up of an existing order.  transition_work_order refreshes   *)
(* its copy under the lock and asks for the version its user has seen.     *)
(***************************************************************************)
EXTENDS Naturals, Sequences, FiniteSets

CONSTANTS
    Reviewer,  \* requests that review the workflow
    Clerk,     \* users who view and move the work order
    Scanner,   \* runs of the reminder task
    MaxMoves,  \* bound: transitions of the work order
    MaxEdits   \* bound: versions an edit may add to the event

ASSUME WorkOrderBounds == MaxMoves \in Nat /\ MaxEdits \in Nat

VARIABLES
    event,     \* the row of production_events
    workflow,  \* status of workflow_runs, and of the assessment with it
    order,     \* the row of work_orders with this source_workflow_run_id
    timeline,  \* work_order_transitions; `seen` is the actor's expected_version
    reviewer,  \* what each review request does, and its copies
    saw,       \* the version of the order each clerk has been shown
    overdue,   \* due_at has passed
    reminded,  \* work_order_reminders has the row of this due_at
    scanner    \* what each run of the reminder task does

vars == <<event, workflow, order, timeline, reviewer, saw, overdue, reminded, scanner>>

Statuses == {"draft", "pending_review", "approved", "dispatched", "in_progress",
             "resolved", "closed", "cancelled"}
Ended == {"closed", "cancelled"}

\* ALLOWED_TRANSITIONS.
AllowedFrom(status) ==
    CASE status = "draft"          -> {"pending_review", "cancelled"}
      [] status = "pending_review" -> {"approved", "draft", "cancelled"}
      [] status = "approved"       -> {"dispatched", "cancelled"}
      [] status = "dispatched"     -> {"in_progress", "cancelled"}
      [] status = "in_progress"    -> {"resolved", "cancelled"}
      [] status = "resolved"       -> {"closed", "in_progress", "cancelled"}
      [] OTHER                     -> {}

\* The version of the event the assessment is about.
Assessed == 1

NoOrder == [status |-> "absent", version |-> 0, of |-> 0, assigned |-> FALSE, due |-> FALSE]
Idle == [at |-> "idle", status |-> "awaiting_review", version |-> 0]

TypeOK ==
    /\ event \in [status : {"confirmed", "superseded"}, version : 1 .. MaxEdits + 1]
    /\ workflow \in {"awaiting_review", "rejected", "completed"}
    /\ order = NoOrder \/ order \in [status : Statuses, version : 1 .. MaxMoves + 1,
                                     of : 1 .. MaxEdits + 1,
                                     assigned : BOOLEAN, due : BOOLEAN]
    /\ timeline \in Seq([from : Statuses \cup {"none"}, to : Statuses,
                         version : 1 .. MaxMoves + 1, seen : 0 .. MaxMoves + 1])
    /\ reviewer \in [Reviewer -> [at : {"idle", "loaded", "deciding"},
                                  status : {"awaiting_review", "rejected", "completed"},
                                  version : 0 .. MaxEdits + 1]]
    /\ saw \in [Clerk -> 0 .. MaxMoves + 1]
    /\ overdue \in BOOLEAN /\ reminded \in BOOLEAN
    /\ scanner \in [Scanner -> {"idle", "found"}]

\* An investigation has committed its assessment and workflow.
Init ==
    /\ event = [status |-> "confirmed", version |-> Assessed]
    /\ workflow = "awaiting_review"
    /\ order = NoOrder
    /\ timeline = <<>>
    /\ reviewer = [r \in Reviewer |-> Idle]
    /\ saw = [c \in Clerk |-> 0]
    /\ overdue = FALSE
    /\ reminded = FALSE
    /\ scanner = [s \in Scanner |-> "idle"]

-------------------------------------------------------------------------------
(* The event goes on being edited, merged and split. *)

Edit ==
    /\ event.status = "confirmed" /\ event.version <= MaxEdits
    /\ event' = [event EXCEPT !.version = @ + 1]
    /\ UNCHANGED <<workflow, order, timeline, reviewer, saw, overdue, reminded, scanner>>

Supersede ==
    /\ event.status = "confirmed"
    /\ event' = [event EXCEPT !.status = "superseded"]
    /\ UNCHANGED <<workflow, order, timeline, reviewer, saw, overdue, reminded, scanner>>

-------------------------------------------------------------------------------
(* POST /workflows/{id}:review. *)

\* The endpoint loads the workflow, without a lock.
Load(r) ==
    /\ reviewer[r].at = "idle"
    /\ reviewer' = [reviewer EXCEPT ![r] =
                        [at |-> "loaded", status |-> workflow, version |-> 0]]
    /\ UNCHANGED <<event, workflow, order, timeline, saw, overdue, reminded, scanner>>

\* Faulty: the versions are not compared.
LockUncompared(r) ==
    /\ reviewer[r].at = "loaded"
    /\ \A q \in Reviewer : reviewer[q].at # "deciding"
    /\ LET fit == reviewer[r].status = "awaiting_review" /\ event.status = "confirmed"
       IN  reviewer' = [reviewer EXCEPT ![r] =
                IF fit THEN [@ EXCEPT !.at = "deciding", !.version = event.version] ELSE Idle]
    /\ UNCHANGED <<event, workflow, order, timeline, saw, overdue, reminded, scanner>>

\* SELECT ... FOR UPDATE waits for another review, but leaves the loaded copy
\* as it is; the event is read here and never locked.  A refusal ends the
\* request.
Lock(r) ==
    /\ reviewer[r].at = "loaded"
    /\ \A q \in Reviewer : reviewer[q].at # "deciding"
    /\ LET fit == /\ reviewer[r].status = "awaiting_review"
                  /\ event.status = "confirmed" /\ event.version = Assessed
       IN  reviewer' = [reviewer EXCEPT ![r] =
                IF fit THEN [@ EXCEPT !.at = "deciding", !.version = event.version] ELSE Idle]
    /\ UNCHANGED <<event, workflow, order, timeline, saw, overdue, reminded, scanner>>

Reject(r) ==
    /\ reviewer[r].at = "deciding"
    /\ workflow' = "rejected"
    /\ reviewer' = [reviewer EXCEPT ![r] = Idle]
    /\ UNCHANGED <<event, order, timeline, saw, overdue, reminded, scanner>>

\* Faulty: the order is stored without its first version.
CreatesUnversioned(r) ==
    /\ workflow' = "completed"
    /\ order' = [NoOrder EXCEPT !.status = "draft", !.of = reviewer[r].version]
    /\ timeline' = Append(timeline, [from |-> "none", to |-> "draft", version |-> 0, seen |-> 0])

\* What an approval stores, in one transaction.
Creates(r) ==
    /\ workflow' = "completed"
    /\ order' = [NoOrder EXCEPT !.status = "draft", !.version = 1, !.of = reviewer[r].version]
    /\ timeline' = Append(timeline, [from |-> "none", to |-> "draft", version |-> 1, seen |-> 0])

\* Faulty: no look-up of an order that is there.
ApproveAgain(r) ==
    /\ reviewer[r].at = "deciding"
    /\ Creates(r)
    /\ reviewer' = [reviewer EXCEPT ![r] = Idle]
    /\ UNCHANGED <<event, saw, overdue, reminded, scanner>>

\* An approval that finds an order returns it and commits nothing.
Approve(r) ==
    /\ reviewer[r].at = "deciding"
    /\ IF order = NoOrder THEN Creates(r) ELSE UNCHANGED <<workflow, order, timeline>>
    /\ reviewer' = [reviewer EXCEPT ![r] = Idle]
    /\ UNCHANGED <<event, saw, overdue, reminded, scanner>>

-------------------------------------------------------------------------------
(* The life of the work order. *)

View(c) ==
    /\ order # NoOrder
    /\ saw' = [saw EXCEPT ![c] = order.version]
    /\ UNCHANGED <<event, workflow, order, timeline, reviewer, overdue, reminded, scanner>>

\* The order and the time line after a move.
Moved(c, target, assigned, due, version) ==
    /\ order' = [order EXCEPT !.status = target, !.version = version,
                              !.assigned = @ \/ assigned, !.due = @ \/ due]
    /\ timeline' = Append(timeline, [from |-> order.status, to |-> target,
                                     version |-> version, seen |-> saw[c]])
    /\ UNCHANGED <<event, workflow, reviewer, saw, overdue, reminded, scanner>>

\* Faulty: the status decides, whatever version the user has seen.
MoveUnversioned(c, target, due) ==
    /\ order # NoOrder /\ order.version <= MaxMoves
    /\ target \in AllowedFrom(order.status)
    /\ due => target = "dispatched"
    /\ Moved(c, target, target = "dispatched", due, order.version + 1)

\* Faulty: a reopened order keeps its version.
MoveUncounted(c, target, due) ==
    /\ order # NoOrder /\ order.version <= MaxMoves
    /\ saw[c] = order.version
    /\ target \in AllowedFrom(order.status)
    /\ due => target = "dispatched"
    /\ Moved(c, target, target = "dispatched", due,
             order.version + (IF order.status = "resolved" THEN 0 ELSE 1))

\* Faulty: dispatching passes on the due date and not the assignee.
MoveUnassigned(c, target, due) ==
    /\ order # NoOrder /\ order.version <= MaxMoves
    /\ saw[c] = order.version
    /\ target \in AllowedFrom(order.status)
    /\ due => target = "dispatched"
    /\ Moved(c, target, FALSE, due, order.version + 1)

\* transition_work_order: under the lock and refreshed.  The user keeps the
\* version it sent, so a request sent again is refused.  Dispatching names
\* the assignee, and may set the due date.
Move(c, target, due) ==
    /\ order # NoOrder /\ order.version <= MaxMoves
    /\ saw[c] = order.version
    /\ target \in AllowedFrom(order.status)
    /\ due => target = "dispatched"
    /\ Moved(c, target, target = "dispatched", due, order.version + 1)

-------------------------------------------------------------------------------
(* Reminders. *)

Tick ==
    /\ order.due /\ ~overdue
    /\ overdue' = TRUE
    /\ UNCHANGED <<event, workflow, order, timeline, reviewer, saw, reminded, scanner>>

\* Faulty: orders that nobody has started yet are not looked at.
DueStarted == order.due /\ overdue /\ order.status \notin Ended \cup {"dispatched"}

Due == order.due /\ overdue /\ order.status \notin Ended

\* _check_reminders selects the overdue orders without a lock ...
ScanFinds(s) ==
    /\ scanner[s] = "idle"
    /\ Due /\ ~reminded
    /\ scanner' = [scanner EXCEPT ![s] = "found"]
    /\ UNCHANGED <<event, workflow, order, timeline, reviewer, saw, overdue, reminded>>

\* ... and inserts a row for each: uq_work_order_reminder makes the commit of
\* a scan that comes second fail, and its run ends.
ScanCommits(s) ==
    /\ scanner[s] = "found"
    /\ reminded' = TRUE
    /\ scanner' = [scanner EXCEPT ![s] = "idle"]
    /\ UNCHANGED <<event, workflow, order, timeline, reviewer, saw, overdue>>

-------------------------------------------------------------------------------
Next ==
    \/ Edit \/ Supersede \/ Tick
    \/ \E r \in Reviewer : Load(r) \/ Lock(r) \/ Reject(r) \/ Approve(r)
    \/ \E c \in Clerk : \/ View(c)
                        \/ \E target \in Statuses, due \in BOOLEAN : Move(c, target, due)
    \/ \E s \in Scanner : ScanFinds(s) \/ ScanCommits(s)

Spec == Init /\ [][Next]_vars

\* Beat starts the reminder task again and again, and a run that started ends.
FairSpec ==
    /\ Spec
    /\ WF_vars(\E s \in Scanner : ScanFinds(s))
    /\ \A s \in Scanner : WF_vars(ScanCommits(s))

-------------------------------------------------------------------------------
(* Properties. *)

\* The time line accounts for the order: it starts with the creation, every
\* entry takes up the status the one before it left, versions count up without
\* a gap, and the last entry is what the row says.  The timeline endpoint shows
\* these rows as the history of the order.
TimelineIsChain ==
    /\ timeline = <<>> <=> order = NoOrder
    /\ \A i \in DOMAIN timeline :
           /\ timeline[i].version = i
           /\ timeline[i].from = (IF i = 1 THEN "none" ELSE timeline[i - 1].to)
    /\ order # NoOrder => /\ order.status = timeline[Len(timeline)].to
                          /\ order.version = Len(timeline)

\* An approval is about the draft its user has looked at: after the version
\* the approver had seen, the order was not sent back and submitted again.
\* The status alone cannot tell, as pending_review comes back; the expected
\* version of transition_work_order has to.
ApprovedAsSeen ==
    \A i \in DOMAIN timeline : timeline[i].to = "approved" =>
        \A k \in DOMAIN timeline : k < i /\ timeline[k].to = "draft" => k <= timeline[i].seen

\* Nobody is sent out on a draft: an order that was dispatched, and all that
\* follows, has an approval that no return to draft has made void, and an
\* assignee.
WorkWasApproved ==
    order.status \in {"dispatched", "in_progress", "resolved", "closed"} =>
        /\ order.assigned
        /\ \E i \in DOMAIN timeline :
              /\ timeline[i].to = "approved"
              /\ \A k \in DOMAIN timeline : timeline[k].to = "draft" => k < i

\* The order describes the version of the event that was assessed, although
\* review_workflow never locks the event and an edit may commit in between.
OrderTellsAssessed == order # NoOrder => order.of = Assessed

\* Two reviewers may both pass the check of the workflow's status, but the
\* order of the first approval is never replaced by that of a second.
OrderIsKept == [][order # NoOrder => order'.of = order.of /\ order'.version >= order.version]_vars

\* An order that is overdue and open is noted, unless it ends first.
OverdueIsReminded ==
    (order.due /\ overdue) ~> (reminded \/ order.status \in Ended)

-------------------------------------------------------------------------------
(* What makes the safety properties inductive.                               *)

\* An approval that counts is on record from the moment the order is approved.
ApprovalStands ==
    order.status \in {"approved", "dispatched", "in_progress", "resolved", "closed"} =>
        \E i \in DOMAIN timeline :
            /\ timeline[i].to = "approved"
            /\ \A k \in DOMAIN timeline : timeline[k].to = "draft" => k < i

\* Work that is under way has somebody who does it.
AssigneeIsNamed ==
    order.status \in {"dispatched", "in_progress", "resolved", "closed"} => order.assigned

\* Who decides about a workflow has read the version that was assessed.
DecidesOnAssessed ==
    \A r \in Reviewer : reviewer[r].at = "deciding" => reviewer[r].version = Assessed

\* The history of an order accounts for its state, and nothing is done on a draft
\* that nobody approved as it is (ApprovalStands and AssigneeIsNamed together say
\* WorkWasApproved), or about an event nobody assessed.
IndInv ==
    /\ TypeOK /\ TimelineIsChain /\ ApprovedAsSeen
    /\ ApprovalStands /\ AssigneeIsNamed
    /\ DecidesOnAssessed /\ OrderTellsAssessed

===============================================================================
