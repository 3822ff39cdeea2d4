---------------------------- MODULE Investigation -----------------------------
(***************************************************************************)
(* The graph of roles that investigates one event: a coordinator, evidence *)
(* in a loop of queries, risk, plan, and a critic that approves, sends the *)
(* plan back or asks for more evidence.                                    *)
(*                                                                         *)
(* Each node ends with a transaction guarded by the execution lease, which *)
(* stores the report of its role; the graph engine then writes the state   *)
(* that travels between the nodes to a store of its own, where no lease is *)
(* asked for.  A process that takes the run over goes on from that state   *)
(* and finds out from the stored reports which nodes need no new call.     *)
(* Classification has the rest of the executor.                            *)
(***************************************************************************)
EXTENDS JobStatus, Naturals, Sequences

CONSTANTS
    Investigator,    \* processes that may execute the run
    Query,           \* what the evidence role may look for
    Finding,         \* contents the tools may return
    OwnText,         \* the text of the event itself
    EvidenceBudget,  \* decisions of the evidence role in one run (six)
    RevisionLimit,   \* returns the critic may ask for (two)
    MaxLosses        \* bound: processes and leases lost

ASSUME InvestigationNames == OwnText \notin Finding /\ "finish" \notin Query
ASSUME InvestigationLimits ==
    EvidenceBudget \in Nat /\ RevisionLimit \in Nat /\ MaxLosses \in Nat

VARIABLES
    attempt,        \* the job of the run: status, flag and lease
    agentRun,       \* status of agent_runs
    agentTask,      \* agent_tasks: the last report of each role
    agentEvidence,  \* contents of agent_evidence
    agentSteps,     \* agent_steps of the evidence role: its decisions
    checkpoint,     \* the state the graph engine has stored last
    proposal,       \* agent_proposals
    member,         \* what each process does, and the copies it holds
    strayed,        \* the engine's store was written to without the lease
    losses

graphHistory == <<strayed, losses>>
investigationVars == <<attempt, agentRun, agentTask, agentEvidence, agentSteps,
                       checkpoint, proposal, member, graphHistory>>
reports == <<agentTask, agentEvidence, agentSteps>>

Roles == {"coordinator", "evidence", "risk", "plan", "critic"}
Decisions == {"approved_for_human_review", "needs_revision", "insufficient_evidence"}

(***************************************************************************)
(* Reports are told apart by a draft number, which grows with every report *)
(* a role stores, and by what they were made from.                         *)
(***************************************************************************)
NoRisk == [draft |-> 0, evidence |-> {}]
NoPlan == [draft |-> 0, risk |-> NoRisk]
NoReview == [decision |-> "none", risk |-> NoRisk, plan |-> NoPlan, evidence |-> {}]

\* InvestigationState, with the node that comes next.
Beginning == [next |-> "coordinator", revision |-> 0, evidence |-> {}, risk |-> NoRisk,
              plan |-> NoPlan, critic |-> NoReview]
Unsaved == [Beginning EXCEPT !.next = "none"]

NoProposal == Unsaved

\* No report yet; a report has the revision it was made for, counted from one.
Blank == [r \in Roles |->
            [round |-> 0,
             report |-> CASE r = "risk"     -> NoRisk
                          [] r = "plan"     -> NoPlan
                          [] r = "critic"   -> NoReview
                          [] r = "evidence" -> {}
                          [] OTHER          -> "focus"]]

Away == [at |-> "away", state |-> Unsaved, task |-> Blank, known |-> {}, fresh |-> FALSE,
         steps |-> <<>>, stored |-> 0]

InGraph == {"resuming", "starting", "node", "gathering", "finishing", "raising", "saving",
            "proposing"}

Contents == Finding \cup {OwnText}
Risks == [draft : Nat, evidence : SUBSET Contents]
Plans == [draft : Nat, risk : Risks]
Reviews == [decision : Decisions \cup {"none"}, risk : Risks, plan : Plans,
            evidence : SUBSET Contents]
States == [next : Roles \cup {"none", "end"}, revision : 0 .. RevisionLimit,
           evidence : SUBSET Contents, risk : Risks, plan : Plans, critic : Reviews]

IsTasks(t) ==
    /\ DOMAIN t = Roles
    /\ \A r \in Roles : t[r].round \in 0 .. RevisionLimit + 1
    /\ t["evidence"].report \subseteq Contents
    /\ t["risk"].report \in Risks
    /\ t["plan"].report \in Plans
    /\ t["critic"].report \in Reviews

InvestigationTypeOK ==
    /\ attempt \in [status : Active \cup Terminal, cancel_requested : BOOLEAN,
                    token : Investigator \cup {"none"}, leased : BOOLEAN]
    /\ agentRun \in Active \cup Terminal
    /\ IsTasks(agentTask)
    /\ agentEvidence \subseteq Contents
    /\ agentSteps \in Seq(Query \cup {"finish"})
    /\ checkpoint \in States /\ proposal \in States
    /\ \A w \in Investigator :
          /\ member[w].at \in InGraph \cup {"away", "loading", "closing"}
          /\ member[w].state \in States
          /\ IsTasks(member[w].task)
          /\ member[w].known \subseteq Contents
          /\ member[w].steps \in Seq(Query \cup {"finish"})
    /\ strayed \in BOOLEAN /\ losses \in 0 .. MaxLosses

InvestigationInit ==
    /\ attempt = [status |-> "queued", cancel_requested |-> FALSE, token |-> "none",
                  leased |-> FALSE]
    /\ agentRun = "queued"
    /\ agentTask = Blank
    /\ agentEvidence = {}
    /\ agentSteps = <<>>
    /\ checkpoint = Unsaved
    /\ proposal = NoProposal
    /\ member = [w \in Investigator |-> Away]
    /\ strayed = FALSE /\ losses = 0

-------------------------------------------------------------------------------
(* Taking the run up. *)

\* guard_execution.
Guards(w) ==
    /\ attempt.status = "running" /\ ~attempt.cancel_requested
    /\ attempt.token = w /\ attempt.leased

\* claim_job, for one of the deliveries of the message.
ClaimRun(w) ==
    /\ member[w].at = "away"
    /\ attempt.status \in Active /\ ~attempt.cancel_requested /\ ~attempt.leased
    /\ attempt' = [attempt EXCEPT !.status = "running", !.token = w, !.leased = TRUE]
    /\ member' = [member EXCEPT ![w].at = "loading"]
    /\ UNCHANGED <<agentRun, reports, checkpoint, proposal, graphHistory>>

\* The reports, the evidence and the decisions of earlier executions.
LoadRun(w) ==
    /\ member[w].at = "loading" /\ Guards(w)
    /\ agentRun' = "running"
    /\ member' = [member EXCEPT ![w] = [Away EXCEPT
          !.at = "resuming", !.task = agentTask, !.known = agentEvidence,
          !.steps = agentSteps, !.stored = Len(agentSteps)]]
    /\ UNCHANGED <<attempt, reports, checkpoint, proposal, graphHistory>>

\* aget_state: what was stored for this run, if anything was.
Resume(w) ==
    /\ member[w].at = "resuming"
    /\ member' = [member EXCEPT
          ![w].at = CASE checkpoint = Unsaved      -> "starting"
                      [] checkpoint.next = "end" -> "proposing"
                      [] OTHER                   -> "node",
          ![w].state = checkpoint]
    /\ UNCHANGED <<attempt, agentRun, reports, checkpoint, proposal, graphHistory>>

\* The engine's store is written to, with or without the lease.
Writes(w, state) ==
    /\ checkpoint' = state
    /\ strayed' = (strayed \/ attempt.token # w \/ ~attempt.leased)

\* A new beginning, put on top of what may have been stored since the look.
StartGraph(w) ==
    /\ member[w].at = "starting"
    /\ LET state == IF checkpoint = Unsaved THEN Beginning
                    ELSE [checkpoint EXCEPT !.next = "coordinator", !.revision = 0]
       IN  /\ Writes(w, state)
           /\ member' = [member EXCEPT ![w].at = "node", ![w].state = state]
    /\ UNCHANGED <<attempt, agentRun, reports, proposal, losses>>

-------------------------------------------------------------------------------
(* The nodes. *)

NextOf(w) == member[w].state.next

\* The process would insert rows that another one has stored since it loaded.
Collides(w) ==
    \/ Len(agentSteps) # member[w].stored
    \/ NextOf(w) \in Roles /\ member[w].task[NextOf(w)].round = 0
                           /\ agentTask[NextOf(w)].round # 0

\* _ensure_active and the role's task, at the begin of each node.
Activates(w) == member[w].at = "node" /\ ~attempt.cancel_requested

\* Faulty: a report is not looked for.
ReusableNever(w) == FALSE

\* A report stored for this revision needs no new call.
Reusable(w) ==
    /\ member[w].task[NextOf(w)].round > 0
    /\ NextOf(w) = "coordinator"
       \/ member[w].task[NextOf(w)].round = member[w].state.revision + 1

\* What a role's report becomes in the state of the graph.
With(state, role, report) ==
    CASE role = "evidence" -> [state EXCEPT !.evidence = report]
      [] role = "risk"     -> [state EXCEPT !.risk = report]
      [] role = "plan"     -> [state EXCEPT !.plan = report]
      [] role = "critic"   -> [state EXCEPT !.critic = report]
      [] OTHER             -> state

ReportOf(state, role) ==
    CASE role = "evidence" -> state.evidence
      [] role = "risk"     -> state.risk
      [] role = "plan"     -> state.plan
      [] role = "critic"   -> state.critic
      [] OTHER             -> "focus"

\* Faulty: the critic may ask without end.
GivenUpNever(state) == FALSE

\* The critic has asked for one return too many.
GivenUp(state) ==
    /\ state.next = "critic"
    /\ state.critic.decision # "approved_for_human_review"
    /\ state.revision >= RevisionLimit

After == [coordinator |-> "evidence", evidence |-> "risk", risk |-> "plan", plan |-> "critic"]

\* The edges of the graph, and route_review.
Advanced(state) ==
    IF state.next # "critic" THEN [state EXCEPT !.next = After[state.next]]
    ELSE CASE state.critic.decision = "approved_for_human_review" ->
                  [state EXCEPT !.next = "end"]
           [] state.critic.decision = "needs_revision" ->
                  [state EXCEPT !.next = "plan", !.revision = @ + 1]
           [] OTHER ->
                  [state EXCEPT !.next = "evidence", !.revision = @ + 1]

\* A node returns its update to the graph engine, or the critic raises.
Returned(m, state) ==
    IF GivenUp(state) THEN [m EXCEPT !.at = "raising", !.state = state]
    ELSE [m EXCEPT !.at = "saving", !.state = Advanced(state)]

Recall(w) ==
    /\ Activates(w) /\ Reusable(w)
    /\ member' = [member EXCEPT ![w] =
          Returned(@, With(@.state, NextOf(w), @.task[NextOf(w)].report))]
    /\ UNCHANGED <<attempt, agentRun, reports, checkpoint, proposal, graphHistory>>

\* The evidence role begins with the text of the event.
Gather(w) ==
    /\ Activates(w) /\ ~Reusable(w) /\ ~Collides(w) /\ NextOf(w) = "evidence"
    /\ member' = [member EXCEPT
          ![w].at = "gathering",
          ![w].fresh = member[w].known = {},
          ![w].known = IF @ = {} THEN {OwnText} ELSE @]
    /\ UNCHANGED <<attempt, agentRun, reports, checkpoint, proposal, graphHistory>>

\* Faulty: decisions are not limited.
DecidesOn(w) == member[w].at = "gathering" /\ ~attempt.cancel_requested

Decides(w) ==
    /\ member[w].at = "gathering" /\ ~attempt.cancel_requested
    /\ Len(member[w].steps) < EvidenceBudget

Asked(steps) == {steps[i] : i \in DOMAIN steps} \ {"finish"}

\* A query that has not been asked in this run, whatever its tool finds.
Ask(w, query, found) ==
    /\ Decides(w) /\ query \notin Asked(member[w].steps)
    /\ member' = [member EXCEPT
          ![w].steps = Append(@, query),
          ![w].fresh = @ \/ ~(found \subseteq member[w].known),
          ![w].known = @ \cup found]
    /\ UNCHANGED <<attempt, agentRun, reports, checkpoint, proposal, graphHistory>>

\* The role has enough; what the critic asked for must have brought something.
Conclude(w) ==
    /\ Decides(w)
    /\ member[w].state.critic.decision = "insufficient_evidence" => member[w].fresh
    /\ member' = [member EXCEPT
          ![w].at = "finishing",
          ![w].steps = Append(@, "finish"),
          ![w].state.evidence = member[w].known]
    /\ UNCHANGED <<attempt, agentRun, reports, checkpoint, proposal, graphHistory>>

Draft(role) == agentTask[role].report.draft + 1

\* The reports a role may make from the state of the graph.
ReportsFrom(state, role) ==
    CASE role = "risk"   -> {[draft |-> Draft("risk"), evidence |-> state.evidence]}
      [] role = "plan"   -> {[draft |-> Draft("plan"), risk |-> state.risk]}
      [] role = "critic" -> {[decision |-> d, risk |-> state.risk, plan |-> state.plan,
                             evidence |-> state.evidence] : d \in Decisions}
      [] OTHER           -> {"focus"}

\* Any other role asks the model once.
Call(w) ==
    /\ Activates(w) /\ ~Reusable(w) /\ ~Collides(w) /\ NextOf(w) # "evidence"
    /\ \E report \in ReportsFrom(member[w].state, NextOf(w)) :
          member' = [member EXCEPT ![w].at = "finishing",
                                   ![w].state = With(@, NextOf(w), report)]
    /\ UNCHANGED <<attempt, agentRun, reports, checkpoint, proposal, graphHistory>>

\* The rows a node has prepared.
TaskRow(w) == [round  |-> member[w].state.revision + 1,
               report |-> ReportOf(member[w].state, NextOf(w))]
StoresNode(w) ==
    /\ agentTask' = [agentTask EXCEPT ![NextOf(w)] = TaskRow(w)]
    /\ agentEvidence' = agentEvidence \cup member[w].known
    /\ agentSteps' = member[w].steps

\* Faulty: the node is stored without a look at the lease.
FinishNodeUnguarded(w) ==
    /\ member[w].at = "finishing"
    /\ StoresNode(w)
    /\ member' = [member EXCEPT ![w] =
          [Returned(@, @.state) EXCEPT !.task[NextOf(w)] = TaskRow(w),
                                       !.stored = Len(member[w].steps)]]
    /\ UNCHANGED <<attempt, agentRun, checkpoint, proposal, graphHistory>>

\* finish_node: guard and commit.
FinishNode(w) ==
    /\ member[w].at = "finishing" /\ Guards(w)
    /\ StoresNode(w)
    /\ member' = [member EXCEPT ![w] =
          [Returned(@, @.state) EXCEPT !.task[NextOf(w)] = TaskRow(w),
                                       !.stored = Len(member[w].steps)]]
    /\ UNCHANGED <<attempt, agentRun, checkpoint, proposal, graphHistory>>

\* The engine stores the state; it knows nothing of the lease.
SaveCheckpoint(w) ==
    /\ member[w].at = "saving"
    /\ Writes(w, member[w].state)
    /\ member' = [member EXCEPT ![w].at = IF NextOf(w) = "end" THEN "proposing" ELSE "node"]
    /\ UNCHANGED <<attempt, agentRun, reports, proposal, losses>>

-------------------------------------------------------------------------------
(* The ends. *)

GoesAway(w) == member' = [member EXCEPT ![w] = Away]

\* The proposal is prepared; a run has one at most.
Propose(w) ==
    /\ member[w].at = "proposing" /\ ~attempt.cancel_requested
    /\ proposal = NoProposal
    /\ member' = [member EXCEPT ![w].at = "closing"]
    /\ UNCHANGED <<attempt, agentRun, reports, checkpoint, proposal, graphHistory>>

\* It is committed with the assessment, or with a cancelled job.
Close(w) ==
    /\ member[w].at = "closing" /\ proposal = NoProposal
    /\ \/ Guards(w) /\ attempt' = [attempt EXCEPT !.status = "succeeded", !.leased = FALSE]
       \/ /\ attempt.cancel_requested /\ attempt.status \in Active \cup {"cancelled"}
          /\ attempt' = [attempt EXCEPT !.status = "cancelled",
                                        !.leased = @ /\ attempt.token # w]
    /\ proposal' = member[w].state
    /\ agentRun' = "succeeded"
    /\ GoesAway(w)
    /\ UNCHANGED <<reports, checkpoint, graphHistory>>

\* The handler around the graph: an exception of a run that was asked to stop
\* commits whatever its node has prepared, without a guard.
Stop(w) ==
    /\ member[w].at \in InGraph /\ attempt.cancel_requested /\ ~Collides(w)
    /\ member[w].at = "finishing" => attempt.status = "running"
    /\ IF member[w].at = "finishing" THEN StoresNode(w)
       ELSE /\ agentEvidence' = agentEvidence \cup member[w].known
            /\ agentSteps' = member[w].steps
            /\ UNCHANGED agentTask
    /\ attempt' = [attempt EXCEPT !.status = "cancelled",
                                  !.leased = @ /\ attempt.token # w]
    /\ agentRun' = "cancelled"
    /\ GoesAway(w)
    /\ UNCHANGED <<checkpoint, proposal, graphHistory>>

\* Anything else that raises, wherever it is: the transaction is rolled back
\* and the holder of the token ends job and run.
Break(w) ==
    /\ member[w].at # "away"
    /\ LET end == IF attempt.cancel_requested THEN "cancelled" ELSE "failed"
       IN  IF attempt.token = w /\ attempt.status = "running"
           THEN /\ attempt' = [attempt EXCEPT !.status = end, !.leased = FALSE]
                /\ agentRun' = end
           ELSE UNCHANGED <<attempt, agentRun>>
    /\ GoesAway(w)
    /\ UNCHANGED <<reports, checkpoint, proposal, graphHistory>>

\* POST /agent-runs/{id}:cancel flags run and job, here while they are executed.
CancelRun ==
    /\ agentRun = "running" /\ attempt.status = "running" /\ ~attempt.cancel_requested
    /\ attempt' = [attempt EXCEPT !.cancel_requested = TRUE]
    /\ UNCHANGED <<agentRun, reports, checkpoint, proposal, member, graphHistory>>

\* A lease runs out under a process that goes on, or together with it.
LoseLease(w) ==
    /\ attempt.token = w /\ attempt.leased /\ losses < MaxLosses
    /\ attempt' = [attempt EXCEPT !.leased = FALSE]
    /\ losses' = losses + 1
    /\ GoesAway(w) \/ UNCHANGED member
    /\ UNCHANGED <<agentRun, reports, checkpoint, proposal, strayed>>

\* fail_stale_jobs.
SweepRun ==
    /\ attempt.status = "running" /\ ~attempt.leased
    /\ attempt' = [attempt EXCEPT !.status = "failed"]
    /\ UNCHANGED <<agentRun, reports, checkpoint, proposal, member, graphHistory>>

Investigates(w) ==
    \/ LoadRun(w) \/ Resume(w) \/ StartGraph(w) \/ Recall(w) \/ Gather(w)
    \/ \E query \in Query, found \in SUBSET Finding : Ask(w, query, found)
    \/ Conclude(w) \/ Call(w) \/ FinishNode(w) \/ SaveCheckpoint(w)
    \/ Propose(w) \/ Close(w) \/ Stop(w) \/ Break(w)

InvestigationNext ==
    \/ \E w \in Investigator : ClaimRun(w) \/ Investigates(w) \/ LoseLease(w)
    \/ CancelRun \/ SweepRun

InvestigationSpec == InvestigationInit /\ [][InvestigationNext]_investigationVars

-------------------------------------------------------------------------------
(* Properties. *)

\* Whoever executes the run, and however often it is taken over, the evidence
\* role decides six times at most and asks no tool the same thing twice.
WithinBudget ==
    /\ Len(agentSteps) <= EvidenceBudget
    /\ \A i, j \in DOMAIN agentSteps :
          agentSteps[i] = agentSteps[j] /\ agentSteps[i] # "finish" => i = j

\* The proposal put before a person rests on stored evidence, and is what the
\* critic approved: this plan, made for this risk, judged on this evidence --
\* unless a process that had lost its lease has put the graph back to an earlier
\* revision, from which stored reports of a later one are taken over.
ProposalIsReviewed ==
    proposal # NoProposal =>
        /\ proposal.evidence # {} /\ proposal.evidence \subseteq agentEvidence
        /\ ~strayed =>
              /\ proposal.critic = [decision |-> "approved_for_human_review",
                                    risk |-> proposal.risk, plan |-> proposal.plan,
                                    evidence |-> proposal.evidence]
              /\ proposal.plan.risk = proposal.risk
              /\ proposal.risk.evidence = proposal.evidence

\* The graph engine never knows a report the database does not have: what it
\* has is not younger, and its evidence is stored.  (Once a run is asked to stop,
\* a handler may store an older report over a younger one.)
CheckpointIsBacked ==
    /\ checkpoint.evidence \subseteq agentEvidence
    /\ checkpoint.next = "end" => agentTask["critic"].round > 0
    /\ ~attempt.cancel_requested =>
          /\ checkpoint.risk.draft <= agentTask["risk"].report.draft
          /\ checkpoint.plan.draft <= agentTask["plan"].report.draft

\* What holds of an investigation, its reports and what the engine has stored,
\* whichever process executes it.
InvestigationInv ==
    InvestigationTypeOK /\ WithinBudget /\ ProposalIsReviewed /\ CheckpointIsBacked

\* What a role has reported for a revision stands: whoever takes the run over
\* does not ask for it again, unless the run was cancelled meanwhile.
ReportsStand ==
    [][\A r \in Roles :
          agentTask[r].round > 0 /\ agentTask'[r] # agentTask[r] =>
              agentTask'[r].round # agentTask[r].round \/ attempt.cancel_requested]_investigationVars
===============================================================================
