----------------------------- MODULE OrdersProofs ------------------------------
(***************************************************************************)
(* Proofs about the history of a work order and about the requests that    *)
(* ask for a classification.                                               *)
(***************************************************************************)
EXTENDS WorkOrders, ClassifyRequests, SequenceTheorems, TLAPS

-------------------------------------------------------------------------------
(***************************************************************************)
(* The work order's history can be relied upon, for any number of          *)
(* reviewers, clerks and reminder runs and whatever the bounds: IndInv of  *)
(* WorkOrders is inductive.  Actions that leave the order and its time     *)
(* line alone are dealt with together.                                     *)
(***************************************************************************)

Entry == [from : Statuses \cup {"none"}, to : Statuses,
          version : 1 .. MaxMoves + 1, seen : 0 .. MaxMoves + 1]

\* What the provers need to know of the row and the time line, field by field.
LEMMA Fields ==
    ASSUME TypeOK
    PROVE  /\ MaxMoves \in Nat /\ MaxEdits \in Nat
           /\ order.version \in Nat /\ order.assigned \in BOOLEAN /\ order.due \in BOOLEAN
           /\ order # NoOrder => order.status \in Statuses /\ order.version \in 1 .. MaxMoves + 1
           /\ order # NoOrder => order.of \in 1 .. MaxEdits + 1
           /\ order = NoOrder => order.status = "absent"
           /\ timeline \in Seq(Entry) /\ Len(timeline) \in Nat
           /\ DOMAIN timeline = 1 .. Len(timeline)
           /\ \A i \in DOMAIN timeline : timeline[i] \in Entry
           /\ \A c \in Clerk : saw[c] \in 0 .. MaxMoves + 1
  <1>1. MaxMoves \in Nat /\ MaxEdits \in Nat
    BY WorkOrderBounds
  <1>2. timeline \in Seq(Entry) /\ saw \in [Clerk -> 0 .. MaxMoves + 1]
    BY DEF TypeOK, Entry
  <1>3. /\ Len(timeline) \in Nat /\ DOMAIN timeline = 1 .. Len(timeline)
        /\ \A i \in DOMAIN timeline : timeline[i] \in Entry
        /\ \A c \in Clerk : saw[c] \in 0 .. MaxMoves + 1
    BY <1>2
  <1>4. /\ order.version \in Nat /\ order.assigned \in BOOLEAN /\ order.due \in BOOLEAN
        /\ order # NoOrder => order.status \in Statuses /\ order.version \in 1 .. MaxMoves + 1
        /\ order # NoOrder => order.of \in 1 .. MaxEdits + 1
        /\ order = NoOrder => order.status = "absent"
    <2>1. CASE order = NoOrder
      BY <2>1 DEF NoOrder
    <2>2. CASE order # NoOrder
      BY <1>1, <2>2 DEF TypeOK
    <2> QED BY <2>1, <2>2
  <1> QED BY <1>1, <1>2, <1>3, <1>4

\* The state an investigation leaves satisfies the invariant.
LEMMA InitInv == Init => IndInv
  <1> SUFFICES ASSUME Init PROVE IndInv
    OBVIOUS
  <1>1. TypeOK
    <2>1. event \in [status : {"confirmed", "superseded"}, version : 1 .. MaxEdits + 1]
      BY WorkOrderBounds DEF Init, Assessed
    <2>2. reviewer \in [Reviewer -> [at : {"idle", "loaded", "deciding"},
                                    status : {"awaiting_review", "rejected", "completed"},
                                    version : 0 .. MaxEdits + 1]]
      BY WorkOrderBounds DEF Init, Idle
    <2>3. saw \in [Clerk -> 0 .. MaxMoves + 1] /\ scanner \in [Scanner -> {"idle", "found"}]
      BY WorkOrderBounds DEF Init
    <2>4. /\ timeline = <<>> /\ order = NoOrder /\ workflow = "awaiting_review"
          /\ overdue = FALSE /\ reminded = FALSE
      BY DEF Init
    <2>5. overdue \in BOOLEAN /\ reminded \in BOOLEAN
      BY <2>4
    <2>6. timeline \in Seq(Entry)
      BY <2>4
    <2> QED BY <2>1, <2>2, <2>3, <2>4, <2>5, <2>6 DEF TypeOK, Entry
  <1>2. TimelineIsChain /\ ApprovedAsSeen
    BY DEF Init, TimelineIsChain, ApprovedAsSeen
  <1>3. ApprovalStands /\ AssigneeIsNamed /\ OrderTellsAssessed
    BY DEF Init, ApprovalStands, AssigneeIsNamed, OrderTellsAssessed, NoOrder
  <1>4. DecidesOnAssessed
    BY DEF Init, DecidesOnAssessed, Idle
  <1> QED BY <1>1, <1>2, <1>3, <1>4 DEF IndInv

\* A step that changes neither the order nor its time line, and lets nobody
\* decide on another version, preserves everything but types.
LEMMA QuietStep ==
    ASSUME IndInv, UNCHANGED <<order, timeline>>, TypeOK', DecidesOnAssessed'
    PROVE  IndInv'
  BY DEF IndInv, TimelineIsChain, ApprovedAsSeen, ApprovalStands, AssigneeIsNamed,
         OrderTellsAssessed

\* An approval starts the history of an order that is not there.
LEMMA CreateInv ==
    ASSUME IndInv, NEW r \in Reviewer, reviewer[r].at = "deciding", order = NoOrder,
           Creates(r), reviewer' = [reviewer EXCEPT ![r] = Idle],
           UNCHANGED <<event, saw, overdue, reminded, scanner>>
    PROVE  IndInv'
  <1> DEFINE first == [from |-> "none", to |-> "draft", version |-> 1, seen |-> 0]
  <1>1. timeline = <<>> /\ reviewer[r].version = Assessed /\ MaxMoves \in Nat /\ MaxEdits \in Nat
    BY WorkOrderBounds DEF IndInv, TimelineIsChain, DecidesOnAssessed
  <1>2. timeline' = <<first>> /\ Len(timeline') = 1 /\ DOMAIN timeline' = {1}
        /\ timeline'[1] = first
    BY <1>1 DEF Creates
  <1>3. /\ order' # NoOrder /\ order'.status = "draft" /\ order'.version = 1
        /\ order'.of = Assessed
        /\ order' = [status |-> "draft", version |-> 1, of |-> Assessed,
                     assigned |-> FALSE, due |-> FALSE]
    BY <1>1 DEF Creates, NoOrder
  <1>4. first \in Entry
    BY <1>1 DEF Entry, Statuses
  <1>5. TypeOK'
    <2>1. timeline' \in Seq(Entry)
      BY <1>2, <1>4
    <2>2. reviewer' \in [Reviewer -> [at : {"idle", "loaded", "deciding"},
                                  status : {"awaiting_review", "rejected", "completed"},
                                  version : 0 .. MaxEdits + 1]]
      BY <1>1 DEF IndInv, TypeOK, Idle
    <2>3. order' \in [status : Statuses, version : 1 .. MaxMoves + 1,
                      of : 1 .. MaxEdits + 1, assigned : BOOLEAN, due : BOOLEAN]
      BY <1>1, <1>3 DEF Statuses, Assessed
    <2> QED BY <2>1, <2>2, <2>3 DEF IndInv, TypeOK, Creates, Entry
  <1>6. TimelineIsChain' /\ ApprovedAsSeen'
    BY <1>2, <1>3 DEF TimelineIsChain, ApprovedAsSeen
  <1>7. ApprovalStands' /\ AssigneeIsNamed' /\ OrderTellsAssessed'
    BY <1>3 DEF ApprovalStands, AssigneeIsNamed, OrderTellsAssessed
  <1>8. DecidesOnAssessed'
    BY DEF IndInv, TypeOK, DecidesOnAssessed, Idle
  <1> QED BY <1>5, <1>6, <1>7, <1>8 DEF IndInv

\* A move adds one entry, made by somebody who had seen the newest version.
LEMMA MoveInv ==
    ASSUME IndInv, NEW c \in Clerk, NEW target \in Statuses, NEW due \in BOOLEAN,
           Move(c, target, due)
    PROVE  IndInv'
  <1> DEFINE n == Len(timeline)
             entry == [from |-> order.status, to |-> target,
                       version |-> order.version + 1, seen |-> saw[c]]
             assigned == target = "dispatched"
  <1> USE DEF IndInv
  <1>1. /\ order # NoOrder /\ order.version <= MaxMoves /\ saw[c] = order.version
        /\ target \in AllowedFrom(order.status)
        /\ timeline' = Append(timeline, entry)
        /\ order' = [order EXCEPT !.status = target, !.version = order.version + 1,
                                 !.assigned = @ \/ assigned, !.due = @ \/ due]
        /\ UNCHANGED <<event, workflow, reviewer, saw, overdue, reminded, scanner>>
    BY DEF Move, Moved
  <1>2. /\ n \in Nat /\ n > 0 /\ order.version = n
        /\ order.status = timeline[n].to
        /\ order.status \in Statuses
    BY <1>1, Fields DEF TimelineIsChain
  <1>3. order \in [status : Statuses, version : 1 .. MaxMoves + 1, of : 1 .. MaxEdits + 1,
                   assigned : BOOLEAN, due : BOOLEAN]
    BY <1>1 DEF TypeOK
  <1>4. /\ order'.status = target /\ order'.version = n + 1 /\ order'.of = order.of
        /\ target = "dispatched" => order'.assigned
        /\ order.assigned => order'.assigned
        /\ order' # NoOrder
        /\ order' \in [status : Statuses, version : 1 .. MaxMoves + 1, of : 1 .. MaxEdits + 1,
                       assigned : BOOLEAN, due : BOOLEAN]
    <2>1. order' \in [status : Statuses, version : 1 .. MaxMoves + 1, of : 1 .. MaxEdits + 1,
                      assigned : BOOLEAN, due : BOOLEAN]
      <3> DEFINE named == order.assigned \/ assigned
                 dated == order.due \/ due
      <3>1. named \in BOOLEAN /\ dated \in BOOLEAN
        OBVIOUS
      <3>2. order.version + 1 \in 1 .. MaxMoves + 1
        BY <1>1, <1>2, Fields
      <3>3. order' = [order EXCEPT !.status = target, !.version = order.version + 1,
                                   !.assigned = named, !.due = dated]
        BY <1>1
      <3> HIDE DEF named, dated
      <3> QED BY <3>1, <3>2, <3>3, <1>3
    <2>2. /\ order'.status = target /\ order'.version = n + 1 /\ order'.of = order.of
          /\ order'.assigned = (order.assigned \/ assigned)
      BY <1>1, <1>2, <1>3
    <2>3. order' # NoOrder
      BY <2>2 DEF NoOrder, Statuses
    <2> QED BY <2>1, <2>2, <2>3
  <1>5. entry \in Entry
    BY <1>1, <1>2, Fields DEF Entry
  <1>6. /\ timeline' \in Seq(Entry) /\ Len(timeline') = n + 1
        /\ DOMAIN timeline' = 1 .. n + 1
        /\ timeline'[n + 1] = entry
        /\ \A i \in 1 .. n : timeline'[i] = timeline[i]
        /\ DOMAIN timeline = 1 .. n
    BY <1>1, <1>5, Fields
  <1> HIDE DEF n, entry, assigned
  <1>7. entry.from = order.status /\ entry.to = target /\ entry.version = n + 1 /\ entry.seen = n
    BY <1>1, <1>2 DEF entry
  <1>8. TypeOK'
    BY <1>1, <1>4, <1>6 DEF TypeOK, Entry
  <1>9. TimelineIsChain'
    BY <1>1, <1>2, <1>4, <1>6, <1>7 DEF TimelineIsChain
  <1>10. ApprovedAsSeen'
    BY <1>2, <1>6, <1>7 DEF ApprovedAsSeen
  <1>11. ApprovalStands'
    <2>1. CASE target = "approved"
      BY <2>1, <1>2, <1>6, <1>7 DEF ApprovalStands
    <2>2. CASE target \in {"dispatched", "in_progress", "resolved", "closed"}
      <3>1. order.status \in {"approved", "dispatched", "in_progress", "resolved", "closed"}
        BY <1>1, <1>2, <2>2 DEF AllowedFrom, Statuses
      <3>2. PICK i \in DOMAIN timeline :
                /\ timeline[i].to = "approved"
                /\ \A k \in DOMAIN timeline : timeline[k].to = "draft" => k < i
        BY <3>1 DEF ApprovalStands
      <3>3. i \in DOMAIN timeline' /\ timeline'[i].to = "approved"
        BY <1>2, <1>6, <3>2
      <3>4. \A k \in DOMAIN timeline' : timeline'[k].to = "draft" => k < i
        BY <1>2, <1>6, <1>7, <2>2, <3>2
      <3> QED BY <3>3, <3>4 DEF ApprovalStands
    <2>3. CASE target \in {"draft", "pending_review", "cancelled"}
      BY <2>3, <1>4 DEF ApprovalStands
    <2> QED BY <2>1, <2>2, <2>3 DEF Statuses
  <1>12. AssigneeIsNamed'
    <2>1. target \in {"in_progress", "resolved", "closed"} =>
              order.status \in {"dispatched", "in_progress", "resolved"}
      BY <1>1, <1>2 DEF AllowedFrom, Statuses
    <2> QED BY <2>1, <1>4 DEF AssigneeIsNamed
  <1>13. OrderTellsAssessed' /\ DecidesOnAssessed'
    BY <1>1, <1>4 DEF OrderTellsAssessed, DecidesOnAssessed
  <1> QED BY <1>8, <1>9, <1>10, <1>11, <1>12, <1>13

Review == [at : {"idle", "loaded", "deciding"},
           status : {"awaiting_review", "rejected", "completed"},
           version : 0 .. MaxEdits + 1]

\* What review requests do before they decide: only Lock lets one decide, and
\* it has compared the versions.
LEMMA ReviewInv ==
    ASSUME IndInv, NEW r \in Reviewer, Load(r) \/ Lock(r) \/ Reject(r)
    PROVE  IndInv'
  <1> USE DEF IndInv
  <1>1. MaxEdits \in Nat /\ reviewer \in [Reviewer -> Review]
    BY WorkOrderBounds DEF TypeOK, Review
  <1>2. CASE Load(r)
    <2> DEFINE loaded == [at |-> "loaded", status |-> workflow, version |-> 0]
    <2>1. loaded \in Review /\ loaded.at = "loaded"
      BY <1>1 DEF TypeOK, Review
    <2>0. reviewer' = [reviewer EXCEPT ![r] = loaded]
      BY <1>2 DEF Load
    <2> HIDE DEF loaded
    <2>2. reviewer' \in [Reviewer -> Review] /\ DecidesOnAssessed'
      BY <1>1, <2>1, <2>0 DEF DecidesOnAssessed
    <2>3. TypeOK' /\ UNCHANGED <<order, timeline>>
      BY <1>2, <2>2 DEF Load, TypeOK, Review
    <2> QED BY <2>2, <2>3, QuietStep
  <1>3. CASE Lock(r)
    <2> DEFINE next == IF /\ reviewer[r].status = "awaiting_review"
                          /\ event.status = "confirmed" /\ event.version = Assessed
                       THEN [reviewer[r] EXCEPT !.at = "deciding", !.version = event.version]
                       ELSE Idle
    <2>1. next \in Review /\ (next.at = "deciding" => next.version = Assessed)
      <3>1. CASE /\ reviewer[r].status = "awaiting_review"
                 /\ event.status = "confirmed" /\ event.version = Assessed
        <4>1. next = [reviewer[r] EXCEPT !.at = "deciding", !.version = Assessed]
          BY <3>1
        <4>2. reviewer[r] \in Review /\ Assessed \in 0 .. MaxEdits + 1
          BY <1>1 DEF Assessed
        <4> HIDE DEF next
        <4> QED BY <4>1, <4>2 DEF Review
      <3>2. CASE next = Idle
        <4> HIDE DEF next
        <4> QED BY <1>1, <3>2 DEF Idle, Review
      <3> QED BY <3>1, <3>2
    <2>2. reviewer' = [reviewer EXCEPT ![r] = next]
      BY <1>3 DEF Lock
    <2> HIDE DEF next
    <2>3. reviewer' \in [Reviewer -> Review] /\ DecidesOnAssessed'
      BY <1>1, <2>1, <2>2 DEF DecidesOnAssessed
    <2>4. TypeOK' /\ UNCHANGED <<order, timeline>>
      BY <1>3, <2>3 DEF Lock, TypeOK, Review
    <2> QED BY <2>3, <2>4, QuietStep
  <1>4. CASE Reject(r)
    <2>1. Idle \in Review /\ Idle.at = "idle"
      BY <1>1 DEF Idle, Review
    <2>2. reviewer' \in [Reviewer -> Review] /\ DecidesOnAssessed'
      BY <1>1, <1>4, <2>1 DEF Reject, DecidesOnAssessed
    <2>3. TypeOK' /\ UNCHANGED <<order, timeline>>
      BY <1>4, <2>2 DEF Reject, TypeOK, Review
    <2> QED BY <2>2, <2>3, QuietStep
  <1> QED BY <1>2, <1>3, <1>4

\* An approval creates the order, or finds one and stores nothing.
LEMMA ApproveInv ==
    ASSUME IndInv, NEW r \in Reviewer, Approve(r)
    PROVE  IndInv'
  <1>1. CASE order = NoOrder
    BY <1>1, CreateInv DEF Approve
  <1>2. CASE order # NoOrder
    <2>1. MaxEdits \in Nat /\ reviewer \in [Reviewer -> Review] /\ Idle \in Review
      BY WorkOrderBounds DEF IndInv, TypeOK, Review, Idle
    <2>2. reviewer' \in [Reviewer -> Review] /\ DecidesOnAssessed'
      BY <1>2, <2>1 DEF Approve, IndInv, DecidesOnAssessed, Idle
    <2>3. TypeOK' /\ UNCHANGED <<order, timeline>>
      BY <1>2, <2>2 DEF Approve, IndInv, TypeOK, Review
    <2> QED BY <2>2, <2>3, QuietStep
  <1> QED BY <1>1, <1>2

\* Edits of the event, views, the clock and reminders.
LEMMA OtherInv ==
    ASSUME IndInv,
           \/ Edit \/ Supersede \/ Tick
           \/ \E c \in Clerk : View(c)
           \/ \E s \in Scanner : ScanFinds(s) \/ ScanCommits(s)
    PROVE  IndInv'
  <1> USE DEF IndInv
  <1>1. UNCHANGED <<order, timeline, reviewer>>
    BY DEF Edit, Supersede, Tick, View, ScanFinds, ScanCommits
  <1>2. DecidesOnAssessed'
    BY <1>1 DEF DecidesOnAssessed
  <1>3. TypeOK'
    <2>1. CASE Edit \/ Supersede
      <3>1. event' \in [status : {"confirmed", "superseded"}, version : 1 .. MaxEdits + 1]
        BY <2>1, WorkOrderBounds DEF Edit, Supersede, TypeOK
      <3> QED BY <2>1, <3>1 DEF Edit, Supersede, TypeOK
    <2>2. CASE Tick
      BY <2>2 DEF Tick, TypeOK
    <2>3. ASSUME NEW c \in Clerk, View(c) PROVE TypeOK'
      <3>1. order.version \in 0 .. MaxMoves + 1
        BY <2>3, Fields DEF View
      <3>2. saw' \in [Clerk -> 0 .. MaxMoves + 1]
        BY <2>3, <3>1 DEF View, TypeOK
      <3> QED BY <2>3, <3>2 DEF View, TypeOK
    <2>4. ASSUME NEW s \in Scanner, ScanFinds(s) \/ ScanCommits(s) PROVE TypeOK'
      BY <2>4 DEF ScanFinds, ScanCommits, TypeOK
    <2> QED BY <2>1, <2>2, <2>3, <2>4
  <1> QED BY <1>1, <1>2, <1>3, QuietStep

\* A step of something else keeps the invariant.
LEMMA StutterInv == ASSUME IndInv, UNCHANGED vars PROVE IndInv'
  BY DEF vars, IndInv, TypeOK, TimelineIsChain, ApprovedAsSeen, ApprovalStands,
         AssigneeIsNamed, OrderTellsAssessed, DecidesOnAssessed

\* So does every step of an order.
LEMMA StepInv == ASSUME IndInv, [Next]_vars PROVE IndInv'
  <1>1. ASSUME NEW r \in Reviewer, Load(r) \/ Lock(r) \/ Reject(r) \/ Approve(r) PROVE IndInv'
    BY <1>1, ReviewInv, ApproveInv
  <1>2. ASSUME NEW c \in Clerk, NEW target \in Statuses, NEW due \in BOOLEAN,
               Move(c, target, due)
        PROVE  IndInv'
    BY <1>2, MoveInv
  <1> QED BY <1>1, <1>2, OtherInv, StutterInv DEF Next

-------------------------------------------------------------------------------
(* The theorems. *)

\* The named parts hold in every reachable state.
THEOREM Invariance == Spec => []IndInv
  <1>1. Init => IndInv
    BY InitInv
  <1>2. IndInv /\ [Next]_vars => IndInv'
    BY StepInv
  <1> QED BY <1>1, <1>2, PTL DEF Spec

\* Types: every variable keeps to the values its column or session can hold.
THEOREM Typing == Spec => []TypeOK
  <1>1. IndInv => TypeOK
    BY DEF IndInv
  <1> QED BY <1>1, Invariance, PTL

\* The rows the timeline endpoint returns are the complete history of the
\* order, without a gap or a contradiction.
THEOREM TimelineAccounts == Spec => []TimelineIsChain
  <1>1. IndInv => TimelineIsChain
    BY DEF IndInv
  <1> QED BY <1>1, Invariance, PTL

\* No approval is about a draft that was sent back after its user looked.
THEOREM ApprovalsSawTheirDraft == Spec => []ApprovedAsSeen
  <1>1. IndInv => ApprovedAsSeen
    BY DEF IndInv
  <1> QED BY <1>1, Invariance, PTL

\* Work is dispatched, done and closed on a standing approval and by somebody.
THEOREM NoUnapprovedWork == Spec => []WorkWasApproved
  <1>1. IndInv => WorkWasApproved
    BY DEF IndInv, ApprovalStands, AssigneeIsNamed, WorkWasApproved
  <1> QED BY <1>1, Invariance, PTL

\* However edits of the event race with its review, the order is about the
\* version that was assessed.
THEOREM OrdersTellAssessed == Spec => []OrderTellsAssessed
  <1>1. IndInv => OrderTellsAssessed
    BY DEF IndInv
  <1> QED BY <1>1, Invariance, PTL

\* A second approval never replaces the order of the first.
THEOREM OrdersAreKept == Spec => OrderIsKept
  <1>1. ASSUME IndInv, [Next]_vars, order # NoOrder
        PROVE  order'.of = order.of /\ order'.version >= order.version
    <2>0. order.version \in Nat
      BY <1>1, Fields DEF IndInv
    <2>1. CASE UNCHANGED order
      BY <2>0, <2>1
    <2>2. ASSUME NEW c \in Clerk, NEW target \in Statuses, NEW due \in BOOLEAN,
                 Move(c, target, due)
          PROVE  order'.of = order.of /\ order'.version >= order.version
      <3>1. order \in [status : Statuses, version : 1 .. MaxMoves + 1, of : 1 .. MaxEdits + 1,
                       assigned : BOOLEAN, due : BOOLEAN]
        BY <1>1 DEF IndInv, TypeOK
      <3>2. order'.of = order.of /\ order'.version = order.version + 1
        BY <2>2, <3>1 DEF Move, Moved
      <3> QED BY <2>0, <3>2
    <2> QED BY <1>1, <2>1, <2>2
         DEF Next, vars, Edit, Supersede, Tick, Load, Lock, Reject, Approve, View,
             ScanFinds, ScanCommits
  <1> QED BY <1>1, Invariance, PTL DEF Spec, OrderIsKept

-------------------------------------------------------------------------------
(***************************************************************************)
(* At most one attempt of a classification is active, for any number of    *)
(* requests.  The lock of the event is held from the check to the answer,  *)
(* so what a request has found is true until it inserts its row.           *)
(***************************************************************************)

Written(j) == job[j].status # "absent"
Retries(q) == req[q].kind = "retry" /\ req[q].at \in InProgress

\* A row and the run that was stored with it.
RequestRowFits(j) ==
    /\ ~Written(j) => job[j] = NoRow
    /\ Committed(j) => job[j].run \in Request /\ run[job[j].run].job = j
    /\ job[j].writer # NoRequest =>
          LET q == job[j].writer IN
          /\ job[j].status = "queued" /\ job[j].run = q
          /\ req[q].at = "inserted" /\ req[q].row = j /\ job[j].parent = req[q].of
    /\ Committed(j) /\ job[j].parent # NoJob =>
          LET i == job[j].parent IN
          /\ Committed(i) /\ job[i].status \in {"failed", "cancelled"}
          /\ run[job[j].run].version = run[job[i].run].version

RequestFits(q) ==
    /\ req[q].at \in InProgress =>
          /\ req[q].kind # "none" /\ (req[q].kind = "classify" <=> req[q].of = NoJob)
    /\ req[q].at \in {"arriving"} \cup InProgress => run[q] = NoRun
    /\ req[q].at = "inserted" => req[q].row \in Job /\ job[req[q].row].writer = q
    /\ Retries(q) =>
          /\ Committed(req[q].of) /\ job[req[q].of].status \in {"failed", "cancelled"}
          /\ \A j \in Job : Committed(j) => job[j].parent # req[q].of
    /\ HoldsEvent(q) => ActiveJobs = {}
    /\ run[q].job # NoJob => Committed(run[q].job) /\ job[run[q].job].run = q

OneByOne ==
    /\ \A i, j \in Job : job[i].writer # NoRequest /\ job[j].writer # NoRequest => i = j
    /\ \A j \in Job : job[j].writer # NoRequest => ActiveJobs = {}
    /\ \A q, p \in Request : HoldsEvent(q) /\ HoldsEvent(p) => q = p
    /\ \A q, p \in Request : Retries(q) /\ Retries(p) /\ req[q].of = req[p].of => q = p

RequestsIndInv ==
    /\ RequestsTypeOK /\ OneAttemptAtATime /\ OneByOne
    /\ \A j \in Job : RequestRowFits(j)
    /\ \A q \in Request : RequestFits(q)

-------------------------------------------------------------------------------
\* What the provers need to know of the rows, field by field.
LEMMA RequestFields ==
    ASSUME RequestsTypeOK
    PROVE  /\ \A j \in Job :
                 /\ job[j].status \in Active \cup Terminal \cup {"absent"}
                 /\ job[j].parent \in Job \cup {NoJob} /\ job[j].run \in Request \cup {NoRequest}
                 /\ job[j].writer \in Request \cup {NoRequest}
           /\ \A q \in Request :
                 /\ req[q].at \in {"arriving"} \cup InProgress \cup Answers
                 /\ req[q].kind \in {"none", "classify", "retry"}
                 /\ req[q].of \in Job \cup {NoJob} /\ req[q].row \in Job \cup {NoJob}
                 /\ run[q].job \in Job \cup {NoJob} /\ run[q].version \in 0 .. MaxEventVersion
  BY DEF RequestsTypeOK

\* The invariant holds before the first request.
LEMMA RequestsInitInv == RequestsInit => RequestsIndInv
  <1> SUFFICES ASSUME RequestsInit PROVE RequestsIndInv
    OBVIOUS
  <1> USE NullsAreNotNames, AtLeastOneVersion DEF RequestsInit, NoRow, NoRun, Arriving
  <1>1. RequestsTypeOK
    BY DEF RequestsTypeOK, InProgress
  <1>2. \A j \in Job : ~Committed(j)
    BY DEF Committed
  <1>3. ActiveJobs = {}
    BY <1>2 DEF ActiveJobs
  <1>4. OneAttemptAtATime
    BY <1>2, <1>3 DEF OneAttemptAtATime
  <1>5. OneByOne
    BY <1>3 DEF OneByOne, HoldsEvent, Retries, InProgress
  <1>6. \A j \in Job : RequestRowFits(j)
    BY <1>2 DEF RequestRowFits, Written
  <1>7. \A q \in Request : RequestFits(q)
    BY <1>2, <1>3 DEF RequestFits, HoldsEvent, Retries, InProgress
  <1> QED BY <1>1, <1>4, <1>5, <1>6, <1>7 DEF RequestsIndInv

RequestRow == [at : {"arriving"} \cup InProgress \cup Answers, kind : {"none", "classify", "retry"},
               of : Job \cup {NoJob}, row : Job \cup {NoJob}]

\* A step of one request changes that request's place only.
LEMMA OneRequest ==
    ASSUME RequestsTypeOK, NEW q \in Request, NEW new \in RequestRow,
           req' = [req EXCEPT ![q] = new]
    PROVE  /\ req' \in [Request -> RequestRow] /\ req'[q] = new
           /\ \A p \in Request : p # q => req'[p] = req[p]
  BY DEF RequestsTypeOK, RequestRow

\* What a request does to its own place.
LEMMA GoesTo ==
    ASSUME RequestsTypeOK, NEW q \in Request, NEW place \in {"arriving"} \cup InProgress \cup Answers,
           Goes(q, place)
    PROVE  /\ req' \in [Request -> RequestRow]
           /\ req'[q].at = place /\ req'[q].kind = req[q].kind
           /\ req'[q].of = req[q].of /\ req'[q].row = req[q].row
           /\ \A p \in Request : p # q => req'[p] = req[p]
  <1> DEFINE new == [req[q] EXCEPT !.at = place]
  <1>1. req[q] \in RequestRow
    BY DEF RequestsTypeOK, RequestRow
  <1>2. /\ new \in RequestRow /\ new.at = place /\ new.kind = req[q].kind
        /\ new.of = req[q].of /\ new.row = req[q].row
    BY <1>1 DEF RequestRow
  <1>3. req' = [req EXCEPT ![q] = new]
    BY DEF Goes
  <1> QED
    <2> HIDE DEF new
    <2> QED BY <1>2, <1>3, OneRequest

\* A request that arrives has looked at the state and waits to lock the event.
LEMMA ArrivesAs ==
    ASSUME RequestsTypeOK, NEW q \in Request, NEW kind \in {"classify", "retry"},
           NEW of \in Job \cup {NoJob}, Arrives(q, kind, of)
    PROVE  /\ req' \in [Request -> RequestRow]
           /\ req'[q].at = "checked" /\ req'[q].kind = kind /\ req'[q].of = of
           /\ \A p \in Request : p # q => req'[p] = req[p]
  <1> DEFINE new == [req[q] EXCEPT !.at = "checked", !.kind = kind, !.of = of]
  <1>1. req[q] \in RequestRow
    BY DEF RequestsTypeOK, RequestRow
  <1>2. new \in RequestRow /\ new.at = "checked" /\ new.kind = kind /\ new.of = of
    BY <1>1 DEF RequestRow, InProgress
  <1>3. req' = [req EXCEPT ![q] = new]
    BY DEF Arrives
  <1> QED
    <2> HIDE DEF new
    <2> QED BY <1>2, <1>3, OneRequest

\* Nothing but one request's place changes, and it does not hold a new row.
LEMMA PlaceInv ==
    ASSUME RequestsIndInv, NEW q \in Request, req[q].at = "arriving",
           UNCHANGED <<inline, job, run>>, eventRow' = eventRow, keys' = keys,
           req' \in [Request -> RequestRow], \A p \in Request : p # q => req'[p] = req[p],
           req'[q].at \in Answers \cup {"checked"},
           req'[q].at = "checked" =>
              \/ /\ req'[q].kind = "classify" /\ req'[q].of = NoJob
                 /\ EventIsFree /\ ActiveJobs = {}
              \/ /\ req'[q].kind = "retry" /\ req'[q].of \in Job /\ Committed(req'[q].of)
                 /\ job[req'[q].of].status \in {"failed", "cancelled"}
                 /\ \A p \in Request : req[p].at \in InProgress => req[p].of # req'[q].of
                 /\ \A i \in Job : Committed(i) => job[i].parent # req'[q].of
    PROVE  RequestsIndInv'
  <1> USE NullsAreNotNames DEF RequestsIndInv
  <1>1. RequestsTypeOK'
    <2>1. ASSUME NEW p \in Request, req'[p].at \in InProgress, req'[p].kind = "retry"
          PROVE  job'[req'[p].of].status \in {"failed", "cancelled"}
      BY <2>1 DEF RequestsTypeOK, InProgress, Answers
    <2> QED BY <2>1 DEF RequestsTypeOK, RequestRow
  <1>2. ActiveJobs' = ActiveJobs
    BY DEF ActiveJobs, Committed
  <1>3. \A j : Committed(j)' <=> Committed(j)
    BY DEF Committed
  <1>4. OneAttemptAtATime'
    BY <1>2, <1>3 DEF OneAttemptAtATime
  <1>5. ASSUME NEW p \in Request, p # q
        PROVE  (HoldsEvent(p)' <=> HoldsEvent(p)) /\ (Retries(p)' <=> Retries(p))
    BY <1>5 DEF HoldsEvent, Retries
  <1>6. /\ HoldsEvent(q)' => EventIsFree /\ ActiveJobs = {}
        /\ Retries(q)' => \A p \in Request : Retries(p) => req[p].of # req'[q].of
    BY DEF HoldsEvent, Retries, InProgress, Answers
  <1>7. OneByOne'
    <2>1. ASSUME NEW p \in Request, NEW r \in Request, HoldsEvent(p)', HoldsEvent(r)'
          PROVE  p = r
      BY <1>5, <1>6, <2>1 DEF OneByOne, EventIsFree
    <2>2. ASSUME NEW p \in Request, NEW r \in Request, Retries(p)', Retries(r)', req'[p].of = req'[r].of
          PROVE  p = r
      BY <1>5, <1>6, <2>2 DEF OneByOne
    <2> QED BY <1>2, <2>1, <2>2 DEF OneByOne
  <1>8. \A j \in Job : RequestRowFits(j)'
    <2> TAKE j \in Job
    <2>1. RequestRowFits(j) /\ job[j].writer \in Request \cup {NoRequest}
      BY RequestFields
    <2>2. job[j].writer # NoRequest => job[j].writer # q
      BY <2>1 DEF RequestRowFits
    <2> QED BY <1>3, <2>1, <2>2 DEF RequestRowFits, Written
  <1>9. \A p \in Request : RequestFits(p)'
    <2> TAKE p \in Request
    <2>1. RequestFits(p) /\ run[p].job \in Job \cup {NoJob}
      BY RequestFields
    <2>2. CASE p = q
      <3>1. run[q] = NoRun /\ run'[q] = NoRun
        BY <2>1, <2>2 DEF RequestFits
      <3> QED BY <1>2, <1>3, <1>6, <2>2, <3>1
              DEF RequestFits, InProgress, Answers, Retries, NoRun
    <2>3. CASE p # q
      BY <1>2, <1>3, <1>5, <2>1, <2>3 DEF RequestFits
    <2> QED BY <2>2, <2>3
  <1> QED BY <1>1, <1>4, <1>7, <1>8, <1>9

\* A classify request that is answered at once, or begins.
LEMMA ClassifyInv ==
    ASSUME RequestsIndInv, NEW q \in Request, Classify(q)
    PROVE  RequestsIndInv'
  <1> /\ RequestsTypeOK /\ req[q].at = "arriving" /\ EventIsFree
      /\ UNCHANGED <<inline, eventRow, job, run, keys>>
    BY DEF Classify, RequestsIndInv
  <1>1. CASE Goes(q, "refused")
    BY <1>1, GoesTo, PlaceInv DEF Answers
  <1>2. CASE Goes(q, "reused")
    BY <1>2, GoesTo, PlaceInv DEF Answers
  <1>3. CASE ActiveJobs = {} /\ Arrives(q, "classify", NoJob)
    <2>1. /\ req' \in [Request -> RequestRow]
          /\ req'[q].at = "checked" /\ req'[q].kind = "classify" /\ req'[q].of = NoJob
          /\ \A p \in Request : p # q => req'[p] = req[p]
      BY <1>3, ArrivesAs
    <2> QED BY <1>3, <2>1, PlaceInv
  <1> QED BY <1>1, <1>2, <1>3 DEF Classify

\* A retry that is refused, or begins.
LEMMA RetryInv ==
    ASSUME RequestsIndInv, NEW q \in Request, NEW j \in Job, Retry(q, j)
    PROVE  RequestsIndInv'
  <1> /\ RequestsTypeOK /\ req[q].at = "arriving"
      /\ UNCHANGED <<inline, eventRow, job, run, keys>>
      /\ Committed(j) /\ \A p \in Request : req[p].at \in InProgress => req[p].of # j
    BY DEF Retry, RequestsIndInv
  <1>1. CASE Goes(q, "refused")
    BY <1>1, GoesTo, PlaceInv DEF Answers
  <1>2. CASE /\ job[j].status \in {"failed", "cancelled"}
             /\ \A i \in Job : Committed(i) => job[i].parent # j
             /\ Arrives(q, "retry", j)
    <2>1. /\ req' \in [Request -> RequestRow]
          /\ req'[q].at = "checked" /\ req'[q].kind = "retry" /\ req'[q].of = j
          /\ \A p \in Request : p # q => req'[p] = req[p]
      BY <1>2, ArrivesAs
    <2> QED BY <1>2, <2>1, PlaceInv
  <1> QED BY <1>1, <1>2 DEF Retry

-------------------------------------------------------------------------------
\* A new row: nobody else has one, and no attempt is active.
LEMMA InsertInv ==
    ASSUME RequestsIndInv, NEW q \in Request, NEW j \in Job, Insert(q, j)
    PROVE  RequestsIndInv'
  <1> USE NullsAreNotNames DEF RequestsIndInv
  <1> DEFINE row == [status |-> "queued", parent |-> req[q].of, run |-> q, writer |-> q]
             new == [req[q] EXCEPT !.at = "inserted", !.row = j]
  <1>1. /\ RequestsTypeOK /\ req[q].at = "checked"
        /\ \A i \in Job : job[i].writer = NoRequest
        /\ Entries = {} /\ job[j].status = "absent"
        /\ job' = [job EXCEPT ![j] = row] /\ req' = [req EXCEPT ![q] = new]
        /\ UNCHANGED <<inline, eventRow, run, keys>>
    BY DEF Insert
  <1>2. /\ new \in RequestRow /\ new.at = "inserted" /\ new.row = j
        /\ new.kind = req[q].kind /\ new.of = req[q].of
    <2>1. req[q] \in RequestRow
      BY <1>1 DEF RequestsTypeOK, RequestRow
    <2> QED BY <2>1 DEF RequestRow, InProgress
  <1>3. /\ row.status = "queued" /\ row.parent = req[q].of /\ row.run = q /\ row.writer = q
        /\ row \in [status : Active \cup Terminal \cup {"absent"}, parent : Job \cup {NoJob},
                    run : Request \cup {NoRequest}, writer : Request \cup {NoRequest}]
    <2>1. req[q].of \in Job \cup {NoJob}
      BY <1>1, RequestFields
    <2> QED BY <2>1 DEF Active
  <1> HIDE DEF row, new
  <1>4. /\ req' \in [Request -> RequestRow] /\ req'[q] = new
        /\ \A p \in Request : p # q => req'[p] = req[p]
    BY <1>1, <1>2, OneRequest
  <1>5. /\ job'[j] = row /\ \A i \in Job : i # j => job'[i] = job[i]
        /\ job' \in [Job -> [status : Active \cup Terminal \cup {"absent"},
                             parent : Job \cup {NoJob}, run : Request \cup {NoRequest},
                             writer : Request \cup {NoRequest}]]
    BY <1>1, <1>3 DEF RequestsTypeOK
  <1>6. /\ ~Committed(j) /\ ~Committed(j)'
        /\ \A i \in Job : Committed(i)' <=> Committed(i)
        /\ \A i \in Job : Committed(i) => i # j /\ job'[i] = job[i]
    BY <1>1, <1>3, <1>5 DEF Committed
  <1>7. ActiveJobs = {} /\ ActiveJobs' = {}
    BY <1>1, <1>5, <1>6 DEF ActiveJobs, Entries, Indexed
  <1>8. \A p \in Request : (HoldsEvent(p)' <=> HoldsEvent(p)) /\ (Retries(p)' <=> Retries(p))
    BY <1>1, <1>2, <1>4 DEF HoldsEvent, Retries, InProgress
  <1>9. \A p \in Request : req'[p].of = req[p].of /\ req'[p].kind = req[p].kind
    BY <1>2, <1>4
  <1>10. RequestsTypeOK'
    <2>1. ASSUME NEW p \in Request, req'[p].at \in InProgress, req'[p].kind = "retry"
          PROVE  job'[req'[p].of].status \in {"failed", "cancelled"}
      <3>1. Retries(p) /\ RequestFits(p) /\ req[p].of \in Job \cup {NoJob}
        BY <1>1, <1>8, <2>1, RequestFields DEF Retries
      <3>2. Committed(req[p].of) /\ job[req[p].of].status \in {"failed", "cancelled"}
        BY <3>1 DEF RequestFits
      <3>3. req[p].of \in Job
        BY <3>1, <2>1, <1>9 DEF RequestFits, Retries
      <3> QED BY <1>6, <1>9, <3>2, <3>3
    <2> QED BY <1>1, <1>4, <1>5, <2>1 DEF RequestsTypeOK, RequestRow
  <1>11. OneAttemptAtATime'
    <2>1. ASSUME NEW i \in Job, Committed(i)', job'[i].parent # NoJob
          PROVE  /\ run'[job'[i].run].version = run'[job'[job'[i].parent].run].version
      <3>1. RequestRowFits(i) /\ job[i].parent \in Job \cup {NoJob}
        BY <1>1, RequestFields
      <3>2. Committed(i) /\ job'[i] = job[i]
        BY <1>6, <2>1
      <3>3. job[i].parent \in Job /\ Committed(job[i].parent)
        BY <2>1, <3>1, <3>2 DEF RequestRowFits
      <3> QED BY <1>1, <1>6, <2>1, <3>1, <3>2, <3>3 DEF RequestRowFits
    <2> QED BY <1>6, <1>7, <2>1 DEF OneAttemptAtATime
  <1>12. OneByOne'
    BY <1>1, <1>3, <1>5, <1>7, <1>8, <1>9 DEF OneByOne
  <1>13. \A i \in Job : RequestRowFits(i)'
    <2> TAKE i \in Job
    <2>1. CASE i = j
      <3> QED BY <1>2, <1>3, <1>4, <1>5, <1>6, <2>1 DEF RequestRowFits, Written
    <2>2. CASE i # j
      <3>1. /\ RequestRowFits(i) /\ job[i].parent \in Job \cup {NoJob}
            /\ job[i].writer = NoRequest /\ job'[i] = job[i]
        BY <1>1, <1>5, <2>2, RequestFields
      <3>2. Committed(i)' <=> Committed(i)
        BY <1>6
      <3>3. ASSUME Committed(i), job[i].parent # NoJob
            PROVE  job[i].parent \in Job /\ Committed(job[i].parent)
        BY <3>1, <3>3 DEF RequestRowFits
      <3>4. ASSUME Committed(i)', job'[i].parent # NoJob
              PROVE  (LET k == job[i].parent IN
                     /\ Committed(k) /\ job[k].status \in {"failed", "cancelled"}
                     /\ run[job[i].run].version = run[job[k].run].version)'
        <4>1. PICK k \in Job : k = job[i].parent /\ Committed(k)
          BY <3>1, <3>2, <3>3, <3>4
        <4>2. Committed(k)' /\ job'[k] = job[k]
          BY <1>6, <4>1
        <4> QED BY <1>1, <3>1, <3>2, <3>4, <4>1, <4>2 DEF RequestRowFits, Committed
      <3> QED BY <1>1, <3>1, <3>2, <3>4 DEF RequestRowFits, Written
    <2> QED BY <2>1, <2>2
  <1>14. \A p \in Request : RequestFits(p)'
    <2> TAKE p \in Request
    <2>1. /\ RequestFits(p) /\ run[p].job \in Job \cup {NoJob}
          /\ req[p].of \in Job \cup {NoJob} /\ req[p].row \in Job \cup {NoJob}
      BY <1>1, RequestFields
    <2>2. /\ req'[p].at \in InProgress <=> req[p].at \in InProgress
          /\ req'[p].at = "arriving" <=> req[p].at = "arriving"
      BY <1>1, <1>2, <1>4 DEF InProgress
    <2>3. req'[p].at = "inserted" => req'[p].row \in Job /\ job'[req'[p].row].writer = p
      BY <1>1, <1>2, <1>3, <1>4, <1>5, <2>1 DEF RequestFits
    <2>4. ASSUME Retries(p)'
          PROVE  /\ Committed(req[p].of)' /\ job'[req'[p].of].status \in {"failed", "cancelled"}
                 /\ \A i \in Job : Committed(i)' => job'[i].parent # req'[p].of
      <3>1. /\ Committed(req[p].of) /\ job[req[p].of].status \in {"failed", "cancelled"}
            /\ \A i \in Job : Committed(i) => job[i].parent # req[p].of
        BY <1>8, <2>1, <2>4 DEF RequestFits
      <3>2. req[p].of \in Job
        BY <1>8, <2>1, <2>4 DEF RequestFits, Retries
      <3>3. PICK i \in Job : i = req[p].of
        BY <3>2
      <3>4. Committed(i)' /\ job'[i] = job[i]
        BY <1>6, <3>1, <3>3
      <3>5. req'[p].of = i
        BY <1>9, <3>3
      <3> QED BY <1>6, <3>1, <3>3, <3>4, <3>5 DEF Committed
    <2>5. ASSUME run'[p].job # NoJob
          PROVE  (Committed(run[p].job) /\ job[run[p].job].run = p)'
      <3>1. PICK i \in Job : i = run[p].job /\ Committed(i) /\ job[i].run = p
        BY <1>1, <2>1, <2>5 DEF RequestFits
      <3>2. Committed(i)' /\ job'[i] = job[i]
        BY <1>6, <3>1
      <3> QED BY <1>1, <3>1, <3>2 DEF Committed
    <2> QED BY <1>1, <1>7, <1>9, <2>1, <2>2, <2>3, <2>4, <2>5 DEF RequestFits
  <1> QED BY <1>10, <1>11, <1>12, <1>13, <1>14

-------------------------------------------------------------------------------
\* What is committed stays as it is when no run changes and each row is kept or, if it
\* is nobody's, given another status that keeps what has ended.
LEMMA CommittedFits ==
    ASSUME RequestsIndInv, run' = run,
           \A i \in Job : Committed(i) =>
              /\ Committed(i)' /\ job'[i].parent = job[i].parent /\ job'[i].run = job[i].run
              /\ job[i].status \in Terminal => job'[i].status = job[i].status,
           NEW j \in Job, Committed(j)
    PROVE  /\ (job[j].run \in Request /\ run[job[j].run].job = j)'
           /\ (job[j].parent # NoJob =>
                 LET i == job[j].parent IN
                 /\ Committed(i) /\ job[i].status \in {"failed", "cancelled"}
                 /\ run[job[j].run].version = run[job[i].run].version)'
  <1> USE NullsAreNotNames DEF RequestsIndInv
  <1>1. /\ RequestRowFits(j) /\ job[j].parent \in Job \cup {NoJob}
        /\ job'[j].parent = job[j].parent /\ job'[j].run = job[j].run
    BY RequestFields
  <1>2. ASSUME job[j].parent # NoJob
        PROVE  (LET i == job[j].parent IN
                /\ Committed(i) /\ job[i].status \in {"failed", "cancelled"}
                /\ run[job[j].run].version = run[job[i].run].version)'
    <2>1. PICK i \in Job : /\ i = job[j].parent /\ Committed(i)
                           /\ job[i].status \in {"failed", "cancelled"}
                           /\ run[job[j].run].version = run[job[i].run].version
      BY <1>1, <1>2 DEF RequestRowFits
    <2>2. Committed(i)' /\ job'[i].run = job[i].run /\ job'[i].status = job[i].status
      BY <2>1 DEF Terminal
    <2> QED BY <1>1, <2>1, <2>2 DEF Committed
  <1> QED BY <1>1, <1>2 DEF RequestRowFits

\* A transaction ends without a trace.
LEMMA RollsBackInv ==
    ASSUME RequestsIndInv, NEW q \in Request, NEW answer \in Answers, RollsBack(q, answer),
           req[q].at \in InProgress
    PROVE  RequestsIndInv'
  <1> USE NullsAreNotNames DEF RequestsIndInv
  <1>1. /\ RequestsTypeOK
        /\ job' = [j \in Job |-> IF job[j].writer = q THEN NoRow ELSE job[j]]
        /\ UNCHANGED <<inline, eventRow, run, keys>>
    BY DEF RollsBack
  <1>2. /\ req' \in [Request -> RequestRow] /\ req'[q].at = answer /\ answer \notin InProgress
        /\ \A p \in Request : p # q => req'[p] = req[p]
    BY <1>1, GoesTo DEF RollsBack, Answers, InProgress
  <1>3. /\ \A j \in Job : job[j].writer = q => job'[j] = NoRow
        /\ \A j \in Job : job[j].writer # q => job'[j] = job[j]
    BY <1>1
  <1>4. \A j \in Job : /\ Committed(j) => job'[j] = job[j]
                       /\ Committed(j)' <=> Committed(j)
    <2> TAKE j \in Job
    <2>1. CASE job[j].writer = q
      BY <1>3, <2>1 DEF Committed, NoRow
    <2>2. CASE job[j].writer # q
      BY <1>3, <2>2 DEF Committed
    <2> QED BY <2>1, <2>2
  <1>5. ActiveJobs' = ActiveJobs
    BY <1>4 DEF ActiveJobs
  <1>6. \A p \in Request : (HoldsEvent(p)' => HoldsEvent(p) /\ p # q) /\ (Retries(p)' => Retries(p) /\ p # q)
    BY <1>2 DEF HoldsEvent, Retries
  <1>7. RequestsTypeOK'
    <2>1. ASSUME NEW p \in Request, req'[p].at \in InProgress, req'[p].kind = "retry"
          PROVE  job'[req'[p].of].status \in {"failed", "cancelled"}
      <3>1. Retries(p) /\ p # q /\ req'[p] = req[p] /\ RequestFits(p) /\ req[p].of \in Job \cup {NoJob}
        BY <1>1, <1>2, <1>6, <2>1, RequestFields DEF Retries
      <3>2. PICK i \in Job : i = req[p].of /\ Committed(i) /\ job[i].status \in {"failed", "cancelled"}
        BY <3>1 DEF RequestFits, Retries
      <3> QED BY <1>4, <3>1, <3>2
    <2>2. job' \in [Job -> [status : Active \cup Terminal \cup {"absent"},
                            parent : Job \cup {NoJob}, run : Request \cup {NoRequest},
                            writer : Request \cup {NoRequest}]]
      <3>1. NoRow \in [status : Active \cup Terminal \cup {"absent"},
                       parent : Job \cup {NoJob}, run : Request \cup {NoRequest},
                       writer : Request \cup {NoRequest}]
        BY DEF NoRow
      <3> HIDE DEF NoRow
      <3> QED BY <1>1, <3>1 DEF RequestsTypeOK
    <2> QED BY <1>1, <1>2, <2>1, <2>2 DEF RequestsTypeOK, RequestRow
  <1>8. OneAttemptAtATime'
    <2>1. ASSUME NEW j \in Job, Committed(j)', job'[j].parent # NoJob
          PROVE  run'[job'[j].run].version = run'[job'[job'[j].parent].run].version
      BY <1>1, <1>4, <2>1, CommittedFits
    <2> QED BY <1>4, <1>5, <2>1 DEF OneAttemptAtATime
  <1>9. OneByOne'
    <2>1. \A j \in Job : job'[j].writer # NoRequest => job'[j] = job[j]
      BY <1>3 DEF NoRow
    <2> QED BY <1>2, <1>5, <1>6, <2>1 DEF OneByOne
  <1>10. \A j \in Job : RequestRowFits(j)'
    <2> TAKE j \in Job
    <2>1. RequestRowFits(j) /\ job[j].writer \in Request \cup {NoRequest}
      BY <1>1, RequestFields
    <2>2. CASE job[j].writer = q
      BY <1>3, <1>4, <2>2 DEF RequestRowFits, Written, NoRow, Committed
    <2>3. CASE Committed(j)
      <3>1. job'[j] = job[j] /\ job[j].writer = NoRequest
        BY <1>4, <2>3 DEF Committed
      <3> QED BY <1>1, <1>4, <2>1, <2>3, <3>1, CommittedFits DEF RequestRowFits, Written
    <2>4. CASE job[j].writer # q /\ ~Committed(j)
      BY <1>2, <1>3, <1>4, <2>1, <2>4 DEF RequestRowFits, Written
    <2> QED BY <2>2, <2>3, <2>4
  <1>11. \A p \in Request : RequestFits(p)'
    <2> TAKE p \in Request
    <2>1. /\ RequestFits(p) /\ run[p].job \in Job \cup {NoJob}
          /\ req[p].of \in Job \cup {NoJob} /\ req[p].row \in Job \cup {NoJob}
      BY <1>1, RequestFields
    <2>2. ASSUME run'[p].job # NoJob
          PROVE  (Committed(run[p].job) /\ job[run[p].job].run = p)'
      <3>1. PICK i \in Job : i = run[p].job /\ Committed(i) /\ job[i].run = p
        BY <1>1, <2>1, <2>2 DEF RequestFits
      <3>2. Committed(i)' /\ job'[i] = job[i]
        BY <1>4, <3>1
      <3> QED BY <1>1, <3>1, <3>2 DEF Committed
    <2>3. CASE p = q
      BY <1>2, <1>6, <2>2, <2>3 DEF RequestFits, InProgress, Answers
    <2>4. CASE p # q
      <3>1. req'[p] = req[p]
        BY <1>2, <2>4
      <3>2. ASSUME Retries(p)'
            PROVE  /\ Committed(req[p].of)' /\ job'[req'[p].of].status \in {"failed", "cancelled"}
                   /\ \A i \in Job : Committed(i)' => job'[i].parent # req'[p].of
        <4>1. PICK i \in Job : /\ i = req[p].of /\ Committed(i)
                               /\ job[i].status \in {"failed", "cancelled"}
                               /\ \A k \in Job : Committed(k) => job[k].parent # i
          BY <1>6, <2>1, <3>2 DEF RequestFits, Retries
        <4> QED BY <1>4, <3>1, <4>1 DEF Committed
      <3>3. req'[p].at = "inserted" => req'[p].row \in Job /\ job'[req'[p].row].writer = p
        BY <1>3, <2>1, <2>4, <3>1 DEF RequestFits
      <3> QED BY <1>1, <1>5, <1>6, <2>1, <2>2, <3>1, <3>2, <3>3 DEF RequestFits
    <2> QED BY <2>3, <2>4
  <1> QED BY <1>7, <1>8, <1>9, <1>10, <1>11

\* The insert loses to an active job: that happens to retries only, as nobody commits an
\* attempt while a classify request holds the event.
LEMMA InsertLosesInv ==
    ASSUME RequestsIndInv, NEW q \in Request, InsertLoses(q)
    PROVE  RequestsIndInv'
  <1>1. req[q].at = "checked" /\ ActiveJobs # {}
    BY DEF InsertLoses
  <1>2. RequestsTypeOK /\ RequestFits(q)
    BY DEF RequestsIndInv
  <1>3. req[q].kind = "retry"
    BY <1>1, <1>2, RequestFields DEF RequestFits, HoldsEvent, InProgress
  <1> QED BY <1>1, <1>3, RollsBackInv DEF InsertLoses, Answers, InProgress

\* A deadlock that is resolved.
LEMMA DeadlockedInv ==
    ASSUME RequestsIndInv, NEW q \in Request, Deadlocked(q)
    PROVE  RequestsIndInv'
  <1>1. req[q].at \in InProgress
    BY DEF Deadlocked, WaitsFor, InProgress
  <1> QED BY <1>1, RollsBackInv DEF Deadlocked, Answers

-------------------------------------------------------------------------------
\* The row, its run and its message become visible together.  Nobody else holds the event,
\* and a retry has compared the versions.
LEMMA CommitsInv ==
    ASSUME RequestsIndInv, NEW q \in Request, req[q].at = "inserted", Commits(q),
           \A p \in Request : HoldsEvent(p) => p = q,
           req[q].kind = "retry" => eventRow.version = run[job[req[q].of].run].version
    PROVE  RequestsIndInv'
  <1> USE NullsAreNotNames DEF RequestsIndInv
  <1> DEFINE j == req[q].row
             new == [job[j] EXCEPT !.writer = NoRequest]
             stored == [job |-> j, version |-> eventRow.version]
  <1>1. CASE KeyOf(q) \cap keys # {}
    BY <1>1, RollsBackInv DEF Commits, Answers, InProgress
  <1>2. CASE KeyOf(q) \cap keys = {}
    <2>1. /\ RequestsTypeOK /\ keys' = keys \cup KeyOf(q)
          /\ job' = [job EXCEPT ![j] = new] /\ run' = [run EXCEPT ![q] = stored]
          /\ Goes(q, "accepted") /\ UNCHANGED <<inline, eventRow>>
      BY <1>2 DEF Commits
    <2>2. /\ req' \in [Request -> RequestRow] /\ req'[q].at = "accepted"
          /\ \A p \in Request : p # q => req'[p] = req[p]
      BY <2>1, GoesTo DEF Answers
    <2>3. /\ j \in Job /\ job[j].writer = q /\ job[j].status = "queued" /\ job[j].run = q
          /\ job[j].parent = req[q].of /\ run[q] = NoRun
      <3>1. RequestFits(q)
        OBVIOUS
      <3>2. j \in Job /\ job[j].writer = q
        BY <3>1 DEF RequestFits
      <3>3. RequestRowFits(j)
        BY <3>2
      <3> QED BY <3>1, <3>2, <3>3 DEF RequestFits, RequestRowFits, InProgress
    <2>4. /\ new.writer = NoRequest /\ new.status = "queued" /\ new.run = q
          /\ new.parent = req[q].of
          /\ new \in [status : Active \cup Terminal \cup {"absent"}, parent : Job \cup {NoJob},
                      run : Request \cup {NoRequest}, writer : Request \cup {NoRequest}]
      BY <2>1, <2>3 DEF RequestsTypeOK
    <2>5. /\ stored \in [job : Job \cup {NoJob}, version : 0 .. MaxEventVersion]
          /\ stored.job = j /\ stored.version = eventRow.version
      <3>1. eventRow.version \in 1 .. MaxEventVersion /\ MaxEventVersion \in Nat
        BY <2>1, AtLeastOneVersion DEF RequestsTypeOK
      <3> QED BY <2>3, <3>1
    <2> HIDE DEF new, stored
    <2>6. /\ job'[j] = new /\ \A i \in Job : i # j => job'[i] = job[i]
          /\ job' \in [Job -> [status : Active \cup Terminal \cup {"absent"},
                               parent : Job \cup {NoJob}, run : Request \cup {NoRequest},
                               writer : Request \cup {NoRequest}]]
      BY <2>1, <2>3, <2>4 DEF RequestsTypeOK
    <2>7. /\ run'[q] = stored /\ \A p \in Request : p # q => run'[p] = run[p]
          /\ run' \in [Request -> [job : Job \cup {NoJob}, version : 0 .. MaxEventVersion]]
      BY <2>1, <2>5 DEF RequestsTypeOK
    <2>8. PICK r \in Job : r = j
      BY <2>3
    <2> HIDE DEF j
    <2>9. /\ \A i \in Job : Committed(i)' <=> Committed(i) \/ i = r
          /\ \A i \in Job : Committed(i) => i # r /\ job'[i] = job[i]
          /\ Committed(r)'
      BY <2>3, <2>4, <2>6, <2>8 DEF Committed
    <2>10. \A i \in Job : job'[i].writer = NoRequest
      BY <2>1, <2>3, <2>4, <2>6, <2>8, RequestFields DEF OneByOne
    <2>11. ActiveJobs = {} /\ ActiveJobs' = {r}
      <3>1. ActiveJobs = {}
        BY <2>3 DEF OneByOne
      <3>2. \A i \in Job : i \in ActiveJobs' <=> i = r
        BY <2>4, <2>6, <2>8, <2>9, <3>1 DEF ActiveJobs, Active
      <3> QED BY <2>8, <3>1, <3>2 DEF ActiveJobs
    <2>12. /\ \A p \in Request : ~HoldsEvent(p)'
           /\ \A p \in Request : Retries(p)' => Retries(p) /\ p # q
      BY <2>2 DEF HoldsEvent, Retries, InProgress
    <2>13. /\ req[q].of = NoJob \/ Retries(q)
           /\ Retries(q) => /\ req[q].of \in Job /\ Committed(req[q].of)
                            /\ job[req[q].of].status \in {"failed", "cancelled"}
                            /\ \A i \in Job : Committed(i) => job[i].parent # req[q].of
      <3>1. RequestFits(q) /\ req[q].kind \in {"none", "classify", "retry"} /\ req[q].of \in Job \cup {NoJob}
        BY <2>1, RequestFields
      <3> QED BY <3>1 DEF RequestFits, InProgress, Retries
    \* The runs of what was committed before are not this one.
    <2>14. \A i \in Job : Committed(i) => job[i].run \in Request \ {q} /\ run'[job[i].run] = run[job[i].run]
      <3> TAKE i \in Job
      <3> HAVE Committed(i)
      <3>1. job[i].run \in Request /\ run[job[i].run].job = i
        BY DEF RequestRowFits
      <3>2. job[i].run # q
        BY <2>3, <3>1 DEF NoRun
      <3> QED BY <2>7, <3>1, <3>2
    <2>15. RequestsTypeOK'
      <3>1. ASSUME NEW p \in Request, req'[p].at \in InProgress, req'[p].kind = "retry"
            PROVE  job'[req'[p].of].status \in {"failed", "cancelled"}
        <4>1. Retries(p) /\ p # q /\ req'[p] = req[p] /\ RequestFits(p) /\ req[p].of \in Job \cup {NoJob}
          BY <2>1, <2>2, <2>12, <3>1, RequestFields DEF Retries
        <4>2. PICK i \in Job : i = req[p].of /\ Committed(i) /\ job[i].status \in {"failed", "cancelled"}
          BY <4>1 DEF RequestFits, Retries
        <4> QED BY <2>9, <4>1, <4>2
      <3>2. keys' \subseteq Job \cup {NoJob}
        BY <2>1, <2>13 DEF RequestsTypeOK, KeyOf
      <3> QED BY <2>1, <2>2, <2>6, <2>7, <3>1, <3>2 DEF RequestsTypeOK, RequestRow
    <2>16. \A i \in Job : RequestRowFits(i)'
      <3> TAKE i \in Job
      <3>1. RequestRowFits(i) /\ job[i].parent \in Job \cup {NoJob}
        BY <2>1, RequestFields
      <3>2. CASE i = r
        <4>1. job'[r] = new /\ job'[r].run = q /\ run'[q] = stored /\ stored.job = r
          BY <2>4, <2>5, <2>6, <2>7, <2>8
        <4>2. ASSUME job'[r].parent # NoJob
              PROVE  (LET k == job[r].parent IN
                      /\ Committed(k) /\ job[k].status \in {"failed", "cancelled"}
                      /\ run[job[r].run].version = run[job[k].run].version)'
          <5>1. PICK k \in Job : /\ k = req[q].of /\ Committed(k) /\ Retries(q)
                                 /\ job[k].status \in {"failed", "cancelled"}
            BY <2>4, <2>13, <4>1, <4>2
          <5>2. eventRow.version = run[job[k].run].version
            BY <5>1 DEF Retries
          <5>3. Committed(k)' /\ job'[k] = job[k] /\ run'[job[k].run] = run[job[k].run]
            BY <2>9, <2>14, <5>1
          <5> QED BY <2>4, <2>5, <4>1, <5>1, <5>2, <5>3 DEF Committed
        <4> QED BY <2>4, <2>9, <3>2, <4>1, <4>2 DEF RequestRowFits, Written
      <3>3. CASE i # r /\ Committed(i)
        <4>1. job'[i] = job[i] /\ run'[job[i].run] = run[job[i].run] /\ job[i].writer = NoRequest
          BY <2>9, <2>14, <3>3 DEF Committed
        <4>2. ASSUME job'[i].parent # NoJob
              PROVE  (LET k == job[i].parent IN
                      /\ Committed(k) /\ job[k].status \in {"failed", "cancelled"}
                      /\ run[job[i].run].version = run[job[k].run].version)'
          <5>1. PICK k \in Job : /\ k = job[i].parent /\ Committed(k)
                                 /\ job[k].status \in {"failed", "cancelled"}
                                 /\ run[job[i].run].version = run[job[k].run].version
            BY <3>1, <3>3, <4>1, <4>2 DEF RequestRowFits
          <5>2. Committed(k)' /\ job'[k] = job[k] /\ run'[job[k].run] = run[job[k].run]
            BY <2>9, <2>14, <5>1
          <5> QED BY <4>1, <5>1, <5>2 DEF Committed
        <4> QED BY <3>1, <3>3, <4>1, <4>2 DEF RequestRowFits, Written, Committed
      <3>4. CASE i # r /\ ~Committed(i)
        <4>1. job'[i] = job[i] /\ job'[i].writer = NoRequest /\ ~Committed(i)'
          BY <2>6, <2>8, <2>9, <2>10, <3>4
        <4> QED BY <3>1, <4>1 DEF RequestRowFits, Written
      <3> QED BY <3>2, <3>3, <3>4
    <2>17. OneAttemptAtATime'
      <3>1. ASSUME NEW i \in Job, NEW k \in Job, Committed(i)', Committed(k)', i # k,
                   job'[i].parent # NoJob
            PROVE  job'[i].parent # job'[k].parent
        <4>1. CASE i = r
          BY <2>4, <2>6, <2>8, <2>9, <2>13, <3>1, <4>1
        <4>2. CASE k = r
          BY <2>4, <2>6, <2>8, <2>9, <2>13, <3>1, <4>2
        <4>3. CASE i # r /\ k # r
          BY <2>9, <3>1, <4>3 DEF OneAttemptAtATime
        <4> QED BY <4>1, <4>2, <4>3
      <3>2. ASSUME NEW i \in Job, Committed(i)', job'[i].parent # NoJob
            PROVE  run'[job'[i].run].version = run'[job'[job'[i].parent].run].version
        BY <2>16, <3>2 DEF RequestRowFits
      <3> QED BY <2>11, <3>1, <3>2 DEF OneAttemptAtATime
    <2>18. OneByOne'
      <3>1. ASSUME NEW p \in Request, NEW s \in Request, Retries(p)', Retries(s)', req'[p].of = req'[s].of
            PROVE  p = s
        BY <2>2, <2>12, <3>1 DEF OneByOne
      <3> QED BY <2>10, <2>12, <3>1 DEF OneByOne
    <2>19. \A p \in Request : RequestFits(p)'
      <3> TAKE p \in Request
      <3>1. CASE p = q
        <4>1. run'[q].job = r /\ job'[r].run = q /\ req'[q].at = "accepted"
          BY <2>2, <2>4, <2>5, <2>6, <2>7, <2>8
        <4> QED BY <2>9, <2>12, <3>1, <4>1 DEF RequestFits, InProgress, Committed
      <3>2. CASE p # q
        <4>1. /\ RequestFits(p) /\ run[p].job \in Job \cup {NoJob} /\ req'[p] = req[p]
              /\ req[p].of \in Job \cup {NoJob} /\ run'[p] = run[p]
          BY <2>1, <2>2, <2>7, <3>2, RequestFields
        <4>2. ASSUME run'[p].job # NoJob
              PROVE  (Committed(run[p].job) /\ job[run[p].job].run = p)'
          <5>1. PICK i \in Job : i = run[p].job /\ Committed(i) /\ job[i].run = p
            BY <4>1, <4>2 DEF RequestFits
          <5>2. Committed(i)' /\ job'[i] = job[i]
            BY <2>9, <5>1
          <5> QED BY <4>1, <5>1, <5>2 DEF Committed
        <4>3. req[p].at # "inserted"
          <5>1. req[p].at = "inserted" => req[p].row \in Job /\ job[req[p].row].writer = p
            BY <4>1 DEF RequestFits
          <5> QED BY <2>3, <2>8, <3>2, <5>1 DEF OneByOne
        <4>4. ASSUME Retries(p)'
              PROVE  /\ Committed(req[p].of)' /\ job'[req'[p].of].status \in {"failed", "cancelled"}
                     /\ \A i \in Job : Committed(i)' => job'[i].parent # req'[p].of
          <5>1. PICK i \in Job : /\ i = req[p].of /\ Committed(i)
                                 /\ job[i].status \in {"failed", "cancelled"}
                                 /\ \A k \in Job : Committed(k) => job[k].parent # i
            BY <2>12, <4>1, <4>4 DEF RequestFits, Retries
          <5>2. job'[r].parent # i
            <6>1. job'[r].parent = req[q].of
              BY <2>4, <2>6, <2>8
            <6>2. Retries(q) => req[q].of # req[p].of
              BY <2>12, <3>2, <4>4 DEF OneByOne
            <6> QED BY <2>13, <5>1, <6>1, <6>2
          <5>3. \A k \in Job : Committed(k)' => job'[k].parent # i
            BY <2>9, <5>1, <5>2
          <5> QED BY <2>9, <4>1, <5>1, <5>3 DEF Committed
        <4> QED BY <2>12, <4>1, <4>2, <4>3, <4>4 DEF RequestFits
      <3> QED BY <3>1, <3>2
    <2> QED BY <2>15, <2>16, <2>17, <2>18, <2>19
  <1> QED BY <1>1, <1>2

\* A first attempt's commit: the request holds the event.
LEMMA CommitClassifyInv ==
    ASSUME RequestsIndInv, NEW q \in Request, CommitClassify(q)
    PROVE  RequestsIndInv'
  <1>1. req[q].at = "inserted" /\ req[q].kind = "classify" /\ Commits(q) /\ HoldsEvent(q)
    BY DEF CommitClassify, HoldsEvent, InProgress
  <1>2. \A p \in Request : HoldsEvent(p) => p = q
    BY <1>1 DEF RequestsIndInv, OneByOne
  <1> QED BY <1>1, <1>2, CommitsInv

\* A retry's commit, or its refusal.
LEMMA BindInv ==
    ASSUME RequestsIndInv, NEW q \in Request, Bind(q)
    PROVE  RequestsIndInv'
  <1>1. req[q].at = "inserted" /\ EventIsFree
    BY DEF Bind
  <1>2. CASE RollsBack(q, "refused")
    BY <1>1, <1>2, RollsBackInv DEF Answers, InProgress
  <1>3. CASE eventRow.version = run[job[req[q].of].run].version /\ Commits(q)
    BY <1>1, <1>3, CommitsInv DEF EventIsFree
  <1> QED BY <1>2, <1>3 DEF Bind

-------------------------------------------------------------------------------
\* An attempt goes on or ends; the others have ended.
LEMMA WorkInv ==
    ASSUME RequestsIndInv, NEW j \in Job, NEW status \in Active \cup Terminal, Work(j, status)
    PROVE  RequestsIndInv'
  <1> USE NullsAreNotNames DEF RequestsIndInv
  <1> DEFINE new == [job[j] EXCEPT !.status = status]
  <1>1. /\ RequestsTypeOK /\ Committed(j) /\ job[j].status \in Active
        /\ job' = [job EXCEPT ![j] = new] /\ UNCHANGED <<inline, eventRow, run, keys, req>>
    BY DEF Work
  <1>2. /\ new.status = status /\ new.parent = job[j].parent /\ new.run = job[j].run
        /\ new.writer = job[j].writer
        /\ new \in [status : Active \cup Terminal \cup {"absent"}, parent : Job \cup {NoJob},
                    run : Request \cup {NoRequest}, writer : Request \cup {NoRequest}]
    BY <1>1 DEF RequestsTypeOK
  <1> HIDE DEF new
  <1>3. /\ job'[j] = new /\ \A i \in Job : i # j => job'[i] = job[i]
        /\ job' \in [Job -> [status : Active \cup Terminal \cup {"absent"},
                             parent : Job \cup {NoJob}, run : Request \cup {NoRequest},
                             writer : Request \cup {NoRequest}]]
    BY <1>1, <1>2 DEF RequestsTypeOK
  <1>4. \A i \in Job : /\ Committed(i)' <=> Committed(i)
                       /\ job'[i].parent = job[i].parent /\ job'[i].run = job[i].run
                       /\ job'[i].writer = job[i].writer
                       /\ job[i].status \in Terminal => job'[i] = job[i]
                       /\ Committed(i) \/ job'[i] = job[i]
    BY <1>1, <1>2, <1>3 DEF Committed, Active, Terminal
  <1>5. ActiveJobs' \subseteq ActiveJobs
    BY <1>1, <1>3, <1>4 DEF ActiveJobs
  <1>6. RequestsTypeOK'
    <2>1. ASSUME NEW p \in Request, req'[p].at \in InProgress, req'[p].kind = "retry"
          PROVE  job'[req'[p].of].status \in {"failed", "cancelled"}
      <3>1. Retries(p) /\ req'[p] = req[p] /\ RequestFits(p) /\ req[p].of \in Job \cup {NoJob}
        BY <1>1, <2>1, RequestFields DEF Retries
      <3>2. PICK i \in Job : i = req[p].of /\ Committed(i) /\ job[i].status \in {"failed", "cancelled"}
        BY <3>1 DEF RequestFits, Retries
      <3> QED BY <1>4, <3>1, <3>2 DEF Terminal
    <2> QED BY <1>1, <1>3, <2>1 DEF RequestsTypeOK
  <1>7. OneByOne'
    BY <1>1, <1>4, <1>5 DEF OneByOne, HoldsEvent, Retries
  <1>8. ASSUME NEW i \in Job, Committed(i)
        PROVE  /\ (job[i].run \in Request /\ run[job[i].run].job = i)'
               /\ (job[i].parent # NoJob =>
                     LET k == job[i].parent IN
                     /\ Committed(k) /\ job[k].status \in {"failed", "cancelled"}
                     /\ run[job[i].run].version = run[job[k].run].version)'
    BY <1>1, <1>4, <1>8, CommittedFits
  <1>9. \A i \in Job : RequestRowFits(i)'
    <2> TAKE i \in Job
    <2>1. RequestRowFits(i)
      OBVIOUS
    <2>2. CASE Committed(i)
      <3>1. job'[i].writer = NoRequest /\ job'[i].status # "absent"
        BY <1>4, <2>2 DEF Committed
      <3> QED BY <1>8, <2>2, <3>1 DEF RequestRowFits, Written
    <2>3. CASE ~Committed(i)
      BY <1>1, <1>4, <2>1, <2>3 DEF RequestRowFits, Written
    <2> QED BY <2>2, <2>3
  <1>10. OneAttemptAtATime'
    <2>1. ASSUME NEW i \in Job, Committed(i)', job'[i].parent # NoJob
          PROVE  run'[job'[i].run].version = run'[job'[job'[i].parent].run].version
      BY <1>4, <1>8, <2>1
    <2> QED BY <1>4, <1>5, <2>1 DEF OneAttemptAtATime
  <1>11. \A p \in Request : RequestFits(p)'
    <2> TAKE p \in Request
    <2>1. /\ RequestFits(p) /\ run[p].job \in Job \cup {NoJob} /\ req'[p] = req[p] /\ run'[p] = run[p]
          /\ req[p].of \in Job \cup {NoJob} /\ req[p].row \in Job \cup {NoJob}
      BY <1>1, RequestFields
    <2>2. ASSUME run'[p].job # NoJob
          PROVE  (Committed(run[p].job) /\ job[run[p].job].run = p)'
      <3>1. PICK i \in Job : i = run[p].job /\ Committed(i) /\ job[i].run = p
        BY <2>1, <2>2 DEF RequestFits
      <3>2. Committed(i)' /\ job'[i].run = job[i].run
        BY <1>4, <3>1
      <3> QED BY <2>1, <3>1, <3>2 DEF Committed
    <2>3. ASSUME Retries(p)'
          PROVE  /\ Committed(req[p].of)' /\ job'[req'[p].of].status \in {"failed", "cancelled"}
                 /\ \A i \in Job : Committed(i)' => job'[i].parent # req'[p].of
      <3>1. PICK i \in Job : /\ i = req[p].of /\ Committed(i)
                             /\ job[i].status \in {"failed", "cancelled"}
                             /\ \A k \in Job : Committed(k) => job[k].parent # i
        BY <2>1, <2>3 DEF RequestFits, Retries
      <3> QED BY <1>4, <2>1, <3>1 DEF Committed, Terminal
    <2>4. HoldsEvent(p)' => ActiveJobs' = {}
      BY <1>5, <2>1 DEF RequestFits, HoldsEvent
    <2>5. req'[p].at = "inserted" => req'[p].row \in Job /\ job'[req'[p].row].writer = p
      BY <1>4, <2>1 DEF RequestFits
    <2> QED BY <2>1, <2>2, <2>3, <2>4, <2>5 DEF RequestFits
  <1> QED BY <1>6, <1>7, <1>9, <1>10, <1>11

\* Nothing is about the row of the event itself.
LEMMA EventInv ==
    ASSUME RequestsIndInv, EditEvent \/ SupersedeEvent
    PROVE  RequestsIndInv'
  <1>1. UNCHANGED <<inline, job, run, keys, req>>
    BY DEF EditEvent, SupersedeEvent
  <1>2. eventRow' \in [status : {"confirmed", "superseded"}, version : 1 .. MaxEventVersion]
    <2>1. /\ eventRow \in [status : {"confirmed", "superseded"}, version : 1 .. MaxEventVersion]
          /\ MaxEventVersion \in Nat
      BY AtLeastOneVersion DEF RequestsIndInv, RequestsTypeOK
    <2>2. CASE EditEvent
      <3>1. eventRow.version + 1 \in 1 .. MaxEventVersion
        BY <2>1, <2>2 DEF EditEvent
      <3> QED BY <2>1, <2>2, <3>1 DEF EditEvent
    <2>3. CASE SupersedeEvent
      BY <2>1, <2>3 DEF SupersedeEvent
    <2> QED BY <2>2, <2>3
  <1> QED BY <1>1, <1>2
          DEF RequestsIndInv, RequestsTypeOK, OneAttemptAtATime, OneByOne, RequestRowFits, RequestFits,
              Written, Committed, ActiveJobs, HoldsEvent, Retries

\* Every step of a request and every end of an attempt keeps the invariant.
LEMMA RequestsStepInv == ASSUME RequestsIndInv, [RequestsNext]_requestsVars PROVE RequestsIndInv'
  <1>1. CASE UNCHANGED requestsVars
    BY <1>1 DEF requestsVars, RequestsIndInv, RequestsTypeOK, OneAttemptAtATime, OneByOne,
                RequestRowFits, RequestFits, Written, Committed, ActiveJobs, HoldsEvent, Retries
  <1>2. CASE \E q \in Request : Classify(q) \/ Serve(q)
    BY <1>2, ClassifyInv, InsertInv, InsertLosesInv, CommitClassifyInv, BindInv, DeadlockedInv
       DEF Serve
  <1>3. CASE \E q \in Request, j \in Job : Retry(q, j)
    BY <1>3, RetryInv
  <1>4. CASE \E j \in Job, status \in Active \cup Terminal : Work(j, status)
    BY <1>4, WorkInv
  <1>5. CASE EditEvent \/ SupersedeEvent
    BY <1>5, EventInv
  <1> QED BY <1>1, <1>2, <1>3, <1>4, <1>5 DEF RequestsNext

\* The invariant of the requests to classify and to retry.
THEOREM RequestsInvariance == RequestsSpec => []RequestsIndInv
  BY RequestsInitInv, RequestsStepInv, PTL DEF RequestsSpec

\* Runs, jobs and attempts of an event fit together: no run is orphaned, at most one
\* attempt is active, and each is retried once, for the version it investigated,
\* however many requests overlap in classify_event and retry_job.
THEOREM AttemptsFitTogether == RequestsSpec => []RequestsInv
  <1>1. RequestsIndInv => RequestsInv
    <2> SUFFICES ASSUME RequestsIndInv PROVE RequestsInv
      OBVIOUS
    <2>1. \A q \in Request : run[q].job # NoJob => job[run[q].job].run = q
      BY DEF RequestsIndInv, RequestFits
    <2>2. \A j \in Job : Committed(j) => run[job[j].run].job = j
      BY DEF RequestsIndInv, RequestRowFits
    <2> QED BY <2>1, <2>2 DEF RequestsInv, RequestsIndInv, RunsAreExecuted
  <1> QED BY <1>1, RequestsInvariance, PTL
================================================================================
