--------------------------- MODULE LeasedJobsProofs ---------------------------
(***************************************************************************)
(* Proofs about LeasedJobs, for any number of attempts, workers and        *)
(* faults and any lease and heartbeat durations.                           *)
(***************************************************************************)
EXTENDS LeasedJobs, TLAPS

-------------------------------------------------------------------------------
(* What the row operators return. *)

\* Lease and silence are measured in natural numbers of ticks.
LEMMA Durations == LeaseSeconds \in Nat /\ StaleAfter \in Nat
BY TimeoutsArePositive

\* The row create_job inserts is a row, and queued.
LEMMA NewRowFacts ==
    ASSUME NEW parent \in Job \cup {NoJob}, NEW attempt \in Nat
    PROVE  /\ NewRow(parent, attempt) \in Row
           /\ NewRow(parent, attempt).status = "queued"
           /\ NewRow(parent, attempt).parent = parent
           /\ NewRow(parent, attempt).attempt = attempt
           /\ NewRow(parent, attempt).execution_token = NoWorker
BY Durations DEF NewRow, RowOf, Row, Active

\* The row that was never inserted is a row, and blank.
LEMMA AbsentFacts ==
    Absent \in Row /\ Absent.status = "absent" /\ Absent.parent = NoJob
BY Durations DEF Absent, RowOf, Row

\* update_job moves the status and leaves flag, token and lineage alone.
LEMMA UpdatedFacts ==
    ASSUME NEW row \in Row, NEW status \in Active \cup Terminal
    PROVE  /\ Updated(row, status) \in Row
           /\ Updated(row, status).status = status
           /\ Updated(row, status).parent = row.parent
           /\ Updated(row, status).attempt = row.attempt
           /\ Updated(row, status).cancel_requested = row.cancel_requested
           /\ Updated(row, status).execution_token = row.execution_token
<1> DEFINE silence == IF status = "running" THEN 0 ELSE row.silence
<1>1. silence \in 0 .. StaleAfter + 1
  BY Durations DEF Row
<1>2. Updated(row, status) = [row EXCEPT !.status = status, !.silence = silence]
  BY DEF Updated
<1> HIDE DEF silence
<1>3. QED
  BY <1>1, <1>2 DEF Row

\* claim_job makes the row running and leaves flag and lineage alone.
LEMMA ClaimedFacts ==
    ASSUME NEW row \in Row, NEW w \in Worker
    PROVE  /\ Claimed(row, w) \in Row
           /\ Claimed(row, w).status = "running"
           /\ Claimed(row, w).parent = row.parent
           /\ Claimed(row, w).attempt = row.attempt
           /\ Claimed(row, w).cancel_requested = row.cancel_requested
<1>1. LeaseSeconds \in 0 .. LeaseSeconds /\ 0 \in 0 .. StaleAfter + 1
  BY Durations
<1>2. QED
  BY <1>1 DEF Claimed, Row, Active

\* request_cancel sets the flag and nothing else.
LEMMA FlaggedFacts ==
    ASSUME NEW row \in Row
    PROVE  LET flagged == [row EXCEPT !.cancel_requested = TRUE]
           IN  /\ flagged \in Row
               /\ flagged.status = row.status
               /\ flagged.parent = row.parent
               /\ flagged.attempt = row.attempt
               /\ flagged.cancel_requested = TRUE
               /\ flagged.execution_token = row.execution_token
BY DEF Row

\* Heartbeat, release and the clock touch nothing but the two clocks.
SameButClocks(new, row) ==
    /\ new \in Row
    /\ new.status = row.status
    /\ new.parent = row.parent
    /\ new.attempt = row.attempt
    /\ new.cancel_requested = row.cancel_requested
    /\ new.execution_token = row.execution_token

\* Renewing, releasing and ageing a row change nothing but its clocks.
LEMMA ClockFacts ==
    ASSUME NEW row \in Row, NEW w
    PROVE  /\ SameButClocks(Renewed(row), row)
           /\ SameButClocks(Released(row, w), row)
           /\ SameButClocks(Aged(row), row)
<1>1. LeaseSeconds \in 0 .. LeaseSeconds /\ 0 \in 0 .. StaleAfter + 1
         /\ 0 \in 0 .. LeaseSeconds
  BY Durations
<1>2. SameButClocks(Renewed(row), row)
  BY <1>1 DEF Renewed, SameButClocks, Row
<1>3. SameButClocks(Released(row, w), row)
  BY <1>1 DEF Released, SameButClocks, Row
<1> DEFINE lease == IF row.lease = 0 THEN 0 ELSE row.lease - 1
           silence == IF row.silence > StaleAfter THEN row.silence ELSE row.silence + 1
<1>4. row.lease \in 0 .. LeaseSeconds /\ row.silence \in 0 .. StaleAfter + 1
  BY DEF Row
<1>5. lease \in 0 .. LeaseSeconds /\ silence \in 0 .. StaleAfter + 1
  BY <1>4, Durations
<1>6. Aged(row) = IF row.status = "running"
                  THEN [row EXCEPT !.lease = lease, !.silence = silence] ELSE row
  BY DEF Aged
<1> HIDE DEF lease, silence
<1>7. SameButClocks(Aged(row), row)
  BY <1>5, <1>6 DEF SameButClocks, Row
<1>8. QED
  BY <1>2, <1>3, <1>7

\* A row that was never inserted is not touched by release or the clock.
LEMMA AbsentStays ==
    /\ \A w \in Worker : Released(Absent, w) = Absent
    /\ Aged(Absent) = Absent
BY NullsAreNotIds DEF Absent, RowOf, Released, Aged

\* Writing one row of the table leaves a table.
LEMMA OneRowWritten ==
    ASSUME NEW table \in [Job -> Row], NEW j \in Job, NEW new \in Row
    PROVE  /\ [table EXCEPT ![j] = new] \in [Job -> Row]
           /\ [table EXCEPT ![j] = new][j] = new
           /\ \A i \in Job \ {j} : [table EXCEPT ![j] = new][i] = table[i]
OBVIOUS

-------------------------------------------------------------------------------
(* Two ways a step leaves the invariant standing. *)

WorkersHaveJobs == \A w \in Worker : worker[w].at # "idle" => worker[w].job \in Job
CancelsHaveJobs == \A j \in cancelling : job[j].status # "absent"

\* Nothing an attempt has been through changes: messages, places, flags and
\* clocks may.
LEMMA SameStory ==
    ASSUME IndInv, TypedFields', WorkersHaveJobs', CancelsHaveJobs',
           UNCHANGED run,
           \A j \in Job : /\ job'[j].status = job[j].status
                          /\ job'[j].parent = job[j].parent
                          /\ job'[j].attempt = job[j].attempt
                          /\ job[j] = Absent => job'[j] = Absent
    PROVE  IndInv'
<1> USE DEF IndInv, TypeOK
<1>1. ReferencesExist'
  <2>1. run.job \in Job \cup {NoJob}
    BY DEF TypedFields
  <2>2. QED
    BY <2>1 DEF ReferencesExist, WorkersHaveJobs, CancelsHaveJobs
<1>2. CurrentAttemptOnly'
  <2>1. Children(run.job)' = Children(run.job)
    BY DEF Children
  <2>2. ASSUME NEW j \in Job, job'[j].parent # NoJob
        PROVE  /\ job'[job'[j].parent].status \in {"failed", "cancelled"}
               /\ job'[j].attempt = job'[job'[j].parent].attempt + 1
               /\ \A i \in Job \ {j} : job'[i].parent # job'[j].parent
    <3>1. job[j].parent \in Job
      BY <2>2 DEF TypedFields, Row
    <3>2. QED
      BY <2>2, <3>1 DEF CurrentAttemptOnly
  <2>3. \A j \in Job \ {run'.job} : job'[j].status \in {"absent", "failed", "cancelled"}
    BY DEF CurrentAttemptOnly
  <2>4. QED
    BY <2>1, <2>2, <2>3 DEF CurrentAttemptOnly
<1>3. RunFollowsJob' /\ AnsweredOnce'
  BY DEF RunFollowsJob, AnsweredOnce, TypedFields
<1>4. QED
  BY <1>1, <1>2, <1>3

\* Only the attempt the run points at moves on, and the run along with it.
LEMMA CurrentMoves ==
    ASSUME IndInv, TypedFields', WorkersHaveJobs', CancelsHaveJobs',
           run.job \in Job, run'.job = run.job, run'.status # "absent",
           \A j \in Job : /\ job'[j].parent = job[j].parent
                          /\ job'[j].attempt = job[j].attempt
                          /\ j # run.job => job'[j] = job[j],
           job'[run.job].status # "absent",
           RunFollowsJob', AnsweredOnce'
    PROVE  IndInv'
<1> USE DEF IndInv, TypeOK
<1>1. ReferencesExist'
  BY NullsAreNotIds DEF ReferencesExist, WorkersHaveJobs, CancelsHaveJobs
<1>2. CurrentAttemptOnly'
  <2>1. \A j \in Job \ {run.job} : job'[j].status \in {"absent", "failed", "cancelled"}
    BY DEF CurrentAttemptOnly
  <2>2. Children(run.job) = {} /\ Children(run.job)' = {}
    BY NullsAreNotIds DEF CurrentAttemptOnly, Children
  <2>3. ASSUME NEW j \in Job, job'[j].parent # NoJob
        PROVE  /\ job'[job'[j].parent].status \in {"failed", "cancelled"}
               /\ job'[j].attempt = job'[job'[j].parent].attempt + 1
               /\ \A i \in Job \ {j} : job'[i].parent # job'[j].parent
    <3>1. job[j].parent \in Job /\ job[j].parent # run.job
      BY <2>2, <2>3 DEF Children, TypedFields, Row
    <3>2. QED
      BY <2>3, <3>1 DEF CurrentAttemptOnly
  <2>4. QED
    BY <2>1, <2>2, <2>3 DEF CurrentAttemptOnly
<1>3. QED
  BY <1>1, <1>2

-------------------------------------------------------------------------------
(* What the guards of the actions give away. *)

\* An unfinished attempt is the one the run points at, and the run is open.
LEMMA ActiveIsCurrent ==
    ASSUME IndInv, NEW j \in Job, job[j].status \in Active
    PROVE  /\ run.job = j
           /\ run.status \in {"queued", "running"}
           /\ job[j].status = "queued" => run.status = "queued"
           /\ run.answers = 0
<1>1. run.job = j
  BY DEF IndInv, CurrentAttemptOnly, Active
<1>2. j # NoJob
  BY NullsAreNotIds
<1>3. QED
  BY <1>1, <1>2 DEF IndInv, RunFollowsJob, AnsweredOnce, Active

WorkerStates == [Worker -> [at : Places, job : Job \cup {NoJob}]]

\* A busy worker that moves to another busy place stays well formed.
LEMMA MovesFacts ==
    ASSUME worker \in WorkerStates, WorkersHaveJobs, NEW w \in Worker,
           worker[w].at # "idle",
           NEW place \in Places \ {"idle"}, Moves(w, place)
    PROVE  worker' \in WorkerStates /\ WorkersHaveJobs'
<1>1. worker' = [worker EXCEPT ![w] = [@ EXCEPT !.at = place]]
  BY DEF Moves
<1>2. worker[w] \in [at : Places, job : Job \cup {NoJob}]
  BY DEF WorkerStates
<1>3. [worker[w] EXCEPT !.at = place] \in [at : Places, job : Job \cup {NoJob}]
  BY <1>2
<1>4. [worker[w] EXCEPT !.at = place].job = worker[w].job
  BY <1>2
<1>5. QED
  BY <1>1, <1>3, <1>4 DEF WorkerStates, WorkersHaveJobs

\* A worker whose task ends is idle and well formed.
LEMMA AcksFacts ==
    ASSUME worker \in WorkerStates, WorkersHaveJobs, NEW w \in Worker, Acks(w)
    PROVE  worker' \in WorkerStates /\ WorkersHaveJobs'
<1>1. "idle" \in Places
  BY DEF Places
<1>2. [at |-> "idle", job |-> NoJob] \in [at : Places, job : Job \cup {NoJob}]
  BY <1>1
<1>3. QED
  BY <1>2 DEF Acks, WorkerStates, WorkersHaveJobs

\* The invariant, in the pieces the proofs below use.
LEMMA InHand ==
    ASSUME IndInv
    PROVE  /\ TypedFields /\ WorkersHaveJobs /\ CancelsHaveJobs
           /\ job \in [Job -> Row]
           /\ \A j \in Job : job[j] \in Row
           /\ \A j \in Job : job[j].status = "absent" => job[j] = Absent
           /\ worker \in WorkerStates
           /\ \A w \in Worker : worker[w].at # "idle" => worker[w].job \in Job
           /\ run.status \in {"absent", "queued", "running"} \cup Terminal
           /\ run.job \in Job \cup {NoJob}
           /\ run.answers \in Nat
           /\ run = [status |-> run.status, job |-> run.job, answers |-> run.answers]
BY DEF IndInv, TypeOK, TypedFields, ReferencesExist, WorkersHaveJobs,
       CancelsHaveJobs, WorkerStates

-------------------------------------------------------------------------------
(* Messages and places: the rows of jobs and run stay as they are. *)

Sends == [status   : {"none", "pending", "published", "failed"},
          attempts : 0 .. MaxSendAttempts]

OutboxOK ==
    /\ outbox \in [Job -> Sends]
    /\ \A j \in Job : outbox[j].status = "pending" => outbox[j].attempts < MaxSendAttempts

\* A step that leaves jobs and run alone keeps the invariant if messages and
\* workers keep their shape.
LEMMA QuietStep ==
    ASSUME IndInv, UNCHANGED <<job, run>>, WorkersHaveJobs', CancelsHaveJobs',
           worker' \in WorkerStates, cancelling' \in SUBSET Job,
           OutboxOK', broker' \in [Job -> Nat], faults' \in 0 .. MaxFaults
    PROVE  IndInv'
<1>1. TypedFields'
  BY InHand DEF TypedFields, WorkerStates, OutboxOK, Sends
<1>2. QED
  BY <1>1, SameStory

\* The publisher and the broker move messages only.
LEMMA MessagesKeep ==
    ASSUME IndInv, NEW j \in Job, Publish(j) \/ PublishCrash(j) \/ SendFails(j)
    PROVE  IndInv'
<1>1. OutboxOK /\ broker \in [Job -> Nat] /\ faults \in 0 .. MaxFaults
         /\ cancelling \in SUBSET Job
  BY InHand DEF TypedFields, OutboxOK, Sends
<1>2. worker \in WorkerStates /\ WorkersHaveJobs /\ CancelsHaveJobs
  BY InHand
<1>3. MaxSendAttempts \in Nat /\ MaxFaults \in Nat
  BY LimitsAreNatural
<1>4. CASE Publish(j)
  <2>1. OutboxOK'
    BY <1>1, <1>3, <1>4 DEF Publish, OutboxOK, Sends
  <2>2. broker' \in [Job -> Nat]
    BY <1>1, <1>4 DEF Publish
  <2>3. QED
    BY <1>1, <1>2, <1>4, <2>1, <2>2, QuietStep
       DEF Publish, WorkersHaveJobs, CancelsHaveJobs
<1>5. CASE PublishCrash(j)
  <2>1. faults' \in 0 .. MaxFaults /\ OutboxOK'
    BY <1>1, <1>3, <1>5 DEF PublishCrash, OutboxOK
  <2>2. broker' \in [Job -> Nat]
    BY <1>1, <1>5 DEF PublishCrash
  <2>3. QED
    BY <1>1, <1>2, <1>5, <2>1, <2>2, QuietStep
       DEF PublishCrash, WorkersHaveJobs, CancelsHaveJobs
<1>6. CASE SendFails(j)
  <2>1. faults' \in 0 .. MaxFaults
    BY <1>1, <1>3, <1>6 DEF SendFails
  <2>2. OutboxOK'
    BY <1>1, <1>3, <1>6 DEF SendFails, OutboxOK, Sends
  <2>3. QED
    BY <1>1, <1>2, <1>6, <2>1, <2>2, QuietStep
       DEF SendFails, WorkersHaveJobs, CancelsHaveJobs
<1>7. QED
  BY <1>4, <1>5, <1>6

\* Deliveries, refusals, losses and the steps of an executor between its
\* commits move workers and messages only.
LEMMA PlacesKeep ==
    ASSUME IndInv, NEW w \in Worker,
           \/ \E j \in Job : Deliver(w, j)
           \/ Crash(w) \/ ClaimRefused(w) \/ Retrieve(w) \/ Fail(w)
    PROVE  IndInv'
<1>1. OutboxOK /\ broker \in [Job -> Nat] /\ faults \in 0 .. MaxFaults
         /\ cancelling \in SUBSET Job
  BY InHand DEF TypedFields, OutboxOK, Sends
<1>2. /\ worker \in WorkerStates /\ WorkersHaveJobs /\ CancelsHaveJobs
      /\ \A v \in Worker : worker[v].at # "idle" => worker[v].job \in Job
  BY InHand
<1>3. CASE \E j \in Job : Deliver(w, j)
  <2>1. PICK j \in Job : Deliver(w, j)
    BY <1>3
  <2>2. "claiming" \in Places
    BY DEF Places
  <2>3. [at |-> "claiming", job |-> j] \in [at : Places, job : Job \cup {NoJob}]
    BY <2>2
  <2>4. worker' \in WorkerStates /\ WorkersHaveJobs'
    BY <1>2, <2>1, <2>3 DEF Deliver, WorkerStates, WorkersHaveJobs
  <2>5. broker' \in [Job -> Nat]
    BY <1>1, <2>1 DEF Deliver
  <2>6. QED
    BY <1>1, <1>2, <2>1, <2>4, <2>5, QuietStep DEF Deliver, OutboxOK, CancelsHaveJobs
<1>4. CASE Crash(w)
  <2>1. worker' \in WorkerStates /\ WorkersHaveJobs'
    BY <1>2, <1>4, AcksFacts DEF Crash, Acks
  <2>2. broker' \in [Job -> Nat] /\ faults' \in 0 .. MaxFaults
    BY <1>1, <1>2, <1>4, LimitsAreNatural DEF Crash
  <2>3. QED
    BY <1>1, <1>2, <1>4, <2>1, <2>2, QuietStep DEF Crash, OutboxOK, CancelsHaveJobs
<1>5. CASE ClaimRefused(w)
  <2>1. worker' \in WorkerStates /\ WorkersHaveJobs'
    BY <1>2, <1>5, AcksFacts DEF ClaimRefused
  <2>2. QED
    BY <1>1, <1>2, <1>5, <2>1, QuietStep DEF ClaimRefused, OutboxOK, CancelsHaveJobs
<1>6. CASE Retrieve(w) \/ Fail(w)
  <2>1. PICK place \in Places \ {"idle"} : Moves(w, place)
    BY <1>6 DEF Retrieve, Fail, Places, Fenced
  <2>2. worker[w].at # "idle"
    BY <1>6 DEF Retrieve, Fail, Fenced
  <2>3. worker' \in WorkerStates /\ WorkersHaveJobs'
    BY <1>2, <2>1, <2>2, MovesFacts
  <2>4. QED
    BY <1>1, <1>2, <1>6, <2>3, QuietStep DEF Retrieve, Fail, OutboxOK, CancelsHaveJobs
<1>7. QED
  BY <1>3, <1>4, <1>5, <1>6

\* The platform's cancel request reads the row of an unfinished job.
LEMMA CancelReadKeeps ==
    ASSUME IndInv, NEW j \in Job, CancelRead(j)
    PROVE  IndInv'
<1>1. cancelling' \in SUBSET Job /\ CancelsHaveJobs'
  BY InHand DEF CancelRead, CancelsHaveJobs, TypedFields, Active
<1>2. QED
  BY <1>1, InHand, QuietStep
     DEF CancelRead, OutboxOK, Sends, TypedFields, WorkersHaveJobs

-------------------------------------------------------------------------------
(* Flags and clocks: rows are written, no attempt moves on. *)

\* Writing one row whose story stays the same.
LEMMA OneRowSameStory ==
    ASSUME IndInv, NEW j \in Job, NEW new \in Row, job' = [job EXCEPT ![j] = new],
           new.status = job[j].status, new.parent = job[j].parent,
           new.attempt = job[j].attempt, job[j] = Absent => new = Absent,
           worker' \in WorkerStates, WorkersHaveJobs',
           cancelling' \in SUBSET cancelling,
           UNCHANGED <<outbox, broker, run, faults>>
    PROVE  IndInv'
<1>1. job \in [Job -> Row] /\ CancelsHaveJobs
  BY InHand
<1>2. job' \in [Job -> Row] /\ job'[j] = new /\ \A i \in Job \ {j} : job'[i] = job[i]
  BY <1>1, OneRowWritten
<1>3. TypedFields'
  BY <1>2, InHand DEF TypedFields, WorkerStates
<1>4. \A i \in Job : /\ job'[i].status = job[i].status
                     /\ job'[i].parent = job[i].parent
                     /\ job'[i].attempt = job[i].attempt
                     /\ job[i] = Absent => job'[i] = Absent
  BY <1>2
<1>5. CancelsHaveJobs'
  BY <1>1, <1>4, InHand DEF CancelsHaveJobs, TypedFields
<1>6. QED
  BY <1>3, <1>4, <1>5, SameStory

\* The platform's cancel request flags a row that exists.
LEMMA CancelWriteKeeps ==
    ASSUME IndInv, NEW j \in Job, CancelWrite(j)
    PROVE  IndInv'
<1> DEFINE new == [job[j] EXCEPT !.cancel_requested = TRUE]
<1>1. job[j] \in Row /\ job[j].status # "absent"
  BY InHand DEF CancelWrite, CancelsHaveJobs
<1>2. /\ new \in Row /\ new.status = job[j].status
      /\ new.parent = job[j].parent /\ new.attempt = job[j].attempt
  BY <1>1, FlaggedFacts
<1>3. job[j] # Absent
  BY <1>1, AbsentFacts
<1>4. job' = [job EXCEPT ![j] = new]
  BY DEF CancelWrite
<1> HIDE DEF new
<1>5. QED
  BY <1>2, <1>3, <1>4, InHand, OneRowSameStory DEF CancelWrite, WorkersHaveJobs

\* A heartbeat renews the clocks of one row.
LEMMA HeartbeatKeeps ==
    ASSUME IndInv, NEW w \in Worker, Heartbeat(w)
    PROVE  IndInv'
<1>1. worker[w].job \in Job
  BY InHand DEF Heartbeat, Fenced
<1>2. SameButClocks(Renewed(job[worker[w].job]), job[worker[w].job])
  BY <1>1, InHand, ClockFacts
<1>3. job[worker[w].job] # Absent
  BY <1>1, AbsentFacts DEF Heartbeat, HoldsLease
<1>4. QED
  BY <1>1, <1>2, <1>3, InHand, OneRowSameStory
     DEF Heartbeat, SameButClocks, WorkersHaveJobs

\* Leaving execution_lease ends the lease of one row at most.
LEMMA ReleaseKeeps ==
    ASSUME IndInv, NEW w \in Worker, Release(w)
    PROVE  IndInv'
<1>1. worker[w].at # "idle" /\ worker[w].job \in Job
  BY InHand DEF Release
<1>2. SameButClocks(Released(job[worker[w].job], w), job[worker[w].job])
  BY <1>1, InHand, ClockFacts
<1>3. Released(Absent, w) = Absent
  BY AbsentStays
<1>4. worker' \in WorkerStates /\ WorkersHaveJobs'
  <2>1. CASE Acks(w)
    BY <2>1, InHand, AcksFacts
  <2>2. CASE Moves(w, "settling")
    <3>1. "settling" \in Places \ {"idle"}
      BY DEF Places
    <3>2. QED
      BY <1>1, <2>2, <3>1, InHand, MovesFacts
  <2>3. QED
    BY <2>1, <2>2 DEF Release
<1>5. QED
  BY <1>1, <1>2, <1>3, <1>4, OneRowSameStory DEF Release, SameButClocks

\* The passing of time changes clocks only.
LEMMA TickKeeps ==
    ASSUME IndInv, Tick
    PROVE  IndInv'
<1>1. \A j \in Job : SameButClocks(Aged(job[j]), job[j])
  BY InHand, ClockFacts
<1>2. job' = [j \in Job |-> Aged(job[j])] /\ Aged(Absent) = Absent
  BY AbsentStays DEF Tick
<1>3. \A j \in Job : /\ job'[j] \in Row
                     /\ job'[j].status = job[j].status
                     /\ job'[j].parent = job[j].parent
                     /\ job'[j].attempt = job[j].attempt
                     /\ job[j] = Absent => job'[j] = Absent
  BY <1>1, <1>2 DEF SameButClocks
<1>4. TypedFields'
  <2>1. job' \in [Job -> Row]
    BY <1>2, <1>3
  <2>2. QED
    BY <2>1, InHand DEF Tick, TypedFields
<1>5. WorkersHaveJobs' /\ CancelsHaveJobs'
  BY <1>3, InHand DEF Tick, WorkersHaveJobs, CancelsHaveJobs, TypedFields
<1>6. QED
  BY <1>3, <1>4, <1>5, SameStory DEF Tick

-------------------------------------------------------------------------------
(* The current attempt moves on. *)

\* Writing the row of an unfinished attempt, and the run with it.
LEMMA CurrentWritten ==
    ASSUME IndInv, NEW j \in Job, job[j].status \in Active,
           NEW new \in Row, job' = [job EXCEPT ![j] = new],
           new.status # "absent", new.parent = job[j].parent,
           new.attempt = job[j].attempt,
           NEW status \in {"queued", "running"} \cup Terminal,
           NEW answers \in Nat,
           run' = [status |-> status, job |-> j, answers |-> answers],
           new.status = "queued" => status = "queued",
           new.status = "running" => status \in {"queued", "running"},
           new.status = "failed" => status \in {"queued", "running", "failed"},
           new.status \in {"succeeded", "cancelled"} => status = new.status,
           answers = IF status = "succeeded" THEN 1 ELSE 0,
           worker' \in WorkerStates, WorkersHaveJobs',
           UNCHANGED <<outbox, broker, cancelling, faults>>
    PROVE  IndInv'
<1>1. job \in [Job -> Row] /\ CancelsHaveJobs
  BY InHand
<1>2. job' \in [Job -> Row] /\ job'[j] = new /\ \A i \in Job \ {j} : job'[i] = job[i]
  BY <1>1, OneRowWritten
<1>3. run.job = j /\ run'.job = j /\ run'.status = status /\ run'.answers = answers
  BY ActiveIsCurrent
<1>4. TypedFields'
  <2>1. run' \in [status  : {"absent", "queued", "running"} \cup Terminal,
                  job     : Job \cup {NoJob},
                  answers : Nat]
    OBVIOUS
  <2>2. QED
    BY <1>2, <2>1, InHand DEF TypedFields, WorkerStates
<1>5. CancelsHaveJobs'
  BY <1>1, <1>2, InHand DEF CancelsHaveJobs, TypedFields
<1>6. RunFollowsJob' /\ AnsweredOnce'
  BY <1>2, <1>3 DEF RunFollowsJob, AnsweredOnce
<1>7. run'.status # "absent"
  BY <1>3 DEF Terminal
<1>8. \A i \in Job : /\ job'[i].parent = job[i].parent
                     /\ job'[i].attempt = job[i].attempt
                     /\ i # run.job => job'[i] = job[i]
  BY <1>2, <1>3
<1>9. QED
  BY <1>2, <1>3, <1>4, <1>5, <1>6, <1>7, <1>8, CurrentMoves

\* POST /runs/{id}:cancel flags the current attempt, or ends it with the run.
LEMMA CancelRunKeeps ==
    ASSUME IndInv, NEW j \in Job, CancelRun(j)
    PROVE  IndInv'
<1> DEFINE flagged == [job[j] EXCEPT !.cancel_requested = TRUE]
<1>1. job[j].status \in Active
  BY DEF CancelRun
<1>2. /\ flagged \in Row /\ flagged.status = job[j].status
      /\ flagged.parent = job[j].parent /\ flagged.attempt = job[j].attempt
  BY InHand, FlaggedFacts
<1>3. /\ run.job = j /\ run.status \in {"queued", "running"} /\ run.answers = 0
      /\ job[j].status = "queued" => run.status = "queued"
  BY <1>1, ActiveIsCurrent
<1>4. CASE job[j].status = "queued"
  <2> DEFINE new == Updated(flagged, "cancelled")
  <2>1. job' = [job EXCEPT ![j] = new]
    BY <1>4 DEF CancelRun
  <2>2. run' = [status |-> "cancelled", job |-> j, answers |-> 0]
    BY <1>3, <1>4, InHand DEF CancelRun
  <2>3. UNCHANGED <<outbox, broker, worker, cancelling, faults>>
    BY DEF CancelRun
  <2> HIDE DEF flagged
  <2>4. /\ new \in Row /\ new.status = "cancelled"
        /\ new.parent = job[j].parent /\ new.attempt = job[j].attempt
    BY <1>2, UpdatedFacts DEF Terminal
  <2>5. worker' \in WorkerStates /\ WorkersHaveJobs'
    BY <2>3, InHand DEF WorkersHaveJobs
  <2>6. "cancelled" \in {"queued", "running"} \cup Terminal /\ 0 \in Nat
    BY DEF Terminal
  <2> HIDE DEF new
  <2>7. QED
    BY <1>1, <2>1, <2>2, <2>3, <2>4, <2>5, <2>6, CurrentWritten
<1>5. CASE job[j].status = "running"
  <2>1. job' = [job EXCEPT ![j] = flagged] /\ UNCHANGED run
    BY <1>5 DEF CancelRun
  <2>2. job[j] # Absent
    BY <1>5, AbsentFacts
  <2> HIDE DEF flagged
  <2>3. QED
    BY <1>2, <2>1, <2>2, InHand, OneRowSameStory DEF CancelRun, WorkersHaveJobs
<1>6. QED
  BY <1>1, <1>4, <1>5 DEF Active

\* A claim makes an unfinished, hence current, attempt running.
LEMMA ClaimKeeps ==
    ASSUME IndInv, NEW w \in Worker, Claim(w)
    PROVE  IndInv'
<1> DEFINE j == worker[w].job
           new == Claimed(job[j], w)
<1>1. worker[w].at # "idle" /\ j \in Job /\ job[j].status \in Active
  BY InHand DEF Claim, Claimable
<1>2. /\ new \in Row /\ new.status = "running"
      /\ new.parent = job[j].parent /\ new.attempt = job[j].attempt
  BY <1>1, InHand, ClaimedFacts
<1>3. run.job = j /\ run.status \in {"queued", "running"} /\ run.answers = 0
  BY <1>1, ActiveIsCurrent
<1>4. run' = [status |-> run.status, job |-> j, answers |-> 0]
  BY <1>3, InHand DEF Claim
<1>5. job' = [job EXCEPT ![j] = new]
  BY DEF Claim
<1>6. worker' \in WorkerStates /\ WorkersHaveJobs'
  BY <1>1, InHand, MovesFacts DEF Claim, Places, Fenced
<1>7. UNCHANGED <<outbox, broker, cancelling, faults>>
  BY DEF Claim
<1> HIDE DEF j, new
<1>8. QED
  BY <1>1, <1>2, <1>3, <1>4, <1>5, <1>6, <1>7, CurrentWritten

\* The first guarded transaction marks the run of a running attempt.
LEMMA BeginKeeps ==
    ASSUME IndInv, NEW w \in Worker, Begin(w)
    PROVE  IndInv'
<1> DEFINE j == worker[w].job
<1>1. /\ worker[w].at # "idle" /\ j \in Job /\ job[j].status = "running"
  BY InHand DEF Begin, HoldsLease
<1>2. job[j].status \in Active /\ job[j] \in Row
  BY <1>1, InHand DEF Active
<1>3. run.job = j /\ run.status \in {"queued", "running"} /\ run.answers = 0
  BY <1>1, <1>2, ActiveIsCurrent
<1>4. run' = [status |-> "running", job |-> j, answers |-> 0]
  BY <1>3, InHand DEF Begin
<1>5. job' = [job EXCEPT ![j] = job[j]]
  BY InHand DEF Begin
<1>6. worker' \in WorkerStates /\ WorkersHaveJobs'
  BY <1>1, InHand, MovesFacts DEF Begin, Places, Fenced
<1>7. UNCHANGED <<outbox, broker, cancelling, faults>>
  BY DEF Begin
<1> HIDE DEF j
<1>8. QED
  BY <1>1, <1>2, <1>4, <1>5, <1>6, <1>7, CurrentWritten

\* The last guarded transaction ends attempt and run together, with one answer.
LEMMA AnswerKeeps ==
    ASSUME IndInv, NEW w \in Worker, Answer(w)
    PROVE  IndInv'
<1> DEFINE j == worker[w].job
           new == Updated(job[j], "succeeded")
<1>1. /\ worker[w].at # "idle" /\ j \in Job /\ job[j].status = "running"
  BY InHand DEF Answer, HoldsLease
<1>2. job[j].status \in Active /\ job[j] \in Row
  BY <1>1, InHand DEF Active
<1>3. run.job = j /\ run.answers = 0
  BY <1>1, <1>2, ActiveIsCurrent
<1>4. run' = [status |-> "succeeded", job |-> j, answers |-> 1]
  <2>1. run = [status |-> run.status, job |-> j, answers |-> 0]
    BY <1>3, InHand
  <2>2. run.answers + 1 = 1
    BY <1>3
  <2> DEFINE marked == [run EXCEPT !.status = "succeeded"]
  <2>3. run' = [marked EXCEPT !.answers = 1]
    BY <2>2 DEF Answer
  <2>4. marked = [status |-> "succeeded", job |-> j, answers |-> 0]
    BY <2>1
  <2> HIDE DEF marked
  <2>5. QED
    BY <2>3, <2>4
<1>5. job' = [job EXCEPT ![j] = new]
  BY DEF Answer
<1>6. /\ new \in Row /\ new.status = "succeeded"
      /\ new.parent = job[j].parent /\ new.attempt = job[j].attempt
  BY <1>2, UpdatedFacts DEF Terminal
<1>7. worker' \in WorkerStates /\ WorkersHaveJobs'
  BY <1>1, InHand, MovesFacts DEF Answer, Places
<1>8. UNCHANGED <<outbox, broker, cancelling, faults>>
  BY DEF Answer
<1>9. "succeeded" \in {"queued", "running"} \cup Terminal /\ 1 \in Nat
  BY DEF Terminal
<1> HIDE DEF j, new
<1>10. QED
  BY <1>1, <1>2, <1>4, <1>5, <1>6, <1>7, <1>8, <1>9, CurrentWritten

\* The failure handler ends attempt and run together, or neither.
LEMMA SettleKeeps ==
    ASSUME IndInv, NEW w \in Worker, Settle(w)
    PROVE  IndInv'
<1> DEFINE j == worker[w].job
           end == IF job[j].cancel_requested THEN "cancelled" ELSE "failed"
           new == Updated(job[j], end)
<1>1. worker[w].at # "idle" /\ j \in Job
  BY InHand DEF Settle
<1>2. worker' \in WorkerStates /\ WorkersHaveJobs'
  BY InHand, AcksFacts DEF Settle
<1>3. UNCHANGED <<outbox, broker, cancelling, faults>>
  BY DEF Settle
<1>4. CASE job[j].execution_token = w /\ job[j].status = "running"
  <2>1. job[j].status \in Active /\ job[j] \in Row
    BY <1>1, <1>4, InHand DEF Active
  <2>2. run.job = j /\ run.answers = 0
    BY <1>1, <2>1, ActiveIsCurrent
  <2>3. job' = [job EXCEPT ![j] = new]
    BY <1>4 DEF Settle
  <2>4. run' = [status |-> end, job |-> j, answers |-> 0]
    BY <1>4, <2>2, InHand DEF Settle
  <2>5. end \in {"cancelled", "failed"}
    OBVIOUS
  <2> HIDE DEF end
  <2>6. /\ new \in Row /\ new.status = end
        /\ new.parent = job[j].parent /\ new.attempt = job[j].attempt
    BY <2>1, <2>5, UpdatedFacts DEF Terminal
  <2>7. end \in {"queued", "running"} \cup Terminal /\ 0 \in Nat
    BY <2>5 DEF Terminal
  <2> HIDE DEF j, new
  <2>8. QED
    BY <1>1, <1>2, <1>3, <2>1, <2>3, <2>4, <2>5, <2>6, <2>7, CurrentWritten
<1>5. CASE ~(job[j].execution_token = w /\ job[j].status = "running")
  <2>1. UNCHANGED <<job, run>>
    BY <1>5 DEF Settle
  <2>2. QED
    BY <1>2, <1>3, <2>1, InHand, QuietStep
       DEF OutboxOK, Sends, TypedFields, CancelsHaveJobs
<1>6. QED
  BY <1>4, <1>5

\* The sweeper fails a running attempt and leaves its run open.
LEMMA SweepKeeps ==
    ASSUME IndInv, NEW j \in Job, Sweep(j)
    PROVE  IndInv'
<1> DEFINE new == Updated(job[j], "failed")
<1>1. job[j].status = "running" /\ job[j].status \in Active /\ job[j] \in Row
  BY InHand DEF Sweep, Stale, Active
<1>2. run.job = j /\ run.status \in {"queued", "running"} /\ run.answers = 0
  BY <1>1, ActiveIsCurrent
<1>3. run' = [status |-> run.status, job |-> j, answers |-> 0]
  BY <1>2, InHand DEF Sweep
<1>4. job' = [job EXCEPT ![j] = new]
  BY DEF Sweep
<1>5. /\ new \in Row /\ new.status = "failed"
      /\ new.parent = job[j].parent /\ new.attempt = job[j].attempt
  BY <1>1, UpdatedFacts DEF Terminal
<1>6. worker' \in WorkerStates /\ WorkersHaveJobs'
  BY InHand DEF Sweep, WorkersHaveJobs
<1>7. UNCHANGED <<outbox, broker, cancelling, faults>>
  BY DEF Sweep
<1> HIDE DEF new
<1>8. QED
  BY <1>1, <1>2, <1>3, <1>4, <1>5, <1>6, <1>7, CurrentWritten

-------------------------------------------------------------------------------
(* A new attempt opens. *)

\* Inserting a queued row the run then points at, as POST /runs and a retry do.
LEMMA AttemptOpened ==
    ASSUME IndInv, NEW c \in Job, job[c].status = "absent",
           NEW parent \in Job \cup {NoJob}, NEW attempt \in Nat,
           parent # NoJob =>
               /\ job[parent].status \in {"failed", "cancelled"}
               /\ attempt = job[parent].attempt + 1
               /\ Children(parent) = {},
           \A i \in Job : job[i].status \in {"absent", "failed", "cancelled"},
           run.answers = 0,
           job' = [job EXCEPT ![c] = NewRow(parent, attempt)],
           outbox' = [outbox EXCEPT ![c] = Pending],
           run' = [status |-> "queued", job |-> c, answers |-> 0],
           UNCHANGED <<broker, worker, cancelling, faults>>
    PROVE  IndInv'
<1> DEFINE new == NewRow(parent, attempt)
<1>1. /\ new \in Row /\ new.status = "queued"
      /\ new.parent = parent /\ new.attempt = attempt
  BY NewRowFacts
<1>2. job' = [job EXCEPT ![c] = new]
  OBVIOUS
<1> HIDE DEF new
<1>3. job' \in [Job -> Row] /\ job'[c] = new /\ \A i \in Job \ {c} : job'[i] = job[i]
  BY <1>1, <1>2, InHand, OneRowWritten
<1>4. c # NoJob /\ run'.job = c /\ run'.status = "queued" /\ run'.answers = 0
  BY NullsAreNotIds
<1>5. TypedFields'
  <2>1. run' \in [status  : {"absent", "queued", "running"} \cup Terminal,
                  job     : Job \cup {NoJob},
                  answers : Nat]
    OBVIOUS
  <2>2. OutboxOK'
    <3>1. OutboxOK /\ MaxSendAttempts \in Nat /\ MaxSendAttempts > 0
      BY InHand, LimitsAreNatural DEF TypedFields, OutboxOK, Sends
    <3>2. Pending \in Sends /\ Pending.attempts < MaxSendAttempts
      BY <3>1 DEF Pending, Sends
    <3>3. QED
      BY <3>1, <3>2 DEF OutboxOK
  <2>3. QED
    BY <1>3, <2>1, <2>2, InHand DEF TypedFields, OutboxOK, Sends
<1>6. ReferencesExist'
  <2>1. WorkersHaveJobs' /\ CancelsHaveJobs'
    BY <1>1, <1>3, InHand DEF WorkersHaveJobs, CancelsHaveJobs, TypedFields
  <2>2. \A i \in Job : job'[i].status = "absent" => job'[i] = Absent
    BY <1>1, <1>3, InHand
  <2>3. QED
    BY <1>1, <1>3, <1>4, <2>1, <2>2
       DEF ReferencesExist, WorkersHaveJobs, CancelsHaveJobs
<1>7. CurrentAttemptOnly'
  <2>1. job[c].parent = NoJob
    BY InHand, AbsentFacts
  <2>2. \A i \in Job : job[i].parent # c
    <3>1. ASSUME NEW i \in Job, job[i].parent = c
          PROVE  FALSE
      BY <1>4, <3>1 DEF IndInv, CurrentAttemptOnly
    <3>2. QED
      BY <3>1
  <2>3. parent # c
    BY <1>4
  <2>4. \A i \in Job \ {run'.job} : job'[i].status \in {"absent", "failed", "cancelled"}
    BY <1>3, <1>4
  <2>5. Children(run.job)' = {}
    BY <1>1, <1>3, <1>4, <2>2, <2>3 DEF Children
  <2>6. ASSUME NEW i \in Job, job'[i].parent # NoJob
        PROVE  /\ job'[job'[i].parent].status \in {"failed", "cancelled"}
               /\ job'[i].attempt = job'[job'[i].parent].attempt + 1
               /\ \A k \in Job \ {i} : job'[k].parent # job'[i].parent
    <3>1. CASE i = c
      <4>1. parent \in Job /\ parent # NoJob
        BY <1>1, <1>3, <2>6, <3>1
      <4>2. job'[parent] = job[parent]
        BY <1>3, <2>3, <4>1
      <4>3. \A k \in Job \ {c} : job[k].parent # parent
        BY <4>1 DEF Children
      <4>4. QED
        BY <1>1, <1>3, <3>1, <4>1, <4>2, <4>3
    <3>2. CASE i # c
      <4>1. job'[i] = job[i] /\ job[i].parent \in Job /\ job[i].parent # c
        BY <1>3, <2>2, <2>6, <3>2, InHand DEF Row
      <4>2. /\ job[job[i].parent].status \in {"failed", "cancelled"}
            /\ job[i].attempt = job[job[i].parent].attempt + 1
            /\ \A k \in Job \ {i} : job[k].parent # job[i].parent
        BY <2>6, <4>1 DEF IndInv, CurrentAttemptOnly
      <4>3. parent # job[i].parent
        BY <2>6, <4>1 DEF Children
      <4>4. QED
        BY <1>1, <1>3, <4>1, <4>2, <4>3
    <3>3. QED
      BY <3>1, <3>2
  <2>7. QED
    BY <2>4, <2>5, <2>6 DEF CurrentAttemptOnly
<1>8. RunFollowsJob' /\ AnsweredOnce'
  BY <1>1, <1>3, <1>4 DEF RunFollowsJob, AnsweredOnce
<1>9. QED
  BY <1>5, <1>6, <1>7, <1>8 DEF IndInv, TypeOK

\* POST /runs opens the first attempt of a run that did not exist.
LEMMA AskKeeps ==
    ASSUME IndInv, NEW j \in Job, Ask(j)
    PROVE  IndInv'
<1>1. /\ run.job = NoJob /\ run.answers = 0
      /\ \A i \in Job : job[i].status = "absent"
  BY DEF IndInv, TypeOK, ReferencesExist, AnsweredOnce, Ask
<1>2. run' = [status |-> "queued", job |-> j, answers |-> 0]
  <2>1. run = [status |-> "absent", job |-> NoJob, answers |-> 0]
    BY <1>1, InHand DEF Ask
  <2> DEFINE marked == [run EXCEPT !.status = "queued"]
  <2>2. run' = [marked EXCEPT !.job = j]
    BY DEF Ask
  <2>3. marked = [status |-> "queued", job |-> NoJob, answers |-> 0]
    BY <2>1
  <2> HIDE DEF marked
  <2>4. QED
    BY <2>2, <2>3
<1>3. QED
  BY <1>1, <1>2, AttemptOpened DEF Ask

\* A retry opens the next attempt and points the run at it.
LEMMA RetryKeeps ==
    ASSUME IndInv, NEW j \in Job, NEW c \in Job, Retry(j, c)
    PROVE  IndInv'
<1>1. \A i \in Job : job[i].status \in {"absent", "failed", "cancelled"}
  BY DEF IndInv, CurrentAttemptOnly, Retry
<1>2. run.answers = 0
  <2>1. run.job = j /\ j # NoJob /\ job[j].status \in {"failed", "cancelled"}
    BY NullsAreNotIds DEF Retry
  <2>2. run.status # "succeeded"
    BY <2>1 DEF IndInv, RunFollowsJob
  <2>3. QED
    BY <2>2 DEF IndInv, AnsweredOnce
<1>3. job[j].attempt + 1 \in Nat
  BY InHand DEF Row
<1>4. run' = [status |-> "queued", job |-> c, answers |-> 0]
  <2>1. run = [status |-> run.status, job |-> j, answers |-> 0]
    BY <1>2, InHand DEF Retry
  <2> DEFINE marked == [run EXCEPT !.status = "queued"]
  <2>2. run' = [marked EXCEPT !.job = c]
    BY DEF Retry
  <2>3. marked = [status |-> "queued", job |-> j, answers |-> 0]
    BY <2>1
  <2> HIDE DEF marked
  <2>4. QED
    BY <2>2, <2>3
<1>5. QED
  BY <1>1, <1>2, <1>3, <1>4, AttemptOpened DEF Retry

-------------------------------------------------------------------------------
(* The invariant is inductive. *)

\* The empty tables satisfy the invariant.
LEMMA InitHolds == Init => IndInv
<1> SUFFICES ASSUME Init
             PROVE  IndInv
  OBVIOUS
<1>1. TypedFields
  <2>1. [status |-> "none", attempts |-> 0] \in
          [status : {"none", "pending", "published", "failed"},
           attempts : 0 .. MaxSendAttempts]
    BY LimitsAreNatural
  <2>2. [at |-> "idle", job |-> NoJob] \in [at : Places, job : Job \cup {NoJob}]
    BY DEF Places
  <2>3. 0 \in 0 .. MaxFaults
    BY LimitsAreNatural
  <2>4. QED
    BY <2>1, <2>2, <2>3, AbsentFacts DEF Init, NoSend, TypedFields
<1>2. \A j \in Job : job[j] = Absent
  BY DEF Init
<1>3. run.status = "absent" /\ run.job = NoJob /\ run.answers = 0
  BY DEF Init
<1>4. ReferencesExist
  BY <1>2, <1>3, AbsentFacts DEF Init, ReferencesExist
<1>5. CurrentAttemptOnly
  BY <1>2, <1>3, AbsentFacts DEF CurrentAttemptOnly
<1>6. RunFollowsJob /\ AnsweredOnce
  BY <1>3 DEF RunFollowsJob, AnsweredOnce
<1>7. QED
  BY <1>1, <1>4, <1>5, <1>6 DEF IndInv, TypeOK

\* Every step keeps the invariant.
LEMMA NextKeeps == IndInv /\ [Next]_vars => IndInv'
<1> SUFFICES ASSUME IndInv, [Next]_vars
             PROVE  IndInv'
  OBVIOUS
<1>1. ASSUME NEW j \in Job, JobStep(j)
      PROVE  IndInv'
  BY <1>1, AskKeeps, CancelReadKeeps, CancelWriteKeeps, CancelRunKeeps,
     MessagesKeep, SweepKeeps DEF JobStep
<1>2. ASSUME NEW j \in Job, NEW c \in Job, Retry(j, c)
      PROVE  IndInv'
  BY <1>2, RetryKeeps
<1>3. ASSUME NEW w \in Worker, WorkerStep(w)
      PROVE  IndInv'
  BY <1>3, ClaimKeeps, HeartbeatKeeps, BeginKeeps, AnswerKeeps, ReleaseKeeps,
     SettleKeeps, PlacesKeep DEF WorkerStep
<1>4. ASSUME NEW w \in Worker, NEW j \in Job, Deliver(w, j)
      PROVE  IndInv'
  BY <1>4, PlacesKeep
<1>5. CASE Tick
  BY <1>5, TickKeeps
<1>6. CASE UNCHANGED vars
  BY <1>6 DEF vars, IndInv, TypeOK, TypedFields, ReferencesExist,
              CurrentAttemptOnly, Children, RunFollowsJob, AnsweredOnce
<1>7. QED
  BY <1>1, <1>2, <1>3, <1>4, <1>5, <1>6 DEF Next

\* Attempts, run and answer fit together, for any number of jobs and workers.
THEOREM InvariantHolds == Spec => []IndInv
<1>1. QED
  BY InitHolds, NextKeeps, PTL DEF Spec

\* Rows, references and messages keep their shape.
THEOREM TypeCorrect == Spec => []TypeOK
<1>1. IndInv => TypeOK
  BY DEF IndInv
<1>2. QED
  BY <1>1, InvariantHolds, PTL

\* Only the attempt the run points at is unfinished or has succeeded, and
\* retries form one chain.
THEOREM OneCurrentAttempt == Spec => []CurrentAttemptOnly
<1>1. IndInv => CurrentAttemptOnly
  BY DEF IndInv
<1>2. QED
  BY <1>1, InvariantHolds, PTL

\* The run's status never contradicts its current attempt.
THEOREM RunAndJobAgree == Spec => []RunFollowsJob
<1>1. IndInv => RunFollowsJob
  BY DEF IndInv
<1>2. QED
  BY <1>1, InvariantHolds, PTL

\* A run is answered at most once, however its attempts are executed.
THEOREM AtMostOneAnswer == Spec => []AnsweredOnce
<1>1. IndInv => AnsweredOnce
  BY DEF IndInv
<1>2. QED
  BY <1>1, InvariantHolds, PTL

-------------------------------------------------------------------------------
(* Fencing. *)

\* A worker that lost its row cannot change a row or the run.
LEMMA LostWorkerIsHarmless ==
    ASSUME IndInv, [Next]_vars, NEW w \in Worker,
           worker[w].at \notin {"idle", "claiming"},
           job[worker[w].job].execution_token # w,
           worker'[w] # worker[w]
    PROVE  UNCHANGED <<job, run>>
<1>1. worker \in WorkerStates /\ worker[w].job \in Job /\ job \in [Job -> Row]
  BY InHand
<1>2. ASSUME NEW v \in Worker, WorkerStep(v)
      PROVE  v = w
  BY <1>1, <1>2
     DEF WorkerStep, Claim, ClaimRefused, Heartbeat, Begin, Retrieve, Answer,
         Fail, Release, Settle, Crash, Moves, Acks, WorkerStates
<1>3. ASSUME NEW v \in Worker, NEW j \in Job, Deliver(v, j)
      PROVE  FALSE
  BY <1>1, <1>3 DEF Deliver, WorkerStates
<1>4. ASSUME NEW j \in Job, JobStep(j)
      PROVE  FALSE
  BY <1>4 DEF JobStep, Ask, CancelRead, CancelWrite, CancelRun, Publish,
              PublishCrash, SendFails, Sweep
<1>5. ASSUME NEW j \in Job, NEW c \in Job, Retry(j, c)
      PROVE  FALSE
  BY <1>5 DEF Retry
<1>6. WorkerStep(w)
  BY <1>2, <1>3, <1>4, <1>5 DEF Next, vars, Tick
<1>7. CASE Release(w)
  <2>1. job' = [job EXCEPT ![worker[w].job] = job[worker[w].job]]
    BY <1>7 DEF Release, Released
  <2>2. QED
    BY <1>1, <1>7, <2>1 DEF Release
<1>8. CASE Fail(w) \/ Crash(w) \/ Settle(w)
  BY <1>8 DEF Fail, Crash, Settle
<1>9. QED
  BY <1>6, <1>7, <1>8
     DEF WorkerStep, Claim, ClaimRefused, Heartbeat, Begin, Retrieve, Answer,
         HoldsLease

\* Whatever a worker does once its token is gone leaves jobs and run alone.
THEOREM LostWorkersAreFencedOut == Spec => FencedOut
<1>1. IndInv /\ [Next]_vars =>
        [\A w \in Worker :
            /\ worker[w].at \notin {"idle", "claiming"}
            /\ job[worker[w].job].execution_token # w
            /\ worker'[w] # worker[w]
            => UNCHANGED <<job, run>>]_vars
  BY LostWorkerIsHarmless
<1>2. QED
  BY <1>1, InvariantHolds, PTL DEF Spec, FencedOut

-------------------------------------------------------------------------------
(* What may become of a row in one step. *)

MayBecome(row, new) ==
    /\ row.status \in Terminal => new.status = row.status
    /\ row.cancel_requested => /\ new.cancel_requested
                               /\ new.status = "succeeded" => row.status = "succeeded"

\* Writing one row lawfully leaves every row lawful.
LEMMA OneRowLawful ==
    ASSUME IndInv, NEW j \in Job, NEW new \in Row, job' = [job EXCEPT ![j] = new],
           MayBecome(job[j], new), NEW i \in Job
    PROVE  MayBecome(job[i], job'[i])
<1>1. job'[j] = new /\ \A k \in Job \ {j} : job'[k] = job[k]
  BY InHand, OneRowWritten
<1>2. CASE i = j
  BY <1>1, <1>2
<1>3. CASE i # j
  BY <1>1, <1>3 DEF MayBecome
<1>4. QED
  BY <1>2, <1>3

\* Changing the clocks of a row is lawful.
LEMMA ClocksAreLawful ==
    ASSUME NEW row \in Row, NEW new, SameButClocks(new, row)
    PROVE  MayBecome(row, new)
BY DEF SameButClocks, MayBecome

\* update_job on an unfinished row that is not a cancelled success is lawful.
LEMMA UpdatesAreLawful ==
    ASSUME NEW row \in Row, row.status \in Active, NEW status \in Active \cup Terminal,
           row.cancel_requested => status # "succeeded"
    PROVE  MayBecome(row, Updated(row, status))
BY UpdatedFacts DEF MayBecome, Active, Terminal

\* Whatever is inserted, a row that was absent had nothing to lose.
LEMMA InsertionsAreLawful ==
    ASSUME NEW row, row = Absent, NEW new
    PROVE  MayBecome(row, new)
BY DEF MayBecome, Absent, RowOf, Terminal

\* No step does to a row what MayBecome excludes.
LEMMA EveryStepIsLawful ==
    ASSUME IndInv, [Next]_vars, NEW i \in Job
    PROVE  MayBecome(job[i], job'[i])
<1>1. UNCHANGED job => MayBecome(job[i], job'[i])
  BY DEF MayBecome
<1>2. ASSUME NEW j \in Job, JobStep(j)
      PROVE  MayBecome(job[i], job'[i])
  <2>1. CASE Ask(j)
    <3>1. job[j] = Absent
      BY <2>1, InHand DEF Ask, IndInv, TypeOK, ReferencesExist
    <3>2. NewRow(NoJob, 1) \in Row
      BY NewRowFacts
    <3>3. job' = [job EXCEPT ![j] = NewRow(NoJob, 1)]
      BY <2>1 DEF Ask
    <3>4. QED
      BY <3>1, <3>2, <3>3, InsertionsAreLawful, OneRowLawful
  <2>2. CASE CancelRead(j) \/ Publish(j) \/ PublishCrash(j) \/ SendFails(j)
    BY <1>1, <2>2 DEF CancelRead, Publish, PublishCrash, SendFails
  <2> DEFINE flagged == [job[j] EXCEPT !.cancel_requested = TRUE]
  <2>3. job[j] \in Row /\ flagged \in Row /\ MayBecome(job[j], flagged)
          /\ flagged.status = job[j].status
    <3>1. job[j] \in Row
      BY InHand
    <3>2. flagged \in Row /\ flagged.status = job[j].status /\ flagged.cancel_requested
      BY <3>1, FlaggedFacts
    <3> HIDE DEF flagged
    <3>3. QED
      BY <3>1, <3>2 DEF MayBecome
  <2>4. CASE CancelWrite(j)
    <3>1. job' = [job EXCEPT ![j] = flagged]
      BY <2>4 DEF CancelWrite
    <3> HIDE DEF flagged
    <3>2. QED
      BY <2>3, <3>1, OneRowLawful
  <2>5. CASE CancelRun(j)
    <3>1. job[j].status \in Active
      BY <2>5 DEF CancelRun
    <3>2. \/ job' = [job EXCEPT ![j] = flagged]
          \/ job' = [job EXCEPT ![j] = Updated(flagged, "cancelled")]
      BY <2>5 DEF CancelRun
    <3> HIDE DEF flagged
    <3>3. MayBecome(job[j], Updated(flagged, "cancelled"))
      <4>1. /\ Updated(flagged, "cancelled").status = "cancelled"
            /\ Updated(flagged, "cancelled").cancel_requested = flagged.cancel_requested
        BY <2>3, UpdatedFacts DEF Terminal
      <4>2. QED
        BY <2>3, <3>1, <4>1 DEF MayBecome, Active, Terminal
    <3>4. Updated(flagged, "cancelled") \in Row
      BY <2>3, UpdatedFacts DEF Terminal
    <3>5. QED
      BY <2>3, <3>2, <3>3, <3>4, OneRowLawful
  <2>6. CASE Sweep(j)
    <3>1. job[j].status \in Active
      BY <2>6 DEF Sweep, Stale, Active
    <3>2. job' = [job EXCEPT ![j] = Updated(job[j], "failed")]
      BY <2>6 DEF Sweep
    <3>3. "failed" \in Active \cup Terminal
      BY DEF Terminal
    <3>4. MayBecome(job[j], Updated(job[j], "failed"))
      BY <2>3, <3>1, <3>3, UpdatesAreLawful
    <3>5. Updated(job[j], "failed") \in Row
      BY <2>3, <3>3, UpdatedFacts
    <3>6. QED
      BY <3>2, <3>4, <3>5, OneRowLawful
  <2>7. QED
    BY <1>2, <2>1, <2>2, <2>4, <2>5, <2>6 DEF JobStep
<1>3. ASSUME NEW j \in Job, NEW c \in Job, Retry(j, c)
      PROVE  MayBecome(job[i], job'[i])
  <2>1. job[c] = Absent /\ NewRow(j, job[j].attempt + 1) \in Row
    BY <1>3, InHand, NewRowFacts DEF Retry, Row
  <2>2. job' = [job EXCEPT ![c] = NewRow(j, job[j].attempt + 1)]
    BY <1>3 DEF Retry
  <2>3. QED
    BY <2>1, <2>2, InsertionsAreLawful, OneRowLawful
<1>4. ASSUME NEW w \in Worker, WorkerStep(w)
      PROVE  MayBecome(job[i], job'[i])
  <2> DEFINE j == worker[w].job
  <2>1. worker[w].at # "idle" => j \in Job /\ job[j] \in Row
    BY InHand
  <2>2. CASE UNCHANGED job
    BY <1>1, <2>2
  <2>3. CASE Claim(w)
    <3>1. j \in Job /\ job[j] \in Row /\ job' = [job EXCEPT ![j] = Claimed(job[j], w)]
      BY <2>1, <2>3 DEF Claim
    <3>2. MayBecome(job[j], Claimed(job[j], w))
      BY <2>3 DEF Claim, Claimable, MayBecome, Active, Terminal
    <3>3. Claimed(job[j], w) \in Row
      BY <3>1, ClaimedFacts
    <3> HIDE DEF j
    <3>4. QED
      BY <3>1, <3>2, <3>3, OneRowLawful
  <2>4. CASE Heartbeat(w)
    <3>1. j \in Job /\ job[j] \in Row /\ job' = [job EXCEPT ![j] = Renewed(job[j])]
      BY <2>1, <2>4 DEF Heartbeat, Fenced
    <3>2. SameButClocks(Renewed(job[j]), job[j])
      BY <3>1, ClockFacts
    <3>3. MayBecome(job[j], Renewed(job[j])) /\ Renewed(job[j]) \in Row
      BY <3>1, <3>2, ClocksAreLawful DEF SameButClocks
    <3> HIDE DEF j
    <3>4. QED
      BY <3>1, <3>3, OneRowLawful
  <2>5. CASE Release(w)
    <3>1. j \in Job /\ job[j] \in Row /\ job' = [job EXCEPT ![j] = Released(job[j], w)]
      BY <2>1, <2>5 DEF Release
    <3>2. SameButClocks(Released(job[j], w), job[j])
      BY <3>1, ClockFacts
    <3>3. MayBecome(job[j], Released(job[j], w)) /\ Released(job[j], w) \in Row
      BY <3>1, <3>2, ClocksAreLawful DEF SameButClocks
    <3> HIDE DEF j
    <3>4. QED
      BY <3>1, <3>3, OneRowLawful
  <2>6. CASE Answer(w)
    <3>1. j \in Job /\ job[j] \in Row /\ job' = [job EXCEPT ![j] = Updated(job[j], "succeeded")]
      BY <2>1, <2>6 DEF Answer
    <3>2. job[j].status \in Active /\ ~job[j].cancel_requested
      BY <2>6 DEF Answer, HoldsLease, Active
    <3>3. "succeeded" \in Active \cup Terminal
      BY DEF Terminal
    <3> HIDE DEF j
    <3>4. MayBecome(job[j], Updated(job[j], "succeeded"))
      BY <3>1, <3>2, <3>3, UpdatesAreLawful
    <3>5. Updated(job[j], "succeeded") \in Row
      BY <3>1, <3>3, UpdatedFacts
    <3>6. QED
      BY <3>1, <3>4, <3>5, OneRowLawful
  <2>7. CASE Settle(w) /\ ~UNCHANGED job
    <3> DEFINE end == IF job[j].cancel_requested THEN "cancelled" ELSE "failed"
    <3>1. j \in Job /\ job[j] \in Row
      BY <2>1, <2>7 DEF Settle
    <3>2. job[j].status \in Active /\ job' = [job EXCEPT ![j] = Updated(job[j], end)]
      BY <2>7 DEF Settle, Active
    <3>3. end \in Active \cup Terminal /\ end # "succeeded"
      BY DEF Terminal
    <3> HIDE DEF j, end
    <3>4. MayBecome(job[j], Updated(job[j], end))
      BY <3>1, <3>2, <3>3, UpdatesAreLawful
    <3>5. Updated(job[j], end) \in Row
      BY <3>1, <3>3, UpdatedFacts
    <3>6. QED
      BY <3>1, <3>2, <3>4, <3>5, OneRowLawful
  <2>8. QED
    BY <1>4, <2>2, <2>3, <2>4, <2>5, <2>6, <2>7
       DEF WorkerStep, ClaimRefused, Begin, Retrieve, Fail, Crash
<1>5. ASSUME NEW w \in Worker, NEW j \in Job, Deliver(w, j)
      PROVE  MayBecome(job[i], job'[i])
  BY <1>1, <1>5 DEF Deliver
<1>6. CASE Tick
  <2>1. job[i] \in Row /\ job'[i] = Aged(job[i])
    BY <1>6, InHand DEF Tick
  <2>2. SameButClocks(Aged(job[i]), job[i])
    BY <2>1, ClockFacts
  <2>3. QED
    BY <2>1, <2>2, ClocksAreLawful
<1>7. CASE UNCHANGED vars
  BY <1>1, <1>7 DEF vars
<1>8. QED
  BY <1>2, <1>3, <1>4, <1>5, <1>6, <1>7 DEF Next

\* An ended job keeps its status, whoever still holds a copy of its row.
THEOREM EndsAreFinal == Spec => TerminalIsFinal
<1>1. IndInv /\ [Next]_vars =>
        [\A j \in Job : job[j].status \in Terminal => job'[j].status = job[j].status]_vars
  BY EveryStepIsLawful DEF MayBecome
<1>2. QED
  BY <1>1, InvariantHolds, PTL DEF Spec, TerminalIsFinal

\* A cancel request is never withdrawn, and its attempt publishes no answer.
THEOREM CancelsStick == Spec => CancelSticks
<1>1. IndInv /\ [Next]_vars =>
        [\A j \in Job : job[j].cancel_requested =>
            /\ job'[j].cancel_requested
            /\ job'[j].status = "succeeded" => job[j].status = "succeeded"]_vars
  BY EveryStepIsLawful DEF MayBecome
<1>2. QED
  BY <1>1, InvariantHolds, PTL DEF Spec, CancelSticks

-------------------------------------------------------------------------------
(* LeasedJobs implements RunContract. *)

FateOf(status) ==
    CASE status = "absent"    -> "unborn"
      [] status \in Active    -> "live"
      [] status = "succeeded" -> "won"
      [] OTHER                -> "lost"

\* A step that writes one row changes one fate at most.
LEMMA OneFate ==
    ASSUME IndInv, NEW j \in Job, NEW new \in Row, job' = [job EXCEPT ![j] = new]
    PROVE  [i \in Job |-> Fate(i)]' =
               [[i \in Job |-> Fate(i)] EXCEPT ![j] = FateOf(new.status)]
<1>1. job'[j] = new /\ \A i \in Job \ {j} : job'[i] = job[i]
  BY InHand, OneRowWritten
<1>2. Fate(j)' = FateOf(new.status)
  BY <1>1 DEF Fate, FateOf
<1>3. \A i \in Job \ {j} : Fate(i)' = Fate(i)
  BY <1>1 DEF Fate
<1>4. QED
  BY <1>2, <1>3

\* A step that begins and ends no attempt changes no fate.
LEMMA SameFates ==
    ASSUME \A i \in Job : \/ job'[i].status = job[i].status
                          \/ job'[i].status \in Active /\ job[i].status \in Active,
           run'.answers = run.answers
    PROVE  UNCHANGED Contract!vars
<1>1. \A i \in Job : Fate(i)' = Fate(i)
  BY DEF Fate, Active
<1>2. QED
  BY <1>1 DEF Contract!vars

\* Inserting the row of a new attempt opens it.
LEMMA InsertionOpens ==
    ASSUME IndInv, NEW c \in Job, job[c].status = "absent",
           \A i \in Job : job[i].status \in {"absent", "failed", "cancelled"},
           NEW new \in Row, new.status = "queued", job' = [job EXCEPT ![c] = new],
           run'.answers = run.answers
    PROVE  Contract!Open(c)
<1>1. [i \in Job |-> Fate(i)]' = [[i \in Job |-> Fate(i)] EXCEPT ![c] = "live"]
  BY OneFate DEF FateOf, Active
<1>2. Fate(c) = "unborn" /\ \A i \in Job : Fate(i) \notin {"live", "won"}
  BY DEF Fate, Active
<1>3. QED
  BY <1>1, <1>2 DEF Contract!Open

\* Ending the row of an unfinished attempt without an answer loses it.
LEMMA EndingLoses ==
    ASSUME IndInv, NEW j \in Job, job[j].status \in Active,
           NEW new \in Row, new.status \in {"failed", "cancelled"},
           job' = [job EXCEPT ![j] = new], run'.answers = run.answers
    PROVE  Contract!Lose(j)
<1>1. [i \in Job |-> Fate(i)]' = [[i \in Job |-> Fate(i)] EXCEPT ![j] = "lost"]
  BY OneFate DEF FateOf, Active
<1>2. Fate(j) = "live"
  BY DEF Fate, Active
<1>3. QED
  BY <1>1, <1>2 DEF Contract!Lose

\* The last guarded transaction of execute_answer wins.
LEMMA AnsweringWins ==
    ASSUME IndInv, NEW w \in Worker, Answer(w)
    PROVE  worker[w].job \in Job /\ Contract!Win(worker[w].job)
<1> DEFINE j == worker[w].job
           new == Updated(job[j], "succeeded")
<1>1. j \in Job /\ job[j] \in Row /\ job[j].status = "running"
  BY InHand DEF Answer, HoldsLease
<1>2. new \in Row /\ new.status = "succeeded" /\ job' = [job EXCEPT ![j] = new]
  BY <1>1, UpdatedFacts DEF Answer, Terminal
<1>3. run'.answers = run.answers + 1
  <2>1. run = [status |-> run.status, job |-> run.job, answers |-> run.answers]
    BY InHand
  <2>2. run' = [run EXCEPT !.status = "succeeded", !.answers = run.answers + 1]
    BY DEF Answer
  <2>3. QED
    BY <2>1, <2>2
<1>4. Fate(j) = "live"
  BY <1>1 DEF Fate, Active
<1> HIDE DEF j, new
<1>5. [i \in Job |-> Fate(i)]' = [[i \in Job |-> Fate(i)] EXCEPT ![j] = "won"]
  BY <1>1, <1>2, OneFate DEF FateOf, Active
<1>6. Contract!Win(j)
  BY <1>1, <1>3, <1>4, <1>5 DEF Contract!Win
<1>7. QED
  BY <1>1, <1>6 DEF j

\* Requests, publisher and sweeper open or lose an attempt, or stutter.
LEMMA JobStepsImplement ==
    ASSUME IndInv, NEW j \in Job, JobStep(j)
    PROVE  Contract!Next \/ UNCHANGED Contract!vars
<1>1. CASE Ask(j)
  <2>1. \A i \in Job : job[i].status = "absent"
    BY <1>1 DEF IndInv, TypeOK, ReferencesExist, Ask
  <2>2. NewRow(NoJob, 1) \in Row /\ NewRow(NoJob, 1).status = "queued"
    BY NewRowFacts
  <2>3. job' = [job EXCEPT ![j] = NewRow(NoJob, 1)]
    BY <1>1 DEF Ask
  <2>4. run'.answers = run.answers
    <3>1. run = [status |-> run.status, job |-> run.job, answers |-> run.answers]
      BY InHand
    <3>2. QED
      BY <1>1, <3>1 DEF Ask
  <2>5. Contract!Open(j)
    BY <2>1, <2>2, <2>3, <2>4, InsertionOpens
  <2>6. QED
    BY <2>5 DEF Contract!Next
<1>2. CASE CancelRead(j) \/ Publish(j) \/ PublishCrash(j) \/ SendFails(j)
  <2>1. UNCHANGED <<job, run>>
    BY <1>2 DEF CancelRead, Publish, PublishCrash, SendFails
  <2>2. QED
    BY <2>1, SameFates
<1> DEFINE flagged == [job[j] EXCEPT !.cancel_requested = TRUE]
<1>3. flagged \in Row /\ flagged.status = job[j].status
  BY InHand, FlaggedFacts
<1>4. ASSUME job' = [job EXCEPT ![j] = flagged], UNCHANGED run
      PROVE  UNCHANGED Contract!vars
  <2> HIDE DEF flagged
  <2>1. \A i \in Job : job'[i].status = job[i].status
    BY <1>3, <1>4, InHand, OneRowWritten
  <2>2. QED
    BY <1>4, <2>1, SameFates
<1>5. CASE CancelWrite(j)
  <2>1. job' = [job EXCEPT ![j] = flagged] /\ UNCHANGED run
    BY <1>5 DEF CancelWrite
  <2>2. QED
    BY <1>4, <2>1
<1>6. CASE CancelRun(j)
  <2>1. job[j].status \in Active
    BY <1>6 DEF CancelRun
  <2>2. CASE job[j].status = "queued"
    <3>1. job' = [job EXCEPT ![j] = Updated(flagged, "cancelled")]
      BY <1>6, <2>2 DEF CancelRun
    <3>2. run'.answers = run.answers
      <4>1. run = [status |-> run.status, job |-> run.job, answers |-> run.answers]
        BY InHand
      <4>2. QED
        BY <1>6, <2>2, <4>1 DEF CancelRun
    <3> HIDE DEF flagged
    <3>3. /\ Updated(flagged, "cancelled") \in Row
          /\ Updated(flagged, "cancelled").status = "cancelled"
      BY <1>3, UpdatedFacts DEF Terminal
    <3>4. Contract!Lose(j)
      BY <2>1, <3>1, <3>2, <3>3, EndingLoses
    <3>5. QED
      BY <3>4 DEF Contract!Next
  <2>3. CASE job[j].status # "queued"
    <3>1. job' = [job EXCEPT ![j] = flagged] /\ UNCHANGED run
      BY <1>6, <2>3 DEF CancelRun
    <3>2. QED
      BY <1>4, <3>1
  <2>4. QED
    BY <2>2, <2>3
<1>7. CASE Sweep(j)
  <2>1. job[j].status \in Active /\ job[j] \in Row
    BY <1>7, InHand DEF Sweep, Stale, Active
  <2>2. job' = [job EXCEPT ![j] = Updated(job[j], "failed")] /\ UNCHANGED run
    BY <1>7 DEF Sweep
  <2>3. /\ Updated(job[j], "failed") \in Row
        /\ Updated(job[j], "failed").status = "failed"
    BY <2>1, UpdatedFacts DEF Terminal
  <2>4. Contract!Lose(j)
    BY <2>1, <2>2, <2>3, EndingLoses
  <2>5. QED
    BY <2>4 DEF Contract!Next
<1>8. QED
  BY <1>1, <1>2, <1>5, <1>6, <1>7 DEF JobStep

\* Workers win or lose an attempt, or stutter.
LEMMA WorkerStepsImplement ==
    ASSUME IndInv, NEW w \in Worker, WorkerStep(w)
    PROVE  Contract!Next \/ UNCHANGED Contract!vars
<1> DEFINE j == worker[w].job
<1>1. worker[w].at # "idle" => j \in Job /\ job[j] \in Row
  BY InHand
<1>2. run = [status |-> run.status, job |-> run.job, answers |-> run.answers]
  BY InHand
<1>3. CASE UNCHANGED job /\ run'.answers = run.answers
  BY <1>3, SameFates
<1>4. CASE Claim(w)
  <2>1. j \in Job /\ job[j] \in Row /\ job[j].status \in Active
    BY <1>1, <1>4 DEF Claim, Claimable
  <2>2. job' = [job EXCEPT ![j] = Claimed(job[j], w)] /\ UNCHANGED run
    BY <1>4 DEF Claim
  <2>3. Claimed(job[j], w) \in Row /\ Claimed(job[j], w).status \in Active
    BY <2>1, ClaimedFacts DEF Active
  <2> HIDE DEF j
  <2>4. \A i \in Job : \/ job'[i].status = job[i].status
                       \/ job'[i].status \in Active /\ job[i].status \in Active
    BY <2>1, <2>2, <2>3, InHand, OneRowWritten
  <2>5. QED
    BY <2>2, <2>4, SameFates
<1>5. CASE Heartbeat(w) \/ Release(w)
  <2>1. PICK new \in {Renewed(job[j]), Released(job[j], w)} :
            job' = [job EXCEPT ![j] = new] /\ UNCHANGED run
    BY <1>5 DEF Heartbeat, Release
  <2>2. j \in Job /\ job[j] \in Row
    BY <1>1, <1>5 DEF Heartbeat, Release, Fenced
  <2>3. new \in Row /\ new.status = job[j].status
    BY <2>1, <2>2, ClockFacts DEF SameButClocks
  <2> HIDE DEF j
  <2>4. \A i \in Job : job'[i].status = job[i].status
    BY <2>1, <2>2, <2>3, InHand, OneRowWritten
  <2>5. QED
    BY <2>1, <2>4, SameFates
<1>6. CASE Answer(w)
  BY <1>6, AnsweringWins DEF Contract!Next
<1>7. CASE Settle(w) /\ ~UNCHANGED job
  <2> DEFINE end == IF job[j].cancel_requested THEN "cancelled" ELSE "failed"
  <2>1. j \in Job /\ job[j] \in Row
    BY <1>1, <1>7 DEF Settle
  <2>2. job[j].status \in Active /\ job' = [job EXCEPT ![j] = Updated(job[j], end)]
    BY <1>7 DEF Settle, Active
  <2>3. run'.answers = run.answers
    BY <1>2, <1>7 DEF Settle
  <2>4. end \in {"failed", "cancelled"}
    OBVIOUS
  <2> HIDE DEF j, end
  <2>5. Updated(job[j], end) \in Row /\ Updated(job[j], end).status = end
    BY <2>1, <2>4, UpdatedFacts DEF Terminal
  <2>6. Contract!Lose(j)
    BY <2>1, <2>2, <2>3, <2>4, <2>5, EndingLoses
  <2>7. QED
    BY <2>1, <2>6 DEF Contract!Next
<1>8. run'.answers = run.answers \/ Answer(w)
  BY <1>2
     DEF WorkerStep, Claim, ClaimRefused, Heartbeat, Begin, Retrieve, Fail,
         Release, Settle, Crash
<1>9. QED
  BY <1>3, <1>4, <1>5, <1>6, <1>7, <1>8
     DEF WorkerStep, ClaimRefused, Begin, Retrieve, Fail, Crash

\* Every step is one of the contract or a stutter.
LEMMA StepsImplement ==
    ASSUME IndInv, [Next]_vars
    PROVE  Contract!Next \/ UNCHANGED Contract!vars
<1>1. ASSUME NEW j \in Job, NEW c \in Job, Retry(j, c)
      PROVE  Contract!Next
  <2>1. \A i \in Job : job[i].status \in {"absent", "failed", "cancelled"}
    BY <1>1 DEF IndInv, CurrentAttemptOnly, Retry
  <2>2. /\ NewRow(j, job[j].attempt + 1) \in Row
        /\ NewRow(j, job[j].attempt + 1).status = "queued"
    BY InHand, NewRowFacts DEF Row
  <2>3. job' = [job EXCEPT ![c] = NewRow(j, job[j].attempt + 1)]
    BY <1>1 DEF Retry
  <2>4. run'.answers = run.answers
    <3>1. run = [status |-> run.status, job |-> run.job, answers |-> run.answers]
      BY InHand
    <3>2. QED
      BY <1>1, <3>1 DEF Retry
  <2>5. Contract!Open(c)
    BY <1>1, <2>1, <2>2, <2>3, <2>4, InsertionOpens DEF Retry
  <2>6. QED
    BY <2>5 DEF Contract!Next
<1>2. CASE Tick
  <2>1. \A i \in Job : job'[i].status = job[i].status
    BY <1>2, InHand, ClockFacts DEF Tick, SameButClocks
  <2>2. QED
    BY <1>2, <2>1, SameFates DEF Tick
<1>3. ASSUME NEW w \in Worker, NEW j \in Job, Deliver(w, j)
      PROVE  UNCHANGED Contract!vars
  BY <1>3, SameFates DEF Deliver
<1>4. CASE UNCHANGED vars
  BY <1>4, SameFates DEF vars
<1>5. QED
  BY <1>1, <1>2, <1>3, <1>4, JobStepsImplement, WorkerStepsImplement DEF Next

\* Seen from outside, attempts and answers behave as RunContract says: attempts
\* succeed one another and at most one wins.
THEOREM AttemptsImplementTheContract == Spec => ImplementsContract
<1>1. ASSUME Init
      PROVE  Contract!Init
  <2>1. \A j \in Job : Fate(j) = "unborn"
    <3>1. \A j \in Job : job[j].status = "absent"
      BY <1>1, AbsentFacts DEF Init
    <3>2. QED
      BY <3>1 DEF Fate, Active
  <2>2. run.answers = 0
    BY <1>1 DEF Init
  <2>3. QED
    BY <2>1, <2>2 DEF Contract!Init
<1>2. IndInv /\ [Next]_vars => [Contract!Next]_(Contract!vars)
  BY StepsImplement
<1>3. QED
  BY <1>1, <1>2, InvariantHolds, PTL DEF Spec, ImplementsContract, Contract!Spec
===============================================================================
