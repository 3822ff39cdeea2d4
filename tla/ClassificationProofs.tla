------------------------- MODULE ClassificationProofs -------------------------
(***************************************************************************)
(* Proofs about Classification, for any number of attempts, workers,       *)
(* edits, messages and losses.                                             *)
(***************************************************************************)
EXTENDS Classification, TLAPS

(***************************************************************************)
(* Why an attempt that was assessed is not taken back by its own executor: *)
(* the copy a worker holds may be old, but a flag on it was set before the *)
(* copy was made and is still set.  If the attempt was unfinished then, it *)
(* can never be assessed, since Accept asks for a row without the flag.    *)
(* And a copy that says cancelled is right: no other status follows.       *)
(***************************************************************************)
CopyIsOld(w) ==
    /\ worker[w].copy.cancel_requested =>
          /\ job[JobOf(w)].cancel_requested
          /\ worker[w].copy.status \in Active => assessed[JobOf(w)] = 0
    /\ worker[w].copy.status = "cancelled" => job[JobOf(w)].status = "cancelled"

\* What a busy worker works for exists.
WorkerFits(w) ==
    worker[w].at # "idle" =>
        /\ JobOf(w) \in Job
        /\ job[JobOf(w)].status # "absent"
        /\ CopyIsOld(w)

\* An attempt that exists has a run, a message an attempt that exists.
RowFits(j) ==
    /\ job[j].status # "absent" => run[j].version > 0
    /\ mail[j] > 0 => job[j].status # "absent"

IndInv ==
    /\ ClassificationInv /\ OutcomesAgree
    /\ \A w \in Worker : WorkerFits(w)
    /\ \A j \in Job : RowFits(j)

Copies == [status : Active \cup Terminal \cup {"absent"}, cancel_requested : BOOLEAN]
Workers == [at : Places, job : Job \cup {NoJob}, fit : BOOLEAN, copy : Copies]
Runs == [status : Active \cup Terminal \cup {"absent"}, cancel_requested : BOOLEAN,
         version : 0 .. MaxEdits + 1]
Events == [status : {"confirmed", "superseded"}, version : 1 .. MaxEdits + 1]

\* The types of the variables, without what TypeOK says of references.
Typed ==
    /\ event \in Events
    /\ job \in [Job -> Row]
    /\ run \in [Job -> Runs]
    /\ assessed \in [Job -> Nat]
    /\ mail \in [Job -> Nat]
    /\ worker \in [Worker -> Workers]
    /\ cancelling \in SUBSET (Job \X Requests)
    /\ faults \in 0 .. MaxFaults

\* AssessedOnce and OutcomesAgree, of one attempt.
AssessedFits(j) ==
    /\ assessed[j] > 0 =>
          /\ assessed[j] = 1
          /\ job[j].status \in {"succeeded", "cancelled"}
          /\ run[j].status \in {"succeeded", "cancelled"}
          /\ job[j].status = "cancelled" => run[j].cancel_requested
    /\ job[j].status = "succeeded" => assessed[j] = 1 /\ run[j].status = "succeeded"
    /\ job[j].status = "failed" => run[j].status # "succeeded"
    /\ run[j].status = "succeeded" =>
          assessed[j] = 1 \/ (job[j].status = "cancelled" /\ job[j].cancel_requested)
    /\ run[j].status = "cancelled" => job[j].status = "cancelled"
    /\ run[j].status = "failed" => job[j].status \in {"failed", "cancelled"}

\* The invariant in the pieces the proofs below use.
LEMMA InHand ==
    IndInv <=> /\ Typed
               /\ \A w \in Worker : WorkerFits(w)
               /\ \A j \in Job : RowFits(j) /\ AssessedFits(j)
<1>1. Typed /\ (\A w \in Worker : WorkerFits(w)) /\ (\A j \in Job : RowFits(j)) => TypeOK
  BY DEF Typed, TypeOK, WorkerFits, RowFits, JobOf, Workers, Copies, Runs, Events
<1>2. TypeOK => Typed
  BY DEF Typed, TypeOK, Workers, Copies, Runs, Events
<1>3. QED
  BY <1>1, <1>2 DEF IndInv, ClassificationInv, AssessedOnce, OutcomesAgree, AssessedFits

-------------------------------------------------------------------------------
(* Rows. *)

\* Lease and silence are measured in natural numbers of ticks.
LEMMA Durations == LeaseSeconds \in Nat /\ StaleAfter \in Nat
BY TimeoutsArePositive

\* The row of a new attempt and the row that was never inserted.
LEMMA BlankFacts ==
    /\ Absent \in Row /\ Absent.status = "absent"
    /\ NewRow(NoJob, 1) \in Row /\ NewRow(NoJob, 1).status = "queued"
BY Durations DEF Absent, NewRow, RowOf, Row, Active

\* update_job moves the status and leaves flag and token alone.
LEMMA UpdatedFacts ==
    ASSUME NEW row \in Row, NEW status \in Active \cup Terminal \cup {"absent"}
    PROVE  /\ Updated(row, status) \in Row
           /\ Updated(row, status).status = status
           /\ Updated(row, status).cancel_requested = row.cancel_requested
<1> DEFINE silence == IF status = "running" THEN 0 ELSE row.silence
<1>1. silence \in 0 .. StaleAfter + 1
  BY Durations DEF Row
<1>2. Updated(row, status) = [row EXCEPT !.status = status, !.silence = silence]
  BY DEF Updated
<1> HIDE DEF silence
<1>3. QED
  BY <1>1, <1>2 DEF Row

\* claim_job makes the row running and leaves the flag alone.
LEMMA ClaimedFacts ==
    ASSUME NEW row \in Row, NEW w \in Worker
    PROVE  /\ Claimed(row, w) \in Row
           /\ Claimed(row, w).status = "running"
           /\ Claimed(row, w).cancel_requested = row.cancel_requested
<1>1. LeaseSeconds \in 0 .. LeaseSeconds /\ 0 \in 0 .. StaleAfter + 1
  BY Durations
<1>2. QED
  BY <1>1 DEF Claimed, Row, Active

\* What touches nothing but the two clocks.
Alike(new, row) ==
    /\ new \in Row
    /\ new.status = row.status
    /\ new.cancel_requested = row.cancel_requested

\* Heartbeat, release, the clock and the mark that a worker is there.
LEMMA ClockFacts ==
    ASSUME NEW row \in Row, NEW w
    PROVE  /\ Alike(Renewed(row), row)
           /\ Alike(Released(row, w), row)
           /\ Alike(Aged(row), row)
           /\ Alike([row EXCEPT !.silence = 0], row)
<1>1. LeaseSeconds \in 0 .. LeaseSeconds /\ 0 \in 0 .. StaleAfter + 1
         /\ 0 \in 0 .. LeaseSeconds
  BY Durations
<1>2. Alike(Renewed(row), row) /\ Alike([row EXCEPT !.silence = 0], row)
  BY <1>1 DEF Renewed, Alike, Row
<1>3. Alike(Released(row, w), row)
  BY <1>1 DEF Released, Alike, Row
<1> DEFINE lease == IF row.lease = 0 THEN 0 ELSE row.lease - 1
           silence == IF row.silence > StaleAfter THEN row.silence ELSE row.silence + 1
<1>4. row.lease \in 0 .. LeaseSeconds /\ row.silence \in 0 .. StaleAfter + 1
  BY DEF Row
<1>5. lease \in 0 .. LeaseSeconds /\ silence \in 0 .. StaleAfter + 1
  BY <1>4, Durations
<1>6. Aged(row) = IF row.status = "running"
                  THEN [row EXCEPT !.lease = lease, !.silence = silence] ELSE row
  BY DEF Aged
<1> HIDE DEF lease, silence
<1>7. Alike(Aged(row), row)
  BY <1>5, <1>6 DEF Alike, Row
<1>8. QED
  BY <1>2, <1>3, <1>7

\* A status the copy may change to is a status, and a status update_job writes.
LEMMA WrittenStatus ==
    ASSUME NEW stored \in Active \cup Terminal,
           NEW loaded \in Active \cup Terminal \cup {"absent"},
           "cancelled" \in Transitions(loaded)
    PROVE  /\ Flushed(stored, loaded, "cancelled") \in {stored, "cancelled"}
           /\ Flushed(stored, loaded, "cancelled") # stored => loaded \in Active
BY DEF Flushed, Transitions, Active, Terminal

-------------------------------------------------------------------------------
(* What every step has to keep. *)

\* Attempts neither disappear nor lose a flag, and a flagged one is not
\* assessed any more.
Onward(j) ==
    /\ job[j].status # "absent" =>
          /\ job'[j].status # "absent"
          /\ job[j].cancel_requested => job'[j].cancel_requested
          /\ job[j].status = "cancelled" => job'[j].status = "cancelled"
    /\ assessed'[j] # assessed[j] => ~job[j].cancel_requested

\* The pieces make up the invariant after a step, too.
LEMMA Rebuilt ==
    ASSUME Typed', \A w \in Worker : WorkerFits(w)',
           \A j \in Job : RowFits(j)' /\ AssessedFits(j)'
    PROVE  IndInv'
<1>1. TypeOK'
  BY DEF Typed, TypeOK, WorkerFits, RowFits, JobOf, Workers, Copies, Runs, Events
<1>2. QED
  BY <1>1 DEF IndInv, ClassificationInv, AssessedOnce, OutcomesAgree, AssessedFits

\* A step that keeps the shape of the rows, and leaves every worker as it was
\* or fit, keeps the invariant.
LEMMA StepKeeps ==
    ASSUME IndInv, Typed',
           \A j \in Job : Onward(j) /\ RowFits(j)' /\ AssessedFits(j)',
           \A w \in Worker : worker'[w] = worker[w] \/ WorkerFits(w)'
    PROVE  IndInv'
<1>1. ASSUME NEW w \in Worker, worker'[w] = worker[w] PROVE WorkerFits(w)'
  BY <1>1, InHand DEF WorkerFits, CopyIsOld, JobOf, Onward
<1>2. QED
  BY <1>1, Rebuilt

\* A step on one attempt and at most one worker.
LEMMA OneAttempt ==
    ASSUME IndInv, Typed', NEW j \in Job, NEW w \in Worker,
           \A i \in Job \ {j} : /\ job'[i] = job[i] /\ run'[i] = run[i]
                                /\ assessed'[i] = assessed[i] /\ mail'[i] = mail[i],
           \A v \in Worker \ {w} : worker'[v] = worker[v],
           Onward(j), RowFits(j)', AssessedFits(j)',
           worker'[w] = worker[w] \/ WorkerFits(w)'
    PROVE  IndInv'
<1>1. ASSUME NEW i \in Job, i # j PROVE Onward(i) /\ RowFits(i)' /\ AssessedFits(i)'
  BY <1>1, InHand DEF Onward, RowFits, AssessedFits
<1>2. QED
  BY <1>1, StepKeeps

-------------------------------------------------------------------------------
(* The worker's own record. *)

\* Moving on keeps attempt and copy.
LEMMA MovesFacts ==
    ASSUME worker \in [Worker -> Workers], NEW w \in Worker,
           NEW place \in Places, Moves(w, place)
    PROVE  /\ worker' \in [Worker -> Workers]
           /\ worker'[w].at = place
           /\ worker'[w].job = worker[w].job
           /\ worker'[w].copy = worker[w].copy
           /\ \A v \in Worker \ {w} : worker'[v] = worker[v]
<1>1. worker' = [worker EXCEPT ![w] = [worker[w] EXCEPT !.at = place]]
  BY DEF Moves
<1>2. worker[w] \in Workers
  OBVIOUS
<1>3. QED
  BY <1>1, <1>2 DEF Workers

Reloads(w, place, copy) ==
    worker' = [worker EXCEPT ![w].at = place, ![w].copy = copy]

\* A fresh copy replaces the old one.
LEMMA ReloadFacts ==
    ASSUME worker \in [Worker -> Workers], NEW w \in Worker,
           NEW place \in Places, NEW copy \in Copies,
           Reloads(w, place, copy)
    PROVE  /\ worker' \in [Worker -> Workers]
           /\ worker'[w].at = place
           /\ worker'[w].job = worker[w].job
           /\ worker'[w].copy = copy
           /\ \A v \in Worker \ {w} : worker'[v] = worker[v]
<1>1. worker' = [worker EXCEPT ![w] = [worker[w] EXCEPT !.at = place, !.copy = copy]]
  BY DEF Reloads
<1>2. worker[w] \in Workers
  OBVIOUS
<1>3. QED
  BY <1>1, <1>2 DEF Workers

\* The idle worker holds nothing.
LEMMA AcksFacts ==
    ASSUME worker \in [Worker -> Workers], NEW w \in Worker, Acks(w)
    PROVE  /\ worker' \in [Worker -> Workers]
           /\ worker'[w].at = "idle"
           /\ \A v \in Worker \ {w} : worker'[v] = worker[v]
<1>1. Idle \in Workers /\ Idle.at = "idle"
  BY DEF Idle, Workers, NoCopy, Copies, Places
<1>2. QED
  BY <1>1 DEF Acks

\* What a session loads is a copy, and not an old one.
LEMMA CopyFacts ==
    ASSUME IndInv, NEW j \in Job
    PROVE  /\ CopyOf(j) \in Copies
           /\ CopyOf(j).status = job[j].status
           /\ CopyOf(j).cancel_requested = job[j].cancel_requested
           /\ job[j].status \in Active => assessed[j] = 0
<1>1. job[j] \in Row /\ assessed[j] \in Nat /\ AssessedFits(j)
  BY InHand DEF Typed
<1>2. QED
  BY <1>1 DEF CopyOf, Copies, Row, AssessedFits, Active

-------------------------------------------------------------------------------
(* The steps. *)

\* The empty state.
LEMMA Initially == Init => IndInv
<1>1. NoRun \in Runs /\ NoRun.version = 0 /\ NoRun.status = "absent" /\ Idle \in Workers /\ Idle.at = "idle"
  BY ClassificationBounds
     DEF NoRun, Runs, Idle, Workers, NoCopy, Copies, Places
<1>2. ASSUME Init PROVE Typed
  BY <1>1, <1>2, BlankFacts, ClassificationBounds DEF Init, Typed, Events
<1>3. ASSUME Init PROVE /\ \A w \in Worker : WorkerFits(w)
                        /\ \A j \in Job : RowFits(j) /\ AssessedFits(j)
  BY <1>1, <1>3, BlankFacts DEF Init, WorkerFits, RowFits, AssessedFits
<1>4. QED
  BY <1>2, <1>3, InHand

\* A first attempt: nothing has been committed and no worker is busy yet.
LEMMA ClassifyKeeps ==
    ASSUME IndInv, NEW j \in Job, Classify(j)
    PROVE  IndInv'
<1>1. \A i \in Job : job[i].status = "absent" /\ assessed[i] = 0 /\ mail[i] = 0
  BY InHand DEF Classify, AssessedFits, RowFits, Typed
<1>2. NewRow(NoJob, 1) \in Row /\ NewRow(NoJob, 1).status = "queued"
  BY BlankFacts
<1> DEFINE fresh == [status |-> "queued", cancel_requested |-> FALSE,
                     version |-> event.version]
<1>3. fresh \in Runs /\ fresh.version > 0
  BY InHand, ClassificationBounds DEF Typed, Events, Runs, Active
<1>4. PICK copies \in 1 .. MaxCopies : mail' = [mail EXCEPT ![j] = copies]
  BY DEF Classify
<1>5. Typed'
  BY <1>2, <1>3, <1>4, InHand, ClassificationBounds DEF Classify, Typed
<1>6. /\ job'[j].status = "queued" /\ run'[j].version > 0 /\ assessed'[j] = 0
      /\ \A i \in Job \ {j} : job'[i] = job[i] /\ run'[i] = run[i] /\ mail'[i] = mail[i]
  BY <1>1, <1>2, <1>3, <1>4, InHand DEF Classify, Typed
<1>7. \A i \in Job : Onward(i) /\ RowFits(i)' /\ AssessedFits(i)'
  BY <1>1, <1>6, InHand DEF Classify, Onward, RowFits, AssessedFits
<1>8. QED
  BY <1>5, <1>7, StepKeeps DEF Classify

\* Reads and edits leave every attempt as it was.
LEMMA ReadsKeep ==
    ASSUME IndInv,
           \/ \E j \in Job, kind \in Requests : CancelRead(j, kind)
           \/ Edit \/ Supersede
    PROVE  IndInv'
<1>1. Typed' /\ UNCHANGED <<job, run, assessed, mail, worker>>
  BY InHand, ClassificationBounds DEF Typed, CancelRead, Edit, Supersede, Events
<1>2. \A i \in Job : Onward(i) /\ RowFits(i)' /\ AssessedFits(i)'
  BY <1>1, InHand DEF Onward, RowFits, AssessedFits
<1>3. QED
  BY <1>1, <1>2, StepKeeps

\* A cancel request raises flags and changes no status.
LEMMA CancelWriteKeeps ==
    ASSUME IndInv, NEW j \in Job, NEW kind \in Requests, CancelWrite(j, kind)
    PROVE  IndInv'
<1>1. /\ [job[j] EXCEPT !.cancel_requested = TRUE] \in Row
      /\ [run[j] EXCEPT !.cancel_requested = TRUE] \in Runs
  BY InHand DEF Typed, Row, Runs
<1>2. Typed'
  BY <1>1, InHand DEF CancelWrite, Typed
<1>3. /\ job'[j] \in {job[j], [job[j] EXCEPT !.cancel_requested = TRUE]}
      /\ run'[j] \in {run[j], [run[j] EXCEPT !.cancel_requested = TRUE]}
      /\ \A i \in Job \ {j} : job'[i] = job[i] /\ run'[i] = run[i]
  BY InHand DEF CancelWrite, Typed
<1>4. /\ job'[j].status = job[j].status
      /\ job[j].cancel_requested => job'[j].cancel_requested
      /\ run'[j].status = run[j].status /\ run'[j].version = run[j].version
      /\ run[j].cancel_requested => run'[j].cancel_requested
  BY <1>3, InHand DEF Typed, Row, Runs
<1>5. \A i \in Job : Onward(i) /\ RowFits(i)' /\ AssessedFits(i)'
  BY <1>3, <1>4, InHand DEF CancelWrite, Onward, RowFits, AssessedFits
<1>6. QED
  BY <1>2, <1>5, StepKeeps DEF CancelWrite

\* A message names an attempt that exists, and the copy loaded is fresh.
LEMMA OpenKeeps ==
    ASSUME IndInv, NEW w \in Worker, NEW j \in Job, Open(w, j)
    PROVE  IndInv'
<1>1. /\ CopyOf(j) \in Copies /\ CopyOf(j).status = job[j].status
      /\ CopyOf(j).cancel_requested = job[j].cancel_requested
      /\ job[j].status \in Active => assessed[j] = 0
      /\ job[j].status # "absent"
  BY CopyFacts, InHand DEF Open, RowFits
<1> DEFINE fit == event.status = "confirmed" /\ event.version = run[j].version
           new == [at |-> "opened", job |-> j, copy |-> CopyOf(j), fit |-> fit]
<1>2. fit \in BOOLEAN
  OBVIOUS
<1>3. worker' = worker \/ worker' = [worker EXCEPT ![w] = new]
  BY DEF Open
<1> HIDE DEF fit
<1>4. new \in Workers
  BY <1>1, <1>2 DEF Workers, Places
<1>5. worker \in [Worker -> Workers] /\ mail \in [Job -> Nat] /\ mail[j] > 0
  BY InHand DEF Typed, Open
<1>6. worker'[w] = worker[w] \/ worker'[w] = new
  BY <1>3, <1>5
<1>7. /\ worker' \in [Worker -> Workers]
      /\ \A v \in Worker \ {w} : worker'[v] = worker[v]
  BY <1>3, <1>4, <1>5
<1> HIDE DEF new
<1>8. Typed'
  <2>1. mail' \in [Job -> Nat]
    BY <1>5 DEF Open
  <2>2. QED
    BY <1>7, <2>1, InHand DEF Open, Typed
<1>9. ASSUME worker'[w] = new PROVE WorkerFits(w)'
  BY <1>1, <1>9 DEF new, WorkerFits, CopyIsOld, JobOf, Open
<1>10. \A i \in Job : Onward(i) /\ RowFits(i)' /\ AssessedFits(i)'
  <2>1. \A i \in Job : mail'[i] > 0 => mail[i] > 0
    BY <1>5 DEF Open
  <2>2. QED
    BY <2>1, InHand DEF Open, Onward, RowFits, AssessedFits
<1>11. QED
  BY <1>6, <1>7, <1>8, <1>9, <1>10, StepKeeps

\* What is known of a busy worker and the attempt it works for.
LEMMA Busy ==
    ASSUME IndInv, NEW w \in Worker, worker[w].at # "idle"
    PROVE  /\ JobOf(w) \in Job /\ job[JobOf(w)] \in Row /\ run[JobOf(w)] \in Runs
           /\ job[JobOf(w)].status # "absent" /\ run[JobOf(w)].version > 0
           /\ assessed[JobOf(w)] \in Nat /\ AssessedFits(JobOf(w))
           /\ CopyIsOld(w) /\ worker[w].copy \in Copies
           /\ worker \in [Worker -> Workers]
BY InHand DEF WorkerFits, RowFits, Typed, Workers

\* A worker that goes on with its copy, or lets go, while no status changes
\* and no flag is lost.
LEMMA Passing ==
    ASSUME IndInv, NEW w \in Worker, worker[w].at # "idle",
           job' \in [Job -> Row], \A i \in Job : Alike(job'[i], job[i]),
           UNCHANGED <<event, run, assessed, cancelling>>, faults' \in 0 .. MaxFaults,
           mail' \in [Job -> Nat],
           \A i \in Job : mail'[i] > 0 => mail[i] > 0 \/ i = JobOf(w),
           (\E place \in Places : Moves(w, place)) \/ Acks(w) \/ UNCHANGED worker
    PROVE  IndInv'
<1>1. /\ worker' \in [Worker -> Workers]
      /\ \A v \in Worker \ {w} : worker'[v] = worker[v]
      /\ \/ worker'[w] = worker[w] \/ worker'[w].at = "idle"
         \/ worker'[w].job = worker[w].job /\ worker'[w].copy = worker[w].copy
  BY Busy, MovesFacts, AcksFacts
<1>2. Typed'
  BY <1>1, InHand DEF Typed
<1>3. \A i \in Job : Onward(i) /\ RowFits(i)' /\ AssessedFits(i)'
  BY InHand, Busy DEF Onward, RowFits, AssessedFits, Alike
<1>4. worker'[w] = worker[w] \/ WorkerFits(w)'
  BY <1>1, Busy DEF WorkerFits, CopyIsOld, JobOf, Alike
<1>5. QED
  BY <1>1, <1>2, <1>3, <1>4, StepKeeps

\* One row that keeps status and flag.
LEMMA OneAlike ==
    ASSUME job \in [Job -> Row], NEW j \in Job, NEW new, Alike(new, job[j]),
           job' = [job EXCEPT ![j] = new]
    PROVE  job' \in [Job -> Row] /\ \A i \in Job : Alike(job'[i], job[i])
BY DEF Alike

\* Refusals, failures, heartbeats, releases and losses.
LEMMA PassingKeeps ==
    ASSUME IndInv, NEW w \in Worker,
           ClaimRefused(w) \/ Fail(w) \/ Heartbeat(w) \/ Release(w) \/ Crash(w)
    PROVE  IndInv'
<1>1. worker[w].at # "idle"
  BY DEF ClaimRefused, Fail, Heartbeat, Release, Crash, Leased
<1>2. /\ job \in [Job -> Row] /\ mail \in [Job -> Nat] /\ faults \in 0 .. MaxFaults
      /\ JobOf(w) \in Job /\ \A i \in Job : Alike(job[i], job[i])
  BY <1>1, InHand, Busy DEF Typed, Alike
<1>3. "unwinding" \in Places /\ "settling" \in Places
  BY DEF Places
<1>4. CASE ClaimRefused(w)
  <2>1. mail' \in [Job -> Nat] /\ \A i \in Job : mail'[i] > 0 => mail[i] > 0 \/ i = JobOf(w)
    BY <1>2, <1>4 DEF ClaimRefused
  <2>2. QED
    BY <1>1, <1>2, <1>4, <2>1, Passing DEF ClaimRefused
<1>5. CASE Fail(w)
  BY <1>1, <1>2, <1>3, <1>5, Passing DEF Fail
<1>6. CASE Heartbeat(w)
  <2>1. Alike(Renewed(job[JobOf(w)]), job[JobOf(w)])
    BY <1>2, ClockFacts
  <2>2. job' \in [Job -> Row] /\ \A i \in Job : Alike(job'[i], job[i])
    BY <1>2, <1>6, <2>1, OneAlike DEF Heartbeat
  <2>3. QED
    BY <1>1, <1>2, <1>6, <2>2, Passing DEF Heartbeat
<1>7. CASE Release(w)
  <2>1. Alike(Released(job[JobOf(w)], w), job[JobOf(w)])
    BY <1>2, ClockFacts
  <2>2. job' \in [Job -> Row] /\ \A i \in Job : Alike(job'[i], job[i])
    BY <1>2, <1>7, <2>1, OneAlike DEF Release
  <2>3. QED
    BY <1>1, <1>2, <1>3, <1>7, <2>2, Passing DEF Release
<1>8. CASE Crash(w)
  <2>1. mail' \in [Job -> Nat] /\ \A i \in Job : mail'[i] > 0 => mail[i] > 0 \/ i = JobOf(w)
    BY <1>2, <1>8 DEF Crash
  <2>2. faults' \in 0 .. MaxFaults
    BY <1>2, <1>8, ClassificationBounds DEF Crash
  <2>3. QED
    BY <1>1, <1>2, <1>8, <2>1, <2>2, Passing DEF Crash
<1>9. QED
  BY <1>4, <1>5, <1>6, <1>7, <1>8

\* A worker that writes a status, or reloads its copy, in the row of its
\* attempt.
LEMMA Working ==
    ASSUME IndInv, NEW w \in Worker, worker[w].at # "idle",
           NEW j \in Job, j = JobOf(w),
           UNCHANGED <<event, mail, cancelling, faults>>,
           \A i \in Job \ {j} :
              job'[i] = job[i] /\ run'[i] = run[i] /\ assessed'[i] = assessed[i],
           job' \in [Job -> Row], run' \in [Job -> Runs], assessed' \in [Job -> Nat],
           worker' \in [Worker -> Workers],
           \A v \in Worker \ {w} : worker'[v] = worker[v],
           Onward(j), job'[j].status # "absent",
           run'[j].version = run[j].version, AssessedFits(j)',
           \/ worker'[w].at = "idle"
           \/ worker'[w].job = j /\ worker'[w].copy = worker[w].copy
           \/ worker'[w].job = j /\ worker'[w].copy.status = job'[j].status
                 /\ worker'[w].copy.cancel_requested = job'[j].cancel_requested
    PROVE  IndInv'
<1>1. Typed'
  BY InHand DEF Typed
<1>2. RowFits(j)'
  BY Busy DEF RowFits
<1>3. CASE worker'[w].at = "idle"
  BY <1>1, <1>2, <1>3, OneAttempt DEF WorkerFits
<1>4. CASE worker'[w].job = j /\ worker'[w].copy = worker[w].copy
  <2>1. CopyIsOld(w)'
    BY <1>4, Busy DEF CopyIsOld, JobOf, Onward
  <2>2. WorkerFits(w)'
    BY <1>4, <2>1 DEF WorkerFits, JobOf
  <2>3. QED
    BY <1>1, <1>2, <2>2, OneAttempt
<1>5. CASE worker'[w].job = j /\ worker'[w].copy.status = job'[j].status
             /\ worker'[w].copy.cancel_requested = job'[j].cancel_requested
  <2>1. job'[j].status \in Active => assessed'[j] = 0
    BY <1>1 DEF AssessedFits, Typed, Active
  <2>2. WorkerFits(w)'
    BY <1>5, <2>1 DEF WorkerFits, CopyIsOld, JobOf
  <2>3. QED
    BY <1>1, <1>2, <2>2, OneAttempt
<1>6. QED
  BY <1>3, <1>4, <1>5

\* A status written into one row.
LEMMA StatusWritten ==
    ASSUME job \in [Job -> Row], NEW j \in Job,
           NEW status \in Active \cup Terminal,
           job' = [job EXCEPT ![j] = Updated(@, status)]
    PROVE  /\ job' \in [Job -> Row]
           /\ job'[j].status = status
           /\ job'[j].cancel_requested = job[j].cancel_requested
           /\ \A i \in Job \ {j} : job'[i] = job[i]
<1>1. job[j] \in Row
  OBVIOUS
<1>2. /\ Updated(job[j], status) \in Row /\ Updated(job[j], status).status = status
      /\ Updated(job[j], status).cancel_requested = job[j].cancel_requested
  BY <1>1, UpdatedFacts
<1>3. job' = [job EXCEPT ![j] = Updated(job[j], status)]
  OBVIOUS
<1>4. QED
  BY <1>2, <1>3

\* A status written into one run.
LEMMA RunWritten ==
    ASSUME run \in [Job -> Runs], NEW j \in Job,
           NEW status \in Active \cup Terminal,
           run' = [run EXCEPT ![j].status = status]
    PROVE  /\ run' \in [Job -> Runs]
           /\ run'[j].status = status
           /\ run'[j].cancel_requested = run[j].cancel_requested
           /\ run'[j].version = run[j].version
           /\ \A i \in Job \ {j} : run'[i] = run[i]
<1>1. run[j] \in Runs
  OBVIOUS
<1>2. QED
  BY <1>1 DEF Runs

\* The claim: the attempt is unfinished, so it was not assessed.
LEMMA ClaimKeeps ==
    ASSUME IndInv, NEW w \in Worker, Claim(w)
    PROVE  IndInv'
<1> DEFINE j == JobOf(w)
<1>1. worker[w].at # "idle" /\ job \in [Job -> Row]
  BY InHand DEF Claim, Typed
<1>2. /\ j \in Job /\ job[j] \in Row /\ AssessedFits(j)
      /\ job[j].status \in Active /\ ~job[j].cancel_requested
  BY <1>1, Busy DEF Claim, Claimable
<1>3. /\ Claimed(job[j], w) \in Row /\ Claimed(job[j], w).status = "running"
      /\ Claimed(job[j], w).cancel_requested = job[j].cancel_requested
  BY <1>2, ClaimedFacts
<1>4. /\ job' = [job EXCEPT ![j] = Claimed(job[j], w)] /\ Moves(w, "claimed")
      /\ UNCHANGED <<event, run, assessed, mail, cancelling, faults>>
  BY DEF Claim
<1>5. /\ worker' \in [Worker -> Workers] /\ worker'[w].job = worker[w].job
      /\ worker'[w].copy = worker[w].copy
      /\ \A v \in Worker \ {w} : worker'[v] = worker[v]
  BY <1>1, <1>4, Busy, MovesFacts DEF Places, Leased
<1>6. run \in [Job -> Runs] /\ assessed \in [Job -> Nat] /\ j = worker[w].job
  BY InHand DEF Typed, JobOf
<1>7. assessed[j] = 0
  BY <1>2, <1>6 DEF AssessedFits, Active
<1>8. /\ job' \in [Job -> Row] /\ job'[j].status = "running"
      /\ job'[j].cancel_requested = job[j].cancel_requested
      /\ \A i \in Job \ {j} : job'[i] = job[i]
  BY <1>1, <1>2, <1>3, <1>4
<1>9. \A i \in Job : i = j => Onward(i) /\ AssessedFits(i)'
  BY <1>2, <1>4, <1>7, <1>8 DEF Onward, AssessedFits, Active
<1> HIDE DEF j
<1>10. QED
  BY <1>1, <1>2, <1>4, <1>5, <1>6, <1>8, <1>9, Working DEF j

\* What every proof about one worker's step starts from.
LEMMA AtWork ==
    ASSUME IndInv, NEW w \in Worker, worker[w].at # "idle"
    PROVE  /\ JobOf(w) = worker[w].job /\ JobOf(w) \in Job
           /\ job \in [Job -> Row] /\ run \in [Job -> Runs]
           /\ assessed \in [Job -> Nat] /\ worker \in [Worker -> Workers]
           /\ job[JobOf(w)].status \in Active \cup Terminal
BY InHand, Busy DEF Typed, JobOf, Row

\* The steps that reload the copy; the first of them in the graph marks the
\* run of an attempt that runs and is therefore not assessed.
LEMMA ReloadKeeps ==
    ASSUME IndInv, NEW w \in Worker, Begin(w) \/ Node(w) \/ Finish(w)
    PROVE  IndInv'
<1>1. worker[w].at # "idle"
  BY DEF Begin, Node, Finish
<1>0. PICK j \in Job : j = JobOf(w)
  BY <1>1, AtWork
<1>2. /\ j = worker[w].job
      /\ job \in [Job -> Row] /\ run \in [Job -> Runs]
      /\ assessed \in [Job -> Nat] /\ worker \in [Worker -> Workers]
      /\ AssessedFits(j) /\ job[j].status # "absent"
  BY <1>1, <1>0, AtWork, Busy
<1>3. /\ CopyOf(j) \in Copies /\ CopyOf(j).status = job[j].status
      /\ CopyOf(j).cancel_requested = job[j].cancel_requested
  BY <1>2, CopyFacts
<1>4. PICK place \in Places : Reloads(w, place, CopyOf(j))
  BY <1>0 DEF Reloads, Begin, Node, Finish, Places, Leased
<1>5. /\ worker' \in [Worker -> Workers] /\ worker'[w].job = j
      /\ worker'[w].copy = CopyOf(j)
      /\ \A v \in Worker \ {w} : worker'[v] = worker[v]
  BY <1>2, <1>3, <1>4, ReloadFacts
<1>6. UNCHANGED <<event, job, assessed, mail, cancelling, faults>>
  BY DEF Begin, Node, Finish
<1>7. /\ run' \in [Job -> Runs] /\ run'[j].version = run[j].version
      /\ \A i \in Job \ {j} : run'[i] = run[i]
      /\ run' # run => job[j].status = "running" /\ run'[j].status = "running"
  <2>1. CASE run' = run
    BY <1>2, <2>1
  <2>2. CASE run' = [run EXCEPT ![j].status = "running"] /\ HoldsLease(job[j], w)
    <3>1. "running" \in Active \cup Terminal /\ job[j].status = "running"
      BY <2>2 DEF Active, HoldsLease
    <3>2. QED
      BY <1>2, <2>2, <3>1, RunWritten
  <2>3. \/ run' = run
        \/ run' = [run EXCEPT ![j].status = "running"] /\ HoldsLease(job[j], w)
    <3>1. CASE Begin(w) \/ Finish(w)
      BY <3>1 DEF Begin, Finish
    <3>2. CASE Node(w)
      <4>1. HoldsLease(job[j], w)
        BY <1>0, <3>2 DEF Node
      <4>2. run' = run \/ run' = [run EXCEPT ![j].status = "running"]
        BY <1>0, <3>2 DEF Node
      <4>3. QED
        BY <4>1, <4>2
    <3>3. QED
      BY <3>1, <3>2
  <2>4. QED
    BY <2>1, <2>2, <2>3
<1>8. Onward(j) /\ AssessedFits(j)'
  BY <1>2, <1>6, <1>7 DEF Onward, AssessedFits
<1>9. QED
  BY <1>1, <1>0, <1>2, <1>3, <1>5, <1>6, <1>7, <1>8, Working

\* Where a worker goes after a status is written.
LEMMA Departures ==
    ASSUME IndInv, NEW w \in Worker, worker[w].at # "idle",
           (\E place \in Places : Moves(w, place)) \/ Acks(w)
    PROVE  /\ worker' \in [Worker -> Workers]
           /\ worker'[w].at = "idle" \/ /\ worker'[w].job = JobOf(w)
                                        /\ worker'[w].copy = worker[w].copy
           /\ \A v \in Worker \ {w} : worker'[v] = worker[v]
BY AtWork, MovesFacts, AcksFacts

\* Of the status that is stored: the copy decides, or the row stays.
LEMMA CancelStored ==
    ASSUME IndInv, NEW w \in Worker, worker[w].at # "idle",
           NEW loaded \in Active \cup Terminal \cup {"absent"},
           "cancelled" \in Transitions(loaded),
           loaded = "cancelled" => job[JobOf(w)].status = "cancelled",
           job' = [job EXCEPT ![JobOf(w)] =
                     Updated(@, Flushed(@.status, loaded, "cancelled"))]
    PROVE  /\ job' \in [Job -> Row]
           /\ job'[JobOf(w)].status = "cancelled"
           /\ job'[JobOf(w)].status # job[JobOf(w)].status => loaded \in Active
           /\ job'[JobOf(w)].status # "absent"
           /\ job'[JobOf(w)].cancel_requested = job[JobOf(w)].cancel_requested
           /\ \A i \in Job \ {JobOf(w)} : job'[i] = job[i]
<1> DEFINE j == JobOf(w)
           status == Flushed(job[j].status, loaded, "cancelled")
<1>1. j \in Job /\ job \in [Job -> Row] /\ job[j].status \in Active \cup Terminal
  BY AtWork
<1>2. status = "cancelled" /\ (status # job[j].status => loaded \in Active)
  <2>1. job[j].status # "cancelled" => loaded # "cancelled"
    OBVIOUS
  <2> QED BY <1>1, <2>1, WrittenStatus DEF Flushed
<1>3. status \in Active \cup Terminal
  BY <1>1, <1>2 DEF Terminal
<1>4. job' = [job EXCEPT ![j] = Updated(@, status)]
  OBVIOUS
<1> HIDE DEF j, status
<1>5. /\ job' \in [Job -> Row] /\ job'[j].status = status
      /\ job'[j].cancel_requested = job[j].cancel_requested
      /\ \A i \in Job \ {j} : job'[i] = job[i]
  BY <1>1, <1>3, <1>4, StatusWritten
<1>6. status # "absent"
  BY <1>3 DEF Active, Terminal
<1>7. QED
  BY <1>2, <1>5, <1>6 DEF j

\* The first transaction: a flagged copy cancels an attempt that was not
\* assessed when the copy was made, and is not now.
LEMMA EnterKeeps ==
    ASSUME IndInv, NEW w \in Worker, Enter(w)
    PROVE  IndInv'
<1>1. worker[w].at # "idle" /\ "leaving" \in Places /\ "entered" \in Places
  BY DEF Enter, Places, Leased
<1>0. PICK j \in Job : j = JobOf(w)
  BY <1>1, AtWork
<1>2. /\ job \in [Job -> Row] /\ run \in [Job -> Runs]
      /\ assessed \in [Job -> Nat] /\ mail \in [Job -> Nat]
      /\ faults \in 0 .. MaxFaults
      /\ AssessedFits(j) /\ CopyIsOld(w) /\ worker[w].copy \in Copies
      /\ \A i \in Job : Alike(job[i], job[i])
  BY <1>1, <1>0, AtWork, Busy, InHand DEF Typed, Alike
<1>3. CASE Moves(w, "leaving") /\ UNCHANGED job
  BY <1>1, <1>2, <1>3, Passing DEF Enter
<1>4. CASE /\ worker[w].copy.status \notin Terminal /\ worker[w].copy.cancel_requested
           /\ Writes(w, "cancelled") /\ Moves(w, "leaving")
  <2>1. worker[w].copy.status \in Active \cup Terminal \cup {"absent"}
    BY <1>2 DEF Copies
  <2>2. worker[w].copy.status \in Active
    BY <1>4, <2>1 DEF Writes, Transitions, Terminal
  <2>3. job[j].cancel_requested /\ assessed[j] = 0
    BY <1>2, <1>0, <1>4, <2>2 DEF CopyIsOld
  <2>4. /\ job' \in [Job -> Row] /\ job'[j].status = "cancelled"
        /\ job'[j].cancel_requested = job[j].cancel_requested
        /\ \A i \in Job \ {j} : job'[i] = job[i]
    BY <1>1, <1>0, <1>2, <1>4, <2>1, CancelStored DEF Writes, CopyIsOld
  <2>5. /\ worker' \in [Worker -> Workers]
        /\ worker'[w].at = "idle" \/ /\ worker'[w].job = j
                                     /\ worker'[w].copy = worker[w].copy
        /\ \A v \in Worker \ {w} : worker'[v] = worker[v]
    BY <1>1, <1>0, <1>4, Departures
  <2>6. UNCHANGED <<event, run, assessed, mail, cancelling, faults>>
    BY DEF Enter
  <2>7. Onward(j) /\ AssessedFits(j)'
    BY <1>2, <2>3, <2>4, <2>6 DEF Onward, AssessedFits
  <2>8. QED
    BY <1>1, <1>0, <1>2, <2>4, <2>5, <2>6, <2>7, Working
<1>5. CASE job' = [job EXCEPT ![j].silence = 0] /\ Moves(w, "entered")
  <2>1. Alike([job[j] EXCEPT !.silence = 0], job[j])
    BY <1>2, ClockFacts
  <2>2. job' = [job EXCEPT ![j] = [job[j] EXCEPT !.silence = 0]]
    BY <1>5
  <2>3. job' \in [Job -> Row] /\ \A i \in Job : Alike(job'[i], job[i])
    BY <1>2, <2>1, <2>2, OneAlike
  <2>4. QED
    BY <1>1, <1>2, <1>5, <2>3, Passing DEF Enter
<1>6. QED
  BY <1>0, <1>3, <1>4, <1>5 DEF Enter

\* The handler of the graph cancels only where the run was asked to stop.
LEMMA HandlesKeeps ==
    ASSUME IndInv, NEW w \in Worker, NodeRefused(w) \/ Stumble(w)
    PROVE  IndInv'
<1>1. worker[w].at # "idle" /\ "leaving" \in Places /\ "unwinding" \in Places
  BY DEF NodeRefused, Stumble, Places, Leased
<1>0. PICK j \in Job : j = JobOf(w)
  BY <1>1, AtWork
<1>2. /\ job \in [Job -> Row] /\ run \in [Job -> Runs] /\ run[j] \in Runs
      /\ assessed \in [Job -> Nat] /\ mail \in [Job -> Nat]
      /\ faults \in 0 .. MaxFaults
      /\ AssessedFits(j) /\ worker[w].copy \in Copies /\ CopyOf(j) \in Copies
      /\ \A i \in Job : Alike(job[i], job[i])
  BY <1>1, <1>0, AtWork, Busy, CopyFacts, InHand DEF Typed, Alike
<1>3. UNCHANGED <<event, assessed, mail, cancelling, faults>>
  BY DEF NodeRefused, Stumble
<1>4. PICK copy \in Copies : /\ Handles(w, copy)
                             /\ copy.status = "cancelled" => job[j].status = "cancelled"
  BY <1>0, <1>1, <1>2, Busy, CopyFacts DEF NodeRefused, Stumble, CopyIsOld
<1>5. CASE run[j].cancel_requested /\ "cancelled" \in Transitions(copy.status)
  <2>1. copy.status \in Active \cup Terminal \cup {"absent"}
    BY DEF Copies
  <2>2. /\ job' = [job EXCEPT ![j] = Updated(@, Flushed(@.status, copy.status, "cancelled"))]
        /\ run' = [run EXCEPT ![j].status = "cancelled"]
        /\ Moves(w, "leaving")
    BY <1>0, <1>4, <1>5 DEF Handles
  <2>3. /\ job' \in [Job -> Row] /\ job'[j].status = "cancelled"
        /\ job'[j].cancel_requested = job[j].cancel_requested
        /\ \A i \in Job \ {j} : job'[i] = job[i]
    BY <1>1, <1>0, <1>4, <1>5, <2>1, <2>2, CancelStored
  <2>4. /\ run' \in [Job -> Runs] /\ run'[j].status = "cancelled"
        /\ run'[j].cancel_requested = run[j].cancel_requested
        /\ run'[j].version = run[j].version
        /\ \A i \in Job \ {j} : run'[i] = run[i]
    BY <1>2, <2>2, RunWritten DEF Terminal
  <2>5. /\ worker' \in [Worker -> Workers]
        /\ worker'[w].at = "idle" \/ /\ worker'[w].job = j
                                     /\ worker'[w].copy = worker[w].copy
        /\ \A v \in Worker \ {w} : worker'[v] = worker[v]
    BY <1>1, <1>0, <2>2, Departures
  <2>6. Onward(j) /\ AssessedFits(j)'
    BY <1>2, <1>3, <1>5, <2>3, <2>4 DEF Onward, AssessedFits
  <2>7. QED
    BY <1>1, <1>0, <1>2, <1>3, <2>3, <2>4, <2>5, <2>6, Working
<1>6. CASE Moves(w, "unwinding") /\ UNCHANGED <<job, run>>
  BY <1>1, <1>2, <1>3, <1>6, Passing
<1>7. QED
  BY <1>0, <1>4, <1>5, <1>6 DEF Handles

\* The end under a flag: the job is cancelled only if it was unfinished when
\* the copy was made, and then it was not assessed.
LEMMA CloseCancelledKeeps ==
    ASSUME IndInv, NEW w \in Worker, CloseCancelled(w)
    PROVE  IndInv'
<1>1. worker[w].at # "idle" /\ "leaving" \in Places /\ worker[w].copy.cancel_requested
  BY DEF CloseCancelled, Places
<1>0. PICK j \in Job : j = JobOf(w)
  BY <1>1, AtWork
<1>2. /\ job \in [Job -> Row] /\ run \in [Job -> Runs] /\ assessed \in [Job -> Nat]
      /\ AssessedFits(j) /\ CopyIsOld(w) /\ worker[w].copy \in Copies
  BY <1>1, <1>0, AtWork, Busy
<1>3. /\ "cancelled" \in Transitions(worker[w].copy.status)
      /\ job' = [job EXCEPT ![j] =
            Updated(@, Flushed(@.status, worker[w].copy.status, "cancelled"))]
      /\ run' = [run EXCEPT ![j].status = "succeeded"] /\ Moves(w, "leaving")
      /\ UNCHANGED <<event, assessed, mail, cancelling, faults>>
  BY <1>0 DEF CloseCancelled, Writes
<1>4. worker[w].copy.status \in Active \cup Terminal \cup {"absent"}
  BY <1>2 DEF Copies
<1>5. /\ job' \in [Job -> Row] /\ job'[j].status = "cancelled"
      /\ job'[j].status # job[j].status => worker[w].copy.status \in Active
      /\ job'[j].cancel_requested = job[j].cancel_requested
      /\ \A i \in Job \ {j} : job'[i] = job[i]
  BY <1>1, <1>0, <1>2, <1>3, <1>4, CancelStored DEF CopyIsOld
<1>6. /\ run' \in [Job -> Runs] /\ run'[j].status = "succeeded"
      /\ run'[j].cancel_requested = run[j].cancel_requested
      /\ run'[j].version = run[j].version
      /\ \A i \in Job \ {j} : run'[i] = run[i]
  BY <1>2, <1>3, RunWritten DEF Terminal
<1>7. /\ worker' \in [Worker -> Workers]
      /\ worker'[w].at = "idle" \/ /\ worker'[w].job = j
                                   /\ worker'[w].copy = worker[w].copy
      /\ \A v \in Worker \ {w} : worker'[v] = worker[v]
  BY <1>1, <1>0, <1>3, Departures
<1>8. /\ job'[j].status # job[j].status => assessed[j] = 0
      /\ job[j].cancel_requested
  BY <1>0, <1>1, <1>2, <1>5 DEF CopyIsOld
<1>9. Onward(j) /\ AssessedFits(j)'
  <2>1. assessed' = assessed /\ assessed[j] \in Nat
    BY <1>2, <1>3
  <2>2. job'[j].status = job[j].status => job[j].status = "cancelled"
    BY <1>5
  <2>3. AssessedFits(j)'
    BY <1>2, <1>5, <1>6, <1>8, <2>1, <2>2 DEF AssessedFits
  <2>4. QED
    BY <1>5, <1>8, <2>1, <2>3 DEF Onward
<1>10. QED
  BY <1>1, <1>0, <1>2, <1>3, <1>5, <1>6, <1>7, <1>9, Working

\* The assessment: the lease is held, so the attempt runs unflagged and was
\* not assessed before.
LEMMA AcceptKeeps ==
    ASSUME IndInv, NEW w \in Worker, Accept(w)
    PROVE  IndInv'
<1>1. worker[w].at # "idle" /\ "leaving" \in Places
  BY DEF Accept, Places
<1>0. PICK j \in Job : j = JobOf(w)
  BY <1>1, AtWork
<1>2. /\ job \in [Job -> Row] /\ run \in [Job -> Runs] /\ assessed \in [Job -> Nat]
      /\ AssessedFits(j)
  BY <1>1, <1>0, AtWork, Busy
<1>3. /\ HoldsLease(job[j], w)
      /\ assessed' = [assessed EXCEPT ![j] = @ + 1]
      /\ job' = [job EXCEPT ![j] = Updated(@, "succeeded")]
      /\ run' = [run EXCEPT ![j].status = "succeeded"] /\ Moves(w, "leaving")
      /\ UNCHANGED <<event, mail, cancelling, faults>>
  BY <1>0 DEF Accept
<1>4. job[j].status = "running" /\ ~job[j].cancel_requested /\ assessed[j] = 0
  BY <1>2, <1>3 DEF HoldsLease, AssessedFits
<1>5. /\ job' \in [Job -> Row] /\ job'[j].status = "succeeded"
      /\ \A i \in Job \ {j} : job'[i] = job[i]
  BY <1>2, <1>3, StatusWritten DEF Terminal
<1>6. /\ run' \in [Job -> Runs] /\ run'[j].status = "succeeded"
      /\ run'[j].version = run[j].version
      /\ \A i \in Job \ {j} : run'[i] = run[i]
  BY <1>2, <1>3, RunWritten DEF Terminal
<1>7. /\ assessed' \in [Job -> Nat] /\ assessed'[j] = 1
      /\ \A i \in Job \ {j} : assessed'[i] = assessed[i]
  BY <1>2, <1>3, <1>4
<1>8. /\ worker' \in [Worker -> Workers]
      /\ worker'[w].at = "idle" \/ /\ worker'[w].job = j
                                   /\ worker'[w].copy = worker[w].copy
      /\ \A v \in Worker \ {w} : worker'[v] = worker[v]
  BY <1>1, <1>0, <1>3, Departures
<1>9. Onward(j) /\ AssessedFits(j)'
  BY <1>4, <1>5, <1>6, <1>7 DEF Onward, AssessedFits
<1>10. QED
  BY <1>1, <1>0, <1>3, <1>5, <1>6, <1>7, <1>8, <1>9, Working

\* The wrapper ends an attempt that still runs.
LEMMA SettleKeeps ==
    ASSUME IndInv, NEW w \in Worker, Settle(w)
    PROVE  IndInv'
<1>1. worker[w].at # "idle"
  BY DEF Settle
<1>0. PICK j \in Job : j = JobOf(w)
  BY <1>1, AtWork
<1>2. /\ job \in [Job -> Row] /\ run \in [Job -> Runs] /\ assessed \in [Job -> Nat]
      /\ mail \in [Job -> Nat] /\ faults \in 0 .. MaxFaults
      /\ AssessedFits(j) /\ \A i \in Job : Alike(job[i], job[i])
  BY <1>1, <1>0, AtWork, Busy, InHand DEF Typed, Alike
<1>3. Acks(w) /\ UNCHANGED <<event, assessed, mail, cancelling, faults>>
  BY DEF Settle
<1>4. CASE UNCHANGED <<job, run>>
  BY <1>1, <1>2, <1>3, <1>4, Passing
<1>5. ASSUME job[j].status = "running", NEW end \in {"cancelled", "failed"},
             job' = [job EXCEPT ![j] = Updated(@, end)],
             run' = [run EXCEPT ![j].status = end]
      PROVE  IndInv'
  <2>1. end \in Active \cup Terminal
    BY DEF Terminal
  <2>2. /\ job' \in [Job -> Row] /\ job'[j].status = end
        /\ job'[j].cancel_requested = job[j].cancel_requested
        /\ \A i \in Job \ {j} : job'[i] = job[i]
    BY <1>2, <1>5, <2>1, StatusWritten
  <2>3. /\ run' \in [Job -> Runs] /\ run'[j].version = run[j].version
        /\ \A i \in Job \ {j} : run'[i] = run[i]
    BY <1>2, <1>5, <2>1, RunWritten
  <2>4. /\ worker' \in [Worker -> Workers] /\ worker'[w].at = "idle"
        /\ \A v \in Worker \ {w} : worker'[v] = worker[v]
    BY <1>1, <1>3, AtWork, AcksFacts
  <2>5. Onward(j) /\ AssessedFits(j)'
    BY <1>2, <1>3, <1>5, <2>2 DEF Onward, AssessedFits
  <2>6. QED
    BY <1>1, <1>0, <1>2, <1>3, <2>2, <2>3, <2>4, <2>5, Working
<1>6. CASE /\ job[j].status = "running"
           /\ \E end \in {"cancelled", "failed"} :
                 /\ job' = [job EXCEPT ![j] = Updated(@, end)]
                 /\ run' = [run EXCEPT ![j].status = end]
  BY <1>5, <1>6
<1>7. QED
  BY <1>0, <1>4, <1>6 DEF Settle

\* The sweeper fails an attempt that runs.
LEMMA SweepKeeps ==
    ASSUME IndInv, NEW j \in Job, Sweep(j)
    PROVE  IndInv'
<1>1. /\ job[j].status = "running" /\ job' = [job EXCEPT ![j] = Updated(@, "failed")]
      /\ UNCHANGED <<event, run, assessed, mail, worker, cancelling, faults>>
  BY DEF Sweep, Stale
<1>2. job \in [Job -> Row] /\ assessed \in [Job -> Nat] /\ AssessedFits(j)
  BY InHand DEF Typed
<1>3. /\ job' \in [Job -> Row] /\ job'[j].status = "failed"
      /\ job'[j].cancel_requested = job[j].cancel_requested
      /\ \A i \in Job \ {j} : job'[i] = job[i]
  BY <1>1, <1>2, StatusWritten DEF Terminal
<1>4. Typed'
  BY <1>1, <1>3, InHand DEF Typed
<1>5. \A i \in Job : Onward(i) /\ RowFits(i)' /\ AssessedFits(i)'
  BY <1>1, <1>2, <1>3, InHand DEF Onward, RowFits, AssessedFits
<1>6. QED
  BY <1>1, <1>4, <1>5, StepKeeps

\* The clock moves no status.
LEMMA TickKeeps ==
    ASSUME IndInv, Tick
    PROVE  IndInv'
<1>1. job \in [Job -> Row] /\ UNCHANGED <<event, run, assessed, mail, worker, cancelling, faults>>
  BY InHand DEF Typed, Tick
<1>2. \A i \in Job : Alike(job'[i], job[i])
  BY <1>1, ClockFacts DEF Tick
<1>3. Typed'
  BY <1>1, <1>2, InHand DEF Typed, Tick, Alike
<1>4. \A i \in Job : Onward(i) /\ RowFits(i)' /\ AssessedFits(i)'
  BY <1>1, <1>2, InHand DEF Onward, RowFits, AssessedFits, Alike
<1>5. QED
  BY <1>1, <1>3, <1>4, StepKeeps

\* Nothing moves.
LEMMA StutterKeeps ==
    ASSUME IndInv, UNCHANGED vars
    PROVE  IndInv'
<1>1. Typed'
  BY InHand DEF Typed, vars
<1>2. \A i \in Job : Onward(i) /\ RowFits(i)' /\ AssessedFits(i)'
  BY InHand DEF Onward, RowFits, AssessedFits, vars
<1>3. QED
  BY <1>1, <1>2, StepKeeps DEF vars

\* The invariant is inductive.
LEMMA EveryStepKeeps ==
    ASSUME IndInv, [Next]_vars
    PROVE  IndInv'
<1>1. CASE \E j \in Job : Classify(j) \/ Sweep(j)
  BY <1>1, ClassifyKeeps, SweepKeeps
<1>2. CASE \E j \in Job, kind \in Requests : CancelRead(j, kind) \/ CancelWrite(j, kind)
  BY <1>2, ReadsKeep, CancelWriteKeeps
<1>3. CASE Edit \/ Supersede
  BY <1>3, ReadsKeep
<1>4. CASE \E w \in Worker, j \in Job : Open(w, j)
  BY <1>4, OpenKeeps
<1>5. CASE \E w \in Worker : Claim(w) \/ ClaimRefused(w) \/ Body(w) \/ Heartbeat(w)
  BY <1>5, ClaimKeeps, PassingKeeps, ReloadKeeps, EnterKeeps, HandlesKeeps,
     CloseCancelledKeeps, AcceptKeeps DEF Body
<1>6. CASE \E w \in Worker : Release(w) \/ Settle(w) \/ Crash(w)
  BY <1>6, PassingKeeps, SettleKeeps
<1>7. CASE Tick
  BY <1>7, TickKeeps
<1>8. CASE UNCHANGED vars
  BY <1>8, StutterKeeps
<1>9. QED
  BY <1>1, <1>2, <1>3, <1>4, <1>5, <1>6, <1>7, <1>8 DEF Next

-------------------------------------------------------------------------------
(* The results. *)

\* The inductive invariant holds throughout.
LEMMA InvestigationsFit == Spec => []IndInv
<1>1. IndInv /\ [Next]_vars => IndInv'
  BY EveryStepKeeps
<1>2. QED
  BY Initially, <1>1, PTL DEF Spec

\* Jobs, runs and assessments fit together: an attempt is assessed at most
\* once, and only a cancellation asked for can take the success back.
THEOREM AttemptsAreAssessedOnce == Spec => []ClassificationInv
<1>1. IndInv => ClassificationInv
  BY DEF IndInv
<1>2. QED
  BY <1>1, InvestigationsFit, PTL

\* Job, run and assessment tell one story, whichever way out ended them and on
\* whatever copy: no success without an assessment but beside a cancelled job.
THEOREM OutcomesAlwaysAgree == Spec => []OutcomesAgree
<1>1. IndInv => OutcomesAgree
  BY DEF IndInv
<1>2. QED
  BY <1>1, InvestigationsFit, PTL

\* The steps of one worker leave the others where they are.
LEMMA OwnStep ==
    ASSUME IndInv, [Next]_vars, NEW w \in Worker, worker'[w] # worker[w]
    PROVE  \/ \E j \in Job : Open(w, j)
           \/ Claim(w) \/ ClaimRefused(w) \/ Body(w) \/ Release(w) \/ Settle(w) \/ Crash(w)
<1>1. worker \in [Worker -> Workers]
  BY InHand DEF Typed
<1>2. ~ UNCHANGED worker
  OBVIOUS
<1>3. ASSUME NEW v \in Worker, v # w, \E j \in Job : Open(v, j) PROVE FALSE
  BY <1>1, <1>3 DEF Open
<1>4. ASSUME NEW v \in Worker, v # w,
             \/ Claim(v) \/ ClaimRefused(v) \/ Begin(v) \/ Enter(v) \/ Node(v)
             \/ Finish(v) \/ Fail(v)
      PROVE FALSE
  BY <1>1, <1>4 DEF Claim, ClaimRefused, Begin, Enter, Node, Finish, Fail, Moves, Acks
<1>5. ASSUME NEW v \in Worker, v # w,
             \/ NodeRefused(v) \/ Stumble(v) \/ CloseCancelled(v) \/ Accept(v)
             \/ Release(v) \/ Settle(v) \/ Crash(v)
      PROVE FALSE
  BY <1>1, <1>5 DEF NodeRefused, Stumble, Handles, CloseCancelled, Accept, Release,
                    Settle, Crash, Moves, Acks
<1>6. \E v \in Worker :
         \/ \E j \in Job : Open(v, j)
         \/ Claim(v) \/ ClaimRefused(v) \/ Body(v) \/ Release(v) \/ Settle(v) \/ Crash(v)
  BY <1>2 DEF Next, vars, Classify, Sweep, CancelRead, CancelWrite, Edit, Supersede,
              Heartbeat, Tick
<1>7. QED
  BY <1>3, <1>4, <1>5, <1>6 DEF Body

\* Without the token a worker's step ends the job only by cancelling it, and
\* only where job or run carries the flag.
LEMMA WithoutToken ==
    ASSUME IndInv, [Next]_vars, NEW w \in Worker, NEW j \in Job,
           worker[w].at \notin {"idle", "opened"}, worker'[w] # worker[w],
           JobOf(w) = j, job[j].execution_token # w, job'[j].status # job[j].status
    PROVE  job'[j].status = "cancelled" /\ (run[j].cancel_requested \/ job[j].cancel_requested)
<1>1. /\ job \in [Job -> Row] /\ job[j] \in Row
      /\ CopyIsOld(w) /\ worker[w].copy \in Copies /\ CopyOf(j) \in Copies
  BY AtWork, Busy, CopyFacts
<1>2. ~ UNCHANGED job
  OBVIOUS
<1>3. ~ Release(w)
  <2>1. Alike(Released(job[j], w), job[j])
    BY <1>1, ClockFacts
  <2>2. QED
    BY <1>1, <2>1 DEF Release, Alike
<1>4. CASE Enter(w)
  <2>1. \/ worker[w].copy.cancel_requested /\ Writes(w, "cancelled")
        \/ job' = [job EXCEPT ![j].silence = 0]
    BY <1>2, <1>4 DEF Enter
  <2>2. job' # [job EXCEPT ![j].silence = 0]
    BY <1>1 DEF Row
  <2>3. job'[j].status = "cancelled"
    BY <1>1, <2>1, <2>2, CancelStored DEF Writes, Copies, CopyIsOld
  <2>4. job[j].cancel_requested
    BY <1>1, <2>1, <2>2 DEF CopyIsOld
  <2>5. QED
    BY <2>3, <2>4
<1>5. CASE NodeRefused(w) \/ Stumble(w)
  <2>1. PICK copy \in Copies : /\ Handles(w, copy)
                               /\ copy.status = "cancelled" => job[j].status = "cancelled"
    BY <1>1, <1>5, CopyFacts DEF NodeRefused, Stumble, CopyIsOld
  <2>2. /\ run[j].cancel_requested /\ "cancelled" \in Transitions(copy.status)
        /\ job' = [job EXCEPT ![j] = Updated(@, Flushed(@.status, copy.status, "cancelled"))]
    BY <1>2, <2>1 DEF Handles
  <2>3. copy.status \in Active \cup Terminal \cup {"absent"}
    BY DEF Copies
  <2>4. job'[j].status = "cancelled"
    BY <2>1, <2>2, <2>3, CancelStored
  <2>5. QED
    BY <2>2, <2>4
<1>6. CASE CloseCancelled(w)
  <2>1. worker[w].copy.cancel_requested /\ Writes(w, "cancelled")
    BY <1>6 DEF CloseCancelled
  <2>2. job'[j].status = "cancelled"
    BY <1>1, <2>1, CancelStored DEF Writes, Copies, CopyIsOld
  <2>3. QED
    BY <1>1, <2>1, <2>2 DEF CopyIsOld
<1>7. ~ Accept(w)
  BY DEF Accept, HoldsLease
<1>8. QED
  BY <1>2, <1>3, <1>4, <1>5, <1>6, <1>7, OwnStep
     DEF Open, Claim, ClaimRefused, Body, Begin, Node, Finish, Fail, Settle, Crash

\* A worker that no longer carries the token can end a job only if the run or
\* the job was asked to stop; it never fails or revives it.
THEOREM LostInvestigatorsOnlyCancel == Spec => FencedUnlessCancelled
<1>1. IndInv /\ [Next]_vars =>
        [\A w \in Worker, j \in Job :
          /\ worker[w].at \notin {"idle", "opened"} /\ worker'[w] # worker[w]
          /\ JobOf(w) = j /\ job[j].execution_token # w
          /\ job'[j].status # job[j].status
          => /\ job'[j].status = "cancelled"
             /\ run[j].cancel_requested \/ job[j].cancel_requested]_vars
  BY WithoutToken
<1>2. QED
  BY <1>1, InvestigationsFit, PTL DEF Spec, FencedUnlessCancelled

===============================================================================
