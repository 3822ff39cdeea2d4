---------------------------- MODULE ExecutorsProofs ----------------------------
(***************************************************************************)
(* Proofs about the two long executions behind a lease: the ingestion of a *)
(* knowledge version and the investigation of an event.                    *)
(***************************************************************************)
EXTENDS Ingestion, Investigation, TLAPS

-------------------------------------------------------------------------------
(***************************************************************************)
(* What a version's review rests on, for any number of attempts, processes *)
(* and faults.  Only one attempt is active, so a process that holds a lease*)
(* is the only one, and its copy of the version is the version: from there *)
(* its marks can be followed from stage to stage.                          *)
(***************************************************************************)

\* The process is in the pipeline and its lease still protects what it stores.
Holding(w) == worker[w].at \in Running /\ Holds(w)

\* The places after the rows have been cut, and those before.
Filling == {"looking", "upserting", "marking", "ending"}
Cutting == {"cutting", "segmenting", "extracting"} \cup Filling
Early == {"loading", "beginning", "cleaning", "cleaned", "parsing", "cutting",
          "segmenting", "extracting"}

\* Every process that does something does it for an attempt.
TurnsFit ==
    \A w \in Worker :
        /\ worker[w].at # "idle" => worker[w].job \in Job
        /\ worker[w].at \in Early => worker[w].stage = 1

\* One attempt is active at a time, only attempts that failed or were cancelled
\* have retries, and a version that was begun has one to go on from.
OneAttempt == \A i, j \in ActiveJobs : i = j
ParentsFit == \A c \in Job : job[c].parent \in Job => job[job[c].parent].status \in {"failed", "cancelled"}
BegunHasAttempt ==
    version.status \in {"processing", "failed"} =>
        \E j \in Job : job[j].status \in Active \cup {"failed", "cancelled"} /\ Children(j) = {}

\* What the marks say of the rows ...
RowsFit ==
    ~raced =>
        /\ chunks \in {0, version.revision}
        /\ "cleanup_required" \in version.state => version.state = {"cleanup_required"}
        /\ "facts_extracted" \in version.state =>
              version.revision # 0 /\ chunks = version.revision /\ facts = chunks
        /\ version.state \cap Indexes # {} => "facts_extracted" \in version.state

\* ... and of the indexes.
IndexesFit ==
    ~raced /\ ~late =>
        \A n \in Indexes :
            /\ "cleanup_required" \notin version.state => index[n] \subseteq {version.revision}
            /\ n \in version.state => index[n] = {version.revision}

ReviewFits == version.status \in Reviewed => Indexes \subseteq version.state

\* A correction waits for nobody, and attempts begin after it.
EditFits ==
    editing =>
        /\ version.status \in {"failed", "review", "rejected"}
        /\ version.revision \in 1 .. MaxRevision - 1
        /\ \A w \in Worker : Holding(w) =>
              \/ worker[w].at = "loading"
              \/ worker[w].at = "beginning" /\ worker[w].copy.status = "failed"

\* What an attempt with a lease knows of the version ...
CopyFits(w) ==
    /\ worker[w].at # "loading" /\ ~raced => worker[w].copy = version
    /\ worker[w].at \in {"upserting", "marking"} => worker[w].copy = version

StatusFits(w) ==
    /\ worker[w].at = "beginning" =>
          /\ version.status \in Startable
          /\ worker[w].copy.status = "processing" => version.status = "processing"
    /\ worker[w].at \notin {"loading", "beginning"} => ~editing /\ version.status = "processing"

\* ... has marked ...
MarksFit(w) ==
    /\ worker[w].at \in Filling => \A k \in 1 .. worker[w].stage - 1 : Order[k] \in version.state
    /\ worker[w].at = "ending" => Indexes \subseteq version.state

\* ... and has got as far as.
StageFits(w) ==
    ~raced =>
        /\ worker[w].at \in {"cleaning", "cleaned"} => "cleanup_required" \in version.state
        /\ worker[w].at \in Cutting \cup {"parsing"} => "cleanup_required" \notin version.state
        /\ worker[w].at = "parsing" => version.revision = 0
        /\ worker[w].at \in Cutting => version.revision # 0
        /\ worker[w].at \in Filling \cup {"extracting"} =>
              worker[w].cut = version.revision /\ chunks = version.revision
        /\ worker[w].at \in Filling =>
              worker[w].known = version.revision /\ "facts_extracted" \in version.state

ReachFits(w) ==
    ~raced /\ ~late =>
        /\ worker[w].at = "cleaned" => \A n \in Indexes : index[n] = {}
        /\ worker[w].at = "marking" => index[Stage(w)] = {version.revision}

HolderFits(w) == CopyFits(w) /\ StatusFits(w) /\ MarksFit(w) /\ StageFits(w) /\ ReachFits(w)

AttemptsFit == OneAttempt /\ ParentsFit /\ BegunHasAttempt
DataFit == RowsFit /\ IndexesFit /\ ReviewFits /\ EditFits
HoldersFit == \A w \in Worker : Holding(w) => HolderFits(w)

IngestionIndInv ==
    /\ IngestionTypeOK /\ TurnsFit
    /\ AttemptsFit /\ DataFit /\ HoldersFit

-------------------------------------------------------------------------------
(* Rows. *)

AttemptRow == [status : Active \cup Terminal \cup {"absent"}, cancel_requested : BOOLEAN,
               execution_token : Worker \cup {NoWorker}, leased : BOOLEAN,
               parent : Job \cup {NoJob}]
TurnRow == [at : Running \cup {"idle", "leaving", "unwinding", "settling"},
            job : Job \cup {NoJob}, copy : VersionRow,
            cut : 0 .. MaxRevision, known : 0 .. MaxRevision, stage : 1 .. 3]

\* The rows a behaviour begins with are of their types.
LEMMA FirstRows ==
    /\ Uploaded \in VersionRow /\ NoRow \in AttemptRow /\ Idle \in TurnRow
    /\ Uploaded = [status |-> "uploaded", revision |-> 0, state |-> {}]
  <1>1. 0 \in 0 .. MaxRevision
    BY IngestionBounds
  <1>2. Uploaded \in VersionRow /\ Uploaded = [status |-> "uploaded", revision |-> 0, state |-> {}]
    BY <1>1 DEF Uploaded, VersionRow, Startable
  <1>3. NoRow \in AttemptRow
    BY DEF NoRow, AttemptRow
  <1>4. Idle \in TurnRow
    BY <1>1, <1>2 DEF Idle, TurnRow
  <1> QED BY <1>2, <1>3, <1>4

\* An attempt that is being written under its lease is active, and the only one.
LEMMA HolderIsActive ==
    ASSUME IngestionIndInv, NEW w \in Worker, Holding(w)
    PROVE  /\ worker[w].job \in Job
           /\ job[worker[w].job].status = "running"
           /\ worker[w].job \in ActiveJobs
           /\ job[worker[w].job].execution_token = w
  BY DEF IngestionIndInv, TurnsFit, Holding, Holds, Running, ActiveJobs, Active

\* Two processes do not hold leases at a time.
LEMMA OneHolder ==
    ASSUME IngestionIndInv, NEW w \in Worker, Holding(w), NEW v \in Worker, Holding(v)
    PROVE  v = w
  <1>1. worker[v].job = worker[w].job
    BY HolderIsActive DEF IngestionIndInv, AttemptsFit, OneAttempt
  <1> QED BY <1>1, HolderIsActive

-------------------------------------------------------------------------------
(* Attempts. *)

\* Attempts end or go on, their parents stay.
AttemptsGoOn ==
    \A j \in Job :
        /\ job'[j].parent = job[j].parent
        /\ \/ job'[j].status = job[j].status
           \/ job[j].status \in Active /\ job'[j].status \in Active \cup Terminal

\* Attempts that go on are as good to go on from as before.
LEMMA AttemptsKeep ==
    ASSUME AttemptsFit, AttemptsGoOn,
           \A j \in Job : job'[j].status = "succeeded" /\ job[j].status # "succeeded" =>
               version'.status \notin {"processing", "failed"},
           version'.status \in {"processing", "failed"} =>
               \/ version.status \in {"processing", "failed"}
               \/ \E j \in ActiveJobs : job'[j].status \in Active \cup {"failed", "cancelled"}
    PROVE  AttemptsFit'
  <1>1. \A j \in Job : Children(j)' = Children(j)
    BY DEF AttemptsGoOn, Children
  <1>2. ActiveJobs' \subseteq ActiveJobs
    BY DEF AttemptsGoOn, ActiveJobs, Active, Terminal
  <1>3. OneAttempt'
    BY <1>2 DEF AttemptsFit, OneAttempt
  <1>4. ParentsFit'
    BY DEF AttemptsFit, ParentsFit, AttemptsGoOn, Active
  <1>5. ASSUME version'.status \in {"processing", "failed"}
        PROVE  \E j \in Job : job'[j].status \in Active \cup {"failed", "cancelled"}
                              /\ Children(j)' = {}
    <2>1. CASE version.status \in {"processing", "failed"}
      <3>1. PICK j \in Job : job[j].status \in Active \cup {"failed", "cancelled"}
                             /\ Children(j) = {}
        BY <2>1 DEF AttemptsFit, BegunHasAttempt
      <3>2. job'[j].status \in Active \cup {"failed", "cancelled"}
        BY <1>5, <3>1 DEF AttemptsGoOn, Active, Terminal
      <3> QED BY <1>1, <3>1, <3>2
    <2>2. CASE \E j \in ActiveJobs : job'[j].status \in Active \cup {"failed", "cancelled"}
      <3>1. PICK j \in ActiveJobs : job'[j].status \in Active \cup {"failed", "cancelled"}
        BY <2>2
      <3>2. j \in Job /\ Children(j) = {}
        BY <3>1 DEF ActiveJobs, Children, AttemptsFit, ParentsFit, Active
      <3> QED BY <1>1, <3>1, <3>2
    <2> QED BY <1>5, <2>1, <2>2
  <1>6. BegunHasAttempt'
    BY <1>5 DEF BegunHasAttempt
  <1> QED BY <1>3, <1>4, <1>6 DEF AttemptsFit

\* Nor does a new attempt beside none that is active.
LEMMA InsertKeeps ==
    ASSUME AttemptsFit, job \in [Job -> AttemptRow], ActiveJobs = {}, version' = version,
           NEW j \in Job, NEW parent \in Job \cup {NoJob}, Insert(j, parent),
           parent \in Job => Retryable(parent)
    PROVE  /\ AttemptsFit' /\ job' \in [Job -> AttemptRow]
           /\ \A i \in Job : job'[i] = job[i] \/ job'[i].status # "running"
  <1> DEFINE new == [NoRow EXCEPT !.status = "queued", !.parent = parent]
  <1>1. /\ new \in AttemptRow /\ new.status = "queued" /\ new.parent = parent
    BY FirstRows DEF NoRow, AttemptRow, Active
  <1>2. job' = [job EXCEPT ![j] = new] /\ job[j].status = "absent"
    BY DEF Insert
  <1> HIDE DEF new
  <1>3. /\ job' \in [Job -> AttemptRow] /\ job'[j] = new
        /\ \A i \in Job \ {j} : job'[i] = job[i]
    BY <1>1, <1>2
  <1>4. \A i \in Job : i # j => job'[i].status \notin Active
    BY <1>3 DEF ActiveJobs
  <1>5. OneAttempt'
    BY <1>4 DEF OneAttempt, ActiveJobs
  <1>6. parent # j
    BY <1>2 DEF Retryable
  <1>7. ParentsFit'
    <2>1. ASSUME NEW c \in Job, job'[c].parent \in Job
          PROVE  job'[job'[c].parent].status \in {"failed", "cancelled"}
      <3>1. CASE c = j
        BY <1>1, <1>3, <1>6, <2>1, <3>1 DEF Retryable
      <3>2. CASE c # j
        BY <1>2, <1>3, <2>1, <3>2 DEF AttemptsFit, ParentsFit
      <3> QED BY <3>1, <3>2
    <2> QED BY <2>1 DEF ParentsFit
  <1>8. Children(j)' = {}
    BY <1>1, <1>2, <1>3, <1>6 DEF Children, AttemptsFit, ParentsFit
  <1>9. BegunHasAttempt'
    BY <1>1, <1>3, <1>8 DEF BegunHasAttempt, Active
  <1> QED BY <1>1, <1>3, <1>5, <1>7, <1>9 DEF AttemptsFit

-------------------------------------------------------------------------------
(* What every step has to keep. *)

\* A step that leaves rows and processes alone keeps the invariant if it gives
\* no lease to anybody.
LEMMA RowsStay ==
    ASSUME IngestionIndInv, IngestionTypeOK', AttemptsFit',
           UNCHANGED <<rows, index, worker, editing, late, raced>>,
           \A w \in Worker : Holding(w)' => Holding(w)
    PROVE  IngestionIndInv'
  <1>1. TurnsFit'
    BY DEF IngestionIndInv, TurnsFit
  <1>2. DataFit'
    BY DEF rows, IngestionIndInv, DataFit, RowsFit, IndexesFit, ReviewFits, EditFits
  <1>3. HoldersFit'
    BY DEF rows, IngestionIndInv, HoldersFit, HolderFits, CopyFits, StatusFits, MarksFit,
           StageFits, ReachFits, Stage
  <1> QED BY <1>1, <1>2, <1>3 DEF IngestionIndInv

\* A process takes a turn that leaves the rows alone; an index it writes to is
\* either left alone, too, or written to without a lease.
LEMMA TurnKeeps ==
    ASSUME IngestionIndInv, NEW w \in Worker, NEW new \in TurnRow, Turn(w, new),
           new.at # "idle" => new.job \in Job,
           new.at \in Early => new.stage = 1,
           UNCHANGED <<inline, rows, job, keys, editing, raced, faults>>,
           index' \in [Indexes -> SUBSET (1 .. MaxRevision)], late' \in BOOLEAN,
           (index' = index /\ late' = late) \/ late',
           Holding(w)' /\ editing =>
               \/ new.at = "loading"
               \/ new.at = "beginning" /\ new.copy.status = "failed",
           Holding(w)' => HolderFits(w)'
    PROVE  IngestionIndInv'
  <1>1. /\ worker \in [Worker -> TurnRow]
        /\ worker' = [worker EXCEPT ![w] = new]
    BY DEF IngestionIndInv, IngestionTypeOK, TurnRow, Turn
  <1>2. /\ worker' \in [Worker -> TurnRow] /\ worker'[w] = new
        /\ \A v \in Worker \ {w} : worker'[v] = worker[v]
    BY <1>1
  <1>3. IngestionTypeOK'
    BY <1>2 DEF rows, IngestionIndInv, IngestionTypeOK, TurnRow
  <1>4. TurnsFit'
    BY <1>2 DEF IngestionIndInv, TurnsFit
  <1>5. AttemptsFit'
    BY DEF rows, IngestionIndInv, AttemptsFit, OneAttempt, ParentsFit, BegunHasAttempt,
           ActiveJobs, Children
  <1>6. \A v \in Worker \ {w} : Holding(v)' => Holding(v)
    BY <1>2 DEF Holding, Holds
  <1>7. RowsFit' /\ ReviewFits' /\ IndexesFit'
    BY DEF rows, IngestionIndInv, DataFit, RowsFit, ReviewFits, IndexesFit
  <1>8. EditFits'
    BY <1>2, <1>6 DEF rows, IngestionIndInv, DataFit, EditFits
  <1>9. ASSUME NEW v \in Worker \ {w}, Holding(v)'
        PROVE  HolderFits(v)'
    BY <1>2, <1>6, <1>9
       DEF rows, IngestionIndInv, HoldersFit, HolderFits, CopyFits, StatusFits, MarksFit,
           StageFits, ReachFits, Stage
  <1>10. HoldersFit'
    BY <1>9 DEF HoldersFit
  <1> QED BY <1>3, <1>4, <1>5, <1>7, <1>8, <1>10 DEF IngestionIndInv, DataFit

\* The holder of the lease takes a turn.
LEMMA HolderKeeps ==
    ASSUME IngestionIndInv, NEW w \in Worker, Holding(w),
           NEW new \in TurnRow, Turn(w, new),
           new.job = worker[w].job,
           new.at \in Early => new.stage = 1,
           UNCHANGED <<inline, job, keys, editing, late, raced, faults>>,
           ~editing,
           version' \in VersionRow, chunks' \in 0 .. MaxRevision, facts' \in 0 .. MaxRevision,
           index' \in [Indexes -> SUBSET (1 .. MaxRevision)],
           RowsFit', IndexesFit', ReviewFits', HolderFits(w)'
    PROVE  IngestionIndInv'
  <1>1. /\ worker \in [Worker -> TurnRow]
        /\ worker' = [worker EXCEPT ![w] = new]
    BY DEF IngestionIndInv, IngestionTypeOK, TurnRow, Turn
  <1>2. /\ worker' \in [Worker -> TurnRow] /\ worker'[w] = new
        /\ \A v \in Worker \ {w} : worker'[v] = worker[v]
    BY <1>1
  <1>3. IngestionTypeOK'
    BY <1>2 DEF IngestionIndInv, IngestionTypeOK, TurnRow
  <1>4. TurnsFit'
    BY <1>2, HolderIsActive DEF IngestionIndInv, TurnsFit
  <1>5. AttemptsFit'
    <2>1. AttemptsGoOn
      BY DEF AttemptsGoOn
    <2>2. \E j \in ActiveJobs : job'[j].status \in Active \cup {"failed", "cancelled"}
      BY HolderIsActive DEF ActiveJobs
    <2> QED BY <2>1, <2>2, AttemptsKeep DEF IngestionIndInv
  <1>6. ASSUME NEW v \in Worker \ {w} PROVE ~ Holding(v)'
    BY <1>2, <1>6, OneHolder DEF Holding, Holds
  <1>7. HoldersFit'
    BY <1>6 DEF HoldersFit
  <1>8. EditFits'
    BY DEF EditFits
  <1> QED BY <1>3, <1>4, <1>5, <1>7, <1>8 DEF IngestionIndInv, DataFit

-------------------------------------------------------------------------------
(* Requests and leases. *)

\* The invariant holds for a file that was just uploaded.
LEMMA IngestionInitInv == Init => IngestionIndInv
  <1> SUFFICES ASSUME Init PROVE IngestionIndInv
    OBVIOUS
  <1> USE DEF Init
  <1>1. Idle.at = "idle" /\ NoRow.status = "absent" /\ NoRow.parent = NoJob
    BY DEF Idle, NoRow
  <1>2. IngestionTypeOK
    <2>1. 0 \in 0 .. MaxRevision /\ 0 \in 0 .. MaxFaults
      BY IngestionBounds
    <2> QED BY <2>1, FirstRows DEF IngestionTypeOK, AttemptRow, TurnRow
  <1>3. TurnsFit /\ HoldersFit
    BY <1>1 DEF TurnsFit, HoldersFit, Holding, Running, Early
  <1>4. AttemptsFit
    BY <1>1, FirstRows, IngestionNulls
       DEF AttemptsFit, OneAttempt, ParentsFit, BegunHasAttempt, ActiveJobs, Active
  <1>5. DataFit
    BY FirstRows DEF DataFit, RowsFit, IndexesFit, ReviewFits, EditFits, Reviewed
  <1> QED BY <1>2, <1>3, <1>4, <1>5 DEF IngestionIndInv

\* A new attempt is nobody's yet.
LEMMA InsertInv ==
    ASSUME IngestionIndInv, NEW j \in Job, NEW parent \in Job \cup {NoJob},
           ActiveJobs = {}, Insert(j, parent), parent \in Job => Retryable(parent),
           keys' \subseteq Job \cup {NoJob},
           UNCHANGED <<inline, rows, index, worker, editing, history>>
    PROVE  IngestionIndInv'
  <1>1. job \in [Job -> AttemptRow] /\ version' = version /\ AttemptsFit
    BY DEF IngestionIndInv, IngestionTypeOK, AttemptRow, rows
  <1>2. /\ AttemptsFit' /\ job' \in [Job -> AttemptRow]
        /\ \A i \in Job : job'[i] = job[i] \/ job'[i].status # "running"
    BY <1>1, InsertKeeps
  <1>3. IngestionTypeOK'
    BY <1>2 DEF rows, history, IngestionIndInv, IngestionTypeOK, AttemptRow
  <1>4. \A w \in Worker : Holding(w)' => Holding(w)
    BY <1>2 DEF Holding, Holds, IngestionIndInv, TurnsFit, Running
  <1> QED BY <1>2, <1>3, <1>4, RowsStay DEF history

\* A request starts an attempt while none is active.
LEMMA ProcessInv ==
    ASSUME IngestionIndInv, NEW j \in Job, Process(j)
    PROVE  IngestionIndInv'
  <1>1. keys' \subseteq Job \cup {NoJob}
    BY DEF Process, IngestionIndInv, IngestionTypeOK
  <1>2. NoJob \notin Job
    BY IngestionNulls
  <1> QED BY <1>1, <1>2, InsertInv DEF Process

\* A retry is the child of an attempt that has ended, and the only active attempt.
LEMMA RetryInv ==
    ASSUME IngestionIndInv, NEW j \in Job, NEW c \in Job, Retry(j, c)
    PROVE  IngestionIndInv'
  <1>1. keys' \subseteq Job \cup {NoJob}
    BY DEF Retry, IngestionIndInv, IngestionTypeOK
  <1> QED BY <1>1, InsertInv DEF Retry

\* A row that is worth no more to its holder than it was before.
Weaker(new, old) ==
    /\ new.parent = old.parent
    /\ \/ new.status = old.status
       \/ old.status = "running" /\ new.status = "failed"
    /\ new.status = "running" =>
          /\ new.execution_token = old.execution_token
          /\ new.leased => old.leased
          /\ old.cancel_requested => new.cancel_requested

\* One attempt is flagged, loses its lease or is given up.
LEMMA WeakensInv ==
    ASSUME IngestionIndInv, NEW j \in Job, NEW new \in AttemptRow,
           job' = [job EXCEPT ![j] = new],
           Weaker(new, job[j]), faults' \in 0 .. MaxFaults,
           UNCHANGED <<inline, rows, index, keys, worker, editing, late, raced>>
    PROVE  IngestionIndInv'
  <1>1. job \in [Job -> AttemptRow]
    BY DEF IngestionIndInv, IngestionTypeOK, AttemptRow
  <1>2. /\ job' \in [Job -> AttemptRow] /\ job'[j] = new
        /\ \A i \in Job \ {j} : job'[i] = job[i]
    BY <1>1
  <1>3. IngestionTypeOK'
    BY <1>2 DEF rows, IngestionIndInv, IngestionTypeOK, AttemptRow
  <1>4. AttemptsGoOn /\ \A i \in Job : job'[i].status = "succeeded" => job[i].status = "succeeded"
    BY <1>2 DEF AttemptsGoOn, Active, Terminal, Weaker
  <1>5. AttemptsFit'
    BY <1>4, AttemptsKeep DEF IngestionIndInv, rows
  <1>6. ASSUME NEW w \in Worker, Holding(w)'
        PROVE  Holding(w)
    <2>1. worker'[w] = worker[w] /\ worker[w].job \in Job
      BY <1>6 DEF IngestionIndInv, TurnsFit, Holding, Running
    <2>2. CASE worker[w].job = j
      BY <1>2, <1>6, <2>1, <2>2 DEF Holding, Holds, Weaker
    <2>3. CASE worker[w].job # j
      BY <1>2, <1>6, <2>1, <2>3 DEF Holding, Holds
    <2> QED BY <2>2, <2>3
  <1> QED BY <1>3, <1>5, <1>6, RowsStay

\* A cancelled attempt is still active; what is stored does not change.
LEMMA CancelInv ==
    ASSUME IngestionIndInv, NEW j \in Job, Cancel(j)
    PROVE  IngestionIndInv'
  <1> DEFINE new == [job[j] EXCEPT !.cancel_requested = TRUE]
  <1>1. job[j] \in AttemptRow
    BY DEF IngestionIndInv, IngestionTypeOK, AttemptRow
  <1>2. new \in AttemptRow /\ Weaker(new, job[j])
    <2>1. new \in AttemptRow
      BY <1>1 DEF AttemptRow
    <2>2. new.parent = job[j].parent /\ new.status = job[j].status
      BY <1>1 DEF AttemptRow
    <2>3. new.execution_token = job[j].execution_token
      BY <1>1 DEF AttemptRow
    <2>4. (new.leased => job[j].leased) /\ (job[j].cancel_requested => new.cancel_requested)
      BY <1>1, Zenon DEF AttemptRow
    <2> HIDE DEF new
    <2> QED BY <2>1, <2>2, <2>3, <2>4 DEF Weaker
  <1>3. job' = [job EXCEPT ![j] = new]
    BY DEF Cancel
  <1>4. /\ faults' \in 0 .. MaxFaults
        /\ UNCHANGED <<inline, rows, index, keys, worker, editing, late, raced>>
    BY DEF Cancel, history, IngestionIndInv, IngestionTypeOK
  <1> HIDE DEF new
  <1> QED BY <1>2, <1>3, <1>4, WeakensInv

\* A lease that runs out takes its holder out of consideration.
LEMMA ExpireInv ==
    ASSUME IngestionIndInv, NEW j \in Job, Expire(j)
    PROVE  IngestionIndInv'
  <1> DEFINE new == [job[j] EXCEPT !.leased = FALSE]
  <1>1. job[j] \in AttemptRow
    BY DEF IngestionIndInv, IngestionTypeOK, AttemptRow
  <1>2. new \in AttemptRow /\ Weaker(new, job[j])
    <2>1. new \in AttemptRow
      BY <1>1 DEF AttemptRow
    <2>2. new.parent = job[j].parent /\ new.status = job[j].status
      BY <1>1 DEF AttemptRow
    <2>3. new.execution_token = job[j].execution_token
      BY <1>1 DEF AttemptRow
    <2>4. (new.leased => job[j].leased) /\ (job[j].cancel_requested => new.cancel_requested)
      BY <1>1, Zenon DEF AttemptRow
    <2> HIDE DEF new
    <2> QED BY <2>1, <2>2, <2>3, <2>4 DEF Weaker
  <1>3. job' = [job EXCEPT ![j] = new]
    BY DEF Expire
  <1>4. /\ faults' \in 0 .. MaxFaults
        /\ UNCHANGED <<inline, rows, index, keys, worker, editing, late, raced>>
    BY IngestionBounds DEF Expire, IngestionIndInv, IngestionTypeOK
  <1> HIDE DEF new
  <1> QED BY <1>2, <1>3, <1>4, WeakensInv

\* An attempt whose lease ran out fails, and the next can go on from it.
LEMMA SweepInv ==
    ASSUME IngestionIndInv, NEW j \in Job, Sweep(j)
    PROVE  IngestionIndInv'
  <1> DEFINE new == [job[j] EXCEPT !.status = "failed"]
  <1>1. job[j] \in AttemptRow /\ job[j].status = "running"
    BY DEF Sweep, IngestionIndInv, IngestionTypeOK, AttemptRow
  <1>2. new \in AttemptRow /\ Weaker(new, job[j])
    BY <1>1 DEF AttemptRow, Terminal, Weaker
  <1>3. job' = [job EXCEPT ![j] = new]
    BY DEF Sweep
  <1>4. /\ faults' \in 0 .. MaxFaults
        /\ UNCHANGED <<inline, rows, index, keys, worker, editing, late, raced>>
    BY DEF Sweep, history, IngestionIndInv, IngestionTypeOK
  <1> HIDE DEF new
  <1> QED BY <1>2, <1>3, <1>4, WeakensInv

\* A correction begins beside no attempt ...
LEMMA CorrectInv ==
    ASSUME IngestionIndInv, Correct
    PROVE  IngestionIndInv'
  <1> USE DEF Correct, rows, history
  <1>1. \A w \in Worker : ~ Holding(w)
    BY HolderIsActive
  <1>2. \A w \in Worker : ~ Holding(w)'
    BY <1>1 DEF Holding, Holds
  <1>3. IngestionTypeOK'
    BY DEF IngestionIndInv, IngestionTypeOK
  <1>4. TurnsFit' /\ AttemptsFit'
    BY DEF IngestionIndInv, TurnsFit, AttemptsFit, OneAttempt, ParentsFit, BegunHasAttempt,
           ActiveJobs, Children
  <1>5. DataFit'
    BY <1>2 DEF IngestionIndInv, DataFit, RowsFit, IndexesFit, ReviewFits, EditFits
  <1> QED BY <1>2, <1>3, <1>4, <1>5 DEF IngestionIndInv, HoldersFit

\* ... and if one has begun when it ends, it has not stored anything yet.
LEMMA CorrectedInv ==
    ASSUME IngestionIndInv, Corrected
    PROVE  IngestionIndInv'
  <1> USE DEF Corrected
  <1> DEFINE new == [status |-> "uploaded", revision |-> version.revision + 1,
                     state |-> {"cleanup_required"}]
  <1>1. version.revision \in 1 .. MaxRevision - 1
    BY DEF IngestionIndInv, DataFit, EditFits
  <1>2. new \in VersionRow /\ version' = new
    BY <1>1, IngestionBounds DEF VersionRow, Marks, Startable
  <1>3. raced' \in BOOLEAN
    BY Zenon DEF IngestionIndInv, IngestionTypeOK
  <1>4. 0 \in 0 .. MaxRevision
    BY IngestionBounds
  <1>5. IngestionTypeOK'
    BY <1>2, <1>3, <1>4 DEF IngestionIndInv, IngestionTypeOK
  <1>6. TurnsFit'
    BY DEF IngestionIndInv, TurnsFit
  <1>7. AttemptsFit'
    <2>1. AttemptsGoOn
      BY DEF AttemptsGoOn
    <2> QED BY <1>2, <2>1, AttemptsKeep DEF IngestionIndInv
  <1>8. /\ version'.status = "uploaded" /\ version'.state = {"cleanup_required"}
        /\ chunks' = 0 /\ facts' = 0 /\ ~editing'
    BY <1>2
  <1>9. DataFit'
    BY <1>8 DEF DataFit, RowsFit, IndexesFit, ReviewFits, EditFits, Indexes, Reviewed
  <1>10. ASSUME NEW w \in Worker, Holding(w)'
         PROVE  HolderFits(w)'
    <2>1. Holding(w)
      BY <1>10 DEF Holding, Holds
    <2>2. raced'
      BY <2>1, HolderIsActive
    <2>3. \/ worker'[w].at = "loading"
          \/ worker'[w].at = "beginning" /\ worker'[w].copy.status = "failed"
      BY <2>1 DEF IngestionIndInv, DataFit, EditFits
    <2> QED BY <1>8, <2>2, <2>3
            DEF HolderFits, CopyFits, StatusFits, MarksFit, StageFits, ReachFits, Startable, Filling
  <1> QED BY <1>5, <1>6, <1>7, <1>9, <1>10 DEF IngestionIndInv, HoldersFit

\* What people decide is about a version nobody processes.
LEMMA DecideInv ==
    ASSUME IngestionIndInv, NEW from \in Reviewed,
           NEW to \in {"approved", "rejected", "published", "withdrawn"}, Decide(from, to)
    PROVE  IngestionIndInv'
  <1> USE DEF Decide, history
  <1>1. version \in VersionRow
    BY DEF IngestionIndInv, IngestionTypeOK
  <1>2. /\ version' \in VersionRow /\ version'.status = to
        /\ version'.revision = version.revision /\ version'.state = version.state
    BY <1>1 DEF VersionRow, Reviewed
  <1>3. IngestionTypeOK'
    BY <1>2 DEF IngestionIndInv, IngestionTypeOK
  <1>4. TurnsFit'
    BY DEF IngestionIndInv, TurnsFit
  <1>5. AttemptsFit'
    <2>1. AttemptsGoOn
      BY DEF AttemptsGoOn
    <2> QED BY <1>2, <2>1, AttemptsKeep DEF IngestionIndInv
  <1>6. DataFit'
    BY <1>2 DEF IngestionIndInv, DataFit, RowsFit, IndexesFit, ReviewFits, EditFits
  <1>7. ASSUME NEW w \in Worker, Holding(w)'
        PROVE  HolderFits(w)'
    <2>1. Holding(w)
      BY <1>7 DEF Holding, Holds
    <2>2. StatusFits(w)
      BY <2>1 DEF IngestionIndInv, HoldersFit, HolderFits
    <2>3. worker'[w].at = "loading"
      BY <2>2 DEF StatusFits, Startable, Reviewed
    <2> QED BY <2>3
            DEF HolderFits, CopyFits, StatusFits, MarksFit, StageFits, ReachFits, Filling, Cutting
  <1> QED BY <1>3, <1>4, <1>5, <1>6, <1>7 DEF IngestionIndInv, HoldersFit

\* A process that takes an attempt up knows nothing yet.
LEMMA ClaimInv ==
    ASSUME IngestionIndInv, NEW w \in Worker, NEW j \in Job, Claim(w, j)
    PROVE  IngestionIndInv'
  <1> DEFINE new == [job[j] EXCEPT !.status = "running", !.execution_token = w, !.leased = TRUE]
             turn == [Idle EXCEPT !.at = "loading", !.job = j]
  <1>1. job \in [Job -> AttemptRow] /\ worker \in [Worker -> TurnRow] /\ job[j] \in AttemptRow
    BY DEF IngestionIndInv, IngestionTypeOK, AttemptRow, TurnRow
  <1>2. /\ new \in AttemptRow /\ new.status = "running" /\ new.parent = job[j].parent
        /\ new.execution_token = w
    BY <1>1 DEF AttemptRow, Active
  <1>3. turn \in TurnRow /\ turn.at = "loading" /\ turn.job = j /\ turn.stage = 1
    BY FirstRows DEF Idle, TurnRow, Running
  <1>4. job' = [job EXCEPT ![j] = new] /\ worker' = [worker EXCEPT ![w] = turn]
    BY DEF Claim
  <1> HIDE DEF new, turn
  <1>5. /\ job' \in [Job -> AttemptRow] /\ job'[j] = new
        /\ \A i \in Job \ {j} : job'[i] = job[i]
        /\ worker' \in [Worker -> TurnRow] /\ worker'[w] = turn
        /\ \A v \in Worker \ {w} : worker'[v] = worker[v]
    BY <1>1, <1>2, <1>3, <1>4
  <1> USE DEF Claim, history, rows
  <1>6. IngestionTypeOK'
    BY <1>5 DEF IngestionIndInv, IngestionTypeOK, AttemptRow, TurnRow
  <1>7. TurnsFit'
    BY <1>3, <1>5 DEF IngestionIndInv, TurnsFit
  <1>8. AttemptsFit'
    <2>1. AttemptsGoOn /\ \A i \in Job : job'[i].status = "succeeded" => job[i].status = "succeeded"
      BY <1>2, <1>5 DEF AttemptsGoOn, Active
    <2> QED BY <2>1, AttemptsKeep DEF IngestionIndInv
  <1>9. ASSUME NEW v \in Worker \ {w}, Holding(v)'
        PROVE  Holding(v)
    <2>1. worker'[v] = worker[v] /\ worker[v].job \in Job
      BY <1>5, <1>9 DEF Holding, Running, IngestionIndInv, TurnsFit
    <2>2. worker[v].job # j
      BY <1>2, <1>5, <1>9, <2>1 DEF Holding, Holds
    <2> QED BY <1>5, <1>9, <2>1, <2>2 DEF Holding, Holds
  <1>10. DataFit'
    BY <1>3, <1>5, <1>9 DEF IngestionIndInv, DataFit, RowsFit, IndexesFit, ReviewFits, EditFits
  <1>11. HolderFits(w)'
    BY <1>3, <1>5
       DEF HolderFits, CopyFits, StatusFits, MarksFit, StageFits, ReachFits, Filling, Cutting
  <1>12. ASSUME NEW v \in Worker \ {w}, Holding(v)'
         PROVE  HolderFits(v)'
    BY <1>5, <1>9, <1>12
       DEF IngestionIndInv, HoldersFit, HolderFits, CopyFits, StatusFits, MarksFit, StageFits,
           ReachFits, Stage
  <1>13. HoldersFit'
    BY <1>11, <1>12 DEF HoldersFit
  <1> QED BY <1>6, <1>7, <1>8, <1>10, <1>13 DEF IngestionIndInv

-------------------------------------------------------------------------------
(* The pipeline. *)

\* What a flush leaves in the row: the session's values, if the session had the
\* values of the row.
LEMMA StoresFacts ==
    ASSUME version \in VersionRow, NEW w \in Worker, worker[w].copy \in VersionRow,
           NEW copy \in VersionRow, Stores(w, copy)
    PROVE  /\ version' \in VersionRow
           /\ worker[w].copy = version => version' = copy
           /\ copy.status = worker[w].copy.status => version'.status = version.status
           /\ copy.status # worker[w].copy.status => version'.status = copy.status
  <1> DEFINE seen == worker[w].copy
             status == Flushed(version.status, seen.status, copy.status)
             revision == Flushed(version.revision, seen.revision, copy.revision)
             state == Flushed(version.state, seen.state, copy.state)
  <1>1. version' = [status |-> status, revision |-> revision, state |-> state]
    BY DEF Stores
  <1>2. /\ status \in {version.status, copy.status}
        /\ revision \in {version.revision, copy.revision}
        /\ state \in {version.state, copy.state}
    BY DEF Flushed
  <1>3. version' \in VersionRow
    BY <1>1, <1>2 DEF VersionRow
  <1>4. ASSUME seen = version
        PROVE  version' = copy
    <2>1. status = copy.status /\ revision = copy.revision /\ state = copy.state
      BY <1>4 DEF Flushed
    <2> QED BY <1>1, <2>1 DEF VersionRow
  <1>5. /\ copy.status = seen.status => version'.status = version.status
        /\ copy.status # seen.status => version'.status = copy.status
    BY <1>1 DEF Flushed
  <1> QED BY <1>3, <1>4, <1>5

\* The types of what a process holds.
LEMMA TurnFacts ==
    ASSUME IngestionIndInv, NEW w \in Worker
    PROVE  /\ worker[w] \in TurnRow /\ worker[w].copy \in VersionRow
           /\ version \in VersionRow
           /\ worker[w].cut \in 0 .. MaxRevision /\ worker[w].known \in 0 .. MaxRevision
           /\ worker[w].stage \in 1 .. 3
           /\ worker[w].at # "idle" => worker[w].job \in Job
           /\ worker[w].at \in Early => worker[w].stage = 1
           /\ chunks \in 0 .. MaxRevision /\ facts \in 0 .. MaxRevision
           /\ index \in [Indexes -> SUBSET (1 .. MaxRevision)] /\ late \in BOOLEAN
  BY DEF IngestionIndInv, IngestionTypeOK, TurnRow, TurnsFit

\* The executor reads the version after it has claimed the attempt.
LEMMA LoadInv ==
    ASSUME IngestionIndInv, NEW w \in Worker, Load(w)
    PROVE  IngestionIndInv'
  <1> DEFINE new == [worker[w] EXCEPT !.at = "beginning", !.copy = version]
  <1>1. /\ new \in TurnRow /\ new.at = "beginning" /\ new.copy = version
        /\ new.job = worker[w].job /\ new.job \in Job /\ new.stage = 1
    BY TurnFacts DEF Load, TurnRow, Running, Early
  <1>2. Turn(w, new)
    BY DEF Load
  <1> HIDE DEF new
  <1>3. worker'[w] = new
    BY <1>2, TurnFacts DEF Turn, IngestionIndInv, IngestionTypeOK
  <1>4. /\ UNCHANGED <<inline, rows, job, keys, editing, raced, faults>>
        /\ index' = index /\ late' = late
    BY DEF Load, history
  <1>5. Holding(w)' => Holding(w)
    BY <1>1, <1>3, <1>4 DEF Load, Holding, Holds, Running
  <1>6. Holding(w)' /\ editing => new.copy.status = "failed"
    BY <1>1, <1>5 DEF Load, IngestionIndInv, DataFit, EditFits, Startable
  <1>7. HolderFits(w)'
    BY <1>1, <1>3, <1>4
       DEF Load, rows, HolderFits, CopyFits, StatusFits, MarksFit, StageFits, ReachFits, Filling,
           Cutting
  <1> QED BY <1>1, <1>2, <1>4, <1>6, <1>7, TurnFacts, TurnKeeps

\* The version is marked as being processed, if nothing has changed since it was read.
LEMMA BeginInv ==
    ASSUME IngestionIndInv, NEW w \in Worker, Begin(w)
    PROVE  IngestionIndInv'
  <1> DEFINE copy == [worker[w].copy EXCEPT !.status = "processing"]
             new == [worker[w] EXCEPT !.at = AfterBegin(copy), !.copy = copy]
  <1>1. worker[w].at = "beginning" /\ Holding(w)
    BY DEF Begin, Holding, Running
  <1>2. /\ copy \in VersionRow /\ copy.status = "processing"
        /\ copy.revision = worker[w].copy.revision /\ copy.state = worker[w].copy.state
    BY TurnFacts DEF VersionRow, Startable
  <1>3. AfterBegin(copy) \in {"cleaning", "parsing", "cutting"}
    BY DEF AfterBegin
  <1>4. /\ new \in TurnRow /\ new.at = AfterBegin(copy) /\ new.copy = copy
        /\ new.job = worker[w].job /\ new.stage = 1
    BY <1>1, <1>2, <1>3, TurnFacts DEF TurnRow, Running, Early
  <1>5. Turn(w, new) /\ Stores(w, copy) /\ (copy # worker[w].copy => ~editing)
    BY DEF Begin
  <1>6. ~editing
    BY <1>1, <1>2, <1>5 DEF IngestionIndInv, DataFit, EditFits
  <1> HIDE DEF copy, new
  <1>7. worker'[w] = new
    BY <1>5, TurnFacts DEF Turn, IngestionIndInv, IngestionTypeOK
  <1>8. HolderFits(w)
    BY <1>1 DEF IngestionIndInv, HoldersFit
  <1>9. /\ version' \in VersionRow /\ version'.status = "processing"
        /\ ~raced => worker[w].copy = version /\ version' = copy
    BY <1>1, <1>2, <1>5, <1>8, StoresFacts, TurnFacts DEF HolderFits, CopyFits, StatusFits
  <1>10. UNCHANGED <<inline, chunks, facts, index, job, keys, editing, late, raced, faults>>
    BY DEF Begin, history
  <1>11. RowsFit' /\ IndexesFit' /\ ReviewFits'
    BY <1>2, <1>9, <1>10
       DEF IngestionIndInv, DataFit, RowsFit, IndexesFit, ReviewFits, Reviewed
  <1>12. CopyFits(w)' /\ StatusFits(w)' /\ MarksFit(w)' /\ ReachFits(w)'
    BY <1>3, <1>4, <1>6, <1>7, <1>9, <1>10
       DEF CopyFits, StatusFits, MarksFit, ReachFits, Filling
  <1>13. StageFits(w)'
    BY <1>3, <1>4, <1>7, <1>9, <1>10 DEF StageFits, AfterBegin, Cutting, Filling
  <1>14. /\ chunks' \in 0 .. MaxRevision /\ facts' \in 0 .. MaxRevision
         /\ index' \in [Indexes -> SUBSET (1 .. MaxRevision)]
    BY <1>10, TurnFacts
  <1> QED BY <1>1, <1>4, <1>5, <1>6, <1>9, <1>10, <1>11, <1>12, <1>13, <1>14, HolderKeeps
          DEF HolderFits

\* The entries of the version are deleted, with or without the lease.
LEMMA CleanInv ==
    ASSUME IngestionIndInv, NEW w \in Worker, Clean(w)
    PROVE  IngestionIndInv'
  <1> DEFINE new == [worker[w] EXCEPT !.at = "cleaned"]
  <1>1. /\ new \in TurnRow /\ new.at = "cleaned" /\ new.copy = worker[w].copy
        /\ new.job = worker[w].job /\ new.job \in Job /\ new.stage = 1
    BY TurnFacts DEF Clean, TurnRow, Running, Early
  <1>2. Turn(w, new)
    BY DEF Clean, Moves
  <1> HIDE DEF new
  <1>3. worker'[w] = new
    BY <1>2, TurnFacts DEF Turn, IngestionIndInv, IngestionTypeOK
  <1>4. /\ UNCHANGED <<inline, rows, job, keys, editing, raced, faults>>
        /\ index' = [n \in Indexes |-> {}]
        /\ late' = (late \/ ~Holds(w)) /\ worker[w].at = "cleaning"
    BY DEF Clean
  <1>5. index' \in [Indexes -> SUBSET (1 .. MaxRevision)]
    BY <1>4
  <1>6. late' \in BOOLEAN
    BY <1>4, TurnFacts, Zenon
  <1>7. CASE Holds(w)
    <2>1. Holding(w) /\ late' = late
      BY <1>4, <1>7, TurnFacts DEF Holding, Running
    <2>2. HolderFits(w)
      BY <2>1 DEF IngestionIndInv, HoldersFit
    <2>3. /\ ~editing /\ version.status = "processing" /\ version' = version /\ chunks' = chunks
          /\ facts' = facts
      BY <1>4, <2>2 DEF HolderFits, StatusFits, rows
    <2>4. ~raced => "cleanup_required" \in version.state /\ version.state = {"cleanup_required"}
      BY <1>4, <2>2 DEF HolderFits, StageFits, IngestionIndInv, DataFit, RowsFit
    <2>5. RowsFit' /\ IndexesFit' /\ ReviewFits'
      BY <1>4, <2>1, <2>3, <2>4
         DEF IngestionIndInv, DataFit, RowsFit, IndexesFit, ReviewFits, Reviewed, Indexes
    <2>6. HolderFits(w)'
      BY <1>1, <1>3, <1>4, <2>1, <2>2, <2>3, <2>4
         DEF HolderFits, CopyFits, StatusFits, MarksFit, StageFits, ReachFits, Filling, Cutting
    <2>7. /\ version' \in VersionRow /\ chunks' \in 0 .. MaxRevision /\ facts' \in 0 .. MaxRevision
          /\ UNCHANGED <<inline, job, keys, editing, late, raced, faults>>
      BY <1>4, <2>1, <2>3, TurnFacts
    <2> QED BY <1>1, <1>2, <1>5, <2>1, <2>3, <2>5, <2>6, <2>7, HolderKeeps
  <1>8. CASE ~ Holds(w)
    <2>1. ~ Holding(w)' /\ late'
      BY <1>1, <1>3, <1>4, <1>8 DEF Holding, Holds
    <2> QED BY <1>1, <1>2, <1>4, <1>5, <1>6, <2>1, TurnKeeps
  <1> QED BY <1>7, <1>8

\* The mark that asked for cleaning is removed.
LEMMA CleanedInv ==
    ASSUME IngestionIndInv, NEW w \in Worker, Cleaned(w)
    PROVE  IngestionIndInv'
  <1> DEFINE copy == [worker[w].copy EXCEPT !.state = {}]
             new == [worker[w] EXCEPT !.at = AfterBegin(copy), !.copy = copy]
  <1>1. worker[w].at = "cleaned" /\ Holding(w) /\ ~editing
    BY DEF Cleaned, Holding, Running
  <1>2. /\ copy \in VersionRow /\ copy.status = worker[w].copy.status
        /\ copy.revision = worker[w].copy.revision /\ copy.state = {}
    BY TurnFacts DEF VersionRow
  <1>3. AfterBegin(copy) = IF copy.revision = 0 THEN "parsing" ELSE "cutting"
    BY <1>2 DEF AfterBegin
  <1>4. /\ new \in TurnRow /\ new.at = AfterBegin(copy) /\ new.copy = copy
        /\ new.job = worker[w].job /\ new.stage = 1
    BY <1>1, <1>2, <1>3, TurnFacts DEF TurnRow, Running, Early
  <1>5. Turn(w, new) /\ Stores(w, copy)
    BY DEF Cleaned
  <1> HIDE DEF copy, new
  <1>6. worker'[w] = new
    BY <1>5, TurnFacts DEF Turn, IngestionIndInv, IngestionTypeOK
  <1>7. HolderFits(w)
    BY <1>1 DEF IngestionIndInv, HoldersFit
  <1>8. /\ version' \in VersionRow /\ version'.status = "processing"
        /\ ~raced => worker[w].copy = version /\ version' = copy
    BY <1>1, <1>2, <1>5, <1>7, StoresFacts, TurnFacts DEF HolderFits, CopyFits, StatusFits
  <1>9. UNCHANGED <<inline, chunks, facts, index, job, keys, editing, late, raced, faults>>
    BY DEF Cleaned, history
  <1>10. ~raced /\ ~late => \A n \in Indexes : index[n] = {}
    BY <1>1, <1>7 DEF HolderFits, ReachFits
  <1>11. RowsFit' /\ IndexesFit' /\ ReviewFits'
    BY <1>2, <1>8, <1>9, <1>10
       DEF IngestionIndInv, DataFit, RowsFit, IndexesFit, ReviewFits, Reviewed
  <1>12. CopyFits(w)' /\ StatusFits(w)' /\ MarksFit(w)' /\ ReachFits(w)' /\ StageFits(w)'
    BY <1>1, <1>2, <1>3, <1>4, <1>6, <1>8, <1>9
       DEF CopyFits, StatusFits, MarksFit, ReachFits, StageFits, Filling, Cutting
  <1>13. /\ chunks' \in 0 .. MaxRevision /\ facts' \in 0 .. MaxRevision
         /\ index' \in [Indexes -> SUBSET (1 .. MaxRevision)]
    BY <1>9, TurnFacts
  <1>14. new.at \in Early => new.stage = 1
    BY <1>4
  <1> QED BY <1>1, <1>4, <1>5, <1>8, <1>9, <1>11, <1>12, <1>13, <1>14, HolderKeeps
          DEF HolderFits

\* What the parser returns is the first revision.
LEMMA ParseInv ==
    ASSUME IngestionIndInv, NEW w \in Worker, Parse(w)
    PROVE  IngestionIndInv'
  <1> DEFINE copy == [worker[w].copy EXCEPT !.revision = 1]
             new == [worker[w] EXCEPT !.at = "cutting", !.copy = copy]
  <1>1. worker[w].at = "parsing" /\ Holding(w) /\ ~editing
    BY DEF Parse, Holding, Running
  <1>2. /\ copy \in VersionRow /\ copy.status = worker[w].copy.status
        /\ copy.revision = 1 /\ copy.state = worker[w].copy.state
    BY TurnFacts, IngestionBounds DEF VersionRow
  <1>3. /\ new \in TurnRow /\ new.at = "cutting" /\ new.copy = copy
        /\ new.job = worker[w].job /\ new.stage = 1
    BY <1>1, <1>2, TurnFacts DEF TurnRow, Running, Early
  <1>4. Turn(w, new) /\ Stores(w, copy)
    BY DEF Parse
  <1> HIDE DEF copy, new
  <1>5. worker'[w] = new
    BY <1>4, TurnFacts DEF Turn, IngestionIndInv, IngestionTypeOK
  <1>6. HolderFits(w)
    BY <1>1 DEF IngestionIndInv, HoldersFit
  <1>7. /\ version' \in VersionRow /\ version'.status = "processing"
        /\ ~raced => /\ worker[w].copy = version /\ version' = copy
                     /\ version.revision = 0 /\ "cleanup_required" \notin version.state
    BY <1>1, <1>2, <1>4, <1>6, StoresFacts, TurnFacts
       DEF HolderFits, CopyFits, StatusFits, StageFits
  <1>8. UNCHANGED <<inline, chunks, facts, index, job, keys, editing, late, raced, faults>>
    BY DEF Parse, history
  <1>9. ~raced => chunks = 0 /\ version.state \cap Indexes = {}
                  /\ "facts_extracted" \notin version.state
    BY <1>7 DEF IngestionIndInv, DataFit, RowsFit
  <1>10. ~raced /\ ~late => \A n \in Indexes : index[n] = {}
    <2>1. ~raced /\ ~late => \A n \in Indexes : index[n] \subseteq {0}
      BY <1>7 DEF IngestionIndInv, DataFit, IndexesFit
    <2>2. 0 \notin 1 .. MaxRevision
      BY IngestionBounds
    <2> QED BY <2>1, <2>2, TurnFacts
  <1>11. RowsFit' /\ IndexesFit' /\ ReviewFits'
    BY <1>2, <1>7, <1>8, <1>9, <1>10
       DEF RowsFit, IndexesFit, ReviewFits, Reviewed
  <1>12. CopyFits(w)' /\ StatusFits(w)' /\ MarksFit(w)' /\ ReachFits(w)' /\ StageFits(w)'
    BY <1>1, <1>2, <1>3, <1>5, <1>7, <1>8
       DEF CopyFits, StatusFits, MarksFit, ReachFits, StageFits, Filling, Cutting
  <1>13. /\ chunks' \in 0 .. MaxRevision /\ facts' \in 0 .. MaxRevision
         /\ index' \in [Indexes -> SUBSET (1 .. MaxRevision)]
    BY <1>8, TurnFacts
  <1>14. new.at \in Early => new.stage = 1
    BY <1>3
  <1> QED BY <1>1, <1>3, <1>4, <1>7, <1>8, <1>11, <1>12, <1>13, <1>14, HolderKeeps
          DEF HolderFits

\* Chunks of an earlier attempt are taken over.
LEMMA ReuseInv ==
    ASSUME IngestionIndInv, NEW w \in Worker, Reuse(w)
    PROVE  IngestionIndInv'
  <1> DEFINE place == IF chunks = 0 THEN "segmenting" ELSE "extracting"
             new == [worker[w] EXCEPT !.at = place, !.cut = chunks]
  <1>1. place \in {"segmenting", "extracting"} /\ (place = "extracting" => chunks # 0)
    OBVIOUS
  <1> HIDE DEF place
  <1>2. /\ new \in TurnRow /\ new.at = place /\ new.copy = worker[w].copy /\ new.cut = chunks
        /\ new.job = worker[w].job /\ new.job \in Job /\ new.stage = 1
    BY <1>1, TurnFacts DEF Reuse, TurnRow, Running, Early
  <1>3. Turn(w, new)
    BY DEF Reuse, place
  <1> HIDE DEF new
  <1>4. worker'[w] = new
    BY <1>3, TurnFacts DEF Turn, IngestionIndInv, IngestionTypeOK
  <1>5. /\ UNCHANGED <<inline, rows, job, keys, editing, raced, faults>>
        /\ index' = index /\ late' = late /\ worker[w].at = "cutting"
    BY DEF Reuse, history
  <1>6. ASSUME Holding(w)'
        PROVE  HolderFits(w)' /\ ~editing
    <2>1. Holding(w)
      BY <1>2, <1>4, <1>5, <1>6 DEF Holding, Holds, Running
    <2>2. HolderFits(w) /\ RowsFit
      BY <2>1 DEF IngestionIndInv, HoldersFit, DataFit
    <2> QED BY <1>1, <1>2, <1>4, <1>5, <2>2
            DEF rows, HolderFits, CopyFits, StatusFits, MarksFit, StageFits, ReachFits, Filling,
                Cutting, RowsFit
  <1> QED BY <1>2, <1>3, <1>5, <1>6, TurnFacts, TurnKeeps

\* Chunks are cut from the revision of the copy, where there are none.
LEMMA SegmentInv ==
    ASSUME IngestionIndInv, NEW w \in Worker, Segment(w)
    PROVE  IngestionIndInv'
  <1> DEFINE new == [worker[w] EXCEPT !.at = "extracting", !.cut = chunks']
  <1>1. worker[w].at = "segmenting" /\ Holding(w) /\ chunks = 0
    BY DEF Segment, Holding, Running
  <1>2. chunks' = worker[w].copy.revision /\ chunks' \in 0 .. MaxRevision
    BY TurnFacts DEF Segment, VersionRow
  <1>3. /\ new \in TurnRow /\ new.at = "extracting" /\ new.copy = worker[w].copy
        /\ new.cut = chunks' /\ new.job = worker[w].job /\ new.stage = 1
    BY <1>1, <1>2, TurnFacts DEF TurnRow, Running, Early
  <1>4. Turn(w, new)
    BY DEF Segment
  <1> HIDE DEF new
  <1>5. worker'[w] = new
    BY <1>4, TurnFacts DEF Turn, IngestionIndInv, IngestionTypeOK
  <1>6. HolderFits(w)
    BY <1>1 DEF IngestionIndInv, HoldersFit
  <1>7. UNCHANGED <<inline, version, facts, index, job, keys, editing, late, raced, faults>>
    BY DEF Segment, history
  <1>8. /\ ~editing /\ version.status = "processing"
        /\ ~raced => /\ chunks' = version.revision
                     /\ version.revision # 0 /\ "cleanup_required" \notin version.state
    BY <1>1, <1>2, <1>6 DEF HolderFits, CopyFits, StatusFits, StageFits, Cutting
  <1>9. RowsFit' /\ IndexesFit' /\ ReviewFits'
    BY <1>1, <1>7, <1>8 DEF IngestionIndInv, DataFit, RowsFit, IndexesFit, ReviewFits, Reviewed
  <1>10. HolderFits(w)'
    BY <1>1, <1>3, <1>5, <1>6, <1>7, <1>8
       DEF HolderFits, CopyFits, StatusFits, MarksFit, ReachFits, StageFits, Filling, Cutting
  <1>11. /\ version' \in VersionRow /\ facts' \in 0 .. MaxRevision
         /\ index' \in [Indexes -> SUBSET (1 .. MaxRevision)]
    BY <1>7, TurnFacts
  <1> QED BY <1>1, <1>2, <1>3, <1>4, <1>7, <1>8, <1>9, <1>10, <1>11, HolderKeeps

\* Facts are taken from the chunks, stored and marked in one transaction.
LEMMA ExtractInv ==
    ASSUME IngestionIndInv, NEW w \in Worker, Extract(w)
    PROVE  IngestionIndInv'
  <1> DEFINE copy == [worker[w].copy EXCEPT !.state = @ \cup {"facts_extracted"}]
             new == [worker[w] EXCEPT !.at = "looking", !.copy = copy, !.known = facts']
  <1>1. worker[w].at = "extracting" /\ Holding(w)
    BY DEF Extract, Holding, Running
  <1>2. /\ copy \in VersionRow /\ copy.status = worker[w].copy.status
        /\ copy.revision = worker[w].copy.revision
        /\ copy.state = worker[w].copy.state \cup {"facts_extracted"}
    BY TurnFacts DEF VersionRow, Marks
  <1>3. /\ facts' = IF "facts_extracted" \in worker[w].copy.state THEN facts ELSE worker[w].cut
        /\ facts' \in 0 .. MaxRevision
    BY TurnFacts DEF Extract
  <1>4. /\ new \in TurnRow /\ new.at = "looking" /\ new.copy = copy /\ new.known = facts'
        /\ new.cut = worker[w].cut /\ new.job = worker[w].job /\ new.stage = 1
    BY <1>1, <1>2, <1>3, TurnFacts DEF TurnRow, Running, Early
  <1>5. Turn(w, new) /\ Stores(w, copy)
    BY DEF Extract
  <1> HIDE DEF copy, new
  <1>6. worker'[w] = new
    BY <1>5, TurnFacts DEF Turn, IngestionIndInv, IngestionTypeOK
  <1>7. HolderFits(w)
    BY <1>1 DEF IngestionIndInv, HoldersFit
  <1>8. /\ version' \in VersionRow /\ version'.status = "processing" /\ ~editing
        /\ ~raced => /\ worker[w].copy = version /\ version' = copy
                     /\ version.revision # 0 /\ "cleanup_required" \notin version.state
                     /\ worker[w].cut = version.revision /\ chunks = version.revision
    BY <1>1, <1>2, <1>5, <1>7, StoresFacts, TurnFacts
       DEF HolderFits, CopyFits, StatusFits, StageFits, Cutting
  <1>9. UNCHANGED <<inline, chunks, index, job, keys, editing, late, raced, faults>>
    BY DEF Extract, history
  <1>10. ~raced => facts' = version.revision
    BY <1>3, <1>8 DEF IngestionIndInv, DataFit, RowsFit
  <1>11. RowsFit' /\ IndexesFit' /\ ReviewFits'
    BY <1>2, <1>8, <1>9, <1>10
       DEF IngestionIndInv, DataFit, RowsFit, IndexesFit, ReviewFits, Reviewed, Indexes
  <1>12. CopyFits(w)' /\ StatusFits(w)' /\ MarksFit(w)' /\ ReachFits(w)' /\ StageFits(w)'
    BY <1>1, <1>2, <1>4, <1>6, <1>8, <1>9, <1>10
       DEF CopyFits, StatusFits, MarksFit, ReachFits, StageFits, Filling, Cutting
  <1>13. chunks' \in 0 .. MaxRevision /\ index' \in [Indexes -> SUBSET (1 .. MaxRevision)]
    BY <1>9, TurnFacts
  <1>14. new.at \in Early => new.stage = 1
    BY <1>4
  <1> QED BY <1>1, <1>3, <1>4, <1>5, <1>8, <1>9, <1>11, <1>12, <1>13, <1>14, HolderKeeps
          DEF HolderFits

\* The loop over the indexes, once one of them is marked.
LEMMA AdvanceFacts ==
    ASSUME IngestionIndInv, NEW w \in Worker, worker[w].at \in {"looking", "marking"},
           NEW copy \in VersionRow
    PROVE  /\ Advance(w, copy) \in TurnRow
           /\ Advance(w, copy).at \in {"looking", "ending"}
           /\ Advance(w, copy).copy = copy
           /\ Advance(w, copy).job = worker[w].job /\ worker[w].job \in Job
           /\ Advance(w, copy).cut = worker[w].cut
           /\ Advance(w, copy).known = worker[w].known
           /\ Advance(w, copy).at = "ending" => worker[w].stage = 3 /\ Advance(w, copy).stage = 3
           /\ Advance(w, copy).at = "looking" => Advance(w, copy).stage = worker[w].stage + 1
  <1>1. worker[w] \in TurnRow /\ worker[w].stage \in 1 .. 3
        /\ worker[w].job \in Job
    BY TurnFacts
  <1>2. CASE worker[w].stage = 3
    BY <1>1, <1>2 DEF Advance, TurnRow, Running
  <1>3. CASE worker[w].stage # 3
    <2>1. worker[w].stage + 1 \in 1 .. 3
      BY <1>1, <1>3
    <2> QED BY <1>1, <1>3, <2>1 DEF Advance, TurnRow, Running
  <1> QED BY <1>2, <1>3

\* What was marked before, and the index in hand, are marked after it.
LEMMA MarksGrow ==
    ASSUME IngestionIndInv, NEW w \in Worker, worker[w].at \in {"looking", "marking"},
           MarksFit(w), NEW copy \in VersionRow, NEW state,
           Stage(w) \in state, version.state \subseteq state
    PROVE  /\ \A k \in 1 .. Advance(w, copy).stage - 1 : Order[k] \in state
           /\ Advance(w, copy).at = "ending" => Indexes \subseteq state
  <1>1. worker[w].stage \in 1 .. 3
    BY TurnFacts
  <1>2. \A k \in 1 .. worker[w].stage : Order[k] \in state
    BY <1>1 DEF MarksFit, Filling, Stage
  <1>3. CASE Advance(w, copy).at = "ending"
    <2>1. worker[w].stage = 3 /\ Advance(w, copy).stage = 3
      BY <1>3, AdvanceFacts
    <2>2. \A k \in 1 .. 3 : Order[k] \in state
      BY <1>2, <2>1
    <2>3. Order[1] \in state /\ Order[2] \in state /\ Order[3] \in state
      BY <2>2
    <2> QED BY <2>1, <2>2, <2>3 DEF Order, Indexes
  <1>4. CASE Advance(w, copy).at = "looking"
    <2>1. Advance(w, copy).stage = worker[w].stage + 1
      BY <1>4, AdvanceFacts
    <2> QED BY <1>1, <1>2, <1>4, <2>1
  <1> QED BY <1>3, <1>4, AdvanceFacts

\* The next index is one that is not marked yet, or there is none left.
LEMMA LookInv ==
    ASSUME IngestionIndInv, NEW w \in Worker, Look(w)
    PROVE  IngestionIndInv'
  <1>1. /\ UNCHANGED <<inline, rows, job, keys, editing, raced, faults>>
        /\ index' = index /\ late' = late /\ worker[w].at = "looking"
    BY DEF Look, history
  <1>2. ASSUME Holding(w)
        PROVE  /\ CopyFits(w) /\ StatusFits(w) /\ MarksFit(w) /\ StageFits(w) /\ ReachFits(w)
               /\ ~editing /\ version.status = "processing"
    <2>1. HolderFits(w)
      BY <1>2 DEF IngestionIndInv, HoldersFit
    <2> QED BY <1>1, <2>1 DEF HolderFits, StatusFits
  <1>3. CASE Stage(w) \in version.state
    <2> DEFINE new == Advance(w, version)
    <2>1. /\ new \in TurnRow /\ new.at \in {"looking", "ending"} /\ new.copy = version
          /\ new.job = worker[w].job /\ new.job \in Job
          /\ new.cut = worker[w].cut /\ new.known = worker[w].known
      BY <1>1, AdvanceFacts, TurnFacts
    <2>2. Turn(w, new) /\ Holding(w)
      BY <1>3 DEF Look, Holding, Running
    <2>3. /\ \A k \in 1 .. new.stage - 1 : Order[k] \in version.state
          /\ new.at = "ending" => Indexes \subseteq version.state
      BY <1>1, <1>2, <1>3, <2>2, MarksGrow, TurnFacts
    <2> HIDE DEF new
    <2>4. worker'[w] = new
      BY <2>2, TurnFacts DEF Turn, IngestionIndInv, IngestionTypeOK
    <2>5. MarksFit(w)'
      BY <1>1, <2>3, <2>4 DEF MarksFit, rows
    <2>6. CopyFits(w)' /\ StatusFits(w)' /\ ReachFits(w)' /\ StageFits(w)'
      BY <1>1, <1>2, <2>1, <2>2, <2>4
         DEF rows, CopyFits, StatusFits, ReachFits, StageFits, Filling, Cutting
    <2>7. new.at \notin Early
      BY <2>1 DEF Early
    <2> QED BY <1>1, <1>2, <2>1, <2>2, <2>5, <2>6, <2>7, TurnFacts, TurnKeeps DEF HolderFits
  <1>4. CASE Stage(w) \notin version.state
    <2> DEFINE new == [worker[w] EXCEPT !.at = "upserting", !.copy = version]
    <2>1. /\ new \in TurnRow /\ new.at = "upserting" /\ new.copy = version
          /\ new.job = worker[w].job /\ new.job \in Job /\ new.stage = worker[w].stage
          /\ new.cut = worker[w].cut /\ new.known = worker[w].known
      BY <1>1, TurnFacts DEF TurnRow, Running
    <2>2. Turn(w, new)
      BY <1>4 DEF Look
    <2> HIDE DEF new
    <2>3. worker'[w] = new
      BY <2>2, TurnFacts DEF Turn, IngestionIndInv, IngestionTypeOK
    <2>4. Holding(w)' => Holding(w)
      BY <1>1, <2>1, <2>3 DEF Holding, Holds, Running
    <2>5. ASSUME Holding(w)' PROVE HolderFits(w)' /\ ~editing
      BY <1>1, <1>2, <2>1, <2>3, <2>4, <2>5
         DEF rows, HolderFits, CopyFits, StatusFits, MarksFit, ReachFits, StageFits, Filling,
             Cutting
    <2>6. new.at \notin Early
      BY <2>1 DEF Early
    <2> QED BY <1>1, <2>1, <2>2, <2>5, <2>6, TurnFacts, TurnKeeps
  <1> QED BY <1>3, <1>4

\* The entries of a stage go to its index, with or without the lease.
LEMMA UpsertInv ==
    ASSUME IngestionIndInv, NEW w \in Worker, Upsert(w)
    PROVE  IngestionIndInv'
  <1> DEFINE new == [worker[w] EXCEPT !.at = "marking"]
             entry == IF Stage(w) = "graph" THEN worker[w].known ELSE worker[w].cut
  <1>1. /\ new \in TurnRow /\ new.at = "marking" /\ new.copy = worker[w].copy
        /\ new.job = worker[w].job /\ new.job \in Job /\ new.stage = worker[w].stage
        /\ new.cut = worker[w].cut /\ new.known = worker[w].known /\ new.at \notin Early
    BY TurnFacts DEF Upsert, TurnRow, Running, Early
  <1>2. Turn(w, new) /\ worker[w].at = "upserting"
    BY DEF Upsert, Moves
  <1> HIDE DEF new
  <1>3. worker'[w] = new
    BY <1>2, TurnFacts DEF Turn, IngestionIndInv, IngestionTypeOK
  <1>4. /\ UNCHANGED <<inline, rows, job, keys, editing, raced, faults>>
        /\ index' = [index EXCEPT ![Stage(w)] = @ \cup ({entry} \ {0})]
        /\ late' = (late \/ ~Holds(w))
    BY DEF Upsert
  <1>5. Stage(w) \in Indexes /\ entry \in 0 .. MaxRevision
    BY TurnFacts DEF Stage, Order, Indexes
  <1> HIDE DEF entry
  <1>6. /\ index' \in [Indexes -> SUBSET (1 .. MaxRevision)]
        /\ index'[Stage(w)] = index[Stage(w)] \cup ({entry} \ {0})
        /\ \A n \in Indexes \ {Stage(w)} : index'[n] = index[n]
    BY <1>4, <1>5, TurnFacts
  <1>7. late' \in BOOLEAN
    BY <1>4, TurnFacts, Zenon
  <1>8. CASE Holds(w)
    <2>1. Holding(w) /\ late' = late
      BY <1>2, <1>4, <1>8, TurnFacts DEF Holding, Running
    <2>2. HolderFits(w)
      BY <2>1 DEF IngestionIndInv, HoldersFit
    <2>3. /\ ~editing /\ version.status = "processing" /\ version' = version /\ chunks' = chunks
          /\ facts' = facts
      BY <1>2, <1>4, <2>2 DEF HolderFits, StatusFits, rows
    <2>4. ~raced => /\ "cleanup_required" \notin version.state
                    /\ entry = version.revision /\ version.revision # 0
      BY <1>2, <2>2 DEF HolderFits, StageFits, Filling, Cutting, entry
    <2>5. ~raced /\ ~late => /\ index'[Stage(w)] = {version.revision}
                             /\ \A n \in Indexes : index[n] \subseteq {version.revision}
      BY <1>5, <1>6, <2>4 DEF IngestionIndInv, DataFit, IndexesFit
    <2>6. IndexesFit'
      BY <1>4, <1>5, <1>6, <2>1, <2>3, <2>5 DEF IngestionIndInv, DataFit, IndexesFit
    <2>7. RowsFit' /\ ReviewFits'
      BY <1>4, <2>3 DEF IngestionIndInv, DataFit, RowsFit, ReviewFits, Reviewed
    <2>8. Stage(w)' = Stage(w)
      BY <1>1, <1>3 DEF Stage
    <2>9. ReachFits(w)'
      BY <1>1, <1>3, <1>4, <2>1, <2>3, <2>5, <2>8 DEF ReachFits
    <2>10. CopyFits(w)' /\ StatusFits(w)' /\ MarksFit(w)' /\ StageFits(w)'
      BY <1>1, <1>2, <1>3, <1>4, <2>2, <2>3
         DEF HolderFits, CopyFits, StatusFits, MarksFit, StageFits, Filling, Cutting
    <2>11. /\ version' \in VersionRow /\ chunks' \in 0 .. MaxRevision
           /\ facts' \in 0 .. MaxRevision
           /\ UNCHANGED <<inline, job, keys, editing, late, raced, faults>>
      BY <1>4, <2>1, <2>3, TurnFacts
    <2> QED BY <1>1, <1>2, <1>6, <2>1, <2>3, <2>6, <2>7, <2>9, <2>10, <2>11, HolderKeeps
            DEF HolderFits
  <1>9. CASE ~ Holds(w)
    <2>1. ~ Holding(w)' /\ late'
      BY <1>1, <1>3, <1>4, <1>9 DEF Holding, Holds
    <2> QED BY <1>1, <1>2, <1>4, <1>6, <1>7, <2>1, TurnKeeps
  <1> QED BY <1>8, <1>9

\* An index that has been filled is marked.
LEMMA MarkInv ==
    ASSUME IngestionIndInv, NEW w \in Worker, Mark(w)
    PROVE  IngestionIndInv'
  <1> DEFINE copy == [worker[w].copy EXCEPT !.state = @ \cup {Stage(w)}]
             new == Advance(w, copy)
  <1>1. worker[w].at = "marking" /\ Holding(w) /\ ~editing
    BY DEF Mark, Holding, Running
  <1>2. Stage(w) \in Indexes
    BY TurnFacts DEF Stage, Order, Indexes
  <1>3. /\ copy \in VersionRow /\ copy.status = worker[w].copy.status
        /\ copy.revision = worker[w].copy.revision
        /\ copy.state = worker[w].copy.state \cup {Stage(w)}
    BY <1>2, TurnFacts DEF VersionRow, Marks
  <1>4. Turn(w, new) /\ Stores(w, copy)
    BY DEF Mark
  <1> HIDE DEF copy
  <1>5. /\ new \in TurnRow /\ new.at \in {"looking", "ending"} /\ new.copy = copy
        /\ new.job = worker[w].job /\ new.cut = worker[w].cut /\ new.known = worker[w].known
    BY <1>1, <1>3, AdvanceFacts
  <1>6. HolderFits(w)
    BY <1>1 DEF IngestionIndInv, HoldersFit
  <1>7. /\ version' \in VersionRow /\ version.status = "processing"
        /\ worker[w].copy = version /\ version' = copy
    BY <1>1, <1>3, <1>4, <1>6, StoresFacts, TurnFacts DEF HolderFits, CopyFits, StatusFits
  <1>8. UNCHANGED <<inline, chunks, facts, index, job, keys, editing, late, raced, faults>>
    BY DEF Mark, history
  <1>9. /\ \A k \in 1 .. new.stage - 1 : Order[k] \in copy.state
        /\ new.at = "ending" => Indexes \subseteq copy.state
    BY <1>1, <1>3, <1>6, <1>7, MarksGrow DEF HolderFits
  <1> HIDE DEF new
  <1>10. worker'[w] = new
    BY <1>4, TurnFacts DEF Turn, IngestionIndInv, IngestionTypeOK
  <1>11. /\ ~raced => /\ "cleanup_required" \notin version.state
                      /\ "facts_extracted" \in version.state
                      /\ version.revision # 0
         /\ ~raced /\ ~late => index[Stage(w)] = {version.revision}
    BY <1>1, <1>6 DEF HolderFits, StageFits, ReachFits, Filling, Cutting
  <1>12. RowsFit' /\ IndexesFit' /\ ReviewFits'
    BY <1>2, <1>3, <1>7, <1>8, <1>11
       DEF IngestionIndInv, DataFit, RowsFit, IndexesFit, ReviewFits, Reviewed, Indexes
  <1>13. MarksFit(w)'
    BY <1>7, <1>9, <1>10 DEF MarksFit
  <1>14. CopyFits(w)' /\ StatusFits(w)' /\ ReachFits(w)'
    BY <1>1, <1>3, <1>5, <1>7, <1>8, <1>10 DEF CopyFits, StatusFits, ReachFits
  <1>15. StageFits(w)'
    BY <1>1, <1>2, <1>3, <1>5, <1>6, <1>7, <1>8, <1>10
       DEF HolderFits, StageFits, Filling, Cutting, Indexes
  <1>16. /\ chunks' \in 0 .. MaxRevision /\ facts' \in 0 .. MaxRevision
         /\ index' \in [Indexes -> SUBSET (1 .. MaxRevision)] /\ new.at \notin Early
    BY <1>5, <1>8, TurnFacts DEF Early
  <1> QED BY <1>1, <1>4, <1>5, <1>7, <1>8, <1>12, <1>13, <1>14, <1>15, <1>16, HolderKeeps
          DEF HolderFits

\* A process leaves the pipeline, and may end its attempt on the way.
LEMMA LeavingInv ==
    ASSUME IngestionIndInv, NEW w \in Worker, NEW new \in TurnRow, Turn(w, new),
           new.at \notin Running, new.at # "idle" => new.job \in Job,
           job' \in [Job -> AttemptRow], AttemptsFit',
           \A v \in Worker \ {w} : Holding(v)' => Holding(v) /\ version' = version,
           editing => version' = version,
           version' \in VersionRow,
           version'.revision = version.revision, version'.state = version.state,
           ReviewFits', faults' \in 0 .. MaxFaults,
           UNCHANGED <<inline, chunks, facts, index, keys, editing, late, raced>>
    PROVE  IngestionIndInv'
  <1>1. worker \in [Worker -> TurnRow] /\ worker' = [worker EXCEPT ![w] = new]
    BY DEF IngestionIndInv, IngestionTypeOK, TurnRow, Turn
  <1>2. /\ worker' \in [Worker -> TurnRow] /\ worker'[w] = new
        /\ \A v \in Worker \ {w} : worker'[v] = worker[v]
    BY <1>1
  <1>3. IngestionTypeOK'
    BY <1>2 DEF IngestionIndInv, IngestionTypeOK, TurnRow, AttemptRow
  <1>4. TurnsFit'
    BY <1>2 DEF IngestionIndInv, TurnsFit, Running, Early
  <1>5. ~ Holding(w)'
    BY <1>2 DEF Holding
  <1>6. RowsFit' /\ IndexesFit'
    BY DEF IngestionIndInv, DataFit, RowsFit, IndexesFit
  <1>7. EditFits'
    BY <1>2, <1>5 DEF IngestionIndInv, DataFit, EditFits
  <1>8. ASSUME NEW v \in Worker \ {w}, Holding(v)'
        PROVE  HolderFits(v)'
    BY <1>2, <1>8
       DEF IngestionIndInv, HoldersFit, HolderFits, CopyFits, StatusFits, MarksFit,
           StageFits, ReachFits, Stage
  <1>9. HoldersFit'
    BY <1>5, <1>8 DEF HoldersFit
  <1> QED BY <1>3, <1>4, <1>6, <1>7, <1>9 DEF IngestionIndInv, DataFit

\* A process whose attempt ends was the last to store anything for it.
LEMMA NobodyElse ==
    ASSUME IngestionIndInv, NEW w \in Worker, NEW j \in Job,
           job[j].execution_token = w, job[j].status = "running",
           NEW v \in Worker \ {w}
    PROVE  ~ Holding(v)
  <1>1. j \in ActiveJobs
    BY DEF ActiveJobs, Active
  <1> SUFFICES ASSUME Holding(v) PROVE FALSE
    OBVIOUS
  <1>2. worker[v].job = j
    BY <1>1, HolderIsActive DEF IngestionIndInv, AttemptsFit, OneAttempt
  <1> QED BY <1>2, HolderIsActive

\* A step that leaves the attempts alone gives nobody a lease.
LEMMA SameAttempts ==
    ASSUME IngestionIndInv, job' = job, version' = version, NEW w \in Worker,
           \A v \in Worker \ {w} : worker'[v] = worker[v]
    PROVE  /\ job' \in [Job -> AttemptRow] /\ AttemptsFit'
           /\ \A v \in Worker \ {w} : Holding(v)' => Holding(v) /\ version' = version
           /\ version' \in VersionRow /\ ReviewFits'
  <1>1. AttemptsFit'
    BY DEF IngestionIndInv, AttemptsFit, OneAttempt, ParentsFit, BegunHasAttempt, ActiveJobs,
           Children
  <1>2. \A v \in Worker \ {w} : Holding(v)' => Holding(v)
    BY DEF Holding, Holds
  <1>3. job' \in [Job -> AttemptRow] /\ version' \in VersionRow /\ ReviewFits'
    BY DEF IngestionIndInv, IngestionTypeOK, DataFit, ReviewFits, AttemptRow
  <1> QED BY <1>1, <1>2, <1>3

\* A lost process leaves its lease to run out.
LEMMA CrashInv ==
    ASSUME IngestionIndInv, NEW w \in Worker, Crash(w)
    PROVE  IngestionIndInv'
  <1>1. Idle \in TurnRow /\ Idle.at = "idle" /\ Idle.at \notin Running
    BY FirstRows DEF Idle, Running
  <1>2. Turn(w, Idle) /\ worker' = [worker EXCEPT ![w] = Idle]
    BY DEF Crash, Turn
  <1>3. \A v \in Worker \ {w} : worker'[v] = worker[v]
    BY <1>2 DEF IngestionIndInv, IngestionTypeOK
  <1>4. /\ faults' \in 0 .. MaxFaults
        /\ UNCHANGED <<inline, chunks, facts, index, keys, editing, late, raced>>
        /\ job' = job /\ version' = version
    BY IngestionBounds DEF Crash, rows, IngestionIndInv, IngestionTypeOK
  <1> QED BY <1>1, <1>2, <1>3, <1>4, SameAttempts, LeavingInv

\* A step that raises leaves the pipeline.
LEMMA FailInv ==
    ASSUME IngestionIndInv, NEW w \in Worker, Fail(w)
    PROVE  IngestionIndInv'
  <1> DEFINE new == [Idle EXCEPT !.at = "unwinding", !.job = worker[w].job]
  <1>1. worker[w].job \in Job
    BY TurnFacts DEF Fail, Running
  <1>2. new \in TurnRow /\ new.at = "unwinding" /\ new.job \in Job /\ new.at \notin Running
    BY <1>1, FirstRows DEF Idle, TurnRow, Running
  <1>3. Turn(w, new)
    BY DEF Fail, Leaves
  <1> HIDE DEF new
  <1>4. \A v \in Worker \ {w} : worker'[v] = worker[v]
    BY <1>3 DEF Turn, IngestionIndInv, IngestionTypeOK
  <1>5. /\ faults' \in 0 .. MaxFaults
        /\ UNCHANGED <<inline, chunks, facts, index, keys, editing, late, raced>>
        /\ job' = job /\ version' = version
    BY DEF Fail, rows, history, IngestionIndInv, IngestionTypeOK
  <1> QED BY <1>2, <1>3, <1>4, <1>5, SameAttempts, LeavingInv

\* A process that leaves gives its lease up, if it is still its own.
LEMMA ReleaseInv ==
    ASSUME IngestionIndInv, NEW w \in Worker, Release(w)
    PROVE  IngestionIndInv'
  <1> DEFINE j == worker[w].job
             row == [job[j] EXCEPT !.leased = @ /\ job[j].execution_token # w]
             new == IF worker[w].at = "leaving" THEN Idle
                    ELSE [worker[w] EXCEPT !.at = "settling"]
  <1>1. worker[w].at \in {"leaving", "unwinding"} /\ j \in Job
    BY TurnFacts DEF Release
  <1>2. /\ new \in TurnRow /\ new.at \notin Running /\ (new.at # "idle" => new.job \in Job)
    <2>1. Idle \in TurnRow /\ Idle.at = "idle"
      BY FirstRows DEF Idle
    <2>2. worker[w] \in TurnRow
      BY TurnFacts
    <2> QED BY <1>1, <2>1, <2>2 DEF TurnRow, Running
  <1>3. Turn(w, new)
    BY DEF Release, Moves
  <1>4. job' = [job EXCEPT ![j] = row] /\ job \in [Job -> AttemptRow] /\ job[j] \in AttemptRow
    BY <1>1 DEF Release, IngestionIndInv, IngestionTypeOK, AttemptRow
  <1>5. row \in AttemptRow
    <2>1. (job[j].leased /\ job[j].execution_token # w) \in BOOLEAN
      BY Zenon
    <2> QED BY <1>4, <2>1 DEF AttemptRow
  <1>6. /\ row.status = job[j].status /\ row.parent = job[j].parent
        /\ row.execution_token = job[j].execution_token
        /\ row.cancel_requested = job[j].cancel_requested
    BY <1>4 DEF AttemptRow
  <1>7. row.leased => job[j].leased
    BY <1>4, Zenon DEF AttemptRow
  <1> HIDE DEF row, new, j
  <1>8. /\ job' \in [Job -> AttemptRow] /\ job'[j] = row
        /\ \A i \in Job \ {j} : job'[i] = job[i]
        /\ \A v \in Worker \ {w} : worker'[v] = worker[v]
    BY <1>1, <1>3, <1>4, <1>5 DEF Turn, IngestionIndInv, IngestionTypeOK
  <1>9. /\ faults' \in 0 .. MaxFaults /\ version \in VersionRow
        /\ UNCHANGED <<inline, chunks, facts, index, keys, editing, late, raced>>
        /\ version' = version
    BY DEF Release, rows, history, IngestionIndInv, IngestionTypeOK
  <1>10. AttemptsFit'
    <2>1. AttemptsGoOn /\ \A i \in Job : job'[i].status = job[i].status
      BY <1>6, <1>8 DEF AttemptsGoOn
    <2> QED BY <1>9, <2>1, AttemptsKeep DEF IngestionIndInv
  <1>11. ASSUME NEW v \in Worker \ {w}, Holding(v)'
         PROVE  Holding(v)
    <2>1. worker'[v] = worker[v] /\ worker[v].job \in Job
      BY <1>8, <1>11 DEF Holding, Running, IngestionIndInv, TurnsFit
    <2>2. CASE worker[v].job # j
      BY <1>8, <1>11, <2>1, <2>2 DEF Holding, Holds
    <2>3. CASE worker[v].job = j
      BY <1>6, <1>7, <1>8, <1>11, <2>1, <2>3 DEF Holding, Holds
    <2> QED BY <2>2, <2>3
  <1>12. ReviewFits'
    BY <1>9 DEF IngestionIndInv, DataFit, ReviewFits
  <1> QED BY <1>2, <1>3, <1>8, <1>9, <1>10, <1>11, <1>12, LeavingInv

\* The version goes to its reviewers with all indexes marked.
LEMMA EndInv ==
    ASSUME IngestionIndInv, NEW w \in Worker, End(w)
    PROVE  IngestionIndInv'
  <1> DEFINE j == worker[w].job
             row == [job[j] EXCEPT !.status = "succeeded"]
             new == [Idle EXCEPT !.at = "leaving", !.job = j]
  <1>1. worker[w].at = "ending" /\ Holding(w) /\ j \in Job /\ ~editing
    BY TurnFacts DEF End, Holding, Running
  <1>2. new \in TurnRow /\ new.at = "leaving" /\ new.job \in Job /\ new.at \notin Running
    BY <1>1, FirstRows DEF Idle, TurnRow, Running
  <1>3. Turn(w, new)
    BY DEF End, Leaves
  <1>4. job' = [job EXCEPT ![j] = row] /\ job \in [Job -> AttemptRow] /\ job[j] \in AttemptRow
    BY <1>1 DEF End, IngestionIndInv, IngestionTypeOK, AttemptRow
  <1>5. row \in AttemptRow /\ row.status = "succeeded" /\ row.parent = job[j].parent
    BY <1>4 DEF AttemptRow, Terminal
  <1> HIDE DEF row, new
  <1>6. /\ job' \in [Job -> AttemptRow] /\ job'[j] = row
        /\ \A i \in Job \ {j} : job'[i] = job[i]
        /\ \A v \in Worker \ {w} : worker'[v] = worker[v]
    BY <1>1, <1>3, <1>4, <1>5 DEF Turn, IngestionIndInv, IngestionTypeOK
  <1>7. /\ faults' \in 0 .. MaxFaults
        /\ UNCHANGED <<inline, chunks, facts, index, keys, editing, late, raced>>
    BY DEF End, history, IngestionIndInv, IngestionTypeOK
  <1>8. /\ version' \in VersionRow /\ version'.status = "review"
        /\ version'.revision = version.revision /\ version'.state = version.state
    BY TurnFacts DEF End, VersionRow, Reviewed
  <1>9. AttemptsFit'
    <2>1. AttemptsGoOn
      BY <1>1, <1>5, <1>6, HolderIsActive DEF AttemptsGoOn, Active, Terminal
    <2> QED BY <1>8, <2>1, AttemptsKeep DEF IngestionIndInv
  <1>10. ASSUME NEW v \in Worker \ {w} PROVE ~ Holding(v)'
    <2>1. ~ Holding(v)
      BY <1>1, OneHolder
    <2>2. worker[v].at # "idle" => worker[v].job \in Job
      BY TurnFacts
    <2> QED BY <1>5, <1>6, <2>1, <2>2 DEF Holding, Holds, Running
  <1>11. ReviewFits'
    BY <1>1, <1>8 DEF IngestionIndInv, HoldersFit, HolderFits, MarksFit, ReviewFits
  <1> QED BY <1>1, <1>2, <1>3, <1>6, <1>7, <1>8, <1>9, <1>10, <1>11, LeavingInv

\* The attempt that has failed ends, and its version with it.
LEMMA SettleInv ==
    ASSUME IngestionIndInv, NEW w \in Worker, Settle(w)
    PROVE  IngestionIndInv'
  <1> DEFINE j == worker[w].job
             end == IF job[j].cancel_requested THEN "cancelled" ELSE "failed"
             row == [job[j] EXCEPT !.status = end]
  <1>1. j \in Job
    BY TurnFacts DEF Settle
  <1>2. Idle \in TurnRow /\ Idle.at = "idle" /\ Idle.at \notin Running /\ Turn(w, Idle)
    BY FirstRows DEF Idle, Running, Settle
  <1>3. \A v \in Worker \ {w} : worker'[v] = worker[v]
    BY <1>2 DEF Turn, IngestionIndInv, IngestionTypeOK
  <1>4. /\ faults' \in 0 .. MaxFaults
        /\ UNCHANGED <<inline, chunks, facts, index, keys, editing, late, raced>>
    BY DEF Settle, history, IngestionIndInv, IngestionTypeOK
  <1>5. CASE ~ (job[j].execution_token = w /\ job[j].status = "running")
    <2>1. job' = job /\ version' = version
      BY <1>5 DEF Settle
    <2> QED BY <1>2, <1>3, <1>4, <2>1, SameAttempts, LeavingInv
  <1>6. CASE job[j].execution_token = w /\ job[j].status = "running"
    <2>1. /\ job' = [job EXCEPT ![j] = row]
          /\ job \in [Job -> AttemptRow] /\ job[j] \in AttemptRow
      BY <1>1, <1>6 DEF Settle, IngestionIndInv, IngestionTypeOK, AttemptRow
    <2>2. /\ row \in AttemptRow /\ row.status \in {"failed", "cancelled"}
          /\ row.parent = job[j].parent
      BY <2>1 DEF AttemptRow, Terminal
    <2> HIDE DEF row
    <2>3. /\ job' \in [Job -> AttemptRow] /\ job'[j] = row
          /\ \A i \in Job \ {j} : job'[i] = job[i]
      BY <1>1, <2>1, <2>2
    <2>4. /\ version' \in VersionRow
          /\ version'.revision = version.revision /\ version'.state = version.state
          /\ version'.status = IF version.status = "processing" THEN "failed"
                               ELSE version.status
          /\ editing => version.status # "processing"
          /\ version.status # "processing" => version' = version
      BY <1>6, TurnFacts DEF Settle, VersionRow, Startable
    <2>5. AttemptsFit'
      <3>1. AttemptsGoOn /\ \A i \in Job : job'[i].status = "succeeded" => job[i].status = "succeeded"
        BY <1>6, <2>2, <2>3 DEF AttemptsGoOn, Active, Terminal
      <3> QED BY <2>4, <3>1, AttemptsKeep DEF IngestionIndInv
    <2>6. ASSUME NEW v \in Worker \ {w} PROVE ~ Holding(v)'
      <3>1. ~ Holding(v)
        BY <1>1, <1>6, NobodyElse
      <3>2. worker[v].at # "idle" => worker[v].job \in Job
        BY TurnFacts
      <3> QED BY <1>3, <2>2, <2>3, <3>1, <3>2 DEF Holding, Holds, Running
    <2>7. ReviewFits'
      BY <2>4 DEF IngestionIndInv, DataFit, ReviewFits, Reviewed
    <2> QED BY <1>2, <1>4, <2>3, <2>4, <2>5, <2>6, <2>7, LeavingInv
  <1> QED BY <1>5, <1>6

-------------------------------------------------------------------------------
(* Theorems. *)

\* Every step of requests, executors, the sweeper and the clock keeps the invariant.
LEMMA IngestionStepInv == IngestionIndInv /\ [Next]_vars => IngestionIndInv'
  <1> SUFFICES ASSUME IngestionIndInv, [Next]_vars PROVE IngestionIndInv'
    OBVIOUS
  <1>1. ASSUME NEW j \in Job, JobStep(j) PROVE IngestionIndInv'
    BY <1>1, ProcessInv, CancelInv, ExpireInv, SweepInv DEF JobStep
  <1>2. ASSUME NEW w \in Worker, WorkerStep(w) PROVE IngestionIndInv'
    BY <1>2, LoadInv, BeginInv, CleanInv, CleanedInv, ParseInv, ReuseInv, SegmentInv, ExtractInv,
       LookInv, UpsertInv, MarkInv, EndInv, FailInv, ReleaseInv, SettleInv, CrashInv
       DEF WorkerStep
  <1>3. CASE Review \/ Publish \/ Withdraw
    BY <1>3, DecideInv DEF Review, Publish, Withdraw, Reviewed
  <1>4. CASE UNCHANGED vars
    <2>1. IngestionTypeOK' /\ UNCHANGED <<rows, index, worker, editing, late, raced, job>>
      BY <1>4 DEF vars, rows, history, IngestionIndInv, IngestionTypeOK
    <2>2. AttemptsFit'
      BY <2>1 DEF rows, IngestionIndInv, AttemptsFit, OneAttempt, ParentsFit, BegunHasAttempt,
                  ActiveJobs, Children
    <2>3. \A w \in Worker : Holding(w)' => Holding(w)
      BY <2>1 DEF Holding, Holds
    <2> QED BY <2>1, <2>2, <2>3, RowsStay
  <1> QED BY <1>1, <1>2, <1>3, <1>4, RetryInv, ClaimInv, CorrectInv, CorrectedInv DEF Next

\* The invariant of a version's ingestion.
THEOREM IngestionInvariance == Spec => []IngestionIndInv
  BY IngestionInitInv, IngestionStepInv, PTL DEF Spec

\* A version that people judge or read is what its indexes hold.
THEOREM ReviewedIsSound == Spec => []IngestionInv
  <1>1. IngestionIndInv => IngestionInv
    <2> SUFFICES ASSUME IngestionIndInv PROVE IngestionInv
      OBVIOUS
    <2> USE DEF IngestionIndInv, DataFit, RowsFit, IndexesFit, ReviewFits
    <2>1. ReviewedIsCurrent
      BY DEF ReviewedIsCurrent, Indexes
    <2>2. ReviewedIsIndexed
      BY DEF ReviewedIsIndexed, Indexes
    <2> QED BY <2>1, <2>2 DEF IngestionInv
  <1> QED BY <1>1, IngestionInvariance, PTL

\* A version whose processing broke off can be processed further.
THEOREM ProcessingGoesOn == Spec => []BrokenOffCanGoOn
  <1>1. IngestionIndInv => BrokenOffCanGoOn
    BY DEF IngestionIndInv, AttemptsFit, BegunHasAttempt, BrokenOffCanGoOn, CanBeStarted,
           Retryable, ActiveJobs
  <1> QED BY <1>1, IngestionInvariance, PTL

\* What was approved stays as it is, whatever earlier attempts still do.
LEMMA ApprovedStep ==
    ASSUME IngestionIndInv, Next, version.status \in {"approved", "published"}
    PROVE  /\ UNCHANGED <<chunks, facts>>
           /\ version'.status \in {"approved", "published", "withdrawn"}
           /\ version'.revision = version.revision
           /\ version'.state = version.state
  <1> USE DEF history, rows
  <1>1. \A w \in Worker : Holding(w) => worker[w].at = "loading"
    BY DEF IngestionIndInv, HoldersFit, HolderFits, StatusFits, Startable
  <1>2. \A w \in Worker :
          ~Begin(w) /\ ~Cleaned(w) /\ ~Parse(w) /\ ~Segment(w) /\ ~Extract(w) /\ ~Mark(w) /\ ~End(w)
    BY <1>1 DEF Holding, Running, Begin, Cleaned, Parse, Segment, Extract, Mark, End
  <1>3. ~ editing
    BY DEF IngestionIndInv, DataFit, EditFits
  <1>4. ASSUME NEW w \in Worker, Settle(w)
        PROVE  version' = version /\ UNCHANGED <<chunks, facts>>
    BY <1>4, TurnFacts DEF Settle, VersionRow
  <1>5. ASSUME NEW w \in Worker, WorkerStep(w)
        PROVE  version' = version /\ UNCHANGED <<chunks, facts>>
    BY <1>2, <1>4, <1>5
       DEF WorkerStep, Load, Clean, Reuse, Look, Upsert, Fail, Release, Crash
  <1>6. ASSUME NEW j \in Job, JobStep(j)
        PROVE  version' = version /\ UNCHANGED <<chunks, facts>>
    BY <1>6 DEF JobStep, Process, Cancel, Expire, Sweep
  <1>7. CASE Review \/ Publish \/ Withdraw
    BY <1>7, TurnFacts DEF Review, Publish, Withdraw, Decide, IngestionIndInv, IngestionTypeOK,
                           VersionRow
  <1>8. ~ Corrected
    BY <1>3 DEF Corrected
  <1>9. Correct => version' = version /\ UNCHANGED <<chunks, facts>>
    BY DEF Correct
  <1>10. ASSUME NEW j \in Job, NEW c \in Job, Retry(j, c)
         PROVE  version' = version /\ UNCHANGED <<chunks, facts>>
    BY <1>10 DEF Retry
  <1>11. ASSUME NEW w \in Worker, NEW j \in Job, Claim(w, j)
         PROVE  version' = version /\ UNCHANGED <<chunks, facts>>
    BY <1>11 DEF Claim
  <1> QED BY <1>5, <1>6, <1>7, <1>8, <1>9, <1>10, <1>11 DEF Next

\* Nothing about a version that was approved is changed by an attempt that is still
\* running or by a correction.
THEOREM ApprovedStays == Spec => ApprovedIsFrozen
  <1>1. IngestionIndInv /\ [Next]_vars =>
          [version.status \in {"approved", "published"} =>
              /\ UNCHANGED <<chunks, facts>>
              /\ version'.status \in {"approved", "published", "withdrawn"}
              /\ version'.revision = version.revision
              /\ version'.state = version.state]_vars
    BY ApprovedStep
  <1> QED BY <1>1, IngestionInvariance, PTL DEF Spec, ApprovedIsFrozen

\* How the status moves: an executor that has the lease writes over a version that can
\* be started, and a correction is stored before the version is judged again.
LEMMA StatusMoves ==
    ASSUME IngestionIndInv, Next
    PROVE  \/ version'.status = version.status
           \/ version.status \in Startable /\ version'.status \in Startable \cup {"review"}
           \/ version.status \in {"review", "rejected"} /\ version'.status = "uploaded"
           \/ version.status = "review" /\ version'.status \in {"approved", "rejected"}
           \/ version.status = "approved" /\ version'.status = "published"
           \/ version.status = "published" /\ version'.status = "withdrawn"
  <1> USE DEF rows, history
  <1>1. version \in VersionRow /\ \A w \in Worker : worker[w].copy \in VersionRow
    BY TurnFacts DEF IngestionIndInv, IngestionTypeOK
  <1>2. ASSUME NEW w \in Worker, NEW copy, Stores(w, copy), copy.status = worker[w].copy.status
        PROVE  version'.status = version.status
    BY <1>2 DEF Stores, Flushed
  <1>3. ASSUME NEW w \in Worker, Begin(w)
        PROVE  version.status \in Startable /\ version'.status \in Startable
    <2>1. Holding(w)
      BY <1>3 DEF Begin, Holding, Running
    <2>2. version.status \in Startable
      BY <1>3, <2>1 DEF Begin, IngestionIndInv, HoldersFit, HolderFits, StatusFits
    <2> DEFINE copy == [worker[w].copy EXCEPT !.status = "processing"]
    <2>3. Stores(w, copy) /\ copy.status = "processing"
      BY <1>1, <1>3 DEF Begin, VersionRow
    <2> HIDE DEF copy
    <2> QED BY <2>2, <2>3 DEF Stores, Flushed, Startable
  <1>4. ASSUME NEW w \in Worker, Cleaned(w) PROVE version'.status = version.status
    <2> DEFINE copy == [worker[w].copy EXCEPT !.state = {}]
    <2>1. Stores(w, copy) /\ copy.status = worker[w].copy.status
      BY <1>1, <1>4 DEF Cleaned, VersionRow
    <2> HIDE DEF copy
    <2> QED BY <1>2, <2>1
  <1>5. ASSUME NEW w \in Worker, Parse(w) PROVE version'.status = version.status
    <2> DEFINE copy == [worker[w].copy EXCEPT !.revision = 1]
    <2>1. Stores(w, copy) /\ copy.status = worker[w].copy.status
      BY <1>1, <1>5 DEF Parse, VersionRow
    <2> HIDE DEF copy
    <2> QED BY <1>2, <2>1
  <1>6. ASSUME NEW w \in Worker, Extract(w) PROVE version'.status = version.status
    <2> DEFINE copy == [worker[w].copy EXCEPT !.state = @ \cup {"facts_extracted"}]
    <2>1. Stores(w, copy) /\ copy.status = worker[w].copy.status
      BY <1>1, <1>6 DEF Extract, VersionRow
    <2> HIDE DEF copy
    <2> QED BY <1>2, <2>1
  <1>7. ASSUME NEW w \in Worker, Mark(w) PROVE version'.status = version.status
    <2> DEFINE copy == [worker[w].copy EXCEPT !.state = @ \cup {Stage(w)}]
    <2>1. Stores(w, copy) /\ copy.status = worker[w].copy.status
      BY <1>1, <1>7 DEF Mark, VersionRow
    <2> HIDE DEF copy
    <2> QED BY <1>2, <2>1
  <1>8. ASSUME NEW w \in Worker, End(w)
        PROVE  version.status \in Startable /\ version'.status = "review"
    BY <1>1, <1>8 DEF End, VersionRow, Startable
  <1>9. ASSUME NEW w \in Worker, Settle(w)
        PROVE  \/ version'.status = version.status
               \/ version.status \in Startable /\ version'.status \in Startable
    BY <1>1, <1>9 DEF Settle, VersionRow, Startable
  <1>10. ASSUME NEW w \in Worker, WorkerStep(w)
         PROVE  \/ version'.status = version.status
                \/ version.status \in Startable /\ version'.status \in Startable \cup {"review"}
    <2>1. CASE Load(w) \/ Clean(w) \/ Reuse(w) \/ Look(w) \/ Upsert(w) \/ Fail(w) \/ Release(w) \/ Crash(w)
      BY <2>1 DEF Load, Clean, Reuse, Look, Upsert, Fail, Release, Crash
    <2>2. CASE Segment(w)
      BY <2>2 DEF Segment
    <2> QED BY <1>3, <1>4, <1>5, <1>6, <1>7, <1>8, <1>9, <1>10, <2>1, <2>2 DEF WorkerStep
  <1>11. CASE Review \/ Publish \/ Withdraw
    BY <1>1, <1>11 DEF Review, Publish, Withdraw, Decide, VersionRow
  <1>12. CASE Corrected
    <2>1. version.status \in {"failed", "review", "rejected"}
      BY <1>12 DEF Corrected, IngestionIndInv, DataFit, EditFits
    <2>2. version'.status = "uploaded"
      BY <1>12 DEF Corrected
    <2> QED BY <2>1, <2>2 DEF Startable
  <1>13. ASSUME NEW j \in Job, JobStep(j) PROVE version' = version
    BY <1>13 DEF JobStep, Process, Cancel, Expire, Sweep
  <1>14. ASSUME NEW j \in Job, NEW c \in Job, Retry(j, c) PROVE version' = version
    BY <1>14 DEF Retry
  <1>15. ASSUME NEW w \in Worker, NEW j \in Job, Claim(w, j) PROVE version' = version
    BY <1>15 DEF Claim
  <1>16. CASE Correct
    BY <1>16 DEF Correct
  <1> QED BY <1>10, <1>11, <1>12, <1>13, <1>14, <1>15, <1>16 DEF Next

\* A change of the status alone is what MovesVersion does to the only version there is.
LEMMA DocumentMoves ==
    ASSUME NEW from, InDocument["it"].status \in from,
           InDocument'["it"].status = version'.status
    PROVE  Document!MovesVersion("it", from, version'.status)
  <1> DEFINE row(status) == [status |-> status, number |-> 1, content |-> "file",
                             from |-> 1, to |-> 0]
             now == InDocument["it"].status
  <1>1. InDocument = [v \in {"it"} |-> row(now)]
    BY DEF InDocument
  <1>2. InDocument' = [v \in {"it"} |-> row(version'.status)]
    BY DEF InDocument
  <1>3. InDocument' = [InDocument EXCEPT !["it"] = [@ EXCEPT !.status = version'.status]]
    BY <1>1, <1>2
  <1> QED BY <1>3 DEF Document!MovesVersion

\* Whatever moves the version is a handler of the document.
LEMMA DocumentStep ==
    ASSUME IngestionIndInv, Next, InDocument' # InDocument
    PROVE  Document!VersionsNext
  <1> DEFINE to == version'.status
  <1>1. /\ InDocument["it"].status = IF version.status \in Startable THEN "uploaded"
                                     ELSE version.status
        /\ InDocument'["it"].status = IF to \in Startable THEN "uploaded" ELSE to
    BY DEF InDocument
  <1>2. ~(to = version.status) /\ ~(version.status \in Startable /\ to \in Startable)
    BY DEF InDocument
  <1>3. CASE version.status \in Startable /\ to = "review"
    <2>1. Document!IngestVersion("it")
      BY <1>1, <1>3, DocumentMoves DEF Document!IngestVersion, Startable
    <2> QED BY <2>1 DEF Document!VersionsNext, Document!EditVersion
  <1>4. CASE version.status \in {"review", "rejected"} /\ to = "uploaded"
    <2>1. Document!CorrectVersion("it")
      BY <1>1, <1>4, DocumentMoves DEF Document!CorrectVersion, Startable
    <2> QED BY <2>1 DEF Document!VersionsNext, Document!EditVersion
  <1>5. CASE version.status = "review" /\ to \in {"approved", "rejected"}
    <2>1. Document!ApproveVersion("it") \/ Document!RejectVersion("it")
      BY <1>1, <1>5, DocumentMoves DEF Document!ApproveVersion, Document!RejectVersion, Startable
    <2> QED BY <2>1 DEF Document!VersionsNext, Document!EditVersion
  <1>6. CASE version.status = "published" /\ to = "withdrawn"
    <2>1. Document!WithdrawVersion("it")
      BY <1>1, <1>6, DocumentMoves DEF Document!WithdrawVersion, Startable
    <2> QED BY <2>1 DEF Document!VersionsNext
  <1>7. CASE version.status = "approved" /\ to = "published"
    <2>1. InDocument["it"].status = "approved" /\ Document!Published = {}
      BY <1>1, <1>7 DEF Document!Published, Startable
    <2>2. /\ InDocument["it"] = [status |-> "approved", number |-> 1, content |-> "file",
                                 from |-> 1, to |-> 0]
          /\ InDocument' = [u \in {"it"} |-> [status |-> "published", number |-> 1,
                                              content |-> "file", from |-> 1, to |-> 0]]
      BY <1>7 DEF InDocument, Startable
    <2>3. InDocument' = [u \in {"it"} |->
              IF u = "it" THEN [InDocument[u] EXCEPT !.status = "published"]
              ELSE IF u \in Document!Published \cap Document!With("it")
                   THEN [InDocument[u] EXCEPT !.to = Document!Cut(InDocument[u], InDocument["it"].from)]
              ELSE InDocument[u]]
      BY <2>2
    <2>4. Document!PublishVersion("it")
      BY <2>1, <2>3 DEF Document!PublishVersion
    <2> QED BY <2>4 DEF Document!VersionsNext, Document!EditVersion
  <1> QED BY <1>2, <1>3, <1>4, <1>5, <1>6, <1>7, StatusMoves

\* Attempts that fail, are taken over or write from old copies, and corrections
\* between them, move the version as the handlers of its document do.
THEOREM IngestionKeepsTheDocument == Spec => ImplementsDocument
  <1>1. IngestionIndInv /\ [Next]_vars => [InDocument' # InDocument => Document!VersionsNext]_vars
    BY DocumentStep
  <1> QED BY <1>1, IngestionInvariance, PTL DEF Spec, ImplementsDocument

-------------------------------------------------------------------------------
(***************************************************************************)
(* The investigation of an event, for any number of processes, queries and *)
(* losses, and any budget and limit of revisions.  What is stored of a role*)
(* is as far as the checkpoint or one ahead of it, made from it; a process *)
(* that writes without its lease is remembered in strayed.                 *)
(***************************************************************************)

(* The types of the rows. *)

PlacesOf == InGraph \cup {"away", "loading", "closing"}
StepLists == Seq(Query \cup {"finish"})
TaskRows == [round : 0 .. RevisionLimit + 1,
             report : (SUBSET Contents) \cup Risks \cup Plans \cup Reviews \cup {"focus"}]
Tasks == {t \in [Roles -> TaskRows] : IsTasks(t)}
Members == [at : PlacesOf, state : States, task : Tasks, known : SUBSET Contents,
            fresh : BOOLEAN, steps : StepLists, stored : Nat]
AttemptRows == [status : Active \cup Terminal, cancel_requested : BOOLEAN,
                token : Investigator \cup {"none"}, leased : BOOLEAN]

RunTyped ==
    /\ attempt \in AttemptRows /\ agentRun \in Active \cup Terminal
    /\ agentTask \in Tasks /\ agentEvidence \in SUBSET Contents /\ agentSteps \in StepLists
    /\ checkpoint \in States /\ proposal \in States
    /\ strayed \in BOOLEAN /\ losses \in 0 .. MaxLosses

-------------------------------------------------------------------------------
(* What is said of lists of steps, of states and of stored reports. *)

\* Under the lease, whatever the job's status and flag.
Owns(w) == attempt.token = w /\ attempt.leased
Live == ~attempt.cancel_requested
Inside(w) == member[w].at \in InGraph \cup {"closing"}

StepsFit(steps) ==
    /\ Len(steps) <= EvidenceBudget
    /\ \A i, j \in DOMAIN steps : steps[i] = steps[j] /\ steps[i] # "finish" => i = j

\* Evidence a state refers to is among what is stored, and some there is when it
\* has been looked for.
Later == {"risk", "plan", "critic", "end"}
EvidenceFits(state, stored) ==
    state.evidence \subseteq stored /\ (state.next \in Later => state.evidence # {})

TaskEvidenceFits(task) ==
    /\ task["evidence"].report \subseteq agentEvidence
    /\ task["evidence"].round > 0 => task["evidence"].report # {}

\* Drafts that are not younger than the stored ones.
DraftsFit(risk, plan) ==
    /\ risk.draft <= agentTask["risk"].report.draft
    /\ plan.draft <= agentTask["plan"].report.draft

\* The parts of a state are made from each other, as far as it has got.
Chained(state) ==
    /\ state.next \in {"plan", "critic", "end"} => state.risk.evidence = state.evidence
    /\ state.next \in {"critic", "end"} => state.plan.risk = state.risk
    /\ state.next = "end" =>
          state.critic = [decision |-> "approved_for_human_review", risk |-> state.risk,
                          plan |-> state.plan, evidence |-> state.evidence]

MadeFrom(state, role, report) ==
    /\ role = "risk" => report.evidence = state.evidence
    /\ role = "plan" => report.risk = state.risk
    /\ role = "critic" => report = [decision |-> report.decision, risk |-> state.risk,
                                    plan |-> state.plan, evidence |-> state.evidence]

\* Roles that come after the next one.
Behind(next) ==
    CASE next = "coordinator" -> {"evidence", "risk", "plan", "critic"}
      [] next = "evidence"    -> {"risk", "plan", "critic"}
      [] next = "risk"        -> {"plan", "critic"}
      [] next = "plan"        -> {"critic"}
      [] next = "none"        -> Roles
      [] OTHER                -> {}

\* The stored reports are as far as the state, or one ahead and made from it.
RoundsFit(state, tasks) ==
    /\ \A r \in Roles : tasks[r].round <= state.revision + 1
    /\ \A r \in Behind(state.next) : tasks[r].round <= state.revision

ReportsFit(state, tasks) ==
    /\ RoundsFit(state, tasks)
    /\ state.next \in Roles /\ tasks[state.next].round = state.revision + 1 =>
          MadeFrom(state, state.next, tasks[state.next].report)

TasksFit(state) == ReportsFit(state, agentTask)

-------------------------------------------------------------------------------
(* What is said of the rows ... *)

LeaseFits == attempt.leased /\ Live => attempt.status = "running"

RunFits ==
    /\ LeaseFits /\ StepsFit(agentSteps)
    /\ checkpoint.next = "none" => checkpoint = Unsaved
    /\ checkpoint.next = "end" => agentTask["critic"].round > 0
    /\ TaskEvidenceFits(agentTask) /\ EvidenceFits(checkpoint, agentEvidence)
    /\ Live => DraftsFit(checkpoint.risk, checkpoint.plan)
    /\ ~strayed => Chained(checkpoint) /\ (Live => TasksFit(checkpoint))
    /\ ProposalIsReviewed

(* ... and of a process. *)

PlaceFits(w) ==
    /\ member[w].at \in {"node", "finishing", "raising"} => NextOf(w) \in Roles
    /\ member[w].at = "gathering" => NextOf(w) = "evidence"
    /\ member[w].at = "saving" => NextOf(w) \in Roles \cup {"end"}
    /\ member[w].at \in {"proposing", "closing"} => NextOf(w) = "end"

\* Reports are not taken away, and a state at its end was reviewed.
SeenFits(w) ==
    /\ \A r \in Roles : member[w].task[r].round > 0 => agentTask[r].round > 0
    /\ NextOf(w) = "end" => agentTask["critic"].round > 0

FoundFits(w) ==
    /\ TaskEvidenceFits(member[w].task)
    /\ member[w].at # "finishing" => EvidenceFits(member[w].state, agentEvidence)
    /\ member[w].at = "gathering" => member[w].known # {}
    /\ member[w].at = "finishing" =>
          /\ EvidenceFits(member[w].state, agentEvidence \cup member[w].known)
          /\ NextOf(w) = "evidence" => member[w].state.evidence # {}

\* With the lease a process knows what is stored, and does not repeat a report.
HolderKnows(w) ==
    Guards(w) /\ Inside(w) =>
        /\ member[w].task = agentTask /\ member[w].stored = Len(agentSteps)
        /\ member[w].at \in {"gathering", "finishing"} =>
              \/ agentTask[NextOf(w)].round = 0
              \/ agentTask[NextOf(w)].round # member[w].state.revision + 1

\* Until somebody asks to stop, nothing younger than the stored drafts is known
\* anywhere but in a node that has not ended.
YoungFits(w) ==
    Live =>
        /\ DraftsFit(member[w].task["risk"].report, member[w].task["plan"].report)
        /\ member[w].at # "finishing" => DraftsFit(member[w].state.risk, member[w].state.plan)
        /\ member[w].at = "finishing" /\ Guards(w) =>
              /\ DraftsFit(IF NextOf(w) = "risk" THEN NoRisk ELSE member[w].state.risk,
                           IF NextOf(w) = "plan" THEN NoPlan ELSE member[w].state.plan)
              /\ NextOf(w) = "risk" =>
                    agentTask["risk"].report.draft <= member[w].state.risk.draft
              /\ NextOf(w) = "plan" =>
                    agentTask["plan"].report.draft <= member[w].state.plan.draft

Undone(w) == With(member[w].state, NextOf(w), ReportOf(checkpoint, NextOf(w)))

\* What a process with the lease has in hand comes from what the engine stored.
HandFits(w) ==
    Guards(w) =>
        /\ member[w].at = "starting" => checkpoint = Unsaved
        /\ member[w].at \in {"node", "gathering"} => member[w].state = checkpoint
        /\ member[w].at = "finishing" =>
              /\ Undone(w) = checkpoint
              /\ MadeFrom(member[w].state, NextOf(w), ReportOf(member[w].state, NextOf(w)))
        /\ member[w].at = "saving" => TasksFit(member[w].state)

OrderFits(w) ==
    ~strayed =>
        /\ Owns(w) /\ member[w].at = "saving" => Chained(member[w].state)
        /\ member[w].at \in {"proposing", "closing"} => Chained(member[w].state)
        /\ Live => HandFits(w)

MemberFits(w) ==
    /\ StepsFit(member[w].steps) /\ PlaceFits(w) /\ SeenFits(w) /\ FoundFits(w)
    /\ HolderKnows(w) /\ YoungFits(w) /\ OrderFits(w)

InvestigationIndInv ==
    /\ RunTyped /\ RunFits
    /\ member \in [Investigator -> Members]
    /\ \A w \in Investigator : MemberFits(w)

-------------------------------------------------------------------------------
(* States and what is done to them. *)

\* A report of the kind its role makes.
ReportIs(role, report) ==
    /\ role = "evidence" => report \in SUBSET Contents
    /\ role = "risk" => report \in Risks
    /\ role = "plan" => report \in Plans
    /\ role = "critic" => report \in Reviews

\* An update changes the part of its role and nothing else.
LEMMA WithFacts ==
    ASSUME NEW state \in States, NEW role \in Roles, NEW report, ReportIs(role, report)
    PROVE  LET s == With(state, role, report)
           IN  /\ s \in States /\ s.next = state.next /\ s.revision = state.revision
               /\ s.evidence = IF role = "evidence" THEN report ELSE state.evidence
               /\ s.risk = IF role = "risk" THEN report ELSE state.risk
               /\ s.plan = IF role = "plan" THEN report ELSE state.plan
               /\ s.critic = IF role = "critic" THEN report ELSE state.critic
  BY DEF With, States, Roles, ReportIs

\* The part of a role is of its kind, and what an update puts there.
LEMMA ReportOfFacts ==
    ASSUME NEW state \in States, NEW role \in Roles
    PROVE  /\ ReportIs(role, ReportOf(state, role))
           /\ role = "evidence" => ReportOf(state, role) = state.evidence
           /\ role = "risk" => ReportOf(state, role) = state.risk
           /\ role = "plan" => ReportOf(state, role) = state.plan
           /\ role = "critic" => ReportOf(state, role) = state.critic
           /\ role = "coordinator" => ReportOf(state, role) = "focus"
  BY DEF ReportIs, ReportOf, States, Roles

\* States with the same parts are the same.
LEMMA SameState ==
    ASSUME NEW s \in States, NEW t \in States,
           s.next = t.next, s.revision = t.revision, s.evidence = t.evidence,
           s.risk = t.risk, s.plan = t.plan, s.critic = t.critic
    PROVE  s = t
  BY DEF States

\* Going on keeps the parts and, in the same round, goes to a role behind.
LEMMA AdvancedFacts ==
    ASSUME NEW state \in States, state.next \in Roles, ~GivenUp(state)
    PROVE  LET s == Advanced(state)
           IN  /\ s \in States /\ s.next \in {"evidence", "risk", "plan", "critic", "end"}
               /\ s.evidence = state.evidence /\ s.risk = state.risk /\ s.plan = state.plan
               /\ s.critic = state.critic
               /\ state.next = "coordinator" => s.next = "evidence"
               /\ state.next = "evidence" => s.next = "risk"
               /\ state.next = "risk" => s.next = "plan"
               /\ state.next = "plan" => s.next = "critic"
               /\ state.next = "critic" => s.next \in {"evidence", "plan", "end"}
               /\ s.next = "end" => /\ state.next = "critic"
                                    /\ state.critic.decision = "approved_for_human_review"
               /\ s.revision = IF state.next = "critic" /\ s.next # "end"
                               THEN state.revision + 1 ELSE state.revision
  <1>1. CASE state.next # "critic"
    BY <1>1 DEF Advanced, After, States, Roles
  <1>2. CASE state.next = "critic" /\ state.critic.decision = "approved_for_human_review"
    BY <1>2 DEF Advanced, States, Roles
  <1>3. CASE state.next = "critic" /\ state.critic.decision # "approved_for_human_review"
    <2>1. state.revision + 1 \in 0 .. RevisionLimit
      BY <1>3, InvestigationLimits DEF GivenUp, States
    <2> QED BY <1>3, <2>1 DEF Advanced, States, Roles
  <1> QED BY <1>1, <1>2, <1>3

\* What is chained, and goes on with a report made from it, is chained.
LEMMA AdvancedIsChained ==
    ASSUME NEW state \in States, state.next \in Roles, ~GivenUp(state), Chained(state),
           MadeFrom(state, state.next, ReportOf(state, state.next))
    PROVE  Chained(Advanced(state))
  BY AdvancedFacts, ReportOfFacts DEF Chained, MadeFrom, Roles

\* Evidence is there when the roles after it begin.
LEMMA AdvancedHasEvidence ==
    ASSUME NEW state \in States, state.next \in Roles, ~GivenUp(state), NEW stored,
           EvidenceFits(state, stored), state.next = "evidence" => state.evidence # {}
    PROVE  EvidenceFits(Advanced(state), stored)
  BY AdvancedFacts DEF EvidenceFits, Later, Roles

\* A role that is next has not reported in this round yet.
LEMMA AdvancedFitsTasks ==
    ASSUME NEW state \in States, state.next \in Roles, ~GivenUp(state), NEW tasks,
           \A r \in Roles : tasks[r].round \in Nat, RoundsFit(state, tasks)
    PROVE  ReportsFit(Advanced(state), tasks)
  <1> DEFINE s == Advanced(state)
  <1>1. /\ s.revision \in Nat /\ state.revision \in Nat
        /\ s.next \in {"evidence", "risk", "plan", "critic", "end"}
    BY AdvancedFacts, InvestigationLimits DEF States
  <1>2. CASE s.revision = state.revision + 1
    BY <1>1, <1>2, AdvancedFacts DEF ReportsFit, RoundsFit, Behind, Roles
  <1>3. CASE s.revision = state.revision
    <2>1. CASE s.next = "end"
      BY <1>1, <1>3, <2>1 DEF ReportsFit, RoundsFit, Behind, Roles
    <2>2. CASE s.next # "end"
      <3>1. s.next \in Behind(state.next) /\ Behind(s.next) \subseteq Behind(state.next)
        BY <1>1, <1>3, <2>2, AdvancedFacts DEF Behind, Roles
      <3>2. tasks[s.next].round <= state.revision /\ s.next \in Roles
        BY <1>1, <2>2, <3>1 DEF RoundsFit, Roles
      <3> QED BY <1>1, <1>3, <3>1, <3>2 DEF ReportsFit, RoundsFit
    <2> QED BY <2>1, <2>2
  <1> QED BY <1>2, <1>3, AdvancedFacts

-------------------------------------------------------------------------------
(* What every step has to keep. *)

\* Stored reports by role.
LEMMA TaskFacts ==
    ASSUME NEW t \in Tasks
    PROVE  /\ \A r \in Roles : t[r].round \in 0 .. RevisionLimit + 1 /\ t[r].round \in Nat
                               /\ ReportIs(r, t[r].report)
           /\ t["risk"].report.draft \in Nat /\ t["plan"].report.draft \in Nat
           /\ t \in [Roles -> TaskRows]
  BY InvestigationLimits DEF Tasks, IsTasks, ReportIs, Roles, Risks, Plans

\* The text of a draft number is a number.
LEMMA StateFacts ==
    ASSUME NEW s \in States
    PROVE  /\ s.risk.draft \in Nat /\ s.plan.draft \in Nat
           /\ s.risk \in Risks /\ s.plan \in Plans /\ s.critic \in Reviews
           /\ s.evidence \in SUBSET Contents /\ s.revision \in 0 .. RevisionLimit
           /\ s.revision \in Nat
           /\ s.next \in Roles \cup {"none", "end"}
  BY InvestigationLimits DEF States, Risks, Plans

\* The parts of a process, one by one.
LEMMA MemberFacts ==
    ASSUME NEW m \in Members
    PROVE  /\ m.at \in PlacesOf /\ m.state \in States /\ m.task \in Tasks
           /\ m.known \in SUBSET Contents /\ m.fresh \in BOOLEAN
           /\ m.steps \in StepLists /\ m.stored \in Nat
  BY DEF Members

\* The states an investigation begins with are empty.
LEMMA FirstState ==
    /\ Unsaved \in States /\ Unsaved.next = "none" /\ Unsaved.evidence = {}
    /\ Unsaved.risk = NoRisk /\ Unsaved.plan = NoPlan /\ Unsaved.revision = 0
    /\ Beginning \in States /\ Beginning.next = "coordinator" /\ Beginning.evidence = {}
    /\ Beginning.risk = NoRisk /\ Beginning.plan = NoPlan /\ Beginning.revision = 0
    /\ NoRisk \in Risks /\ NoPlan \in Plans /\ NoRisk.draft = 0 /\ NoPlan.draft = 0
  BY InvestigationLimits
     DEF Unsaved, Beginning, States, NoRisk, NoPlan, NoReview, Risks, Plans, Reviews, Roles

\* No role has reported at the beginning.
LEMMA FirstTasks ==
    /\ Blank \in Tasks /\ \A r \in Roles : Blank[r].round = 0
    /\ Blank["evidence"].report = {} /\ Blank["risk"].report = NoRisk
    /\ Blank["plan"].report = NoPlan
  <1>1. NoReview \in Reviews
    BY FirstState DEF NoReview, Reviews
  <1>2. /\ \A r \in Roles : Blank[r].round = 0
        /\ Blank["evidence"].report = {} /\ Blank["risk"].report = NoRisk
        /\ Blank["plan"].report = NoPlan /\ Blank["critic"].report = NoReview
        /\ Blank["coordinator"].report = "focus"
    BY DEF Blank, Roles
  <1>3. 0 \in 0 .. RevisionLimit + 1
    BY InvestigationLimits
  <1>4. ASSUME NEW r \in Roles PROVE Blank[r] \in TaskRows
    <2> DEFINE made == Blank[r].report
    <2>1. Blank[r] = [round |-> 0, report |-> made]
      BY DEF Blank, Roles
    <2>2. made \in (SUBSET Contents) \cup Risks \cup Plans \cup Reviews \cup {"focus"}
      BY <1>1, <1>2, FirstState DEF Roles
    <2> HIDE DEF made
    <2> QED BY <1>3, <2>1, <2>2 DEF TaskRows
  <1>5. Blank \in [Roles -> TaskRows] /\ DOMAIN Blank = Roles
    BY <1>4 DEF Blank
  <1>6. IsTasks(Blank)
    BY <1>1, <1>2, <1>3, <1>5, FirstState DEF IsTasks
  <1> QED BY <1>2, <1>5, <1>6 DEF Tasks

\* A process that is away has nothing in hand.
LEMMA AwayFacts ==
    /\ Away \in Members /\ Away.at = "away" /\ Away.state = Unsaved /\ Away.task = Blank
    /\ Away.steps = <<>> /\ Away.known = {}
  BY FirstState, FirstTasks DEF Away, Members, PlacesOf, StepLists

\* Rows are added to, and nobody takes a request to stop back.
Grown ==
    /\ agentEvidence \subseteq agentEvidence' /\ (strayed => strayed') /\ (Live' => Live)
    /\ \A r \in Roles : agentTask[r].round > 0 => agentTask'[r].round > 0
    /\ Live' => /\ agentTask["risk"].report.draft <= agentTask'["risk"].report.draft
                /\ agentTask["plan"].report.draft <= agentTask'["plan"].report.draft

\* A process that does not move gets no lease, and keeps it only if what it
\* knows stays true.
Waits(v) ==
    /\ Owns(v)' => Owns(v)
    /\ Guards(v)' => /\ Guards(v) /\ UNCHANGED <<agentTask, agentSteps>>
                     /\ ~strayed' => checkpoint' = checkpoint

\* Who waits while what is stored grows keeps what it has.
LEMMA WaitingKeeps ==
    ASSUME NEW v, MemberFits(v), member[v] \in Members, member'[v] = member[v],
           agentTask \in Tasks, agentTask' \in Tasks, Grown, Waits(v)
    PROVE  MemberFits(v)'
  <1>1. /\ member[v].state \in States /\ member[v].task \in Tasks
    BY MemberFacts
  <1>2. StepsFit(member[v].steps)' /\ PlaceFits(v)'
    BY DEF MemberFits, StepsFit, PlaceFits, NextOf
  <1>3. SeenFits(v)'
    BY DEF MemberFits, SeenFits, NextOf, Grown, Roles
  <1>4. FoundFits(v)'
    BY DEF MemberFits, FoundFits, NextOf, Grown, TaskEvidenceFits, EvidenceFits
  <1>5. HolderKnows(v)'
    BY DEF MemberFits, HolderKnows, NextOf, Waits, Inside
  <1>6. \A risk, plan : DraftsFit(risk, plan) /\ risk.draft \in Nat /\ plan.draft \in Nat /\ Live'
            => DraftsFit(risk, plan)'
    BY TaskFacts DEF DraftsFit, Grown
  <1>7. YoungFits(v)'
    <2>1. CASE ~ Live'
      BY <2>1 DEF YoungFits
    <2>2. CASE Live'
      <3>1. Live /\ YoungFits(v)
        BY <2>2 DEF Grown, MemberFits
      <3>2. DraftsFit(member[v].task["risk"].report, member[v].task["plan"].report)'
        BY <1>1, <1>6, <2>2, <3>1, TaskFacts DEF YoungFits
      <3>3. member[v].at # "finishing" => DraftsFit(member[v].state.risk, member[v].state.plan)'
        BY <1>1, <1>6, <2>2, <3>1, StateFacts DEF YoungFits
      <3>4. ASSUME member[v].at = "finishing", Guards(v)'
            PROVE  /\ DraftsFit(IF NextOf(v) = "risk" THEN NoRisk ELSE member[v].state.risk,
                                IF NextOf(v) = "plan" THEN NoPlan ELSE member[v].state.plan)'
                   /\ NextOf(v) = "risk" =>
                         agentTask'["risk"].report.draft <= member[v].state.risk.draft
                   /\ NextOf(v) = "plan" =>
                         agentTask'["plan"].report.draft <= member[v].state.plan.draft
        BY <2>2, <3>1, <3>4 DEF YoungFits, Waits, DraftsFit, NextOf
      <3> QED BY <3>2, <3>3, <3>4 DEF YoungFits, NextOf
    <2> QED BY <2>1, <2>2
  <1>8. OrderFits(v)'
    <2>1. CASE strayed'
      BY <2>1 DEF OrderFits
    <2>2. CASE ~ strayed'
      <3>1. OrderFits(v) /\ ~strayed
        BY <2>2 DEF Grown, MemberFits
      <3>2. /\ (Owns(v) /\ member[v].at = "saving")' => Chained(member[v].state)'
            /\ member'[v].at \in {"proposing", "closing"} => Chained(member[v].state)'
        BY <3>1 DEF OrderFits, Waits, Chained
      <3>3. Live' => HandFits(v)'
        BY <2>2, <3>1
           DEF OrderFits, HandFits, Waits, Grown, NextOf, Undone, MadeFrom, TasksFit, ReportsFit, RoundsFit
      <3> QED BY <3>2, <3>3 DEF OrderFits
    <2> QED BY <2>1, <2>2
  <1> QED BY <1>2, <1>3, <1>4, <1>5, <1>7, <1>8 DEF MemberFits

\* A process moves.
LEMMA OneMoves ==
    ASSUME InvestigationIndInv, NEW w \in Investigator, NEW new \in Members,
           member' = [member EXCEPT ![w] = new],
           RunTyped', RunFits', Grown, MemberFits(w)',
           \A v \in Investigator \ {w} : Waits(v)
    PROVE  InvestigationIndInv'
  <1>1. /\ member' \in [Investigator -> Members]
        /\ \A v \in Investigator \ {w} : member'[v] = member[v] /\ member[v] \in Members
    BY DEF InvestigationIndInv
  <1>2. agentTask \in Tasks /\ agentTask' \in Tasks
    BY DEF InvestigationIndInv, RunTyped
  <1>3. \A v \in Investigator \ {w} : MemberFits(v)'
    BY <1>1, <1>2, WaitingKeeps DEF InvestigationIndInv
  <1> QED BY <1>1, <1>3 DEF InvestigationIndInv

\* The rows of the investigation are left alone.
LEMMA RunStays ==
    ASSUME InvestigationIndInv, attempt' \in AttemptRows, agentRun' \in Active \cup Terminal,
           UNCHANGED <<reports, checkpoint, proposal, strayed>>, losses' \in 0 .. MaxLosses,
           LeaseFits', Live' => Live
    PROVE  RunTyped' /\ RunFits' /\ Grown
  <1>1. /\ agentTask' = agentTask /\ agentEvidence' = agentEvidence /\ agentSteps' = agentSteps
        /\ agentTask \in Tasks
    BY DEF reports, InvestigationIndInv, RunTyped
  <1>2. RunTyped'
    BY <1>1 DEF InvestigationIndInv, RunTyped
  <1>3. RunFits'
    BY <1>1 DEF InvestigationIndInv, RunFits, StepsFit, TaskEvidenceFits, EvidenceFits, DraftsFit,
                Chained, TasksFit, ReportsFit, RoundsFit, MadeFrom, ProposalIsReviewed
  <1>4. Grown
    BY <1>1, TaskFacts DEF Grown
  <1> QED BY <1>2, <1>3, <1>4

\* Nobody moves.
LEMMA NobodyMoves ==
    ASSUME InvestigationIndInv, member' = member, RunTyped', RunFits', Grown,
           \A v \in Investigator : Waits(v)
    PROVE  InvestigationIndInv'
  <1>1. \A v \in Investigator : member'[v] = member[v] /\ member[v] \in Members
    BY DEF InvestigationIndInv
  <1>2. agentTask \in Tasks /\ agentTask' \in Tasks
    BY DEF InvestigationIndInv, RunTyped
  <1> QED BY <1>1, <1>2, WaitingKeeps DEF InvestigationIndInv

\* A process that has gone away knows nothing.
LEMMA AwayFits ==
    ASSUME NEW w, member'[w] = Away, RunTyped'
    PROVE  MemberFits(w)'
  <1>1. agentTask' \in Tasks
    BY DEF RunTyped
  <1>2. StepsFit(<<>>)
    BY InvestigationLimits DEF StepsFit
  <1>3. StepsFit(member[w].steps)' /\ PlaceFits(w)' /\ SeenFits(w)' /\ FoundFits(w)'
    BY <1>2, AwayFacts, FirstState, FirstTasks
       DEF StepsFit, PlaceFits, SeenFits, FoundFits, NextOf, TaskEvidenceFits, EvidenceFits, Later,
           Roles
  <1>4. HolderKnows(w)'
    BY AwayFacts DEF HolderKnows, Inside, InGraph
  <1>5. YoungFits(w)'
    BY <1>1, AwayFacts, FirstState, FirstTasks, TaskFacts DEF YoungFits, DraftsFit
  <1>6. OrderFits(w)'
    BY AwayFacts DEF OrderFits, HandFits
  <1> QED BY <1>3, <1>4, <1>5, <1>6 DEF MemberFits

\* A process that goes away leaves the others what they have.
LEMMA GoneAway ==
    ASSUME InvestigationIndInv, NEW w \in Investigator, GoesAway(w), RunTyped', RunFits', Grown,
           \A v \in Investigator \ {w} : Waits(v)
    PROVE  InvestigationIndInv'
  <1>1. member' = [member EXCEPT ![w] = Away] /\ member'[w] = Away
    BY DEF GoesAway, InvestigationIndInv
  <1> QED BY <1>1, AwayFacts, AwayFits, OneMoves

-------------------------------------------------------------------------------
(* Taking the run up. *)

\* An attempt in the queue, and nothing found.
LEMMA InvestigationInitInv == InvestigationInit => InvestigationIndInv
  <1> SUFFICES ASSUME InvestigationInit PROVE InvestigationIndInv
    OBVIOUS
  <1>5. /\ attempt \in AttemptRows /\ agentRun \in Active \cup Terminal /\ attempt.leased = FALSE
        /\ agentTask = Blank /\ agentEvidence = {} /\ agentSteps = <<>>
        /\ checkpoint = Unsaved /\ proposal = Unsaved /\ strayed = FALSE /\ losses = 0
        /\ member = [w \in Investigator |-> Away]
    BY DEF InvestigationInit, AttemptRows, Active, NoProposal
  <1>6. losses \in 0 .. MaxLosses /\ agentSteps \in StepLists
    BY <1>5, InvestigationLimits DEF StepLists
  <1>1. RunTyped
    BY <1>5, <1>6, FirstState, FirstTasks DEF RunTyped
  <1>2. RunFits
    <2>1. StepsFit(agentSteps)
      BY <1>5, InvestigationLimits DEF StepsFit
    <2>2. LeaseFits /\ ProposalIsReviewed
      BY <1>5 DEF LeaseFits, ProposalIsReviewed, NoProposal
    <2>3. EvidenceFits(checkpoint, agentEvidence)
      BY <1>5, FirstState DEF EvidenceFits, Later
    <2>6. TaskEvidenceFits(agentTask)
      BY <1>5, FirstTasks DEF TaskEvidenceFits, Roles
    <2>7. checkpoint.next = "none" /\ checkpoint = Unsaved /\ ~strayed
      BY <1>5, FirstState
    <2>4. DraftsFit(checkpoint.risk, checkpoint.plan) /\ Chained(checkpoint) /\ TasksFit(checkpoint)
      BY <1>5, FirstState, FirstTasks
         DEF DraftsFit, Chained, TasksFit, ReportsFit, RoundsFit, Behind, Roles
    <2> QED BY <2>1, <2>2, <2>3, <2>4, <2>6, <2>7 DEF RunFits
  <1>3. member \in [Investigator -> Members]
    BY <1>5, AwayFacts
  <1>4. ASSUME NEW w \in Investigator PROVE MemberFits(w)
    <2>1. member[w] = Away
      BY <1>5
    <2>2. StepsFit(member[w].steps)
      BY <2>1, AwayFacts, InvestigationLimits DEF StepsFit
    <2>3. PlaceFits(w) /\ SeenFits(w) /\ FoundFits(w)
      BY <1>5, <2>1, AwayFacts, FirstState, FirstTasks
         DEF PlaceFits, SeenFits, FoundFits, NextOf, TaskEvidenceFits, EvidenceFits, Later, Roles
    <2>4. HolderKnows(w) /\ OrderFits(w)
      BY <2>1, AwayFacts DEF HolderKnows, Inside, InGraph, OrderFits, HandFits
    <2>5. YoungFits(w)
      BY <1>5, <2>1, AwayFacts, FirstState, FirstTasks DEF YoungFits, DraftsFit
    <2> QED BY <2>2, <2>3, <2>4, <2>5 DEF MemberFits
  <1> QED BY <1>1, <1>2, <1>3, <1>4 DEF InvestigationIndInv

\* What is known of a process and of the rows before it moves.
LEMMA Before ==
    ASSUME InvestigationIndInv, NEW w \in Investigator
    PROVE  /\ member[w] \in Members /\ member[w].at \in PlacesOf
           /\ member[w].state \in States /\ member[w].task \in Tasks
           /\ member[w].known \in SUBSET Contents /\ member[w].fresh \in BOOLEAN
           /\ member[w].steps \in StepLists
           /\ MemberFits(w) /\ RunTyped /\ RunFits /\ checkpoint \in States
           /\ agentTask \in Tasks /\ agentSteps \in StepLists
           /\ Owns(w) /\ Live => Guards(w)
  BY MemberFacts
     DEF InvestigationIndInv, RunTyped, RunFits, LeaseFits, Owns, Live, Guards

\* The others wait while nothing but a process moves.
LEMMA OthersWait ==
    ASSUME NEW v, UNCHANGED <<attempt, reports, checkpoint, strayed>>
    PROVE  Waits(v)
  BY DEF Waits, Owns, Guards, reports

\* Nothing but a process moves.
LEMMA OnlyMoves ==
    ASSUME InvestigationIndInv, NEW w \in Investigator, NEW new \in Members,
           member' = [member EXCEPT ![w] = new],
           UNCHANGED <<attempt, agentRun, reports, checkpoint, proposal, graphHistory>>,
           MemberFits(w)'
    PROVE  InvestigationIndInv'
  <1>1. /\ attempt' \in AttemptRows /\ agentRun' \in Active \cup Terminal
        /\ losses' \in 0 .. MaxLosses /\ strayed' = strayed /\ LeaseFits' /\ (Live' => Live)
    BY DEF graphHistory, InvestigationIndInv, RunTyped, RunFits, LeaseFits, Live
  <1>2. RunTyped' /\ RunFits' /\ Grown
    BY <1>1, RunStays
  <1>3. \A v \in Investigator \ {w} : Waits(v)
    BY <1>1, OthersWait
  <1> QED BY <1>2, <1>3, OneMoves

\* The claim of the lease; whoever had it before has it no more.
LEMMA ClaimRunInv ==
    ASSUME InvestigationIndInv, NEW w \in Investigator, ClaimRun(w)
    PROVE  InvestigationIndInv'
  <1> DEFINE new == [member[w] EXCEPT !.at = "loading"]
             row == [attempt EXCEPT !.status = "running", !.token = w, !.leased = TRUE]
  <1>1. /\ new \in Members /\ new.at = "loading" /\ new.state = member[w].state
        /\ new.task = member[w].task /\ new.steps = member[w].steps
    BY Before DEF Members, PlacesOf
  <1>2. member' = [member EXCEPT ![w] = new] /\ member[w].at = "away"
    BY DEF ClaimRun
  <1>3. /\ attempt' \in AttemptRows /\ attempt'.token = w /\ attempt'.status = "running"
        /\ attempt'.cancel_requested = attempt.cancel_requested
    BY DEF ClaimRun, InvestigationIndInv, RunTyped, AttemptRows, Active
  <1> HIDE DEF new
  <1>4. member'[w] = new
    BY <1>2 DEF InvestigationIndInv
  <1>5. /\ UNCHANGED <<agentRun, reports, checkpoint, proposal, strayed>>
        /\ losses' \in 0 .. MaxLosses /\ agentRun' \in Active \cup Terminal
    BY DEF ClaimRun, graphHistory, InvestigationIndInv, RunTyped
  <1>6. LeaseFits' /\ (Live' => Live)
    BY <1>3 DEF LeaseFits, Live
  <1>7. RunTyped' /\ RunFits' /\ Grown
    BY <1>3, <1>5, <1>6, RunStays
  <1>8. \A v \in Investigator \ {w} : Waits(v)
    BY <1>3 DEF Waits, Owns, Guards
  <1>9. MemberFits(w)'
    <2>1. MemberFits(w)
      BY Before
    <2>2. UNCHANGED <<agentTask, agentEvidence>>
      BY <1>5 DEF reports
    <2>3. StepsFit(member[w].steps)' /\ PlaceFits(w)' /\ SeenFits(w)' /\ FoundFits(w)'
      BY <1>1, <1>2, <1>4, <2>1, <2>2
         DEF MemberFits, StepsFit, PlaceFits, SeenFits, FoundFits, NextOf, TaskEvidenceFits,
             EvidenceFits, Later
    <2>4. HolderKnows(w)' /\ OrderFits(w)'
      BY <1>1, <1>4 DEF HolderKnows, Inside, InGraph, OrderFits, HandFits
    <2>5. YoungFits(w)'
      BY <1>1, <1>2, <1>4, <1>6, <2>1, <2>2 DEF MemberFits, YoungFits, DraftsFit
    <2> QED BY <2>3, <2>4, <2>5 DEF MemberFits
  <1> QED BY <1>1, <1>2, <1>7, <1>8, <1>9, OneMoves

\* The executor reads what is stored of the run.
LEMMA LoadRunInv ==
    ASSUME InvestigationIndInv, NEW w \in Investigator, LoadRun(w)
    PROVE  InvestigationIndInv'
  <1> DEFINE new == [Away EXCEPT !.at = "resuming", !.task = agentTask, !.known = agentEvidence,
                                 !.steps = agentSteps, !.stored = Len(agentSteps)]
  <1>1. agentTask \in Tasks /\ agentEvidence \in SUBSET Contents /\ agentSteps \in StepLists
    BY DEF InvestigationIndInv, RunTyped
  <1>2. Len(agentSteps) \in Nat
    BY <1>1 DEF StepLists
  <1>3. /\ new \in Members /\ new.at = "resuming" /\ new.state = Unsaved
        /\ new.task = agentTask /\ new.steps = agentSteps /\ new.stored = Len(agentSteps)
    BY <1>1, <1>2, AwayFacts DEF Members, PlacesOf, InGraph
  <1>4. member' = [member EXCEPT ![w] = new]
    BY DEF LoadRun
  <1> HIDE DEF new
  <1>5. member'[w] = new
    BY <1>4 DEF InvestigationIndInv
  <1>6. /\ UNCHANGED <<attempt, reports, checkpoint, proposal, strayed>>
        /\ losses' \in 0 .. MaxLosses /\ agentRun' \in Active \cup Terminal
        /\ attempt' \in AttemptRows /\ LeaseFits' /\ (Live' => Live)
    BY DEF LoadRun, graphHistory, InvestigationIndInv, RunTyped, Active, RunFits, LeaseFits, Live
  <1>7. RunTyped' /\ RunFits' /\ Grown
    BY <1>6, RunStays
  <1>8. \A v \in Investigator \ {w} : Waits(v)
    BY <1>6, OthersWait
  <1>9. MemberFits(w)'
    <2>1. UNCHANGED <<agentTask, agentEvidence, agentSteps>>
      BY <1>6 DEF reports
    <2>2. StepsFit(member[w].steps)' /\ PlaceFits(w)' /\ SeenFits(w)' /\ FoundFits(w)'
      BY <1>3, <1>5, <2>1, FirstState
         DEF InvestigationIndInv, RunFits, StepsFit, PlaceFits, SeenFits, FoundFits, NextOf,
             TaskEvidenceFits, EvidenceFits, Later
    <2>3. HolderKnows(w)' /\ OrderFits(w)'
      BY <1>3, <1>5, <2>1 DEF HolderKnows, OrderFits, HandFits
    <2>4. YoungFits(w)'
      BY <1>1, <1>3, <1>5, <2>1, FirstState, TaskFacts DEF YoungFits, DraftsFit
    <2> QED BY <2>2, <2>3, <2>4 DEF MemberFits
  <1> QED BY <1>3, <1>4, <1>7, <1>8, <1>9, OneMoves

\* It goes on from the checkpoint, if there is one ...
LEMMA ResumeInv ==
    ASSUME InvestigationIndInv, NEW w \in Investigator, Resume(w)
    PROVE  InvestigationIndInv'
  <1> DEFINE place == CASE checkpoint = Unsaved    -> "starting"
                        [] checkpoint.next = "end" -> "proposing"
                        [] OTHER                   -> "node"
             new == [member[w] EXCEPT !.at = place, !.state = checkpoint]
  <1>1. /\ place \in {"starting", "proposing", "node"}
        /\ place = "starting" => checkpoint = Unsaved
        /\ place = "proposing" => checkpoint.next = "end"
        /\ place = "node" => checkpoint.next \in Roles
    <2>1. checkpoint \in States /\ RunFits
      BY Before
    <2>2. checkpoint.next \in Roles \cup {"none", "end"}
      BY <2>1, StateFacts
    <2>3. CASE checkpoint = Unsaved
      BY <2>3
    <2>4. CASE checkpoint # Unsaved
      BY <2>1, <2>2, <2>4, FirstState DEF RunFits
    <2> QED BY <2>3, <2>4
  <1>2. member[w].at = "resuming" /\ member' = [member EXCEPT ![w].at = place, ![w].state = checkpoint]
    BY DEF Resume
  <1> HIDE DEF place
  <1>12. member' = [member EXCEPT ![w] = new]
    BY <1>2, Before DEF InvestigationIndInv, Members
  <1>3. /\ new \in Members /\ new.at = place /\ new.state = checkpoint
        /\ new.task = member[w].task /\ new.steps = member[w].steps
        /\ new.stored = member[w].stored
    BY <1>1, Before DEF Members, PlacesOf, InGraph
  <1> HIDE DEF new
  <1>4. member'[w] = new
    BY <1>12 DEF InvestigationIndInv
  <1>5. UNCHANGED <<attempt, agentRun, reports, checkpoint, proposal, graphHistory>>
    BY DEF Resume
  <1>6. UNCHANGED <<agentTask, agentEvidence, agentSteps, strayed>>
    BY <1>5 DEF reports, graphHistory
  <1>7. MemberFits(w) /\ RunFits
    BY Before
  <1>8. StepsFit(member[w].steps)' /\ PlaceFits(w)' /\ SeenFits(w)' /\ FoundFits(w)'
    BY <1>1, <1>3, <1>4, <1>5, <1>6, <1>7
       DEF MemberFits, RunFits, StepsFit, PlaceFits, SeenFits, FoundFits, NextOf,
           TaskEvidenceFits, EvidenceFits, Later
  <1>9. HolderKnows(w)'
    BY <1>1, <1>2, <1>3, <1>4, <1>5, <1>6, <1>7
       DEF MemberFits, HolderKnows, Inside, InGraph, Guards
  <1>10. YoungFits(w)'
    BY <1>1, <1>2, <1>3, <1>4, <1>5, <1>6, <1>7
       DEF MemberFits, RunFits, YoungFits, DraftsFit, Live
  <1>11. OrderFits(w)'
    BY <1>1, <1>3, <1>4, <1>5, <1>6, <1>7
       DEF RunFits, OrderFits, HandFits, Chained
  <1> QED BY <1>12, <1>3, <1>5, <1>8, <1>9, <1>10, <1>11, OnlyMoves DEF MemberFits

-------------------------------------------------------------------------------
(* What the graph engine stores. *)

\* A process writes a state that fits what is stored.
LEMMA OnlyWrites ==
    ASSUME InvestigationIndInv, NEW w \in Investigator, NEW new \in Members,
           member' = [member EXCEPT ![w] = new], NEW state \in States, Writes(w, state),
           UNCHANGED <<attempt, agentRun, reports, proposal, losses>>, MemberFits(w)',
           state.next # "none", state.next = "end" => agentTask["critic"].round > 0,
           EvidenceFits(state, agentEvidence), Live => DraftsFit(state.risk, state.plan),
           Owns(w) /\ ~strayed => Chained(state) /\ (Live => TasksFit(state))
    PROVE  InvestigationIndInv'
  <1>1. /\ strayed' \in BOOLEAN /\ checkpoint' = state
        /\ ~strayed' => ~strayed /\ Owns(w)
    BY DEF Writes, Owns
  <1>2. /\ UNCHANGED <<agentTask, agentEvidence, agentSteps>> /\ agentTask \in Tasks
    BY DEF reports, InvestigationIndInv, RunTyped
  <1>3. RunTyped'
    BY <1>1, <1>2 DEF InvestigationIndInv, RunTyped
  <1>4. RunFits'
    <2>1. LeaseFits' /\ StepsFit(agentSteps)' /\ TaskEvidenceFits(agentTask)'
      BY <1>2 DEF InvestigationIndInv, RunFits, LeaseFits, Live, StepsFit, TaskEvidenceFits
    <2>2. EvidenceFits(state, agentEvidence)'
      BY <1>2 DEF EvidenceFits
    <2>3. Live' => DraftsFit(state.risk, state.plan)'
      BY <1>2 DEF DraftsFit, Live
    <2>4. ~strayed' => Chained(state)' /\ (Live' => TasksFit(state)')
      BY <1>1, <1>2 DEF Chained, TasksFit, ReportsFit, RoundsFit, MadeFrom, Live
    <2>5. ProposalIsReviewed'
      BY <1>1, <1>2 DEF InvestigationIndInv, RunFits, ProposalIsReviewed
    <2>6. state.next = "end" => agentTask'["critic"].round > 0
      BY <1>2
    <2> QED BY <1>1, <2>1, <2>2, <2>3, <2>4, <2>5, <2>6 DEF RunFits
  <1>5. Grown
    BY <1>1, <1>2, TaskFacts DEF Grown, Live
  <1>6. \A v \in Investigator \ {w} : Waits(v)
    BY <1>1, <1>2 DEF Waits, Owns, Guards
  <1> QED BY <1>3, <1>4, <1>5, <1>6, OneMoves

\* ... or from the beginning.
LEMMA StartGraphInv ==
    ASSUME InvestigationIndInv, NEW w \in Investigator, StartGraph(w)
    PROVE  InvestigationIndInv'
  <1> DEFINE state == IF checkpoint = Unsaved THEN Beginning
                      ELSE [checkpoint EXCEPT !.next = "coordinator", !.revision = 0]
             new == [member[w] EXCEPT !.at = "node", !.state = state]
  <1>1. /\ state \in States /\ state.next = "coordinator"
        /\ state.evidence = checkpoint.evidence
        /\ state.risk = checkpoint.risk /\ state.plan = checkpoint.plan
        /\ checkpoint = Unsaved => state = Beginning
    BY Before, FirstState, InvestigationLimits DEF States, Roles
  <1>2. /\ member[w].at = "starting" /\ Writes(w, state)
        /\ member' = [member EXCEPT ![w].at = "node", ![w].state = state]
        /\ UNCHANGED <<attempt, agentRun, reports, proposal, losses>>
    BY DEF StartGraph
  <1> HIDE DEF state
  <1>3. member' = [member EXCEPT ![w] = new]
    BY <1>2, Before DEF InvestigationIndInv, Members
  <1>4. /\ new \in Members /\ new.at = "node" /\ new.state = state
        /\ new.task = member[w].task /\ new.steps = member[w].steps
        /\ new.stored = member[w].stored
    BY <1>1, Before DEF Members, PlacesOf, InGraph
  <1> HIDE DEF new
  <1>5. member'[w] = new
    BY <1>3 DEF InvestigationIndInv
  <1>6. MemberFits(w) /\ RunFits
    BY Before
  <1>7. /\ checkpoint' = state /\ (~strayed' => ~strayed /\ Owns(w))
        /\ UNCHANGED <<attempt, agentTask, agentEvidence, agentSteps>>
    BY <1>2 DEF Writes, Owns, reports
  <1>8. /\ EvidenceFits(state, agentEvidence) /\ Chained(state)
        /\ Live => DraftsFit(state.risk, state.plan)
    BY <1>1, <1>6 DEF RunFits, EvidenceFits, Chained, DraftsFit, Later
  <1>9. Owns(w) /\ ~strayed /\ Live => TasksFit(state)
    <2> SUFFICES ASSUME Owns(w), ~strayed, Live PROVE TasksFit(state)
      OBVIOUS
    <2>1. checkpoint = Unsaved /\ TasksFit(checkpoint)
      BY <1>2, <1>6, Before DEF MemberFits, OrderFits, HandFits, RunFits
    <2>2. \A r \in Roles : agentTask[r].round <= 0
      BY <2>1, FirstState DEF TasksFit, ReportsFit, RoundsFit, Behind, Roles
    <2>3. \A r \in Roles : agentTask[r].round \in Nat
      BY Before, TaskFacts
    <2> QED BY <1>1, <2>1, <2>2, <2>3, FirstState DEF TasksFit, ReportsFit, RoundsFit, Behind, Roles
  <1>10. MemberFits(w)'
    <2>1. StepsFit(member[w].steps)' /\ PlaceFits(w)' /\ SeenFits(w)' /\ FoundFits(w)'
      BY <1>1, <1>4, <1>5, <1>6, <1>7, <1>8
         DEF MemberFits, StepsFit, PlaceFits, SeenFits, FoundFits, NextOf,
             TaskEvidenceFits, EvidenceFits, Roles
    <2>2. HolderKnows(w)'
      BY <1>2, <1>4, <1>5, <1>6, <1>7 DEF MemberFits, HolderKnows, Inside, InGraph, Guards
    <2>3. YoungFits(w)'
      BY <1>4, <1>5, <1>6, <1>7, <1>8 DEF MemberFits, YoungFits, DraftsFit, Live
    <2>4. OrderFits(w)'
      BY <1>4, <1>5, <1>7 DEF OrderFits, HandFits
    <2> QED BY <2>1, <2>2, <2>3, <2>4 DEF MemberFits
  <1> QED BY <1>1, <1>2, <1>3, <1>4, <1>8, <1>9, <1>10, OnlyWrites

\* The engine stores the state, whoever has the lease.
LEMMA SaveCheckpointInv ==
    ASSUME InvestigationIndInv, NEW w \in Investigator, SaveCheckpoint(w)
    PROVE  InvestigationIndInv'
  <1> DEFINE place == IF NextOf(w) = "end" THEN "proposing" ELSE "node"
             new == [member[w] EXCEPT !.at = place]
             state == member[w].state
  <1>1. /\ place \in {"node", "proposing"}
        /\ member[w].at = "saving" /\ Writes(w, state)
        /\ member' = [member EXCEPT ![w].at = place]
        /\ UNCHANGED <<attempt, agentRun, reports, proposal, losses>>
    BY DEF SaveCheckpoint
  <1>2. MemberFits(w) /\ RunFits /\ state \in States
    BY Before
  <1>3. /\ state.next \in Roles \cup {"end"}
        /\ place = "proposing" => state.next = "end"
        /\ place = "node" => state.next \in Roles
    BY <1>1, <1>2 DEF MemberFits, PlaceFits, NextOf
  <1> HIDE DEF place
  <1>4. member' = [member EXCEPT ![w] = new]
    BY <1>1, Before DEF InvestigationIndInv, Members
  <1>5. /\ new \in Members /\ new.at = place /\ new.state = state
        /\ new.task = member[w].task /\ new.steps = member[w].steps
        /\ new.stored = member[w].stored
    BY <1>1, Before DEF Members, PlacesOf, InGraph
  <1> HIDE DEF new
  <1>6. member'[w] = new
    BY <1>4 DEF InvestigationIndInv
  <1>7. /\ checkpoint' = state /\ (~strayed' => ~strayed /\ Owns(w))
        /\ UNCHANGED <<attempt, agentTask, agentEvidence, agentSteps>>
    BY <1>1 DEF Writes, Owns, reports
  <1>8. /\ EvidenceFits(state, agentEvidence) /\ (Live => DraftsFit(state.risk, state.plan))
        /\ state.next = "end" => agentTask["critic"].round > 0
    BY <1>1, <1>2 DEF MemberFits, FoundFits, YoungFits, SeenFits, NextOf
  <1>9. Owns(w) /\ ~strayed => Chained(state) /\ (Live => TasksFit(state))
    BY <1>1, <1>2, Before DEF MemberFits, OrderFits, HandFits
  <1>10. MemberFits(w)'
    <2>1. StepsFit(member[w].steps)' /\ PlaceFits(w)' /\ SeenFits(w)' /\ FoundFits(w)'
      BY <1>1, <1>3, <1>5, <1>6, <1>2, <1>7, <1>8
         DEF MemberFits, StepsFit, PlaceFits, SeenFits, FoundFits, NextOf,
             TaskEvidenceFits, EvidenceFits
    <2>2. HolderKnows(w)'
      BY <1>1, <1>2, <1>5, <1>6, <1>7 DEF MemberFits, HolderKnows, Inside, InGraph, Guards
    <2>3. YoungFits(w)'
      BY <1>1, <1>2, <1>5, <1>6, <1>7, <1>8 DEF MemberFits, YoungFits, DraftsFit, Live
    <2>4. OrderFits(w)'
      <3>1. ~strayed' => Chained(member[w].state)'
        BY <1>5, <1>6, <1>7, <1>9 DEF Chained
      <3> QED BY <1>1, <1>5, <1>6, <1>7, <3>1 DEF OrderFits, HandFits
    <2> QED BY <2>1, <2>2, <2>3, <2>4 DEF MemberFits
  <1>11. state.next # "none"
    BY <1>3 DEF Roles
  <1> QED BY <1>1, <1>2, <1>4, <1>5, <1>8, <1>9, <1>10, <1>11, OnlyWrites

-------------------------------------------------------------------------------
(* The nodes. *)

\* A report made from a chained state keeps it chained, and is made from what
\* the state has become.
LEMMA UpdateChains ==
    ASSUME NEW state \in States, state.next \in Roles, NEW report, ReportIs(state.next, report),
           Chained(state), MadeFrom(state, state.next, report)
    PROVE  LET s == With(state, state.next, report)
           IN  Chained(s) /\ MadeFrom(s, s.next, ReportOf(s, s.next))
  <1> DEFINE s == With(state, state.next, report)
  <1>1. /\ s \in States /\ s.next = state.next
        /\ s.evidence = IF s.next = "evidence" THEN report ELSE state.evidence
        /\ s.risk = IF s.next = "risk" THEN report ELSE state.risk
        /\ s.plan = IF s.next = "plan" THEN report ELSE state.plan
        /\ s.critic = IF s.next = "critic" THEN report ELSE state.critic
    BY WithFacts
  <1> HIDE DEF s
  <1>2. Chained(s)
    BY <1>1 DEF Chained, Roles
  <1>3. MadeFrom(s, s.next, ReportOf(s, s.next))
    BY <1>1, ReportOfFacts DEF MadeFrom, Roles
  <1> QED BY <1>2, <1>3 DEF s

\* A node that ends is followed by the next one, or has raised.
LEMMA ReturnedFacts ==
    ASSUME NEW m \in Members, NEW state \in States, state.next \in Roles
    PROVE  LET r == Returned(m, state)
           IN  /\ r \in Members /\ r.task = m.task /\ r.known = m.known /\ r.steps = m.steps
               /\ r.stored = m.stored
               /\ \/ r.at = "raising" /\ r.state = state
                  \/ r.at = "saving" /\ r.state = Advanced(state) /\ ~GivenUp(state)
  <1>1. CASE GivenUp(state)
    BY <1>1 DEF Returned, Members, PlacesOf, InGraph
  <1>2. CASE ~GivenUp(state)
    <2>1. Advanced(state) \in States
      BY <1>2, AdvancedFacts
    <2> QED BY <1>2, <2>1 DEF Returned, Members, PlacesOf, InGraph
  <1> QED BY <1>1, <1>2

\* A report that is stored for this round is taken over.
LEMMA RecallInv ==
    ASSUME InvestigationIndInv, NEW w \in Investigator, Recall(w)
    PROVE  InvestigationIndInv'
  <1> DEFINE role == member[w].state.next
             report == member[w].task[role].report
             state == With(member[w].state, role, report)
             new == Returned(member[w], state)
  <1>1. /\ member[w].at = "node" /\ Live /\ member[w].task[role].round > 0
        /\ role = "coordinator" \/ member[w].task[role].round = member[w].state.revision + 1
        /\ UNCHANGED <<attempt, agentRun, reports, checkpoint, proposal, graphHistory>>
    BY DEF Recall, Activates, Reusable, NextOf, Live
  <1>15. member' = [member EXCEPT ![w] = new]
    BY DEF Recall, NextOf
  <1>2. /\ MemberFits(w) /\ RunFits /\ member[w].state \in States /\ member[w].task \in Tasks
        /\ agentTask \in Tasks /\ role \in Roles
    BY <1>1, Before DEF MemberFits, PlaceFits, NextOf
  <1>3. ReportIs(role, report)
    BY <1>2, TaskFacts
  <1>4. /\ state \in States /\ state.next = role /\ state.revision = member[w].state.revision
        /\ state.evidence = IF role = "evidence" THEN report ELSE member[w].state.evidence
        /\ state.risk = IF role = "risk" THEN report ELSE member[w].state.risk
        /\ state.plan = IF role = "plan" THEN report ELSE member[w].state.plan
    <2>1. member[w].state.next = role
      OBVIOUS
    <2> HIDE DEF role, report
    <2> QED BY <1>2, <1>3, <2>1, WithFacts
  <1>5. /\ new \in Members /\ new.task = member[w].task /\ new.known = member[w].known
        /\ new.steps = member[w].steps /\ new.stored = member[w].stored
        /\ \/ new.at = "raising" /\ new.state = state
           \/ new.at = "saving" /\ new.state = Advanced(state) /\ ~GivenUp(state)
    BY <1>2, <1>4, Before, ReturnedFacts
  <1>6. EvidenceFits(state, agentEvidence) /\ (role = "evidence" => state.evidence # {})
    BY <1>1, <1>2, <1>4
       DEF MemberFits, FoundFits, TaskEvidenceFits, EvidenceFits
  <1>7. DraftsFit(state.risk, state.plan)
    BY <1>1, <1>2, <1>4 DEF MemberFits, YoungFits, DraftsFit
  <1>8. ASSUME Owns(w), ~strayed
        PROVE  Chained(state) /\ MadeFrom(state, role, ReportOf(state, role))
               /\ RoundsFit(state, agentTask)
    <2>1. /\ member[w].state = checkpoint /\ Chained(checkpoint) /\ TasksFit(checkpoint)
          /\ member[w].task = agentTask
      BY <1>1, <1>2, <1>8, Before
         DEF MemberFits, OrderFits, HandFits, HolderKnows, Inside, InGraph, RunFits
    <2>2. MadeFrom(checkpoint, role, report)
      <3>1. CASE role = "coordinator"
        BY <3>1 DEF MadeFrom
      <3>2. CASE role # "coordinator"
        BY <1>1, <1>2, <2>1, <3>2 DEF TasksFit, ReportsFit
      <3> QED BY <3>1, <3>2
    <2>3. RoundsFit(state, agentTask)
      BY <1>4, <2>1 DEF TasksFit, ReportsFit, RoundsFit
    <2>4. role = checkpoint.next /\ state = With(checkpoint, checkpoint.next, report)
      BY <2>1
    <2>5. Chained(state) /\ MadeFrom(state, state.next, ReportOf(state, state.next))
      BY <1>2, <1>3, <2>1, <2>2, <2>4, UpdateChains, Before
    <2> QED BY <1>4, <2>3, <2>5
  <1> HIDE DEF state, new, report
  <1>9. \A r \in Roles : agentTask[r].round \in Nat
    BY <1>2, TaskFacts
  <1>10. /\ EvidenceFits(new.state, agentEvidence) /\ DraftsFit(new.state.risk, new.state.plan)
         /\ new.at = "raising" => new.state.next \in Roles
         /\ new.at = "saving" => new.state.next \in Roles \cup {"end"}
         /\ new.state.next = "end" => role = "critic"
    <2>1. CASE new.at = "raising"
      BY <1>2, <1>4, <1>5, <1>6, <1>7, <2>1 DEF Roles
    <2>2. CASE new.at = "saving"
      BY <1>2, <1>4, <1>5, <1>6, <1>7, <2>2, AdvancedFacts, AdvancedHasEvidence DEF Roles
    <2> QED BY <1>5, <2>1, <2>2
  <1>11. ASSUME Owns(w), ~strayed, new.at = "saving"
         PROVE  Chained(new.state) /\ TasksFit(new.state)
    BY <1>2, <1>4, <1>5, <1>8, <1>9, <1>11, AdvancedIsChained, AdvancedFitsTasks DEF TasksFit
  <1>12. member'[w] = new
    BY <1>15 DEF InvestigationIndInv
  <1>13. UNCHANGED <<attempt, agentTask, agentEvidence, agentSteps, checkpoint, strayed>>
    BY <1>1 DEF reports, graphHistory
  <1>14. MemberFits(w)'
    <2>1. StepsFit(member[w].steps)' /\ PlaceFits(w)'
      BY <1>2, <1>5, <1>10, <1>12, <1>13 DEF MemberFits, StepsFit, PlaceFits, NextOf
    <2>2. SeenFits(w)'
      BY <1>1, <1>2, <1>5, <1>10, <1>12, <1>13 DEF MemberFits, SeenFits, NextOf
    <2>3. FoundFits(w)'
      BY <1>2, <1>5, <1>10, <1>12, <1>13
         DEF MemberFits, FoundFits, NextOf, TaskEvidenceFits, EvidenceFits
    <2>4. HolderKnows(w)'
      BY <1>1, <1>2, <1>5, <1>12, <1>13 DEF MemberFits, HolderKnows, Inside, InGraph, Guards
    <2>5. YoungFits(w)'
      BY <1>1, <1>2, <1>5, <1>10, <1>12, <1>13 DEF MemberFits, YoungFits, DraftsFit, Live
    <2>6. OrderFits(w)'
      <3>1. (~strayed /\ Owns(w) /\ new.at = "saving") => Chained(member[w].state)'
                                                       /\ TasksFit(member[w].state)'
        BY <1>11, <1>12, <1>13 DEF Chained, TasksFit
      <3> QED BY <1>5, <1>12, <1>13, <3>1 DEF OrderFits, HandFits, Owns, Guards
    <2> QED BY <2>1, <2>2, <2>3, <2>4, <2>5, <2>6 DEF MemberFits
  <1> QED BY <1>1, <1>5, <1>14, <1>15, OnlyMoves

\* The evidence role begins, with the text of the event if it knows nothing yet.
LEMMA GatherInv ==
    ASSUME InvestigationIndInv, NEW w \in Investigator, Gather(w)
    PROVE  InvestigationIndInv'
  <1> DEFINE known == IF member[w].known = {} THEN {OwnText} ELSE member[w].known
             fresh == member[w].known = {}
             new == [member[w] EXCEPT !.at = "gathering", !.fresh = fresh, !.known = known]
  <1>1. /\ member[w].at = "node" /\ Live /\ ~Reusable(w) /\ NextOf(w) = "evidence"
        /\ UNCHANGED <<attempt, agentRun, reports, checkpoint, proposal, graphHistory>>
    BY DEF Gather, Activates, Live
  <1>2. member' = [member EXCEPT ![w].at = "gathering", ![w].fresh = fresh, ![w].known = known]
    BY DEF Gather
  <1>3. known \in SUBSET Contents /\ known # {} /\ fresh \in BOOLEAN
    <2>1. known \in SUBSET Contents /\ known # {}
      BY Before DEF Contents
    <2>2. fresh \in BOOLEAN
      BY Zenon
    <2> QED BY <2>1, <2>2
  <1> HIDE DEF known, fresh
  <1>4. member' = [member EXCEPT ![w] = new]
    BY <1>2, Before DEF InvestigationIndInv, Members
  <1>5. /\ new \in Members /\ new.at = "gathering" /\ new.state = member[w].state
        /\ new.task = member[w].task /\ new.steps = member[w].steps
        /\ new.stored = member[w].stored /\ new.known = known
    BY <1>3, Before DEF Members, PlacesOf, InGraph
  <1> HIDE DEF new
  <1>6. member'[w] = new
    BY <1>4 DEF InvestigationIndInv
  <1>7. UNCHANGED <<attempt, agentTask, agentEvidence, agentSteps, checkpoint, strayed>>
    BY <1>1 DEF reports, graphHistory
  <1>8. MemberFits(w) /\ member[w].state \in States /\ agentTask \in Tasks
    BY Before
  <1>9. MemberFits(w)'
    <2>1. StepsFit(member[w].steps)' /\ PlaceFits(w)' /\ SeenFits(w)'
      BY <1>1, <1>5, <1>6, <1>7, <1>8 DEF MemberFits, StepsFit, PlaceFits, SeenFits, NextOf
    <2>2. FoundFits(w)'
      BY <1>1, <1>3, <1>5, <1>6, <1>7, <1>8
         DEF MemberFits, FoundFits, NextOf, TaskEvidenceFits, EvidenceFits
    <2>3. HolderKnows(w)'
      <3>1. agentTask["evidence"].round \in Nat
        BY <1>8, TaskFacts DEF Roles
      <3> QED BY <1>1, <1>5, <1>6, <1>7, <1>8, <3>1
                 DEF MemberFits, HolderKnows, Inside, InGraph, Guards, NextOf, Reusable
    <2>4. YoungFits(w)'
      BY <1>1, <1>5, <1>6, <1>7, <1>8 DEF MemberFits, YoungFits, DraftsFit, Live
    <2>5. OrderFits(w)'
      BY <1>1, <1>5, <1>6, <1>7, <1>8 DEF MemberFits, OrderFits, HandFits, Guards, Live
    <2> QED BY <2>1, <2>2, <2>3, <2>4, <2>5 DEF MemberFits
  <1> QED BY <1>1, <1>4, <1>5, <1>9, OnlyMoves

\* A decision that fits what has been decided.
LEMMA AppendFits ==
    ASSUME NEW steps \in StepLists, StepsFit(steps), Len(steps) < EvidenceBudget,
           NEW step \in Query \cup {"finish"}, step = "finish" \/ step \notin Asked(steps)
    PROVE  Append(steps, step) \in StepLists /\ StepsFit(Append(steps, step))
  <1> DEFINE new == Append(steps, step)
  <1>1. /\ new \in StepLists /\ Len(new) = Len(steps) + 1 /\ Len(steps) \in Nat
        /\ DOMAIN new = 1 .. Len(steps) + 1 /\ DOMAIN steps = 1 .. Len(steps)
        /\ \A i \in 1 .. Len(steps) : new[i] = steps[i]
        /\ new[Len(steps) + 1] = step
    BY DEF StepLists
  <1>2. step # "finish" => \A i \in 1 .. Len(steps) : steps[i] # step
    BY <1>1 DEF Asked
  <1> HIDE DEF new
  <1>3. Len(new) <= EvidenceBudget
    BY <1>1, InvestigationLimits
  <1>4. ASSUME NEW i \in DOMAIN new, NEW j \in DOMAIN new, new[i] = new[j], new[i] # "finish"
        PROVE  i = j
    <2>1. CASE i \in 1 .. Len(steps) /\ j \in 1 .. Len(steps)
      BY <1>1, <1>4, <2>1 DEF StepsFit
    <2>2. CASE i = Len(steps) + 1 \/ j = Len(steps) + 1
      BY <1>1, <1>2, <1>4, <2>2
    <2> QED BY <1>1, <2>1, <2>2
  <1>5. StepsFit(new)
    BY <1>3, <1>4 DEF StepsFit
  <1> QED BY <1>1, <1>5 DEF new

\* A query is one that has not been asked; what it finds is kept in the process.
LEMMA AskInv ==
    ASSUME InvestigationIndInv, NEW w \in Investigator, NEW query \in Query,
           NEW found \in SUBSET Finding, Ask(w, query, found)
    PROVE  InvestigationIndInv'
  <1> DEFINE steps == Append(member[w].steps, query)
             fresh == member[w].fresh \/ ~(found \subseteq member[w].known)
             known == member[w].known \cup found
             new == [member[w] EXCEPT !.steps = steps, !.fresh = fresh, !.known = known]
  <1>1. /\ member[w].at = "gathering" /\ Live /\ Len(member[w].steps) < EvidenceBudget
        /\ query \notin Asked(member[w].steps)
        /\ UNCHANGED <<attempt, agentRun, reports, checkpoint, proposal, graphHistory>>
    BY DEF Ask, Decides, Live
  <1>2. member' = [member EXCEPT ![w].steps = steps, ![w].fresh = fresh, ![w].known = known]
    BY DEF Ask
  <1>3. MemberFits(w) /\ member[w].state \in States
    BY Before
  <1>4. steps \in StepLists /\ StepsFit(steps)
    BY <1>1, <1>3, Before, AppendFits DEF MemberFits
  <1>5. known \in SUBSET Contents /\ member[w].known \subseteq known /\ fresh \in BOOLEAN
    <2>1. known \in SUBSET Contents /\ member[w].known \subseteq known
      BY Before DEF Contents
    <2>2. fresh \in BOOLEAN
      BY Zenon
    <2> QED BY <2>1, <2>2
  <1> HIDE DEF known, fresh, steps
  <1>6. member' = [member EXCEPT ![w] = new]
    BY <1>2, Before DEF InvestigationIndInv, Members
  <1>7. /\ new \in Members /\ new.at = "gathering" /\ new.state = member[w].state
        /\ new.task = member[w].task /\ new.steps = steps
        /\ new.stored = member[w].stored /\ new.known = known
    BY <1>1, <1>4, <1>5, Before DEF Members
  <1> HIDE DEF new
  <1>8. member'[w] = new
    BY <1>6 DEF InvestigationIndInv
  <1>9. UNCHANGED <<attempt, agentTask, agentEvidence, agentSteps, checkpoint, strayed>>
    BY <1>1 DEF reports, graphHistory
  <1>10. MemberFits(w)'
    <2>1. StepsFit(member[w].steps)'
      BY <1>4, <1>7, <1>8 DEF StepsFit
    <2>2. PlaceFits(w)' /\ SeenFits(w)' /\ FoundFits(w)'
      BY <1>1, <1>3, <1>5, <1>7, <1>8, <1>9
         DEF MemberFits, PlaceFits, SeenFits, FoundFits, NextOf, TaskEvidenceFits, EvidenceFits
    <2>3. HolderKnows(w)'
      BY <1>1, <1>3, <1>7, <1>8, <1>9 DEF MemberFits, HolderKnows, Inside, Guards, NextOf
    <2>4. YoungFits(w)'
      BY <1>1, <1>3, <1>7, <1>8, <1>9 DEF MemberFits, YoungFits, DraftsFit, Live
    <2>5. OrderFits(w)'
      BY <1>1, <1>3, <1>7, <1>8, <1>9 DEF MemberFits, OrderFits, HandFits, Guards, Live
    <2> QED BY <2>1, <2>2, <2>3, <2>4, <2>5 DEF MemberFits
  <1> QED BY <1>1, <1>6, <1>7, <1>10, OnlyMoves

\* A node of the holder has prepared a report: what it does not replace is what
\* the engine has stored.
LEMMA ReplacedFits ==
    ASSUME NEW state \in States, state.next \in Roles, NEW report, ReportIs(state.next, report)
    PROVE  LET s == With(state, state.next, report)
           IN  With(s, s.next, ReportOf(state, s.next)) = state
  <1> DEFINE s == With(state, state.next, report)
             t == With(s, s.next, ReportOf(state, s.next))
  <1>1. /\ s \in States /\ s.next = state.next /\ s.revision = state.revision
        /\ s.evidence = IF s.next = "evidence" THEN report ELSE state.evidence
        /\ s.risk = IF s.next = "risk" THEN report ELSE state.risk
        /\ s.plan = IF s.next = "plan" THEN report ELSE state.plan
        /\ s.critic = IF s.next = "critic" THEN report ELSE state.critic
    BY WithFacts
  <1> HIDE DEF s
  <1>2. ReportIs(s.next, ReportOf(state, s.next)) /\ s.next \in Roles
    BY <1>1, ReportOfFacts
  <1>3. /\ t \in States /\ t.next = s.next /\ t.revision = s.revision
        /\ t.evidence = IF s.next = "evidence" THEN ReportOf(state, s.next) ELSE s.evidence
        /\ t.risk = IF s.next = "risk" THEN ReportOf(state, s.next) ELSE s.risk
        /\ t.plan = IF s.next = "plan" THEN ReportOf(state, s.next) ELSE s.plan
        /\ t.critic = IF s.next = "critic" THEN ReportOf(state, s.next) ELSE s.critic
    BY <1>1, <1>2, WithFacts
  <1> HIDE DEF t
  <1>4. /\ t.evidence = state.evidence /\ t.risk = state.risk /\ t.plan = state.plan
        /\ t.critic = state.critic
    BY <1>1, <1>2, <1>3, ReportOfFacts
  <1>5. t = state
    BY <1>1, <1>3, <1>4, SameState
  <1> QED BY <1>5 DEF s, t

\* A node prepares the report of its role and is about to end.
LEMMA NodePrepares ==
    ASSUME InvestigationIndInv, NEW w \in Investigator, NEW report, NEW steps \in StepLists,
           StepsFit(steps), member[w].at \in {"node", "gathering"}, Live, NextOf(w) \in Roles,
           ReportIs(NextOf(w), report), MadeFrom(member[w].state, NextOf(w), report),
           Guards(w) => \/ agentTask[NextOf(w)].round = 0
                        \/ agentTask[NextOf(w)].round # member[w].state.revision + 1,
           NextOf(w) = "evidence" => report # {} /\ report \subseteq member[w].known,
           NextOf(w) = "risk" => agentTask["risk"].report.draft <= report.draft,
           NextOf(w) = "plan" => agentTask["plan"].report.draft <= report.draft,
           member' = [member EXCEPT ![w].at = "finishing", ![w].steps = steps,
                                    ![w].state = With(member[w].state, NextOf(w), report)],
           UNCHANGED <<attempt, agentRun, reports, checkpoint, proposal, graphHistory>>
    PROVE  InvestigationIndInv'
  <1> DEFINE before == member[w].state
             role == before.next
             state == With(before, role, report)
             new == [member[w] EXCEPT !.at = "finishing", !.steps = steps, !.state = state]
  <1>1. /\ MemberFits(w) /\ before \in States /\ agentTask \in Tasks /\ role = NextOf(w)
        /\ role \in Roles
    BY Before DEF NextOf
  <1>2. /\ state \in States /\ state.next = role /\ state.revision = before.revision
        /\ state.evidence = IF role = "evidence" THEN report ELSE before.evidence
        /\ state.risk = IF role = "risk" THEN report ELSE before.risk
        /\ state.plan = IF role = "plan" THEN report ELSE before.plan
    <2>1. before.next = role
      OBVIOUS
    <2> HIDE DEF role, before
    <2> QED BY <1>1, <2>1, WithFacts
  <1>3. ASSUME Chained(before)
        PROVE  /\ MadeFrom(state, role, ReportOf(state, role))
               /\ With(state, role, ReportOf(before, role)) = before
    <2>1. /\ before.next = role /\ ReportIs(role, report)
          /\ MadeFrom(before, role, report)
      BY DEF NextOf
    <2> HIDE DEF role, before
    <2>2. state = With(before, before.next, report)
      BY <2>1
    <2> HIDE DEF state
    <2>3. MadeFrom(state, state.next, ReportOf(state, state.next))
      BY <1>1, <1>3, <2>1, <2>2, UpdateChains
    <2>4. With(state, state.next, ReportOf(before, state.next)) = before
      BY <1>1, <2>1, <2>2, ReplacedFits
    <2> QED BY <1>2, <2>3, <2>4
  <1>4. member' = [member EXCEPT ![w].at = "finishing", ![w].steps = steps, ![w].state = state]
    BY DEF NextOf
  <1> HIDE DEF state
  <1>5. member' = [member EXCEPT ![w] = new]
    BY <1>4, Before DEF InvestigationIndInv, Members
  <1>6. /\ new \in Members /\ new.at = "finishing" /\ new.state = state
        /\ new.task = member[w].task /\ new.steps = steps
        /\ new.stored = member[w].stored /\ new.known = member[w].known
    BY <1>2, Before DEF Members, PlacesOf, InGraph
  <1> HIDE DEF new
  <1>7. member'[w] = new
    BY <1>5 DEF InvestigationIndInv
  <1>8. UNCHANGED <<attempt, agentTask, agentEvidence, agentSteps, checkpoint, strayed>>
    BY DEF reports, graphHistory
  <1>9. MemberFits(w)'
    <2>1. StepsFit(member[w].steps)'
      <3>1. member'[w].steps = steps
        BY <1>6, <1>7
      <3>2. StepsFit(steps)
        OBVIOUS
      <3> QED BY ONLY <3>1, <3>2 DEF StepsFit
    <2>2. PlaceFits(w)' /\ SeenFits(w)'
      BY <1>1, <1>2, <1>6, <1>7, <1>8 DEF MemberFits, PlaceFits, SeenFits, NextOf, Roles
    <2>3. FoundFits(w)'
      <3>1. EvidenceFits(before, agentEvidence) /\ TaskEvidenceFits(member[w].task)
        BY <1>1 DEF MemberFits, FoundFits
      <3> QED BY <1>1, <1>2, <1>6, <1>7, <1>8, <3>1
                 DEF FoundFits, NextOf, TaskEvidenceFits, EvidenceFits
    <2>4. HolderKnows(w)'
      <3>1. Guards(w) => /\ member[w].task = agentTask /\ member[w].stored = Len(agentSteps)
        BY <1>1 DEF MemberFits, HolderKnows, Inside, InGraph
      <3> QED BY <1>1, <1>2, <1>6, <1>7, <1>8, <3>1 DEF HolderKnows, Guards, NextOf
    <2>5. YoungFits(w)'
      <3>1. /\ DraftsFit(member[w].task["risk"].report, member[w].task["plan"].report)
            /\ DraftsFit(before.risk, before.plan)
        BY <1>1 DEF MemberFits, YoungFits
      <3>2. NoRisk.draft = 0 /\ NoPlan.draft = 0 /\ agentTask["risk"].report.draft >= 0
            /\ agentTask["plan"].report.draft >= 0
        BY <1>1, TaskFacts, FirstState
      <3> QED BY <1>1, <1>2, <1>6, <1>7, <1>8, <3>1, <3>2 DEF YoungFits, DraftsFit, NextOf
    <2>6. OrderFits(w)'
      <3>1. ASSUME ~strayed, Guards(w)
            PROVE  before = checkpoint /\ Chained(before)
        BY <1>1, <3>1, Before DEF MemberFits, OrderFits, HandFits, RunFits
      <3>2. ASSUME ~strayed, Guards(w)
            PROVE  /\ With(state, role, ReportOf(checkpoint, role)) = checkpoint
                   /\ MadeFrom(state, role, ReportOf(state, role))
        BY <1>3, <3>1, <3>2
      <3>3. ~strayed /\ Guards(w) =>
              /\ Undone(w)' = checkpoint
              /\ MadeFrom(member[w].state, NextOf(w), ReportOf(member[w].state, NextOf(w)))'
        BY <1>2, <1>6, <1>7, <1>8, <3>2 DEF Undone, NextOf, MadeFrom
      <3> QED BY <1>6, <1>7, <1>8, <3>3 DEF OrderFits, HandFits, Guards
    <2> QED BY <2>1, <2>2, <2>3, <2>4, <2>5, <2>6 DEF MemberFits
  <1> QED BY <1>5, <1>6, <1>9, OnlyMoves

\* The evidence role ends, with what the process has found.
LEMMA ConcludeInv ==
    ASSUME InvestigationIndInv, NEW w \in Investigator, Conclude(w)
    PROVE  InvestigationIndInv'
  <1> DEFINE steps == Append(member[w].steps, "finish")
             report == member[w].known
             state == [member[w].state EXCEPT !.evidence = report]
  <1>1. /\ member[w].at = "gathering" /\ Live /\ Len(member[w].steps) < EvidenceBudget
        /\ UNCHANGED <<attempt, agentRun, reports, checkpoint, proposal, graphHistory>>
    BY DEF Conclude, Decides, Live
  <1>2. member' = [member EXCEPT ![w].at = "finishing", ![w].steps = steps,
                                 ![w].state.evidence = report]
    BY DEF Conclude
  <1>3. /\ MemberFits(w) /\ member[w].state \in States /\ NextOf(w) = "evidence"
        /\ report # {} /\ report \in SUBSET Contents
    BY <1>1, Before DEF MemberFits, PlaceFits, FoundFits
  <1>4. steps \in StepLists /\ StepsFit(steps)
    BY <1>1, <1>3, Before, AppendFits DEF MemberFits
  <1>5. state = With(member[w].state, NextOf(w), report)
    BY <1>3 DEF With
  <1> HIDE DEF steps
  <1>6. member' = [member EXCEPT ![w].at = "finishing", ![w].steps = steps, ![w].state = state]
    BY <1>2, Before DEF InvestigationIndInv, Members
  <1> HIDE DEF state
  <1>7. Guards(w) => \/ agentTask[NextOf(w)].round = 0
                     \/ agentTask[NextOf(w)].round # member[w].state.revision + 1
    BY <1>1, <1>3 DEF MemberFits, HolderKnows, Inside, InGraph
  <1>8. ReportIs(NextOf(w), report) /\ MadeFrom(member[w].state, NextOf(w), report)
    BY <1>3 DEF ReportIs, MadeFrom
  <1> HIDE DEF report
  <1>9. NextOf(w) \in Roles
    BY <1>3 DEF Roles
  <1>10. NextOf(w) = "evidence" => report # {} /\ report \subseteq member[w].known
    BY <1>3 DEF report
  <1> QED BY <1>1, <1>3, <1>4, <1>5, <1>6, <1>7, <1>8, <1>9, <1>10, NodePrepares

\* Any other role makes its report from the parts before it.
LEMMA CallInv ==
    ASSUME InvestigationIndInv, NEW w \in Investigator, Call(w)
    PROVE  InvestigationIndInv'
  <1>1. /\ member[w].at = "node" /\ Live /\ ~Reusable(w) /\ NextOf(w) # "evidence"
        /\ UNCHANGED <<attempt, agentRun, reports, checkpoint, proposal, graphHistory>>
    BY DEF Call, Activates, Live
  <1>2. /\ MemberFits(w) /\ member[w].state \in States /\ NextOf(w) \in Roles
        /\ agentTask \in Tasks /\ member[w].steps \in StepLists /\ StepsFit(member[w].steps)
    BY <1>1, Before DEF MemberFits, PlaceFits
  <1>3. PICK report \in ReportsFrom(member[w].state, NextOf(w)) :
          member' = [member EXCEPT ![w].at = "finishing",
                                   ![w].state = With(member[w].state, NextOf(w), report)]
    BY DEF Call
  <1>4. /\ agentTask["risk"].report.draft \in Nat /\ agentTask["plan"].report.draft \in Nat
        /\ \A r \in Roles : agentTask[r].round \in Nat
    BY <1>2, TaskFacts
  <1>5. /\ ReportIs(NextOf(w), report) /\ MadeFrom(member[w].state, NextOf(w), report)
        /\ NextOf(w) = "risk" => agentTask["risk"].report.draft <= report.draft
        /\ NextOf(w) = "plan" => agentTask["plan"].report.draft <= report.draft
    <2>1. CASE NextOf(w) = "risk"
      BY <1>2, <1>3, <1>4, <2>1, StateFacts
         DEF ReportsFrom, ReportIs, MadeFrom, Draft, Risks
    <2>2. CASE NextOf(w) = "plan"
      BY <1>2, <1>3, <1>4, <2>2, StateFacts
         DEF ReportsFrom, ReportIs, MadeFrom, Draft, Plans
    <2>3. CASE NextOf(w) = "critic"
      BY <1>2, <1>3, <2>3, StateFacts
         DEF ReportsFrom, ReportIs, MadeFrom, Reviews
    <2>4. CASE NextOf(w) = "coordinator"
      BY <2>4 DEF ReportIs, MadeFrom
    <2> QED BY <1>1, <1>2, <2>1, <2>2, <2>3, <2>4 DEF Roles
  <1>6. Guards(w) => \/ agentTask[NextOf(w)].round = 0
                     \/ agentTask[NextOf(w)].round # member[w].state.revision + 1
    <2>1. Guards(w) => member[w].task = agentTask
      BY <1>1, <1>2 DEF MemberFits, HolderKnows, Inside, InGraph
    <2> QED BY <1>1, <1>2, <1>4, <2>1 DEF Reusable
  <1> DEFINE steps == member[w].steps
             state == With(member[w].state, NextOf(w), report)
  <1>7. member' = [member EXCEPT ![w].at = "finishing", ![w].state = state]
    BY <1>3
  <1> HIDE DEF state
  <1>8. member' = [member EXCEPT ![w].at = "finishing", ![w].steps = steps, ![w].state = state]
    BY <1>7, Before DEF InvestigationIndInv, Members
  <1> HIDE DEF steps
  <1>9. steps \in StepLists /\ StepsFit(steps)
    BY <1>2 DEF steps
  <1>10. member' = [member EXCEPT ![w].at = "finishing", ![w].steps = steps,
                                  ![w].state = With(member[w].state, NextOf(w), report)]
    BY <1>8 DEF state
  <1> QED BY <1>1, <1>2, <1>5, <1>6, <1>9, <1>10, NodePrepares

\* The row of a node is of its role's kind.
LEMMA StoredTasks ==
    ASSUME NEW tasks \in Tasks, NEW state \in States, NEW role \in Roles, NEW row,
           row = [round |-> state.revision + 1, report |-> ReportOf(state, role)]
    PROVE  [tasks EXCEPT ![role] = row] \in Tasks
  <1> DEFINE report == ReportOf(state, role)
             t == [tasks EXCEPT ![role] = row]
  <1>1. ReportIs(role, report) /\ (role = "coordinator" => report = "focus")
    BY ReportOfFacts
  <1>2. /\ row.round = state.revision + 1 /\ row.report = report
        /\ row.round \in 0 .. RevisionLimit + 1
    BY InvestigationLimits DEF States
  <1>3. row \in TaskRows
    <2>1. report \in (SUBSET Contents) \cup Risks \cup Plans \cup Reviews \cup {"focus"}
      BY <1>1 DEF ReportIs, Roles
    <2> HIDE DEF report
    <2> QED BY <1>2, <2>1 DEF TaskRows
  <1>4. /\ t \in [Roles -> TaskRows] /\ DOMAIN t = Roles /\ t[role] = row
        /\ \A r \in Roles \ {role} : t[r] = tasks[r]
    BY <1>3, TaskFacts
  <1> HIDE DEF t, report
  <1>5. IsTasks(t)
    BY <1>1, <1>2, <1>4 DEF IsTasks, Tasks, ReportIs, Roles
  <1> QED BY <1>4, <1>5 DEF Tasks, t

\* The report is stored, under the lease.
LEMMA FinishNodeInv ==
    ASSUME InvestigationIndInv, NEW w \in Investigator, FinishNode(w)
    PROVE  InvestigationIndInv'
  <1> DEFINE state == member[w].state
             role == state.next
             row == [round |-> state.revision + 1, report |-> ReportOf(state, role)]
             back == Returned(member[w], state)
             steps == member[w].steps
             tasks == [agentTask EXCEPT ![role] = row]
             new == [back EXCEPT !.task = tasks, !.stored = Len(steps)]
  <1>1. /\ member[w].at = "finishing" /\ Guards(w) /\ Live /\ Owns(w)
        /\ agentTask' = tasks
        /\ agentEvidence' = agentEvidence \cup member[w].known
        /\ agentSteps' = steps
        /\ UNCHANGED <<attempt, agentRun, checkpoint, proposal, strayed, losses>>
    BY DEF FinishNode, StoresNode, TaskRow, NextOf, graphHistory, Guards, Live, Owns
  <1>2. /\ MemberFits(w) /\ RunFits /\ RunTyped /\ state \in States /\ agentTask \in Tasks
        /\ role \in Roles /\ member[w] \in Members /\ steps \in StepLists
        /\ member[w].known \in SUBSET Contents
    BY <1>1, Before DEF MemberFits, PlaceFits, NextOf
  <1>3. member[w].task = agentTask
    BY <1>1, <1>2 DEF MemberFits, HolderKnows, Inside, InGraph
  <1>4. /\ back \in Members /\ back.task = member[w].task /\ back.known = member[w].known
        /\ back.steps = steps
        /\ \/ back.at = "raising" /\ back.state = state
           \/ back.at = "saving" /\ back.state = Advanced(state) /\ ~GivenUp(state)
    BY <1>2, ReturnedFacts
  <1>5. tasks \in Tasks
    BY <1>2, StoredTasks
  <1>6. /\ tasks[role].round = state.revision + 1 /\ tasks[role].report = ReportOf(state, role)
        /\ \A r \in Roles \ {role} : tasks[r] = agentTask[r]
        /\ tasks[role].round > 0 /\ state.revision \in Nat
    BY <1>2, TaskFacts, StateFacts
  <1>7. member' = [member EXCEPT ![w] = [back EXCEPT !.task[role] = row, !.stored = Len(steps)]]
    BY DEF FinishNode, TaskRow, NextOf
  <1>8. [back EXCEPT !.task[role] = row, !.stored = Len(steps)] = new
    <2> HIDE DEF back, row, role
    <2> QED BY <1>3, <1>4 DEF Members
  <1>9. member' = [member EXCEPT ![w] = new]
    BY <1>7, <1>8
  <1>10. /\ new \in Members /\ new.at = back.at /\ new.state = back.state /\ new.task = tasks
         /\ new.steps = steps /\ new.stored = Len(steps) /\ new.known = member[w].known
    <2>1. Len(steps) \in Nat
      BY <1>2 DEF StepLists
    <2> HIDE DEF back, tasks, steps
    <2> QED BY <1>4, <1>5, <2>1 DEF Members
  <1> HIDE DEF new, back, tasks, row
  <1>11. member'[w] = new
    BY <1>9 DEF InvestigationIndInv
  <1>12. /\ EvidenceFits(state, agentEvidence') /\ (role = "evidence" => state.evidence # {})
    BY <1>1, <1>2 DEF MemberFits, FoundFits, NextOf, EvidenceFits
  <1>13. TaskEvidenceFits(agentTask)'
    BY <1>1, <1>2, <1>6, <1>12, ReportOfFacts
       DEF RunFits, TaskEvidenceFits, EvidenceFits, Roles
  <1>14. /\ agentTask["risk"].report.draft <= tasks["risk"].report.draft
         /\ agentTask["plan"].report.draft <= tasks["plan"].report.draft
         /\ state.risk.draft <= tasks["risk"].report.draft
         /\ state.plan.draft <= tasks["plan"].report.draft
    <2>1. /\ agentTask["risk"].report.draft \in Nat /\ agentTask["plan"].report.draft \in Nat
          /\ state.risk.draft \in Nat /\ state.plan.draft \in Nat
      BY <1>2, TaskFacts, StateFacts
    <2>2. /\ DraftsFit(IF role = "risk" THEN NoRisk ELSE state.risk,
                       IF role = "plan" THEN NoPlan ELSE state.plan)
          /\ role = "risk" => agentTask["risk"].report.draft <= state.risk.draft
          /\ role = "plan" => agentTask["plan"].report.draft <= state.plan.draft
      BY <1>1, <1>2 DEF MemberFits, YoungFits, NextOf
    <2>3. CASE role = "risk"
      BY <1>2, <1>6, <2>1, <2>2, <2>3, ReportOfFacts DEF DraftsFit, Roles
    <2>4. CASE role = "plan"
      BY <1>2, <1>6, <2>1, <2>2, <2>4, ReportOfFacts DEF DraftsFit, Roles
    <2>5. CASE role \notin {"risk", "plan"}
      BY <1>2, <1>6, <2>1, <2>2, <2>5 DEF DraftsFit, Roles
    <2> QED BY <2>3, <2>4, <2>5
  <1>15. Grown
    BY <1>1, <1>2, <1>6, <1>14 DEF Grown, Live
  <1>16. RunTyped'
    <2>1. agentEvidence' \in SUBSET Contents
      BY <1>1, <1>2 DEF RunTyped
    <2> QED BY <1>1, <1>2, <1>5, <2>1 DEF RunTyped
  <1>17. ASSUME ~strayed
         PROVE  /\ Chained(state) /\ MadeFrom(state, role, ReportOf(state, role))
                /\ RoundsFit(state, tasks) /\ ReportsFit(checkpoint, tasks)
    <2> DEFINE undone == With(state, role, ReportOf(checkpoint, role))
    <2>1. /\ undone = checkpoint /\ MadeFrom(state, role, ReportOf(state, role))
          /\ Chained(checkpoint) /\ RoundsFit(checkpoint, agentTask)
      BY <1>1, <1>2, <1>17
         DEF MemberFits, OrderFits, HandFits, RunFits, Undone, NextOf, TasksFit, ReportsFit
    <2>2. checkpoint \in States
      BY Before
    <2>3. ReportIs(role, ReportOf(checkpoint, role))
      BY <1>2, <2>2, ReportOfFacts
    <2>4. /\ checkpoint.next = role /\ checkpoint.revision = state.revision
          /\ role # "evidence" => checkpoint.evidence = state.evidence
          /\ role # "risk" => checkpoint.risk = state.risk
          /\ role # "plan" => checkpoint.plan = state.plan
          /\ role # "critic" => checkpoint.critic = state.critic
      <3>1. state.next = role
        OBVIOUS
      <3>2. undone = checkpoint
        BY <2>1
      <3> HIDE DEF role
      <3> QED BY <1>2, <2>3, <3>1, <3>2, WithFacts
    <2> HIDE DEF undone
    <2>5. Chained(state)
      BY <1>2, <2>1, <2>4 DEF Chained, Roles
    <2>6. MadeFrom(checkpoint, role, ReportOf(state, role))
      BY <1>2, <2>1, <2>4 DEF MadeFrom, Roles
    <2>7. RoundsFit(checkpoint, tasks) /\ RoundsFit(state, tasks)
      <3>1. role \notin Behind(role) /\ Behind(role) \subseteq Roles
        BY <1>2 DEF Behind, Roles
      <3> QED BY <1>2, <1>6, <2>1, <2>4, <3>1 DEF RoundsFit
    <2>8. ReportsFit(checkpoint, tasks)
      BY <1>6, <2>4, <2>6, <2>7 DEF ReportsFit
    <2> QED BY <2>1, <2>5, <2>7, <2>8
  <1>18. RunFits'
    <2>1. LeaseFits' /\ StepsFit(agentSteps)'
      BY <1>1, <1>2 DEF RunFits, LeaseFits, Live, MemberFits, StepsFit
    <2>2. EvidenceFits(checkpoint, agentEvidence)'
      BY <1>1, <1>2 DEF RunFits, EvidenceFits
    <2>3. checkpoint'.next = "end" => agentTask'["critic"].round > 0
      BY <1>1, <1>2, <1>15 DEF RunFits, Grown, Roles
    <2>4. DraftsFit(checkpoint.risk, checkpoint.plan)'
      <3>1. /\ agentTask["risk"].report.draft \in Nat /\ agentTask["plan"].report.draft \in Nat
            /\ tasks["risk"].report.draft \in Nat /\ tasks["plan"].report.draft \in Nat
            /\ checkpoint.risk.draft \in Nat /\ checkpoint.plan.draft \in Nat
        BY <1>2, <1>5, Before, TaskFacts, StateFacts
      <3> QED BY <1>1, <1>2, <1>14, <3>1 DEF RunFits, DraftsFit
    <2>5. ~strayed' => Chained(checkpoint)' /\ TasksFit(checkpoint)'
      BY <1>1, <1>2, <1>17 DEF RunFits, Chained, TasksFit, ReportsFit, RoundsFit, MadeFrom
    <2>6. ProposalIsReviewed'
      BY <1>1, <1>2 DEF RunFits, ProposalIsReviewed
    <2>7. checkpoint'.next = "none" => checkpoint' = Unsaved
      BY <1>1, <1>2 DEF RunFits
    <2> QED BY <1>13, <2>1, <2>2, <2>3, <2>4, <2>5, <2>6, <2>7 DEF RunFits
  <1>19. /\ EvidenceFits(new.state, agentEvidence')
         /\ new.state.risk = state.risk /\ new.state.plan = state.plan
         /\ new.at = "raising" => new.state.next \in Roles
         /\ new.at = "saving" => new.state.next \in Roles \cup {"end"}
         /\ new.state.next = "end" => role = "critic"
    <2>1. CASE new.at = "raising"
      BY <1>2, <1>4, <1>10, <1>12, <2>1 DEF Roles
    <2>2. CASE new.at = "saving"
      BY <1>2, <1>4, <1>10, <1>12, <2>2, AdvancedFacts, AdvancedHasEvidence DEF Roles
    <2> QED BY <1>4, <1>10, <2>1, <2>2
  <1>20. ASSUME ~strayed, new.at = "saving"
         PROVE  Chained(new.state) /\ ReportsFit(new.state, tasks)
    <2>1. \A r \in Roles : tasks[r].round \in Nat
      BY <1>5, TaskFacts
    <2> QED BY <1>2, <1>4, <1>10, <1>17, <1>20, <2>1, AdvancedIsChained, AdvancedFitsTasks
  <1> HIDE DEF state, steps
  <1>21. MemberFits(w)'
    <2>1. StepsFit(member[w].steps)' /\ PlaceFits(w)'
      BY <1>2, <1>4, <1>10, <1>11, <1>19 DEF MemberFits, StepsFit, PlaceFits, NextOf, steps
    <2>2. SeenFits(w)'
      BY <1>1, <1>6, <1>10, <1>11, <1>19 DEF SeenFits, NextOf
    <2>3. FoundFits(w)'
      BY <1>1, <1>4, <1>10, <1>11, <1>13, <1>19
         DEF FoundFits, NextOf, TaskEvidenceFits, EvidenceFits
    <2>4. HolderKnows(w)'
      BY <1>1, <1>4, <1>10, <1>11 DEF HolderKnows
    <2>5. YoungFits(w)'
      <3>1. tasks["risk"].report.draft \in Nat /\ tasks["plan"].report.draft \in Nat
        BY <1>5, TaskFacts
      <3> QED BY <1>1, <1>4, <1>10, <1>11, <1>14, <1>19, <3>1 DEF YoungFits, DraftsFit
    <2>6. OrderFits(w)'
      BY <1>1, <1>4, <1>10, <1>11, <1>20
         DEF OrderFits, HandFits, Chained, TasksFit, ReportsFit, RoundsFit, MadeFrom
    <2> QED BY <2>1, <2>2, <2>3, <2>4, <2>5, <2>6 DEF MemberFits
  <1>22. \A v \in Investigator \ {w} : Waits(v)
    BY <1>1 DEF Waits, Owns, Guards
  <1> QED BY <1>9, <1>10, <1>15, <1>16, <1>18, <1>21, <1>22, OneMoves

-------------------------------------------------------------------------------
(* The ends. *)

\* A process at the end of the graph prepares the proposal, if there is none.
LEMMA ProposeInv ==
    ASSUME InvestigationIndInv, NEW w \in Investigator, Propose(w)
    PROVE  InvestigationIndInv'
  <1> DEFINE new == [member[w] EXCEPT !.at = "closing"]
  <1>1. /\ member[w].at = "proposing" /\ member' = [member EXCEPT ![w] = new]
        /\ UNCHANGED <<attempt, agentRun, reports, checkpoint, proposal, graphHistory>>
    BY DEF Propose
  <1>2. /\ new \in Members /\ new.at = "closing" /\ new.state = member[w].state
        /\ new.task = member[w].task /\ new.steps = member[w].steps
        /\ new.stored = member[w].stored
    BY Before DEF Members, PlacesOf
  <1> HIDE DEF new
  <1>3. member'[w] = new
    BY <1>1 DEF InvestigationIndInv
  <1>4. UNCHANGED <<attempt, agentTask, agentEvidence, agentSteps, checkpoint, strayed>>
    BY <1>1 DEF reports, graphHistory
  <1>5. MemberFits(w)
    BY Before
  <1>6. MemberFits(w)'
    <2>1. StepsFit(member[w].steps)' /\ PlaceFits(w)' /\ SeenFits(w)' /\ FoundFits(w)'
      BY <1>1, <1>2, <1>3, <1>4, <1>5
         DEF MemberFits, StepsFit, PlaceFits, SeenFits, FoundFits, NextOf,
             TaskEvidenceFits, EvidenceFits
    <2>2. HolderKnows(w)'
      BY <1>1, <1>2, <1>3, <1>4, <1>5 DEF MemberFits, HolderKnows, Inside, InGraph, Guards
    <2>3. YoungFits(w)'
      BY <1>1, <1>2, <1>3, <1>4, <1>5 DEF MemberFits, YoungFits, DraftsFit, Live
    <2>4. OrderFits(w)'
      BY <1>1, <1>2, <1>3, <1>4, <1>5 DEF MemberFits, OrderFits, HandFits, Chained
    <2> QED BY <2>1, <2>2, <2>3, <2>4 DEF MemberFits
  <1> QED BY <1>1, <1>2, <1>6, OnlyMoves

\* The proposal is committed with the success of the attempt, or its cancellation.
LEMMA CloseInv ==
    ASSUME InvestigationIndInv, NEW w \in Investigator, Close(w)
    PROVE  InvestigationIndInv'
  <1>1. /\ member[w].at = "closing" /\ proposal' = member[w].state /\ GoesAway(w)
        /\ agentRun' \in Active \cup Terminal
        /\ UNCHANGED <<agentTask, agentEvidence, agentSteps, checkpoint, strayed, losses>>
    BY DEF Close, reports, graphHistory, Terminal
  <1>2. /\ attempt' \in AttemptRows /\ attempt'.token = attempt.token
        /\ attempt'.cancel_requested = attempt.cancel_requested
        /\ attempt'.leased => attempt.leased /\ attempt.cancel_requested
    <2>1. CASE Guards(w) /\ attempt' = [attempt EXCEPT !.status = "succeeded", !.leased = FALSE]
      BY <2>1 DEF InvestigationIndInv, RunTyped, AttemptRows, Terminal
    <2>2. CASE /\ attempt.cancel_requested
               /\ attempt' = [attempt EXCEPT !.status = "cancelled",
                                             !.leased = @ /\ attempt.token # w]
      <3> DEFINE kept == attempt.leased /\ attempt.token # w
      <3>1. kept \in BOOLEAN /\ (kept => attempt.leased)
        BY Zenon
      <3>2. attempt' = [attempt EXCEPT !.status = "cancelled", !.leased = kept]
        BY <2>2
      <3> HIDE DEF kept
      <3>3. attempt' \in AttemptRows /\ attempt'.token = attempt.token /\ attempt'.leased = kept
        BY <3>1, <3>2 DEF InvestigationIndInv, RunTyped, AttemptRows, Terminal
      <3>4. attempt'.cancel_requested = attempt.cancel_requested
        BY <3>2 DEF InvestigationIndInv, RunTyped, AttemptRows
      <3> QED BY <2>2, <3>1, <3>3, <3>4
    <2> QED BY <2>1, <2>2 DEF Close
  <1>3. MemberFits(w) /\ RunFits /\ RunTyped /\ member[w].state \in States /\ agentTask \in Tasks
    BY Before
  <1>4. RunTyped'
    BY <1>1, <1>2, <1>3 DEF RunTyped
  <1>5. ProposalIsReviewed'
    <2>1. /\ EvidenceFits(member[w].state, agentEvidence) /\ NextOf(w) = "end"
          /\ ~strayed => Chained(member[w].state)
      BY <1>1, <1>3 DEF MemberFits, FoundFits, PlaceFits, OrderFits
    <2> QED BY <1>1, <2>1 DEF ProposalIsReviewed, EvidenceFits, Chained, Later, NextOf
  <1>6. RunFits'
    <2>1. LeaseFits' /\ (Live' => Live)
      BY <1>2 DEF LeaseFits, Live
    <2> QED BY <1>1, <1>3, <1>5, <2>1
            DEF RunFits, StepsFit, TaskEvidenceFits, EvidenceFits, DraftsFit,
                Chained, TasksFit, ReportsFit, RoundsFit, MadeFrom
  <1>7. Grown
    BY <1>1, <1>2, <1>3, TaskFacts DEF Grown, Live
  <1>8. \A v \in Investigator \ {w} : Waits(v)
    BY <1>2 DEF Waits, Owns, Guards
  <1> QED BY <1>1, <1>4, <1>6, <1>7, <1>8, GoneAway

\* A cancelled attempt ends, and stores the state it has: the only write that
\* needs no lease.
LEMMA StopInv ==
    ASSUME InvestigationIndInv, NEW w \in Investigator, Stop(w)
    PROVE  InvestigationIndInv'
  <1> DEFINE state == member[w].state
             role == NextOf(w)
             row == [round |-> state.revision + 1, report |-> ReportOf(state, role)]
             kept == attempt.leased /\ attempt.token # w
  <1>1. /\ member[w].at \in InGraph /\ ~Live /\ GoesAway(w)
        /\ agentRun' \in Active \cup Terminal
        /\ UNCHANGED <<checkpoint, proposal, strayed, losses>>
    BY DEF Stop, graphHistory, Terminal, Live
  <1>2. /\ agentEvidence' = agentEvidence \cup member[w].known
        /\ agentSteps' = member[w].steps
        /\ IF member[w].at = "finishing" THEN agentTask' = [agentTask EXCEPT ![role] = row]
           ELSE agentTask' = agentTask
    BY DEF Stop, StoresNode, TaskRow
  <1>3. /\ MemberFits(w) /\ RunFits /\ RunTyped /\ state \in States /\ agentTask \in Tasks
        /\ member[w].steps \in StepLists /\ member[w].known \in SUBSET Contents
    BY Before
  <1>4. member[w].at = "finishing" => role \in Roles
    BY <1>3 DEF MemberFits, PlaceFits
  <1>5. agentTask' \in Tasks
    <2>1. CASE member[w].at = "finishing"
      <3> HIDE DEF role
      <3>1. [agentTask EXCEPT ![role] = row] \in Tasks
        BY <1>3, <1>4, <2>1, StoredTasks
      <3> QED BY <1>2, <2>1, <3>1
    <2>2. CASE member[w].at # "finishing"
      BY <1>2, <1>3, <2>2
    <2> QED BY <2>1, <2>2
  <1>6. /\ attempt' \in AttemptRows /\ attempt'.cancel_requested
        /\ attempt'.token = attempt.token /\ (attempt'.leased => attempt.leased)
    <2>1. kept \in BOOLEAN /\ (kept => attempt.leased)
      BY Zenon
    <2>2. attempt' = [attempt EXCEPT !.status = "cancelled", !.leased = kept]
      BY DEF Stop
    <2> HIDE DEF kept
    <2>3. attempt' \in AttemptRows /\ attempt'.token = attempt.token /\ attempt'.leased = kept
      BY <2>1, <2>2 DEF InvestigationIndInv, RunTyped, AttemptRows, Terminal
    <2>4. attempt'.cancel_requested
      BY <1>1, <2>2 DEF InvestigationIndInv, RunTyped, AttemptRows, Live
    <2> QED BY <2>1, <2>3, <2>4
  <1>7. RunTyped'
    <2>1. agentEvidence' \in SUBSET Contents
      BY <1>2, <1>3 DEF RunTyped
    <2> QED BY <1>1, <1>2, <1>3, <1>5, <1>6, <2>1 DEF RunTyped
  <1>8. \A r \in Roles : \/ agentTask'[r] = agentTask[r]
                         \/ /\ member[w].at = "finishing" /\ r = role
                            /\ agentTask'[r] = row /\ agentTask'[r].round > 0
    <2>1. agentTask \in [Roles -> TaskRows]
      BY <1>3, TaskFacts
    <2>2. row.round > 0
      BY <1>3, StateFacts
    <2> HIDE DEF row, role
    <2> QED BY <1>2, <1>4, <2>1, <2>2
  <1>9. TaskEvidenceFits(agentTask)'
    <2>1. TaskEvidenceFits(agentTask)
      BY <1>3 DEF RunFits
    <2>2. CASE agentTask'["evidence"] = agentTask["evidence"]
      BY <1>2, <2>1, <2>2 DEF TaskEvidenceFits
    <2>3. CASE member[w].at = "finishing" /\ role = "evidence" /\ agentTask'["evidence"] = row
      <3>1. /\ EvidenceFits(state, agentEvidence \cup member[w].known) /\ state.evidence # {}
        BY <1>3, <2>3 DEF MemberFits, FoundFits
      <3>2. agentTask'["evidence"].report = state.evidence
        BY <1>3, <2>3, ReportOfFacts DEF Roles
      <3> QED BY <1>2, <3>1, <3>2 DEF TaskEvidenceFits, EvidenceFits
    <2> QED BY <1>8, <2>2, <2>3 DEF Roles
  <1>10. ~Live'
    BY <1>6 DEF Live
  <1>11. Grown
    BY <1>1, <1>2, <1>8, <1>10 DEF Grown
  <1>12. RunFits'
    <2>1. LeaseFits' /\ StepsFit(agentSteps)'
      BY <1>2, <1>3, <1>10 DEF LeaseFits, MemberFits, StepsFit
    <2>2. EvidenceFits(checkpoint, agentEvidence)'
      BY <1>1, <1>2, <1>3 DEF RunFits, EvidenceFits
    <2>3. checkpoint'.next = "end" => agentTask'["critic"].round > 0
      BY <1>1, <1>3, <1>11 DEF RunFits, Grown, Roles
    <2>4. ~strayed' => Chained(checkpoint)'
      BY <1>1, <1>3 DEF RunFits, Chained
    <2>5. ProposalIsReviewed'
      BY <1>1, <1>2, <1>3 DEF RunFits, ProposalIsReviewed
    <2>6. checkpoint'.next = "none" => checkpoint' = Unsaved
      BY <1>1, <1>3 DEF RunFits
    <2> QED BY <1>9, <1>10, <2>1, <2>2, <2>3, <2>4, <2>5, <2>6 DEF RunFits
  <1>13. \A v \in Investigator \ {w} : Waits(v)
    BY <1>6 DEF Waits, Owns, Guards
  <1> QED BY <1>1, <1>7, <1>11, <1>12, <1>13, GoneAway

\* Any other exception ends the attempt of whoever has its token.
LEMMA BreakInv ==
    ASSUME InvestigationIndInv, NEW w \in Investigator, Break(w)
    PROVE  InvestigationIndInv'
  <1> DEFINE end == IF attempt.cancel_requested THEN "cancelled" ELSE "failed"
  <1>1. /\ GoesAway(w) /\ UNCHANGED <<reports, checkpoint, proposal, strayed, losses>>
        /\ \/ /\ attempt' = [attempt EXCEPT !.status = end, !.leased = FALSE]
              /\ agentRun' = end
           \/ UNCHANGED <<attempt, agentRun>>
    BY DEF Break, graphHistory
  <1>2. end \in Terminal
    BY DEF Terminal
  <1> HIDE DEF end
  <1>3. /\ attempt' \in AttemptRows /\ agentRun' \in Active \cup Terminal
        /\ attempt'.cancel_requested = attempt.cancel_requested
        /\ attempt' = attempt \/ ~attempt'.leased
    BY <1>1, <1>2 DEF InvestigationIndInv, RunTyped, AttemptRows
  <1>4. LeaseFits' /\ (Live' => Live) /\ losses' \in 0 .. MaxLosses
    BY <1>1, <1>3 DEF InvestigationIndInv, RunFits, RunTyped, LeaseFits, Live
  <1>5. RunTyped' /\ RunFits' /\ Grown
    BY <1>1, <1>3, <1>4, RunStays
  <1>6. \A v \in Investigator \ {w} : Waits(v)
    BY <1>1, <1>3 DEF Waits, Owns, Guards, reports
  <1> QED BY <1>1, <1>5, <1>6, GoneAway

\* From now on nothing need be younger than the checkpoint.
LEMMA CancelRunInv == ASSUME InvestigationIndInv, CancelRun PROVE InvestigationIndInv'
  <1>1. /\ UNCHANGED <<agentRun, reports, checkpoint, proposal, member, strayed, losses>>
        /\ attempt' = [attempt EXCEPT !.cancel_requested = TRUE]
    BY DEF CancelRun, graphHistory
  <1>2. /\ attempt' \in AttemptRows /\ attempt'.token = attempt.token
        /\ attempt'.leased = attempt.leased /\ attempt'.cancel_requested
    BY <1>1 DEF InvestigationIndInv, RunTyped, AttemptRows
  <1>3. /\ LeaseFits' /\ ~Live' /\ losses' \in 0 .. MaxLosses
        /\ agentRun' \in Active \cup Terminal
    BY <1>1, <1>2 DEF InvestigationIndInv, RunTyped, LeaseFits, Live
  <1>4. RunTyped' /\ RunFits' /\ Grown
    BY <1>1, <1>2, <1>3, RunStays
  <1>5. \A v \in Investigator : Waits(v)
    BY <1>2 DEF Waits, Owns, Guards
  <1> QED BY <1>1, <1>4, <1>5, NobodyMoves

\* A lease runs out, and its process goes on or goes with it.
LEMMA LoseLeaseInv ==
    ASSUME InvestigationIndInv, NEW w \in Investigator, LoseLease(w)
    PROVE  InvestigationIndInv'
  <1>1. /\ UNCHANGED <<agentRun, reports, checkpoint, proposal, strayed>>
        /\ attempt' = [attempt EXCEPT !.leased = FALSE]
        /\ losses < MaxLosses /\ losses' = losses + 1
        /\ GoesAway(w) \/ member' = member
    BY DEF LoseLease
  <1>2. /\ attempt' \in AttemptRows /\ ~attempt'.leased
        /\ attempt'.cancel_requested = attempt.cancel_requested
    BY <1>1 DEF InvestigationIndInv, RunTyped, AttemptRows
  <1>3. /\ LeaseFits' /\ (Live' => Live) /\ losses' \in 0 .. MaxLosses
        /\ agentRun' \in Active \cup Terminal
    BY <1>1, <1>2, InvestigationLimits DEF InvestigationIndInv, RunTyped, LeaseFits, Live
  <1>4. RunTyped' /\ RunFits' /\ Grown
    BY <1>1, <1>2, <1>3, RunStays
  <1>5. \A v \in Investigator : Waits(v)
    BY <1>2 DEF Waits, Owns, Guards
  <1> QED BY <1>1, <1>4, <1>5, GoneAway, NobodyMoves

\* An attempt without a lease fails.
LEMMA SweepRunInv == ASSUME InvestigationIndInv, SweepRun PROVE InvestigationIndInv'
  <1>1. /\ UNCHANGED <<agentRun, reports, checkpoint, proposal, member, strayed, losses>>
        /\ attempt' = [attempt EXCEPT !.status = "failed"] /\ ~attempt.leased
    BY DEF SweepRun, graphHistory
  <1>2. /\ attempt' \in AttemptRows /\ attempt'.leased = attempt.leased
        /\ attempt'.cancel_requested = attempt.cancel_requested
    BY <1>1 DEF InvestigationIndInv, RunTyped, AttemptRows, Terminal
  <1>3. /\ LeaseFits' /\ (Live' => Live) /\ losses' \in 0 .. MaxLosses
        /\ agentRun' \in Active \cup Terminal
    BY <1>1, <1>2 DEF InvestigationIndInv, RunTyped, LeaseFits, Live
  <1>4. RunTyped' /\ RunFits' /\ Grown
    BY <1>1, <1>2, <1>3, RunStays
  <1>5. \A v \in Investigator : Waits(v)
    BY <1>1, <1>2 DEF Waits, Owns, Guards
  <1> QED BY <1>1, <1>4, <1>5, NobodyMoves

-------------------------------------------------------------------------------
(* Every step. *)

\* Every step keeps the invariant.
LEMMA InvestigationStepInv ==
    InvestigationIndInv /\ [InvestigationNext]_investigationVars => InvestigationIndInv'
  <1> SUFFICES ASSUME InvestigationIndInv, [InvestigationNext]_investigationVars
               PROVE  InvestigationIndInv'
    OBVIOUS
  <1>1. ASSUME NEW w \in Investigator, Investigates(w) PROVE InvestigationIndInv'
    <2>1. ASSUME NEW query \in Query, NEW found \in SUBSET Finding, Ask(w, query, found)
          PROVE  InvestigationIndInv'
      BY <2>1, AskInv
    <2> QED BY <1>1, <2>1, LoadRunInv, ResumeInv, StartGraphInv, RecallInv, GatherInv,
               ConcludeInv, CallInv, FinishNodeInv, SaveCheckpointInv, ProposeInv, CloseInv,
               StopInv, BreakInv
            DEF Investigates
  <1>2. CASE UNCHANGED investigationVars
    <2>1. /\ member' = member /\ UNCHANGED <<attempt, reports, checkpoint, proposal, strayed>>
          /\ attempt' \in AttemptRows /\ agentRun' \in Active \cup Terminal
          /\ losses' \in 0 .. MaxLosses /\ LeaseFits' /\ (Live' => Live)
      BY <1>2 DEF investigationVars, graphHistory, reports, InvestigationIndInv, RunTyped, RunFits,
                  LeaseFits, Live
    <2>2. RunTyped' /\ RunFits' /\ Grown
      BY <2>1, RunStays
    <2>3. \A v \in Investigator : Waits(v)
      BY <2>1, OthersWait
    <2> QED BY <2>1, <2>2, <2>3, NobodyMoves
  <1> QED BY <1>1, <1>2, ClaimRunInv, LoseLeaseInv, CancelRunInv, SweepRunInv
          DEF InvestigationNext

\* The invariant of an investigation.
THEOREM InvestigationInvariance == InvestigationSpec => []InvestigationIndInv
  BY InvestigationInitInv, InvestigationStepInv, PTL DEF InvestigationSpec

\* Whoever executes an investigation, and however often it is taken over, its
\* evidence role stays within its budget and repeats no query; what is proposed
\* rests on stored evidence and, as long as nobody has written to the engine's
\* store without the lease, is what the critic approved; and the engine's store
\* is backed by the database.
THEOREM InvestigationsAreReviewed == InvestigationSpec => []InvestigationInv
  <1>1. InvestigationIndInv => InvestigationInv
    <2> SUFFICES ASSUME InvestigationIndInv PROVE InvestigationInv
      OBVIOUS
    <2>1. InvestigationTypeOK
      <3>1. \A w \in Investigator : member[w] \in Members
        BY DEF InvestigationIndInv
      <3> QED BY <3>1 DEF InvestigationIndInv, InvestigationTypeOK, RunTyped, Members, PlacesOf,
                          Tasks, AttemptRows, StepLists
    <2>2. WithinBudget
      BY DEF InvestigationIndInv, RunFits, StepsFit, WithinBudget
    <2>3. ProposalIsReviewed
      BY DEF InvestigationIndInv, RunFits
    <2>4. CheckpointIsBacked
      BY DEF InvestigationIndInv, RunFits, EvidenceFits, DraftsFit, Live, CheckpointIsBacked
    <2> QED BY <2>1, <2>2, <2>3, <2>4 DEF InvestigationInv
  <1> QED BY <1>1, InvestigationInvariance, PTL

\* A report is replaced by one of another revision only, unless somebody has
\* asked to stop the run: the holder of the lease knows every stored report and
\* takes over the one it has for its revision.
THEOREM ReportsAreNotRepeated == InvestigationSpec => ReportsStand
  <1> DEFINE Stands == \A r \in Roles :
                agentTask[r].round > 0 /\ agentTask'[r] # agentTask[r] =>
                    agentTask'[r].round # agentTask[r].round \/ attempt.cancel_requested
  <1>1. InvestigationIndInv /\ [InvestigationNext]_investigationVars => [Stands]_investigationVars
    <2> SUFFICES ASSUME InvestigationIndInv, InvestigationNext, ~attempt.cancel_requested,
                        NEW r \in Roles, agentTask[r].round > 0, agentTask'[r] # agentTask[r]
                 PROVE  agentTask'[r].round # agentTask[r].round
      OBVIOUS
    <2>1. PICK w \in Investigator : FinishNode(w)
      <3>1. agentTask' # agentTask
        OBVIOUS
      <3> QED BY <3>1 DEF InvestigationNext, ClaimRun, Investigates, LoseLease, CancelRun, SweepRun,
                          LoadRun, Resume, StartGraph, Recall, Gather, Ask, Conclude, Call,
                          SaveCheckpoint, Propose, Close, Stop, Break, reports
    <2>2. /\ member[w].at = "finishing" /\ Guards(w)
          /\ agentTask' = [agentTask EXCEPT ![NextOf(w)] = TaskRow(w)]
      BY <2>1 DEF FinishNode, StoresNode
    <2>3. /\ MemberFits(w) /\ agentTask \in [Roles -> TaskRows] /\ NextOf(w) \in Roles
          /\ agentTask[r].round \in Nat
      BY <2>2, Before, TaskFacts DEF MemberFits, PlaceFits
    <2>4. r = NextOf(w) /\ agentTask'[r] = TaskRow(w)
      BY <2>2, <2>3
    <2>5. agentTask[r].round # member[w].state.revision + 1
      BY <2>2, <2>3, <2>4 DEF MemberFits, HolderKnows, Inside, InGraph
    <2> QED BY <2>4, <2>5 DEF TaskRow
  <1> QED BY <1>1, InvestigationInvariance, PTL DEF InvestigationSpec, ReportsStand
================================================================================
