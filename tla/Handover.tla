------------------------------- MODULE Handover -------------------------------
(***************************************************************************)
(* One shift handover recording: its transcripts and summaries, the        *)
(* requests that edit, confirm and delete it, and the plain (unleased)     *)
(* executors of its transcription and summary jobs.                        *)
(*                                                                         *)
(* What makes this module hard is the session.  Every handler first loads  *)
(* the recording, and SELECT ... FOR UPDATE on a row the session already   *)
(* holds waits for the lock but keeps the attributes that were loaded, as  *)
(* no query here asks for populate_existing.  So every check made "under   *)
(* the lock" is made on the copy in `session`, and a flush writes only     *)
(* the attributes that differ from that copy.                              *)
(***************************************************************************)
EXTENDS JobStatus, Naturals, Sequences, FiniteSets

CONSTANTS
    Job,         \* rows of async_jobs for this recording
    Client,      \* database sessions of requests
    Worker,      \* database sessions of worker processes
    NoJob,       \* parent_job_id IS NULL; also the author of manual versions
    MaxVersions, \* bound: versions of each kind
    MaxFaults    \* bound: duplicated messages plus lost workers

ASSUME NoJobIsNoJob == NoJob \notin Job
ASSUME WorkersAreFinite == IsFiniteSet(Worker)
ASSUME BoundsAreNatural == MaxVersions \in Nat /\ MaxFaults \in Nat

Session == Client \cup Worker

VARIABLES
    audio,       \* the row of audio_records
    transcripts, \* audio_transcript_versions: who made version 1, 2, ...
    summaries,   \* handover_summary_versions: [of: transcript, by: maker]
    job,         \* async_jobs
    messages,    \* messages of each job waiting in the broker
    session,     \* what each session does, and the copies it holds
    faults       \* faults spent so far

content == <<audio, transcripts, summaries>>
vars == <<audio, transcripts, summaries, job, messages, session, faults>>

Kinds == {"transcription", "summary"}
Statuses == {"draft", "transcribed", "summary_ready", "confirmed"}
Audio == [status : Statuses, transcript : 0 .. MaxVersions,
          summary : 0 .. MaxVersions, deleted : BOOLEAN]
Blank == [status |-> "draft", transcript |-> 0, summary |-> 0, deleted |-> FALSE]

NoRow == [kind |-> "none", status |-> "absent", cancel_requested |-> FALSE,
          base |-> 0, parent |-> NoJob]
Executors == {"starting", "calling"}
Idle == [at |-> "idle", job |-> NoJob, row |-> NoRow, audio |-> Blank]

TypeOK ==
    LET Row == [kind : Kinds \cup {"none"}, status : Active \cup Terminal \cup {"absent"},
                cancel_requested : BOOLEAN, base : 0 .. MaxVersions,
                parent : Job \cup {NoJob}]
    IN  /\ audio \in Audio
        /\ transcripts \in Seq(Job \cup {NoJob})
        /\ summaries \in Seq([of : 1 .. MaxVersions, by : Job \cup {NoJob}])
        /\ job \in [Job -> Row]
        /\ messages \in [Job -> Nat]
        /\ session \in [Session -> [at : {"idle", "editing"} \cup Executors,
                                    job : Job \cup {NoJob}, row : Row, audio : Audio]]
        /\ faults \in 0 .. MaxFaults
        /\ audio.summary \in 0 .. Len(summaries)
        /\ \A i \in DOMAIN summaries : summaries[i].of <= Len(transcripts)

\* complete_upload has verified the recording; nothing else has happened.
Init ==
    /\ audio = Blank
    /\ transcripts = <<>>
    /\ summaries = <<>>
    /\ job = [j \in Job |-> NoRow]
    /\ messages = [j \in Job |-> 0]
    /\ session = [s \in Session |-> Idle]
    /\ faults = 0

-------------------------------------------------------------------------------
(* Jobs. *)

ActiveOf(kind) == {j \in Job : job[j].kind = kind /\ job[j].status \in Active}

\* Faulty: a summary may be asked for before there is a transcript.
RequestTooEarly(j, kind) ==
    /\ ~audio.deleted /\ audio.status # "confirmed"
    /\ job[j].kind = "none"
    /\ \A i \in Job : job[i].kind = kind => job[i].parent # NoJob
    /\ job' = [job EXCEPT ![j] =
           [NoRow EXCEPT !.kind = kind, !.status = "queued", !.base = audio.transcript]]
    /\ messages' = [messages EXCEPT ![j] = @ + 1]
    /\ UNCHANGED <<content, session, faults>>

\* create_job for a first attempt.  An active job is returned as it is; after
\* that, the operation key of attempt 1 is taken for good, and the unique
\* constraint of task_outbox refuses the commit.
Request(j, kind) ==
    /\ ~audio.deleted /\ audio.status # "confirmed"
    /\ kind = "summary" => audio.transcript # 0
    /\ job[j].kind = "none"
    /\ \A i \in Job : job[i].kind = kind => job[i].parent # NoJob
    /\ job' = [job EXCEPT ![j] =
           [NoRow EXCEPT !.kind = kind, !.status = "queued",
                         !.base = IF kind = "summary" THEN audio.transcript ELSE 0]]
    /\ messages' = [messages EXCEPT ![j] = @ + 1]
    /\ UNCHANGED <<content, session, faults>>

\* Faulty: the failed row is put back into the queue.
RetryInPlace(j, c) ==
    /\ job[j].status \in {"failed", "cancelled"}
    /\ ActiveOf(job[j].kind) = {}
    /\ job' = [job EXCEPT ![j].status = "queued", ![j].cancel_requested = FALSE]
    /\ messages' = [messages EXCEPT ![j] = @ + 1]
    /\ UNCHANGED <<content, session, faults>>

\* retry_job reuses the original's snapshot, and with it its base transcript.
Retry(j, c) ==
    /\ job[j].status \in {"failed", "cancelled"}
    /\ \A i \in Job : job[i].parent # j
    /\ ActiveOf(job[j].kind) = {}
    /\ job[c].kind = "none"
    /\ job' = [job EXCEPT ![c] = [job[j] EXCEPT !.status = "queued", !.parent = j,
                                               !.cancel_requested = FALSE]]
    /\ messages' = [messages EXCEPT ![c] = @ + 1]
    /\ UNCHANGED <<content, session, faults>>

\* POST /jobs/{id}:cancel.
Cancel(j) ==
    /\ job[j].status \in Active
    /\ job' = [job EXCEPT ![j].cancel_requested = TRUE]
    /\ UNCHANGED <<content, messages, session, faults>>

\* fail_stale_jobs: no plain executor beats its heart during a provider call,
\* so any running job may be found silent for too long.
Sweep(j) ==
    /\ job[j].status = "running"
    /\ job' = [job EXCEPT ![j].status = "failed"]
    /\ UNCHANGED <<content, messages, session, faults>>

\* A publisher that dies between send and commit sends the message again.
Duplicate(j) ==
    /\ job[j].kind # "none"
    /\ faults < MaxFaults
    /\ faults' = faults + 1
    /\ messages' = [messages EXCEPT ![j] = @ + 1]
    /\ UNCHANGED <<content, job, session>>

-------------------------------------------------------------------------------
(* The executors. *)

Ends(s) == session' = [session EXCEPT ![s] = Idle]

\* What update_job and the commit make of the stored row, given the copy.
Writes(s, status) ==
    /\ status \in Transitions(session[s].row.status)
    /\ job' = [job EXCEPT ![session[s].job].status =
                   Flushed(@, session[s].row.status, status)]

\* The worker loads job and recording; a deleted recording raises before the
\* handler that would fail the job is in place.
Load(s, j) ==
    /\ session[s].at = "idle"
    /\ messages[j] > 0
    /\ messages' = [messages EXCEPT ![j] = @ - 1]
    /\ session' = IF audio.deleted THEN session
                  ELSE [session EXCEPT ![s] = [at |-> "starting", job |-> j,
                                               row |-> job[j], audio |-> audio]]
    /\ UNCHANGED <<content, job, faults>>

\* Returning at once: the loaded job has ended, or was cancelled.
ReturnEarly(s) ==
    /\ session[s].at = "starting"
    /\ \/ session[s].row.status \in Terminal /\ UNCHANGED job
       \/ session[s].row.cancel_requested /\ Writes(s, "cancelled")
    /\ Ends(s)
    /\ UNCHANGED <<content, messages, faults>>

\* Committing "running" may bring a row back to life that others have ended;
\* the unique index of active jobs refuses it beside a newer attempt.
Clashes(s) ==
    LET j == session[s].job
    IN  /\ Flushed(job[j].status, session[s].row.status, "running") \in Active
        /\ ActiveOf(session[s].row.kind) \ {j} # {}

\* The job is marked running, and committed before the provider is called.
Start(s) ==
    /\ session[s].at = "starting"
    /\ ~session[s].row.cancel_requested
    /\ ~Clashes(s)
    /\ Writes(s, "running")
    /\ session' = [session EXCEPT ![s].at = "calling", ![s].row.status = "running"]
    /\ UNCHANGED <<content, messages, faults>>

\* The commit is refused, and the task ends with the integrity error.
StartClashes(s) ==
    /\ session[s].at = "starting"
    /\ session[s].row.status \in Active /\ ~session[s].row.cancel_requested
    /\ Clashes(s)
    /\ Ends(s)
    /\ UNCHANGED <<content, job, messages, faults>>

\* Permissions revoked, provider errors, invalid segments, a recording that was
\* confirmed when it was loaded, a base that was not current then: all fail it.
Fails(s) ==
    /\ session[s].at \in Executors
    /\ session[s].row.status \in Active
    /\ Writes(s, "failed")
    /\ Ends(s)
    /\ UNCHANGED <<content, messages, faults>>

\* Faulty: the version is numbered from the copy.
PersistTranscriptOverCopy(s) ==
    /\ session[s].at = "calling" /\ session[s].row.kind = "transcription"
    /\ session[s].audio.status # "confirmed"
    /\ Len(transcripts) < MaxVersions
    /\ Writes(s, "succeeded")
    /\ transcripts' = Append(transcripts, session[s].job)
    /\ audio' = [audio EXCEPT !.transcript = session[s].audio.transcript + 1]
    /\ Ends(s)
    /\ UNCHANGED <<summaries, messages, faults>>

\* The last transaction of execute_transcription.
PersistTranscript(s) ==
    /\ session[s].at = "calling" /\ session[s].row.kind = "transcription"
    /\ session[s].audio.status # "confirmed"
    /\ Len(transcripts) < MaxVersions
    /\ Writes(s, "succeeded")
    /\ transcripts' = Append(transcripts, session[s].job)
    /\ audio' = [audio EXCEPT
           !.transcript = Len(transcripts) + 1,
           !.summary = Flushed(@, session[s].audio.summary, 0),
           !.status = Flushed(@, session[s].audio.status, "transcribed")]
    /\ Ends(s)
    /\ UNCHANGED <<summaries, messages, faults>>

\* Faulty: the job succeeds in a transaction before the one that saves.
PersistSummaryLost(s) ==
    /\ session[s].at = "calling" /\ session[s].row.kind = "summary"
    /\ Writes(s, "succeeded")
    /\ Ends(s)
    /\ UNCHANGED <<content, messages, faults>>

\* The last transaction of execute_summary.
PersistSummary(s) ==
    /\ session[s].at = "calling" /\ session[s].row.kind = "summary"
    /\ session[s].audio.status # "confirmed"
    /\ session[s].audio.transcript = session[s].row.base
    /\ Len(summaries) < MaxVersions
    /\ Writes(s, "succeeded")
    /\ summaries' = Append(summaries, [of |-> session[s].row.base, by |-> session[s].job])
    /\ audio' = [audio EXCEPT
           !.summary = Len(summaries) + 1,
           !.status = Flushed(@, session[s].audio.status, "summary_ready")]
    /\ Ends(s)
    /\ UNCHANGED <<transcripts, messages, faults>>

\* Faulty: messages acknowledged when they are received.
CrashAckedEarly(s) ==
    /\ session[s].at \in Executors
    /\ faults < MaxFaults
    /\ faults' = faults + 1
    /\ Ends(s)
    /\ UNCHANGED <<content, job, messages>>

\* A worker is lost; acks_late returns its message.
Crash(s) ==
    /\ session[s].at \in Executors
    /\ faults < MaxFaults
    /\ faults' = faults + 1
    /\ messages' = [messages EXCEPT ![session[s].job] = @ + 1]
    /\ Ends(s)
    /\ UNCHANGED <<content, job>>

-------------------------------------------------------------------------------
(* The requests of users. *)

\* get_audio, before one of the four handlers takes the lock.
Open(s) ==
    /\ session[s].at = "idle"
    /\ ~audio.deleted
    /\ session' = [session EXCEPT ![s] = [Idle EXCEPT !.at = "editing", !.audio = audio]]
    /\ UNCHANGED <<content, job, messages, faults>>

\* PUT .../transcript.
SaveTranscript(s) ==
    /\ session[s].at = "editing"
    /\ session[s].audio.status # "confirmed"
    /\ Len(transcripts) < MaxVersions
    /\ transcripts' = Append(transcripts, NoJob)
    /\ audio' = [audio EXCEPT
           !.transcript = Len(transcripts) + 1,
           !.summary = Flushed(@, session[s].audio.summary, 0),
           !.status = Flushed(@, session[s].audio.status, "transcribed")]
    /\ Ends(s)
    /\ UNCHANGED <<summaries, job, messages, faults>>

\* PUT .../summary; the user may name any transcript of the recording.
SaveSummary(s) ==
    /\ session[s].at = "editing"
    /\ session[s].audio.status # "confirmed"
    /\ Len(summaries) < MaxVersions
    /\ \E t \in 1 .. Len(transcripts) :
           summaries' = Append(summaries, [of |-> t, by |-> NoJob])
    /\ audio' = [audio EXCEPT
           !.summary = Len(summaries) + 1,
           !.status = Flushed(@, session[s].audio.status, "summary_ready")]
    /\ Ends(s)
    /\ UNCHANGED <<transcripts, job, messages, faults>>

\* POST ...:confirm; only `deleted` is looked at in the database.
Confirm(s) ==
    /\ session[s].at = "editing"
    /\ ~audio.deleted
    /\ session[s].audio.transcript # 0 /\ session[s].audio.summary # 0
    /\ session[s].audio.status # "confirmed"
    /\ summaries[session[s].audio.summary].of = session[s].audio.transcript
    /\ audio' = [audio EXCEPT !.status = "confirmed"]
    /\ Ends(s)
    /\ UNCHANGED <<transcripts, summaries, job, messages, faults>>

\* DELETE.
Delete(s) ==
    /\ session[s].at = "editing"
    /\ ~audio.deleted
    /\ session[s].audio.status # "confirmed"
    /\ audio' = [audio EXCEPT !.deleted = TRUE]
    /\ Ends(s)
    /\ UNCHANGED <<transcripts, summaries, job, messages, faults>>

\* A refused check, or a client that goes away, rolls the session back.
Abandon(s) ==
    /\ session[s].at = "editing"
    /\ Ends(s)
    /\ UNCHANGED <<content, job, messages, faults>>

JobStep(j) ==
    \/ \E kind \in Kinds : Request(j, kind)
    \/ \E c \in Job : Retry(j, c)
    \/ Cancel(j) \/ Sweep(j) \/ Duplicate(j)

ExecutorStep(s) ==
    \/ ReturnEarly(s) \/ Start(s) \/ StartClashes(s) \/ Fails(s)
    \/ PersistTranscript(s) \/ PersistSummary(s)

RequestStep(s) ==
    \/ Open(s) \/ SaveTranscript(s) \/ SaveSummary(s) \/ Confirm(s) \/ Delete(s) \/ Abandon(s)

Next ==
    \/ \E j \in Job : JobStep(j)
    \/ \E s \in Worker, j \in Job : Load(s, j)
    \/ \E s \in Worker : ExecutorStep(s) \/ Crash(s)
    \/ \E s \in Client : RequestStep(s)

Spec == Init /\ [][Next]_vars

-------------------------------------------------------------------------------
(* Safety. *)

\* Whatever copies the sessions write from, the current transcript is the
\* newest one, and the current summary is the newest one or none.
NewestIsCurrent ==
    /\ audio.transcript = Len(transcripts)
    /\ audio.summary \in {0, Len(summaries)}

Makers == {transcripts[i] : i \in DOMAIN transcripts}
    \cup {summaries[i].by : i \in DOMAIN summaries}

\* A job that succeeded has left a version behind, even if another delivery of
\* it failed, or a sweep ended it, on the way.
SucceededLeftAVersion ==
    \A j \in Job : job[j].status = "succeeded" => j \in Makers

VersionsBy(j) == Cardinality({i \in DOMAIN transcripts : transcripts[i] = j})
               + Cardinality({i \in DOMAIN summaries : summaries[i].by = j})
Deliveries(j) == messages[j] + Cardinality({s \in Worker : session[s].job = j})

\* A job makes no more versions than its message is delivered: one, plus one
\* for every duplicate or lost worker.
OneVersionPerDelivery == \A j \in Job : VersionsBy(j) + Deliveries(j) <= 1 + faults

\* What holds of the recording although every session writes from its copy.
HandoverInv ==
    TypeOK /\ NewestIsCurrent /\ SucceededLeftAVersion /\ OneVersionPerDelivery

-------------------------------------------------------------------------------
(* Liveness. *)

\* The broker hands a waiting message to a free worker, a worker that is not
\* lost gets on with its task, and beat runs the sweeper.
Fairness ==
    /\ \A j \in Job : WF_vars(Sweep(j))
    /\ \A s \in Worker :
          WF_vars(\E j \in Job : Load(s, j)) /\ WF_vars(ExecutorStep(s))

FairSpec == Spec /\ Fairness

\* Every job of a recording that is not deleted comes to an end; in contrast
\* to the leased executors this includes jobs cancelled while queued.
ActiveJobEnds ==
    \A j \in Job : job[j].status \in Active ~>
        job[j].status \in Terminal \/ audio.deleted

-------------------------------------------------------------------------------
(* What the documentation says of the code, and the stale copies refute. *)

\* A confirmed recording is never modified or deleted.
ConfirmedIsFrozen == [][audio.status = "confirmed" => UNCHANGED content]_vars

===============================================================================
