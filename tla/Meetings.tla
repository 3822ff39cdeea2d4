------------------------------- MODULE Meetings --------------------------------
(***************************************************************************)
(* One meeting: its recording, the transcripts and minutes made from it by *)
(* jobs and by people, the deletion of the recording in two phases, and    *)
(* the publication of a transcript as a version of a knowledge document,   *)
(* which a request carries out in several transactions.  The meeting has a *)
(* document of its own, MEETING-{id}, in each base it is published to: in  *)
(* this module Document is the set of these.                               *)
(*                                                                         *)
(* The row lock of the meeting is held within a transaction, so it guards  *)
(* only what is read and written between two commits.                      *)
(***************************************************************************)
EXTENDS Versions, Sequences, JobStatus

CONSTANTS
    Worker,          \* processes that execute jobs, without leases
    Remover,         \* requests and retention runs that delete the recording
    Publisher,       \* requests that publish to the knowledge base
    MaxTranscripts,  \* bound: transcripts of the meeting
    MaxMinutes,      \* bound: minutes of the meeting
    MaxAttempts,     \* bound: attempts of a job
    MaxFaults        \* bound: requests, processes and storage calls that fail

ASSUME MeetingsBounds ==
    /\ MaxTranscripts \in Nat /\ MaxMinutes \in Nat
    /\ MaxAttempts \in Nat \ {0} /\ MaxFaults \in Nat
    /\ Content = 1 .. MaxTranscripts
    /\ NoContent = 0 /\ "none" \notin Version

VARIABLES
    meeting,     \* the row of meetings
    transcripts, \* how many meeting_transcript_versions there are
    minutes,     \* meeting_minutes_versions
    recording,   \* is the object in the storage?
    meetingJob,         \* the latest attempt of each kind
    document,    \* the documents MEETING-{id} that are there, one of a base
    publication, \* meeting_knowledge_publications, by transcript
    late,        \* versions linked or taken up again while the recording was going
    worker, remover, publisher,
    faults

minuteRows == <<transcripts, minutes>>
knowledge == <<document, publication, late, version>>
actors == <<worker, remover, publisher>>
meetingsVars == <<meeting, minuteRows, recording, meetingJob, knowledge, actors, faults>>

Kind == {"transcription", "minutes"}
NoMeetingJob == [attempt |-> 0, status |-> "none", cancel_requested |-> FALSE, transcript |-> 0]
Unlinked == [version |-> "none", indexed |-> FALSE]
Free == [at |-> "idle", kind |-> "none", attempt |-> 0, transcript |-> 0]
NoDocument == {}
IdlePublisher == [at |-> "idle", transcript |-> 0, document |-> NoDocument,
                  version |-> "none", seen |-> "draft"]

MeetingStatus == {"draft", "transcribed", "published", "withdrawn"}
Closed == {"published", "withdrawn"}

MeetingsTypeOK ==
    /\ VersionsTypeOK
    /\ meeting \in [upload : {"verified", "deleting", "deleted"},
                    status : MeetingStatus, current : 0 .. MaxTranscripts]
    /\ meeting.status = "draft" <=> meeting.current = 0
    /\ transcripts \in 0 .. MaxTranscripts
    /\ minutes \in Seq([transcript : 1 .. MaxTranscripts, confirmed : BOOLEAN])
    /\ recording \in BOOLEAN
    /\ meetingJob \in [Kind -> [attempt : 0 .. MaxAttempts, status : {"none"} \cup Active \cup Terminal,
                         cancel_requested : BOOLEAN, transcript : 0 .. MaxTranscripts]]
    /\ document \subseteq Document
    /\ publication \in [1 .. MaxTranscripts ->
                           [version : Version \cup {"none"}, indexed : BOOLEAN]]
    /\ late \subseteq Version
    /\ worker \in [Worker -> [at : {"idle", "started"}, kind : Kind \cup {"none"},
                              attempt : 0 .. MaxAttempts, transcript : 0 .. MaxTranscripts]]
    /\ remover \in [Remover -> {"idle", "removing", "closing"}]
    /\ publisher \in [Publisher -> [at : {"idle", "versioning", "uploading", "linking", "indexing"},
                                    transcript : 0 .. MaxTranscripts,
                                    document : Document \cup {NoDocument},
                                    version : Version \cup {"none"}, seen : MeetingStatus]]
    /\ faults \in 0 .. MaxFaults

\* The upload has been verified.
MeetingsInit ==
    /\ VersionsInit
    /\ meeting = [upload |-> "verified", status |-> "draft", current |-> 0]
    /\ transcripts = 0 /\ minutes = <<>> /\ recording = TRUE
    /\ meetingJob = [k \in Kind |-> NoMeetingJob]
    /\ document = {} /\ late = {}
    /\ publication = [t \in 1 .. MaxTranscripts |-> Unlinked]
    /\ worker = [w \in Worker |-> Free]
    /\ remover = [r \in Remover |-> "idle"]
    /\ publisher = [p \in Publisher |-> IdlePublisher]
    /\ faults = 0

-------------------------------------------------------------------------------
(* Transcripts and minutes. *)

\* The operation key of a first attempt is used once; a retry makes another row.
Starts(kind, transcript) ==
    /\ meetingJob[kind].status = "none"
    /\ meetingJob' = [meetingJob EXCEPT ![kind] =
           [attempt |-> 1, status |-> "queued", cancel_requested |-> FALSE,
            transcript |-> transcript]]

\* start_transcription demands a verified recording and a meeting that is open, of a
\* copy that nobody has locked: every meeting was like that when it could be read first,
\* so what it says by now forbids nothing.
StartTranscription ==
    /\ Starts("transcription", 0)
    /\ UNCHANGED <<meeting, minuteRows, recording, knowledge, actors, faults>>

\* start_minutes_generation fixes the transcript in the job's snapshot.
StartMinutes ==
    /\ meeting.current # 0
    /\ Starts("minutes", meeting.current)
    /\ UNCHANGED <<meeting, minuteRows, recording, knowledge, actors, faults>>

\* retry_job keeps the snapshot of the attempt.
RetryMeetingJob(kind) ==
    /\ meetingJob[kind].status \in {"failed", "cancelled"} /\ meetingJob[kind].attempt < MaxAttempts
    /\ meetingJob' = [meetingJob EXCEPT
           ![kind].attempt = @ + 1, ![kind].status = "queued", ![kind].cancel_requested = FALSE]
    /\ UNCHANGED <<meeting, minuteRows, recording, knowledge, actors, faults>>

Cancel(kind) ==
    /\ meetingJob[kind].status \in Active
    /\ meetingJob' = [meetingJob EXCEPT ![kind].cancel_requested = TRUE]
    /\ UNCHANGED <<meeting, minuteRows, recording, knowledge, actors, faults>>

\* A task finds its job active, perhaps because its message came twice, and
\* commits that it is running; a cancelled one ends here.
Take(w, kind) ==
    /\ worker[w].at = "idle"
    /\ meetingJob[kind].status \in Active
    /\ IF meetingJob[kind].cancel_requested
       THEN /\ meetingJob' = [meetingJob EXCEPT ![kind].status = "cancelled"]
            /\ UNCHANGED worker
       ELSE /\ meetingJob' = [meetingJob EXCEPT ![kind].status = "running"]
            /\ worker' = [worker EXCEPT ![w] =
                   [at |-> "started", kind |-> kind, attempt |-> meetingJob[kind].attempt,
                    transcript |-> meetingJob[kind].transcript]]
    /\ UNCHANGED <<meeting, minuteRows, recording, knowledge, remover, publisher,
                   faults>>

\* The executor writes the outcome on its row, whatever has become of it meanwhile.
Ends(w, status) ==
    /\ meetingJob' = [k \in Kind |->
           IF k = worker[w].kind /\ meetingJob[k].attempt = worker[w].attempt
           THEN [meetingJob[k] EXCEPT !.status = status] ELSE meetingJob[k]]
    /\ worker' = [worker EXCEPT ![w] = Free]
    /\ UNCHANGED <<recording, knowledge, remover, publisher, faults>>

\* A transcript becomes the current one.
NewTranscript ==
    /\ transcripts < MaxTranscripts
    /\ transcripts' = transcripts + 1
    /\ meeting' = [meeting EXCEPT !.current = transcripts + 1, !.status = "transcribed"]
    /\ UNCHANGED minutes

\* Faulty: the status is not read again after the provider's answer.
TranscribeAnyway(w) ==
    /\ worker[w].at = "started" /\ worker[w].kind = "transcription"
    /\ NewTranscript
    /\ Ends(w, "succeeded")

\* execute_transcription: the row is locked and read again after the call.
Transcribe(w) ==
    /\ worker[w].at = "started" /\ worker[w].kind = "transcription"
    /\ meeting.status \notin Closed
    /\ NewTranscript
    /\ Ends(w, "succeeded")

NewMinutes(transcript) ==
    /\ Len(minutes) < MaxMinutes
    /\ minutes' = Append(minutes, [transcript |-> transcript, confirmed |-> FALSE])
    /\ UNCHANGED <<meeting, transcripts>>

\* Faulty: minutes are stored although the transcript has been replaced.
SummarizeAnyway(w) ==
    /\ worker[w].at = "started" /\ worker[w].kind = "minutes"
    /\ NewMinutes(worker[w].transcript)
    /\ Ends(w, "succeeded")

\* execute_minutes_generation: the transcript must still be the current one.
Summarize(w) ==
    /\ worker[w].at = "started" /\ worker[w].kind = "minutes"
    /\ meeting.current = worker[w].transcript
    /\ NewMinutes(worker[w].transcript)
    /\ Ends(w, "succeeded")

\* The provider fails, a permission was revoked, or the meeting has changed.
Fail(w) ==
    /\ worker[w].at = "started"
    /\ Ends(w, "failed")
    /\ UNCHANGED <<meeting, minuteRows>>

\* The process is lost, and the job stays as it is.
Crash(w) ==
    /\ worker[w].at = "started" /\ faults < MaxFaults
    /\ worker' = [worker EXCEPT ![w] = Free]
    /\ faults' = faults + 1
    /\ UNCHANGED <<meeting, minuteRows, recording, meetingJob, knowledge, remover, publisher>>

\* fail_stale_jobs, when the job says nothing for too long.
Sweep(kind) ==
    /\ meetingJob[kind].status = "running"
    /\ meetingJob' = [meetingJob EXCEPT ![kind].status = "failed"]
    /\ UNCHANGED <<meeting, minuteRows, recording, knowledge, actors, faults>>

EditTranscript ==
    /\ meeting.status \notin Closed
    /\ NewTranscript
    /\ UNCHANGED <<recording, meetingJob, knowledge, actors, faults>>

EditMinutes ==
    /\ meeting.current # 0
    /\ NewMinutes(meeting.current)
    /\ UNCHANGED <<recording, meetingJob, knowledge, actors, faults>>

\* latest_minutes: the newest row of the current transcript.
Latest(i) ==
    /\ minutes[i].transcript = meeting.current
    /\ \A k \in DOMAIN minutes : k > i => minutes[k].transcript # meeting.current

ConfirmMinutes ==
    /\ \E i \in DOMAIN minutes :
          Latest(i) /\ minutes' = [minutes EXCEPT ![i].confirmed = TRUE]
    /\ UNCHANGED <<meeting, transcripts, recording, meetingJob, knowledge, actors, faults>>

-------------------------------------------------------------------------------
(* Deleting the recording. *)

Linked == {publication[t].version : t \in 1 .. MaxTranscripts} \ {"none"}
EndedVersion(v) == version[v].status \in {"withdrawn", "rejected"}
Blocked == (\E k \in Kind : meetingJob[k].status \in Active) \/ \E v \in Linked : ~EndedVersion(v)

\* Faulty: the linked knowledge is not looked at.
MarkUnlinked(r) ==
    /\ remover[r] = "idle" /\ meeting.upload # "deleted"
    /\ \A k \in Kind : meetingJob[k].status \notin Active
    /\ meeting' = [meeting EXCEPT !.upload = "deleting"]
    /\ remover' = [remover EXCEPT ![r] = "removing"]
    /\ UNCHANGED <<minuteRows, recording, meetingJob, knowledge, worker, publisher, faults>>

\* Faulty: a recording that is being deleted is not taken up again.
MarkOnce(r) ==
    /\ remover[r] = "idle" /\ meeting.upload = "verified" /\ ~Blocked
    /\ meeting' = [meeting EXCEPT !.upload = "deleting"]
    /\ remover' = [remover EXCEPT ![r] = "removing"]
    /\ UNCHANGED <<minuteRows, recording, meetingJob, knowledge, worker, publisher, faults>>

\* First transaction of delete_recording.
Mark(r) ==
    /\ remover[r] = "idle" /\ meeting.upload # "deleted" /\ ~Blocked
    /\ meeting' = [meeting EXCEPT !.upload = "deleting"]
    /\ remover' = [remover EXCEPT ![r] = "removing"]
    /\ UNCHANGED <<minuteRows, recording, meetingJob, knowledge, worker, publisher, faults>>

Remove(r) ==
    /\ remover[r] = "removing"
    /\ recording' = FALSE
    /\ remover' = [remover EXCEPT ![r] = "closing"]
    /\ UNCHANGED <<meeting, minuteRows, meetingJob, knowledge, worker, publisher, faults>>

\* The storage raises or the process is lost; the mark stays.
RemoveFails(r) ==
    /\ remover[r] # "idle" /\ faults < MaxFaults
    /\ remover' = [remover EXCEPT ![r] = "idle"]
    /\ faults' = faults + 1
    /\ UNCHANGED <<meeting, minuteRows, recording, meetingJob, knowledge, worker, publisher>>

\* Second transaction, on the copy of the first one.
Close(r) ==
    /\ remover[r] = "closing"
    /\ meeting' = [meeting EXCEPT !.upload = "deleted"]
    /\ remover' = [remover EXCEPT ![r] = "idle"]
    /\ UNCHANGED <<minuteRows, recording, meetingJob, knowledge, worker, publisher, faults>>

-------------------------------------------------------------------------------
(* Publication. *)

Turns(p, changes) == publisher' = [publisher EXCEPT ![p] = changes]
Reaches(p, place) == Turns(p, [publisher[p] EXCEPT !.at = place])

\* prepare_knowledge_publication locks the meeting and renders the transcript.
\* Without a document in the base it is asked to publish to, it commits one, which
\* gives the lock up.
Prepare(p) ==
    /\ publisher[p].at = "idle" /\ meeting.current # 0
    /\ publication[meeting.current] = Unlinked
    /\ \E d \in Document \ document :
          /\ document' = document \cup {d}
          /\ Turns(p, [at |-> "versioning", transcript |-> meeting.current, document |-> d,
                         version |-> "none", seen |-> meeting.status])
    /\ UNCHANGED <<meeting, minuteRows, recording, meetingJob, publication, late,
                   version, worker, remover, faults>>

\* create_version, which refuses content the document has, and its commit.
Versioned(p, t, d, seen) ==
    /\ \E v \in d, n \in Numbers, from \in Days :
          /\ CreateVersion(v, n, t, from, Never)
          /\ Turns(p, [at |-> "uploading", transcript |-> t, document |-> d, version |-> v,
                         seen |-> seen])
    /\ UNCHANGED <<meeting, minuteRows, recording, meetingJob, document, publication, late,
                   worker, remover, faults>>

\* With a document, the lock of the meeting is held until the version is there.
MakeVersion(p) ==
    \/ /\ publisher[p].at = "idle" /\ meeting.current # 0
       /\ publication[meeting.current] = Unlinked
       /\ \E d \in document : Versioned(p, meeting.current, d, meeting.status)
    \/ /\ publisher[p].at = "versioning"
       /\ Versioned(p, publisher[p].transcript, publisher[p].document, publisher[p].seen)

\* put_bytes and complete_upload.
Complete(p) ==
    /\ publisher[p].at = "uploading"
    /\ VerifyVersion(publisher[p].version)
    /\ Reaches(p, "linking")
    /\ UNCHANGED <<meeting, minuteRows, recording, meetingJob, document, publication, late,
                   worker, remover, faults>>

\* Content the document has, a version somebody else has verified, or a transcript that
\* was published to another base in the meantime, where the constraint on meeting and
\* transcript refuses the second row and leaves the version without one.
Refused(p) ==
    /\ \/ /\ publisher[p].at = "versioning"
          /\ \E v \in Stored \cap publisher[p].document :
                version[v].content = publisher[p].transcript
       \/ /\ publisher[p].at = "uploading"
          /\ version[publisher[p].version].status # "uploading"
       \/ /\ publisher[p].at = "linking"
          /\ publication[publisher[p].transcript] # Unlinked
    /\ Turns(p, IdlePublisher)
    /\ UNCHANGED <<meeting, minuteRows, recording, meetingJob, knowledge, worker, remover, faults>>

\* What is linked or taken up again after the recording was marked for deletion.
LateWith(v) == IF meeting.upload = "verified" THEN late ELSE late \cup {v}

\* Faulty: a later publication takes the place of the first.
LinkAgain(p) ==
    /\ publisher[p].at = "linking"
    /\ publication' = [publication EXCEPT ![publisher[p].transcript] =
           [version |-> publisher[p].version, indexed |-> FALSE]]
    /\ late' = LateWith(publisher[p].version)
    /\ meeting' = [meeting EXCEPT !.status = Flushed(@, publisher[p].seen, "published")]
    /\ Reaches(p, "indexing")
    /\ UNCHANGED <<minuteRows, recording, meetingJob, document, version, worker, remover, faults>>

\* The last commit of prepare_knowledge_publication, which does not look at the state of
\* the recording.  The status is written if it differs from the copy.
Link(p) ==
    /\ publisher[p].at = "linking"
    /\ publication[publisher[p].transcript] = Unlinked
    /\ late' = LateWith(publisher[p].version)
    /\ publication' = [publication EXCEPT ![publisher[p].transcript] =
           [version |-> publisher[p].version, indexed |-> FALSE]]
    /\ meeting' = [meeting EXCEPT !.status = Flushed(@, publisher[p].seen, "published")]
    /\ Reaches(p, "indexing")
    /\ UNCHANGED <<minuteRows, recording, meetingJob, document, version, worker, remover, faults>>

\* A request that finds the publication without its index job goes on from there.
Resume(p) ==
    /\ publisher[p].at = "idle" /\ meeting.current # 0
    /\ publication[meeting.current] # Unlinked
    /\ ~publication[meeting.current].indexed
    /\ Turns(p, [at |-> "indexing", transcript |-> meeting.current, document |-> NoDocument,
                   version |-> publication[meeting.current].version,
                   seen |-> meeting.status])
    /\ UNCHANGED <<meeting, minuteRows, recording, meetingJob, knowledge, worker, remover, faults>>

\* publish_to_knowledge finds or starts the index job and notes it.
Index(p) ==
    /\ publisher[p].at = "indexing"
    /\ publication' = [publication EXCEPT ![publisher[p].transcript].indexed = TRUE]
    /\ Turns(p, IdlePublisher)
    /\ UNCHANGED <<meeting, minuteRows, recording, meetingJob, document, late, version, worker,
                   remover, faults>>

\* The storage or the process fails between two commits.
Breaks(p) ==
    /\ publisher[p].at # "idle" /\ faults < MaxFaults
    /\ Turns(p, IdlePublisher)
    /\ faults' = faults + 1
    /\ UNCHANGED <<meeting, minuteRows, recording, meetingJob, knowledge, worker, remover>>

Govern(v) ==
    /\ EditVersion(v)
    /\ late' = IF EndedVersion(v) THEN LateWith(v) ELSE late
    /\ UNCHANGED <<meeting, minuteRows, recording, meetingJob, document, publication, actors, faults>>

\* Faulty: other publications of the meeting are not looked at.
WithdrawAlone(v) ==
    /\ WithdrawVersion(v)
    /\ meeting' = IF v \in Linked THEN [meeting EXCEPT !.status = "withdrawn"] ELSE meeting
    /\ UNCHANGED <<minuteRows, recording, meetingJob, document, publication, late, actors, faults>>

\* withdraw_version with the meeting it came from.
WithdrawLinked(v) ==
    /\ WithdrawVersion(v)
    /\ meeting' = IF v \in Linked /\ \A u \in Linked \ {v} : EndedVersion(u)
                  THEN [meeting EXCEPT !.status = "withdrawn"] ELSE meeting
    /\ UNCHANGED <<minuteRows, recording, meetingJob, document, publication, late, actors, faults>>

-------------------------------------------------------------------------------
(* Specification. *)

Texts ==
    \/ StartTranscription \/ StartMinutes \/ EditTranscript \/ EditMinutes \/ ConfirmMinutes
    \/ \E k \in Kind : RetryMeetingJob(k) \/ Cancel(k) \/ Sweep(k)
    \/ \E w \in Worker : \/ \E k \in Kind : Take(w, k)
                         \/ Transcribe(w) \/ Summarize(w) \/ Fail(w) \/ Crash(w)

Deletion == \E r \in Remover : Mark(r) \/ Remove(r) \/ RemoveFails(r) \/ Close(r)

Publishing(p) ==
    \/ Prepare(p) \/ MakeVersion(p) \/ Complete(p) \/ Refused(p)
    \/ Link(p) \/ Resume(p) \/ Index(p) \/ Breaks(p)

Publication ==
    \/ \E p \in Publisher : Publishing(p)
    \/ \E v \in Version : Govern(v) \/ WithdrawLinked(v)

MeetingsNext == Texts \/ Deletion \/ Publication

MeetingsSpec == MeetingsInit /\ [][MeetingsNext]_meetingsVars

\* Celery beat starts the retention run again and again, and a run that is not
\* interrupted comes to its end.
Retention == \A r \in Remover : WF_meetingsVars(Mark(r)) /\ WF_meetingsVars(Remove(r)) /\ WF_meetingsVars(Close(r))

MeetingsFairSpec == MeetingsSpec /\ Retention

-------------------------------------------------------------------------------
(* Properties. *)

\* What a published meeting said can no longer be replaced: neither an edit nor a
\* transcription that was running at the time changes its transcript.
TranscriptIsFrozen ==
    [][meeting.status \in Closed =>
          meeting'.current = meeting.current /\ meeting'.status \in Closed]_meetingsVars

\* Stored minutes concern the transcript of their moment: minutes are never added
\* for a transcript that has been replaced.
MinutesFollowTranscript ==
    [][Len(minutes') > Len(minutes) =>
          minutes'[Len(minutes')].transcript = meeting.current]_meetingsVars

\* A transcript is prepared once in a base, whoever asks at the same time and whatever
\* broke off in between: one version of the document holds it.  What the meeting says it
\* was published as holds its text.
PreparedOnce ==
    /\ \A d \in Document : \A u, v \in d \cap Stored :
          version[u].content = version[v].content => u = v
    /\ \A t \in 1 .. MaxTranscripts :
          publication[t] # Unlinked => version[publication[t].version].content = t

\* Whatever bases are asked for at the same time, a transcript is published as the
\* version that was linked first, for good.
LinkedOnce ==
    [][\A t \in 1 .. MaxTranscripts :
          publication[t] # Unlinked =>
              publication'[t].version = publication[t].version]_meetingsVars

\* When a recording is gone, nothing that was made of it is active knowledge, except
\* what was linked or taken up again after the deletion had begun, which no handler
\* prevents.
RecordingOutlivesKnowledge ==
    ~recording => \A v \in Linked : EndedVersion(v) \/ v \in late

\* A meeting is withdrawn only when nothing linked to it is active any more.
WithdrawnWithItsKnowledge ==
    [][meeting.status # "withdrawn" /\ meeting'.status = "withdrawn" =>
          \A v \in Linked : version'[v].status \in {"withdrawn", "rejected"}]_meetingsVars

\* A deletion that has begun ends, although requests and storage calls fail, or
\* something has happened since that forbids it.
DeletionCompletes ==
    meeting.upload = "deleting" ~> (meeting.upload = "deleted" /\ ~recording) \/ Blocked

\* What a meeting promises to those who rely on its record: the published transcript
\* stands, minutes concern it, it reaches a knowledge base once, and the meeting is not
\* withdrawn, nor its recording taken away, over knowledge that was active before.
MeetingsHold ==
    /\ []MeetingsTypeOK /\ []PreparedOnce /\ []RecordingOutlivesKnowledge
    /\ TranscriptIsFrozen /\ MinutesFollowTranscript
    /\ LinkedOnce /\ WithdrawnWithItsKnowledge
===============================================================================
