---------------------------- MODULE HandoverProofs ----------------------------
(***************************************************************************)
(* Proofs about Handover, for any number of jobs, clients and workers and  *)
(* any bounds on versions and faults.                                      *)
(***************************************************************************)
EXTENDS Handover, FiniteSetTheorems, SequenceTheorems, TLAPS

Rows == [kind : Kinds \cup {"none"}, status : Active \cup Terminal \cup {"absent"},
         cancel_requested : BOOLEAN, base : 0 .. MaxVersions,
         parent : Job \cup {NoJob}]
Summaries == [of : 1 .. MaxVersions, by : Job \cup {NoJob}]
Sessions == [at : {"idle", "editing"} \cup Executors, job : Job \cup {NoJob},
             row : Rows, audio : Audio]

\* The types of the variables, without what TypeOK says of references.
Typed ==
    /\ audio \in Audio
    /\ transcripts \in Seq(Job \cup {NoJob})
    /\ summaries \in Seq(Summaries)
    /\ job \in [Job -> Rows]
    /\ messages \in [Job -> Nat]
    /\ session \in [Session -> Sessions]
    /\ faults \in 0 .. MaxFaults

\* A summary job is based on a transcript that exists; what was never asked
\* for was never delivered and has made nothing.
RowFits(j) ==
    /\ job[j].kind = "summary" => job[j].base \in 1 .. Len(transcripts)
    /\ job[j].kind = "none" =>
          job[j].status = "absent" /\ messages[j] = 0 /\ VersionsBy(j) = 0

\* An executor works for a job somebody asked for, on a copy as good as the
\* row; nobody else works for any job.
SessionFits(s) ==
    IF session[s].at \in Executors
    THEN /\ session[s].job \in Job
         /\ job[session[s].job].kind # "none"
         /\ session[s].row.kind = "summary" =>
               session[s].row.base \in 1 .. Len(transcripts)
    ELSE session[s].job = NoJob

\* HandoverInv, and what keeps it: a new version is numbered by the tables and
\* never by a copy, and one delivery is spent on each version of a job.
IndInv ==
    /\ HandoverInv
    /\ \A j \in Job : RowFits(j)
    /\ \A s \in Session : SessionFits(s)

SummariesOfTranscripts ==
    \A i \in DOMAIN summaries : summaries[i].of <= Len(transcripts)

\* The invariant in the pieces the proofs below use.
LEMMA InHand ==
    IndInv <=> /\ Typed /\ SummariesOfTranscripts
               /\ NewestIsCurrent /\ SucceededLeftAVersion /\ OneVersionPerDelivery
               /\ \A j \in Job : RowFits(j)
               /\ \A s \in Session : SessionFits(s)
<1>1. ASSUME Typed, SummariesOfTranscripts, NewestIsCurrent PROVE TypeOK
  <2>1. Len(summaries) \in Nat
    BY <1>1, LenProperties DEF Typed
  <2>2. audio.summary \in 0 .. Len(summaries)
    BY <1>1, <2>1 DEF NewestIsCurrent
  <2>3. QED
    BY <1>1, <2>2 DEF Typed, TypeOK, Rows, Summaries, Sessions, SummariesOfTranscripts
<1>2. TypeOK => Typed /\ SummariesOfTranscripts
  BY DEF Typed, TypeOK, Rows, Summaries, Sessions, SummariesOfTranscripts
<1>3. QED
  BY <1>1, <1>2 DEF IndInv, HandoverInv

\* The same after a step.
LEMMA Rebuilt ==
    ASSUME Typed', SummariesOfTranscripts', NewestIsCurrent', SucceededLeftAVersion',
           OneVersionPerDelivery', \A j \in Job : RowFits(j)',
           \A s \in Session : SessionFits(s)'
    PROVE  IndInv'
<1>1. Len(summaries') \in Nat
  BY LenProperties DEF Typed
<1>2. (audio').summary \in 0 .. Len(summaries')
  BY <1>1 DEF NewestIsCurrent
<1>3. TypeOK'
  BY <1>2 DEF Typed, TypeOK, Rows, Summaries, Sessions, SummariesOfTranscripts
<1>4. QED
  BY <1>3 DEF IndInv, HandoverInv

-------------------------------------------------------------------------------
(* Counting. *)

\* The entries of a sequence that j made, of transcripts and of summaries.
Count(seq, j) == Cardinality({i \in DOMAIN seq : seq[i] = j})
CountBy(seq, j) == Cardinality({i \in DOMAIN seq : seq[i].by = j})

\* A new entry counts for its maker.
LEMMA TranscriptsCounted ==
    ASSUME NEW S, NEW seq \in Seq(S), NEW x \in S, NEW j
    PROVE  /\ Count(seq, j) \in Nat
           /\ Count(Append(seq, x), j) =
                 IF x = j THEN Count(seq, j) + 1 ELSE Count(seq, j)
<1> DEFINE new == Append(seq, x)
           A == {i \in DOMAIN seq : seq[i] = j}
           B == {i \in DOMAIN new : new[i] = j}
<1>1. Len(seq) \in Nat /\ DOMAIN seq = 1 .. Len(seq)
  BY LenProperties
<1>2. /\ DOMAIN new = 1 .. Len(seq) + 1 /\ new[Len(seq) + 1] = x
      /\ \A i \in 1 .. Len(seq) : new[i] = seq[i]
  BY AppendProperties, LenProperties
<1>3. IsFiniteSet(A)
  <2>1. A \in SUBSET (1 .. Len(seq))
    BY <1>1
  <2> HIDE DEF A
  <2>2. IsFiniteSet(1 .. Len(seq))
    BY <1>1, FS_Interval
  <2>3. QED
    BY <2>1, <2>2, FS_Subset
<1>4. Len(seq) + 1 \notin A
  BY <1>1
<1>5. B = IF x = j THEN A \cup {Len(seq) + 1} ELSE A
  BY <1>1, <1>2
<1>6. Count(seq, j) = Cardinality(A) /\ Count(new, j) = Cardinality(B)
  BY DEF Count
<1> HIDE DEF A, B
<1>7. Cardinality(A) \in Nat
  BY <1>3, FS_CardinalityType
<1>8. CASE x = j
  <2>1. B = A \cup {Len(seq) + 1}
    BY <1>5, <1>8
  <2>2. Cardinality(A \cup {Len(seq) + 1}) = Cardinality(A) + 1
    BY <1>3, <1>4, FS_AddElement
  <2>3. QED
    BY <1>6, <1>7, <1>8, <2>1, <2>2
<1>9. CASE x # j
  BY <1>5, <1>6, <1>7, <1>9
<1>10. QED
  BY <1>8, <1>9

\* The same of summaries.
LEMMA SummariesCounted ==
    ASSUME NEW S, NEW seq \in Seq(S), NEW x \in S, NEW j
    PROVE  /\ CountBy(seq, j) \in Nat
           /\ CountBy(Append(seq, x), j) =
                 IF x.by = j THEN CountBy(seq, j) + 1 ELSE CountBy(seq, j)
<1> DEFINE new == Append(seq, x)
           A == {i \in DOMAIN seq : seq[i].by = j}
           B == {i \in DOMAIN new : new[i].by = j}
<1>1. Len(seq) \in Nat /\ DOMAIN seq = 1 .. Len(seq)
  BY LenProperties
<1>2. /\ DOMAIN new = 1 .. Len(seq) + 1 /\ new[Len(seq) + 1] = x
      /\ \A i \in 1 .. Len(seq) : new[i] = seq[i]
  BY AppendProperties, LenProperties
<1>3. IsFiniteSet(A)
  <2>1. A \in SUBSET (1 .. Len(seq))
    BY <1>1
  <2> HIDE DEF A
  <2>2. IsFiniteSet(1 .. Len(seq))
    BY <1>1, FS_Interval
  <2>3. QED
    BY <2>1, <2>2, FS_Subset
<1>4. Len(seq) + 1 \notin A
  BY <1>1
<1>5. B = IF x.by = j THEN A \cup {Len(seq) + 1} ELSE A
  BY <1>1, <1>2
<1>6. CountBy(seq, j) = Cardinality(A) /\ CountBy(new, j) = Cardinality(B)
  BY DEF CountBy
<1> HIDE DEF A, B
<1>7. Cardinality(A) \in Nat
  BY <1>3, FS_CardinalityType
<1>8. CASE x.by = j
  <2>1. B = A \cup {Len(seq) + 1}
    BY <1>5, <1>8
  <2>2. Cardinality(A \cup {Len(seq) + 1}) = Cardinality(A) + 1
    BY <1>3, <1>4, FS_AddElement
  <2>3. QED
    BY <1>6, <1>7, <1>8, <2>1, <2>2
<1>9. CASE x.by # j
  BY <1>5, <1>6, <1>7, <1>9
<1>10. QED
  BY <1>8, <1>9

\* The workers busy with a job, and how one session's step changes their number.
At(j) == Cardinality({s \in Worker : session[s].job = j})

\* How many workers are at a job changes only with the one that moves.
LEMMA WorkersCounted ==
    ASSUME session \in [Session -> Sessions], NEW s \in Session, NEW new \in Sessions,
           session' = [session EXCEPT ![s] = new], NEW j
    PROVE  /\ At(j) \in Nat /\ At(j)' \in Nat
           /\ session[s].job = new.job => At(j)' = At(j)
           /\ s \in Worker /\ session[s].job = j /\ new.job # j => At(j)' = At(j) - 1
           /\ s \in Worker /\ session[s].job # j /\ new.job = j => At(j)' = At(j) + 1
           /\ session[s].job # j /\ new.job # j => At(j)' = At(j)
           /\ new.job # j => At(j)' <= At(j)
<1> DEFINE A == {t \in Worker : session[t].job = j}
           B == {t \in Worker : session'[t].job = j}
<1>1. IsFiniteSet(A) /\ IsFiniteSet(B)
  BY WorkersAreFinite, FS_Subset
<1>2. session'[s] = new /\ \A t \in Worker \ {s} : session'[t] = session[t]
  BY DEF Session
<1>3. /\ session[s].job = new.job => B = A
      /\ session[s].job # j /\ new.job # j => B = A
      /\ new.job # j => B = A \ {s}
      /\ s \in Worker /\ new.job = j => B = A \cup {s}
      /\ s \in Worker => (s \in A <=> session[s].job = j)
  BY <1>2
<1>4. At(j) = Cardinality(A) /\ At(j)' = Cardinality(B)
  BY DEF At
<1> HIDE DEF A, B
<1>5. At(j) \in Nat /\ At(j)' \in Nat
  BY <1>1, <1>4, FS_CardinalityType
<1>6. new.job # j => At(j)' = IF s \in A THEN At(j) - 1 ELSE At(j)
  BY <1>1, <1>3, <1>4, FS_RemoveElement
<1>7. s \in Worker /\ new.job = j => At(j)' = IF s \in A THEN At(j) ELSE At(j) + 1
  BY <1>1, <1>3, <1>4, FS_AddElement
<1>8. QED
  BY <1>3, <1>4, <1>5, <1>6, <1>7

\* A session that keeps its task, or is still without one.
LEMMA SameTask ==
    ASSUME session \in [Session -> Sessions], NEW s \in Session, NEW new \in Sessions,
           session' = [session EXCEPT ![s] = new], new.job = session[s].job, NEW j
    PROVE  At(j) \in Nat /\ At(j)' = At(j)
BY WorkersCounted

\* A worker that gets a task.
LEMMA NewTask ==
    ASSUME session \in [Session -> Sessions], NEW s \in Session, NEW new \in Sessions,
           session' = [session EXCEPT ![s] = new], s \in Worker,
           session[s].job = NoJob, NEW j \in Job
    PROVE  /\ At(j) \in Nat /\ At(j)' \in Nat
           /\ At(j)' = IF new.job = j THEN At(j) + 1 ELSE At(j)
<1>1. session[s].job # j
  BY NoJobIsNoJob
<1>2. CASE new.job = j
  BY <1>1, <1>2, WorkersCounted
<1>3. CASE new.job # j
  BY <1>1, <1>3, WorkersCounted
<1>4. QED
  BY <1>2, <1>3

\* Both tables count in natural numbers.
LEMMA VersionsAreCounted ==
    ASSUME IndInv, NEW j
    PROVE  /\ VersionsBy(j) \in Nat
           /\ Count(transcripts, j) \in Nat /\ CountBy(summaries, j) \in Nat
<1>1. transcripts \in Seq(Job \cup {NoJob}) /\ summaries \in Seq(Summaries)
  BY InHand DEF Typed
<1> DEFINE A == {i \in DOMAIN transcripts : transcripts[i] = j}
           B == {i \in DOMAIN summaries : summaries[i].by = j}
<1>2. A \in SUBSET (1 .. Len(transcripts)) /\ B \in SUBSET (1 .. Len(summaries))
         /\ Len(transcripts) \in Nat /\ Len(summaries) \in Nat
  BY <1>1, LenProperties
<1>3. /\ VersionsBy(j) = Cardinality(A) + Cardinality(B)
      /\ Count(transcripts, j) = Cardinality(A) /\ CountBy(summaries, j) = Cardinality(B)
  BY DEF VersionsBy, Count, CountBy
<1> HIDE DEF A, B
<1>4. IsFiniteSet(1 .. Len(transcripts)) /\ IsFiniteSet(1 .. Len(summaries))
  BY <1>2, FS_Interval
<1>5. IsFiniteSet(A) /\ IsFiniteSet(B)
  BY <1>2, <1>4, FS_Subset
<1>6. Cardinality(A) \in Nat /\ Cardinality(B) \in Nat
  BY <1>5, FS_CardinalityType
<1>7. QED
  BY <1>3, <1>6

\* A job nobody asked for keeps no worker busy.
LEMMA UnaskedIsQuiet ==
    ASSUME IndInv, NEW j \in Job, job[j].kind = "none"
    PROVE  At(j) = 0 /\ \A s \in Session : session[s].job # j
<1>1. \A s \in Session : session[s].job # j
  BY InHand, NoJobIsNoJob DEF SessionFits
<1>2. {s \in Worker : session[s].job = j} = {}
  BY <1>1 DEF Session
<1>3. QED
  BY <1>1, <1>2, FS_EmptySet DEF At

\* Workers count in natural numbers.
LEMMA WorkersAreCounted ==
    ASSUME NEW j PROVE At(j) \in Nat
<1>1. IsFiniteSet({s \in Worker : session[s].job = j})
  BY WorkersAreFinite, FS_Subset
<1>2. QED
  BY <1>1, FS_CardinalityType DEF At

-------------------------------------------------------------------------------
(* The content stays as it is. *)

\* What a step on rows, messages and sessions has to keep.
LEMMA ContentStays ==
    ASSUME IndInv, Typed', UNCHANGED content,
           \A j \in Job : job'[j].status = "succeeded" => job[j].status = "succeeded",
           \A j \in Job : RowFits(j)', \A s \in Session : SessionFits(s)',
           faults <= faults',
           \A j \in Job :
              \/ messages'[j] + At(j)' <= messages[j] + At(j) + (faults' - faults)
              \/ messages'[j] + At(j)' <= 1 /\ VersionsBy(j) = 0
    PROVE  IndInv'
<1>1. SummariesOfTranscripts' /\ NewestIsCurrent'
  BY InHand DEF content, SummariesOfTranscripts, NewestIsCurrent
<1>2. SucceededLeftAVersion'
  BY InHand DEF content, SucceededLeftAVersion, Makers
<1>3. ASSUME NEW j \in Job PROVE (VersionsBy(j) + Deliveries(j) <= 1 + faults)'
  <2>1. VersionsBy(j)' = VersionsBy(j)
    BY DEF content, VersionsBy
  <2>2. /\ Deliveries(j) = messages[j] + At(j)
        /\ Deliveries(j)' = messages'[j] + At(j)'
    BY DEF Deliveries, At
  <2>3. VersionsBy(j) \in Nat /\ At(j) \in Nat /\ At(j)' \in Nat
    <3>1. At(j)' \in Nat
      <4>1. IsFiniteSet({s \in Worker : session'[s].job = j})
        BY WorkersAreFinite, FS_Subset
      <4>2. QED
        BY <4>1, FS_CardinalityType DEF At
    <3>2. QED
      BY <3>1, VersionsAreCounted, WorkersAreCounted
  <2>4. /\ faults \in Nat /\ faults' \in Nat
        /\ messages[j] \in Nat /\ messages'[j] \in Nat
    BY InHand, BoundsAreNatural DEF Typed
  <2>5. VersionsBy(j) + Deliveries(j) <= 1 + faults
    BY InHand DEF OneVersionPerDelivery
  <2>6. CASE messages'[j] + At(j)' <= messages[j] + At(j) + (faults' - faults)
    BY <2>1, <2>2, <2>3, <2>4, <2>5, <2>6
  <2>7. CASE messages'[j] + At(j)' <= 1 /\ VersionsBy(j) = 0
    BY <2>1, <2>2, <2>3, <2>4, <2>7
  <2>8. QED
    BY <2>6, <2>7
<1>4. QED
  BY <1>1, <1>2, <1>3, Rebuilt DEF OneVersionPerDelivery

\* Requests that write one row and may send its message.
LEMMA RowStep ==
    ASSUME IndInv, UNCHANGED <<content, session>>, NEW j \in Job, NEW new \in Rows,
           job' = [job EXCEPT ![j] = new], new.kind # "none",
           new.kind = "summary" => new.base \in 1 .. Len(transcripts),
           new.status = "succeeded" => job[j].status = "succeeded",
           \/ UNCHANGED <<messages, faults>>
           \/ /\ messages' = [messages EXCEPT ![j] = @ + 1]
              /\ \/ faults < MaxFaults /\ faults' = faults + 1
                 \/ job[j].kind = "none" /\ faults' = faults
    PROVE  IndInv'
<1>1. /\ job \in [Job -> Rows] /\ messages \in [Job -> Nat]
      /\ faults \in Nat /\ MaxFaults \in Nat
  BY InHand, BoundsAreNatural DEF Typed
<1>2. job'[j] = new /\ \A i \in Job \ {j} : job'[i] = job[i] /\ messages'[i] = messages[i]
  BY <1>1
<1>3. /\ messages' \in [Job -> Nat] /\ faults' \in 0 .. MaxFaults /\ faults <= faults'
      /\ job' \in [Job -> Rows]
  BY <1>1, InHand DEF Typed
<1>4. Typed'
  BY <1>3, InHand DEF Typed, content
<1>5. \A i \in Job : job'[i].status = "succeeded" => job[i].status = "succeeded"
  BY <1>2
<1>6. \A i \in Job : RowFits(i)'
  BY <1>2, InHand DEF RowFits, content, VersionsBy
<1>7. \A s \in Session : SessionFits(s)'
  BY <1>2, InHand DEF SessionFits, content
<1>8. ASSUME NEW i \in Job
      PROVE  \/ messages'[i] + At(i)' <= messages[i] + At(i) + (faults' - faults)
             \/ messages'[i] + At(i)' <= 1 /\ VersionsBy(i) = 0
  <2>1. At(i)' = At(i) /\ At(i) \in Nat
    BY WorkersAreCounted DEF At
  <2>2. CASE i # j
    BY <1>1, <1>2, <1>3, <2>1, <2>2
  <2>3. CASE i = j /\ job[j].kind = "none"
    <3>1. At(i) = 0 /\ messages[i] = 0 /\ VersionsBy(i) = 0
      BY <2>3, UnaskedIsQuiet, InHand DEF RowFits
    <3>2. messages'[i] <= 1
      BY <1>1, <2>3, <3>1
    <3>3. QED
      BY <1>3, <2>1, <3>1, <3>2
  <2>4. CASE i = j /\ job[j].kind # "none"
    <3>1. messages'[i] <= messages[i] + (faults' - faults)
      BY <1>1, <2>4
    <3>2. QED
      BY <1>1, <1>3, <2>1, <3>1
  <2>5. QED
    BY <2>2, <2>3, <2>4
<1>9. QED
  BY <1>3, <1>4, <1>5, <1>6, <1>7, <1>8, ContentStays

\* Requests for jobs, their retries and cancellations, the sweeper and the
\* publisher.
LEMMA JobStepKeeps ==
    ASSUME IndInv, NEW j \in Job, JobStep(j)
    PROVE  IndInv'
<1>1. /\ job \in [Job -> Rows] /\ audio \in Audio /\ Len(transcripts) \in Nat
      /\ audio.transcript = Len(transcripts)
  BY InHand, LenProperties DEF Typed, NewestIsCurrent
<1>2. audio.transcript \in 0 .. MaxVersions /\ 0 \in 0 .. MaxVersions
  BY <1>1, BoundsAreNatural DEF Audio
<1>3. ASSUME NEW kind \in Kinds, Request(j, kind) PROVE IndInv'
  <2> DEFINE base == IF kind = "summary" THEN audio.transcript ELSE 0
             new == [NoRow EXCEPT !.kind = kind, !.status = "queued", !.base = base]
  <2>1. /\ base \in 0 .. MaxVersions
        /\ kind = "summary" => base \in 1 .. Len(transcripts)
    BY <1>1, <1>2, <1>3 DEF Request
  <2>2. job' = [job EXCEPT ![j] = new]
    BY <1>3 DEF Request
  <2>3. /\ job[j].kind = "none" /\ messages' = [messages EXCEPT ![j] = @ + 1]
        /\ UNCHANGED <<content, session, faults>>
    BY <1>3 DEF Request
  <2> HIDE DEF base
  <2>4. new \in Rows /\ new.kind = kind /\ new.kind # "none" /\ new.base = base
           /\ new.status = "queued"
    <3>1. NoRow \in Rows
      BY <1>2 DEF NoRow, Rows
    <3>2. QED
      BY <2>1, <3>1 DEF Rows, Kinds, Active
  <2> HIDE DEF new
  <2>5. QED
    BY <2>1, <2>2, <2>3, <2>4, RowStep
<1>4. ASSUME NEW c \in Job, Retry(j, c) PROVE IndInv'
  <2> DEFINE new == [job[j] EXCEPT !.status = "queued", !.parent = j,
                                   !.cancel_requested = FALSE]
  <2>1. /\ job[j] \in Rows /\ job[j].status \in {"failed", "cancelled"}
        /\ job' = [job EXCEPT ![c] = new] /\ job[c].kind = "none"
        /\ messages' = [messages EXCEPT ![c] = @ + 1]
        /\ UNCHANGED <<content, session, faults>>
    BY <1>1, <1>4 DEF Retry
  <2>2. RowFits(j)
    BY InHand
  <2>3. new \in Rows /\ new.kind = job[j].kind /\ new.base = job[j].base
           /\ new.status = "queued"
    BY <2>1 DEF Rows, Active
  <2>4. new.kind # "none" /\ (new.kind = "summary" => new.base \in 1 .. Len(transcripts))
    BY <2>1, <2>2, <2>3 DEF RowFits
  <2> HIDE DEF new
  <2>5. QED
    BY <2>1, <2>3, <2>4, RowStep
<1>5. RowFits(j) /\ job[j] \in Rows
  BY <1>1, InHand
<1>6. CASE Cancel(j)
  <2> DEFINE new == [job[j] EXCEPT !.cancel_requested = TRUE]
  <2>1. new \in Rows /\ new.kind = job[j].kind /\ new.base = job[j].base
           /\ new.status = job[j].status
    BY <1>5 DEF Rows
  <2>2. /\ job' = [job EXCEPT ![j] = new] /\ job[j].status # "absent"
        /\ UNCHANGED <<content, session, messages, faults>>
    BY <1>6 DEF Cancel, Active
  <2> HIDE DEF new
  <2>3. QED
    BY <1>5, <2>1, <2>2, RowStep DEF RowFits
<1>7. CASE Sweep(j)
  <2> DEFINE new == [job[j] EXCEPT !.status = "failed"]
  <2>1. new \in Rows /\ new.kind = job[j].kind /\ new.base = job[j].base
           /\ new.status = "failed"
    BY <1>5 DEF Rows, Terminal
  <2>2. /\ job' = [job EXCEPT ![j] = new] /\ job[j].status # "absent"
        /\ UNCHANGED <<content, session, messages, faults>>
    BY <1>7 DEF Sweep
  <2> HIDE DEF new
  <2>3. QED
    BY <1>5, <2>1, <2>2, RowStep DEF RowFits
<1>8. CASE Duplicate(j)
  <2>1. job' = [job EXCEPT ![j] = job[j]]
    BY <1>1, <1>8 DEF Duplicate
  <2>2. QED
    BY <1>5, <1>8, <2>1, RowStep DEF Duplicate, RowFits
<1>9. QED
  BY <1>3, <1>4, <1>6, <1>7, <1>8 DEF JobStep

\* The rows after an executor wrote a status: kinds and bases stay, and only
\* the row of its own job moves, to the status written if at all.
RowsAlike ==
    /\ job' \in [Job -> Rows]
    /\ \A j \in Job : job'[j].kind = job[j].kind /\ job'[j].base = job[j].base
    /\ \A j \in Job : job[j].kind = "none" => job'[j] = job[j]

\* An executor that writes its outcome changes the status of its job alone.
LEMMA WritesFacts ==
    ASSUME IndInv, NEW s \in Session, session[s].at \in Executors,
           NEW status \in Active \cup Terminal, Writes(s, status)
    PROVE  /\ RowsAlike
           /\ \A j \in Job : \/ job'[j].status = job[j].status
                             \/ j = session[s].job /\ job'[j].status = status
<1>1. PICK j \in Job : j = session[s].job
  BY InHand DEF SessionFits
<1>2. job \in [Job -> Rows] /\ job[j] \in Rows /\ job[j].kind # "none"
  BY <1>1, InHand DEF Typed, SessionFits
<1> DEFINE written == Flushed(job[j].status, session[s].row.status, status)
<1>3. written \in {job[j].status, status}
  BY DEF Flushed
<1>4. job' = [job EXCEPT ![j] = [job[j] EXCEPT !.status = written]]
  BY <1>1 DEF Writes
<1>5. written \in Active \cup Terminal \cup {"absent"}
  BY <1>2, <1>3 DEF Rows
<1> HIDE DEF written
<1>6. [job[j] EXCEPT !.status = written] \in Rows
  BY <1>2, <1>5 DEF Rows
<1>7. /\ [job[j] EXCEPT !.status = written].kind = job[j].kind
      /\ [job[j] EXCEPT !.status = written].base = job[j].base
      /\ [job[j] EXCEPT !.status = written].status = written
  BY <1>2 DEF Rows
<1>8. /\ job'[j] = [job[j] EXCEPT !.status = written]
      /\ \A i \in Job \ {j} : job'[i] = job[i]
      /\ job' \in [Job -> Rows]
  BY <1>2, <1>4, <1>6
<1>9. QED
  BY <1>1, <1>2, <1>3, <1>7, <1>8 DEF RowsAlike

\* One session moves, and its job's row with it; a message may be taken or
\* returned.
LEMMA SessionStep ==
    ASSUME IndInv, UNCHANGED content, NEW s \in Session, NEW new \in Sessions,
           session' = [session EXCEPT ![s] = new], RowsAlike,
           \A j \in Job : job'[j].status = "succeeded" => job[j].status = "succeeded",
           IF new.at \in Executors
           THEN /\ new.job \in Job /\ job[new.job].kind # "none"
                /\ new.row.kind = "summary" => new.row.base \in 1 .. Len(transcripts)
           ELSE new.job = NoJob,
           messages' \in [Job -> Nat], faults' \in 0 .. MaxFaults, faults <= faults',
           \A j \in Job :
              /\ messages'[j] + At(j)' <= messages[j] + At(j) + (faults' - faults)
              /\ job[j].kind = "none" => messages'[j] = 0
    PROVE  IndInv'
<1>1. session' \in [Session -> Sessions] /\ session'[s] = new
         /\ \A t \in Session \ {s} : session'[t] = session[t]
  BY InHand DEF Typed
<1>2. Typed'
  BY <1>1, InHand DEF Typed, content, RowsAlike
<1>3. ASSUME NEW j \in Job PROVE RowFits(j)'
  <2>1. VersionsBy(j)' = VersionsBy(j) /\ Len(transcripts') = Len(transcripts)
    BY DEF content, VersionsBy
  <2>2. RowFits(j) /\ (job[j].kind = "none" => messages'[j] = 0)
    BY InHand
  <2>3. QED
    BY <2>1, <2>2 DEF RowFits, RowsAlike, content
<1>4. \A t \in Session : SessionFits(t)'
  BY <1>1, InHand, NoJobIsNoJob DEF SessionFits, RowsAlike, content
<1>5. QED
  BY <1>2, <1>3, <1>4, ContentStays

\* Where a session goes when it is done.
LEMMA IdleFacts ==
    Idle \in Sessions /\ Idle.at \notin Executors /\ Idle.job = NoJob
BY BoundsAreNatural DEF Idle, Sessions, NoRow, Rows, Blank, Audio, Statuses, Executors

\* What is known of a worker with a task.
LEMMA AtWork ==
    ASSUME IndInv, NEW s \in Worker, session[s].at \in Executors
    PROVE  /\ s \in Session /\ session[s] \in Sessions /\ session[s].row \in Rows
           /\ session[s].job \in Job /\ job[session[s].job].kind # "none"
           /\ session[s].row.kind = "summary" =>
                 session[s].row.base \in 1 .. Len(transcripts)
BY InHand DEF Typed, SessionFits, Session, Sessions

\* A session with a task.
LEMMA TaskStep ==
    ASSUME IndInv, UNCHANGED content, NEW s \in Session, NEW new \in Sessions,
           session' = [session EXCEPT ![s] = new], RowsAlike,
           \A j \in Job : job'[j].status = "succeeded" => job[j].status = "succeeded",
           new.at \in Executors, new.job \in Job, job[new.job].kind # "none",
           new.row.kind = "summary" => new.row.base \in 1 .. Len(transcripts),
           messages' \in [Job -> Nat], UNCHANGED faults,
           \A j \in Job :
              /\ messages'[j] + At(j)' <= messages[j] + At(j)
              /\ job[j].kind = "none" => messages'[j] = 0
    PROVE  IndInv'
<1>1. faults \in 0 .. MaxFaults /\ faults \in Nat /\ messages \in [Job -> Nat]
  BY InHand, BoundsAreNatural DEF Typed
<1>2. ASSUME NEW j \in Job
      PROVE  /\ messages'[j] + At(j)' <= messages[j] + At(j) + (faults' - faults)
             /\ job[j].kind = "none" => messages'[j] = 0
  <2>1. At(j) \in Nat /\ messages[j] \in Nat
    BY <1>1, WorkersAreCounted
  <2>2. faults' - faults = 0
    BY <1>1
  <2>3. messages[j] + At(j) + (faults' - faults) = messages[j] + At(j)
    BY <2>1, <2>2
  <2>4. QED
    BY <2>3
<1>3. faults' \in 0 .. MaxFaults /\ faults <= faults'
  BY <1>1
<1>4. IF new.at \in Executors
      THEN /\ new.job \in Job /\ job[new.job].kind # "none"
           /\ new.row.kind = "summary" => new.row.base \in 1 .. Len(transcripts)
      ELSE new.job = NoJob
  OBVIOUS
<1>5. QED
  BY <1>2, <1>3, <1>4, SessionStep

\* A session without one.
LEMMA FreeStep ==
    ASSUME IndInv, UNCHANGED <<content, job, faults>>, NEW s \in Session,
           NEW new \in Sessions, session' = [session EXCEPT ![s] = new],
           session[s].job = NoJob, new.job = NoJob, new.at \notin Executors,
           messages' \in [Job -> Nat], \A j \in Job : messages'[j] <= messages[j]
    PROVE  IndInv'
<1>1. /\ faults \in 0 .. MaxFaults /\ faults \in Nat /\ messages \in [Job -> Nat]
      /\ session \in [Session -> Sessions] /\ job \in [Job -> Rows]
  BY InHand, BoundsAreNatural DEF Typed
<1>2. ASSUME NEW j \in Job
      PROVE  /\ messages'[j] + At(j)' <= messages[j] + At(j) + (faults' - faults)
             /\ job[j].kind = "none" => messages'[j] = 0
  <2>1. At(j) \in Nat /\ At(j)' = At(j)
    BY <1>1, SameTask
  <2>2. messages[j] \in Nat /\ messages'[j] \in Nat /\ messages'[j] <= messages[j]
           /\ faults' = faults
    BY <1>1
  <2>3. job[j].kind = "none" => messages'[j] = 0
    BY <2>2, InHand DEF RowFits
  <2>4. QED
    BY <1>1, <2>1, <2>2, <2>3
<1>3. faults' \in 0 .. MaxFaults /\ faults <= faults'
  BY <1>1
<1>4. RowsAlike /\ \A j \in Job : job'[j].status = "succeeded" => job[j].status = "succeeded"
  BY <1>1 DEF RowsAlike
<1>5. IF new.at \in Executors
      THEN /\ new.job \in Job /\ job[new.job].kind # "none"
           /\ new.row.kind = "summary" => new.row.base \in 1 .. Len(transcripts)
      ELSE new.job = NoJob
  OBVIOUS
<1>6. QED
  BY <1>2, <1>3, <1>4, <1>5, SessionStep

\* A task that ends without a version; its message comes back if the worker
\* is lost.
LEMMA TaskEnds ==
    ASSUME IndInv, UNCHANGED content, NEW s \in Worker, session[s].at \in Executors,
           Ends(s), RowsAlike,
           \A j \in Job : job'[j].status = "succeeded" => job[j].status = "succeeded",
           \/ UNCHANGED <<messages, faults>>
           \/ /\ messages' = [messages EXCEPT ![session[s].job] = @ + 1]
              /\ faults < MaxFaults /\ faults' = faults + 1
    PROVE  IndInv'
<1>1. /\ s \in Session /\ session[s].job \in Job /\ job[session[s].job].kind # "none"
      /\ session \in [Session -> Sessions] /\ messages \in [Job -> Nat]
      /\ faults \in Nat /\ MaxFaults \in Nat /\ faults \in 0 .. MaxFaults
  BY AtWork, InHand, BoundsAreNatural DEF Typed
<1>2. Idle \in Sessions /\ Idle.at \notin Executors /\ Idle.job = NoJob
  BY IdleFacts
<1>3. session' = [session EXCEPT ![s] = Idle]
  BY DEF Ends
<1>4. /\ messages' \in [Job -> Nat] /\ faults' \in 0 .. MaxFaults /\ faults <= faults'
      /\ \A j \in Job : messages'[j] <= messages[j] + (faults' - faults)
      /\ \A j \in Job : j # session[s].job => messages'[j] = messages[j]
  BY <1>1
<1>5. ASSUME NEW j \in Job
      PROVE  /\ messages'[j] + At(j)' <= messages[j] + At(j) + (faults' - faults)
             /\ job[j].kind = "none" => messages'[j] = 0
  <2>1. At(j) \in Nat /\ At(j)' \in Nat /\ At(j)' <= At(j)
    BY <1>1, <1>2, <1>3, WorkersCounted, NoJobIsNoJob
  <2>2. messages[j] \in Nat /\ messages'[j] \in Nat /\ faults' \in Nat
    BY <1>1, <1>4
  <2>3. job[j].kind = "none" => messages'[j] = 0
    BY <1>1, <1>4, InHand DEF RowFits
  <2>4. messages'[j] <= messages[j] + (faults' - faults)
    BY <1>4
  <2>5. QED
    BY <1>1, <2>1, <2>2, <2>3, <2>4
<1>6. QED
  BY <1>1, <1>2, <1>3, <1>4, <1>5, SessionStep

\* A delivery: the message becomes the worker's task.
LEMMA LoadKeeps ==
    ASSUME IndInv, NEW s \in Worker, NEW j \in Job, Load(s, j)
    PROVE  IndInv'
<1>1. /\ s \in Session /\ session \in [Session -> Sessions] /\ session[s] \in Sessions
      /\ messages \in [Job -> Nat] /\ messages[j] > 0
      /\ faults \in Nat /\ faults \in 0 .. MaxFaults
      /\ session[s].at = "idle" /\ session[s].job = NoJob
      /\ job \in [Job -> Rows] /\ audio \in Audio
      /\ UNCHANGED <<content, job, faults>>
  BY InHand, BoundsAreNatural DEF Typed, SessionFits, Session, Load, Executors
<1>2. RowsAlike
  BY <1>1 DEF RowsAlike
<1>3. job[j].kind # "none" /\ RowFits(j)
  BY <1>1, InHand DEF RowFits
<1>4. /\ messages' \in [Job -> Nat]
      /\ messages'[j] = messages[j] - 1
      /\ \A i \in Job \ {j} : messages'[i] = messages[i]
  BY <1>1 DEF Load
<1>5. \A i \in Job : job[i].kind = "none" => messages'[i] = 0
  BY <1>3, <1>4, InHand DEF RowFits
<1> DEFINE new == [at |-> "starting", job |-> j, row |-> job[j], audio |-> audio]
<1>6. new \in Sessions /\ new.at \in Executors /\ new.job = j /\ new.row = job[j]
  BY <1>1 DEF Sessions, Executors
<1>7. CASE session' = [session EXCEPT ![s] = new]
  <2> HIDE DEF new
  <2>1. ASSUME NEW i \in Job
        PROVE  /\ messages'[i] + At(i)' <= messages[i] + At(i)
               /\ job[i].kind = "none" => messages'[i] = 0
    <3>1. /\ At(i) \in Nat /\ At(i)' \in Nat
          /\ At(i)' = IF new.job = i THEN At(i) + 1 ELSE At(i)
      BY <1>1, <1>6, <1>7, NewTask
    <3>2. messages[i] \in Nat
      BY <1>1
    <3>3. QED
      BY <1>1, <1>4, <1>5, <1>6, <3>1, <3>2
  <2>2. new.row.kind = "summary" => new.row.base \in 1 .. Len(transcripts)
    BY <1>3, <1>6 DEF RowFits
  <2>3. QED
    BY <1>1, <1>2, <1>3, <1>4, <1>6, <1>7, <2>1, <2>2, TaskStep
<1>8. CASE session' = session
  <2>1. session' = [session EXCEPT ![s] = session[s]]
    BY <1>1, <1>8
  <2>2. session[s].at \notin Executors
    BY <1>1 DEF Executors
  <2>3. \A i \in Job : messages'[i] <= messages[i]
    BY <1>1, <1>4
  <2>4. QED
    BY <1>1, <1>4, <2>1, <2>2, <2>3, FreeStep
<1>9. QED
  BY <1>7, <1>8 DEF Load

\* The job is marked as running, whatever its row has become.
LEMMA StartKeeps ==
    ASSUME IndInv, NEW s \in Worker, Start(s)
    PROVE  IndInv'
<1>1. session[s].at \in Executors
  BY DEF Start, Executors
<1>2. /\ s \in Session /\ session[s] \in Sessions /\ session[s].row \in Rows
      /\ session[s].job \in Job /\ job[session[s].job].kind # "none"
      /\ session[s].row.kind = "summary" => session[s].row.base \in 1 .. Len(transcripts)
      /\ session \in [Session -> Sessions] /\ messages \in [Job -> Nat]
      /\ faults \in Nat /\ faults \in 0 .. MaxFaults
  BY <1>1, AtWork, InHand, BoundsAreNatural DEF Typed
<1>3. /\ RowsAlike
      /\ \A j \in Job : job'[j].status = "succeeded" => job[j].status = "succeeded"
  <2>1. Writes(s, "running") /\ "running" \in Active \cup Terminal
    BY DEF Start, Active
  <2>2. QED
    BY <1>1, <1>2, <2>1, WritesFacts
<1> DEFINE row == [session[s].row EXCEPT !.status = "running"]
           new == [session[s] EXCEPT !.at = "calling", !.row = row]
<1>4. row \in Rows /\ row.kind = session[s].row.kind /\ row.base = session[s].row.base
  BY <1>2 DEF Rows, Active
<1>5. session' = [session EXCEPT ![s] = new]
  BY <1>2 DEF Start, Sessions
<1> HIDE DEF row
<1>6. /\ new \in Sessions /\ new.at \in Executors
      /\ new.job = session[s].job /\ new.row = row
  BY <1>2, <1>4 DEF Sessions, Executors
<1> HIDE DEF new
<1>7. UNCHANGED <<content, messages, faults>>
  BY DEF Start
<1>8. ASSUME NEW j \in Job
      PROVE  /\ messages'[j] + At(j)' <= messages[j] + At(j)
             /\ job[j].kind = "none" => messages'[j] = 0
  <2>1. At(j) \in Nat /\ At(j)' = At(j)
    BY <1>2, <1>5, <1>6, SameTask
  <2>2. messages[j] \in Nat /\ messages'[j] = messages[j]
    BY <1>2, <1>7
  <2>3. QED
    BY <2>1, <2>2, InHand DEF RowFits
<1>9. messages' \in [Job -> Nat]
  BY <1>2, <1>7
<1>10. new.row.kind = "summary" => new.row.base \in 1 .. Len(transcripts)
  BY <1>2, <1>4, <1>6
<1>11. QED
  BY <1>2, <1>3, <1>5, <1>6, <1>7, <1>8, <1>9, <1>10, TaskStep

\* Tasks that end without a version.
LEMMA EndKeeps ==
    ASSUME IndInv, NEW s \in Worker,
           ReturnEarly(s) \/ StartClashes(s) \/ Fails(s) \/ Crash(s)
    PROVE  IndInv'
<1>1. /\ session[s].at \in Executors /\ s \in Session /\ Ends(s) /\ UNCHANGED content
      /\ job \in [Job -> Rows]
  BY InHand DEF ReturnEarly, StartClashes, Fails, Crash, Executors, Session, Typed
<1>2. RowsAlike /\ \A j \in Job : job'[j].status = "succeeded" => job[j].status = "succeeded"
  <2>1. CASE UNCHANGED job
    BY <1>1, <2>1 DEF RowsAlike
  <2>2. CASE \E status \in {"cancelled", "failed"} : Writes(s, status)
    BY <1>1, <2>2, WritesFacts DEF Terminal
  <2>3. QED
    BY <2>1, <2>2 DEF ReturnEarly, StartClashes, Fails, Crash
<1>3. \/ UNCHANGED <<messages, faults>>
      \/ /\ messages' = [messages EXCEPT ![session[s].job] = @ + 1]
         /\ faults < MaxFaults /\ faults' = faults + 1
  BY DEF ReturnEarly, StartClashes, Fails, Crash
<1>4. QED
  BY <1>1, <1>2, <1>3, TaskEnds

\* A client opens the recording, or gives up.
LEMMA ClientKeeps ==
    ASSUME IndInv, NEW s \in Client, Open(s) \/ Abandon(s)
    PROVE  IndInv'
<1>1. /\ s \in Session /\ session \in [Session -> Sessions] /\ session[s] \in Sessions
      /\ messages \in [Job -> Nat] /\ faults \in Nat /\ faults \in 0 .. MaxFaults
      /\ session[s].job = NoJob /\ job \in [Job -> Rows] /\ audio \in Audio
      /\ UNCHANGED <<content, job, messages, faults>>
  BY InHand, BoundsAreNatural
     DEF Typed, SessionFits, Session, Open, Abandon, Executors
<1>2. PICK new \in Sessions : /\ session' = [session EXCEPT ![s] = new]
                              /\ new.job = NoJob /\ new.at \notin Executors
  <2> DEFINE editing == [Idle EXCEPT !.at = "editing", !.audio = audio]
  <2>1. editing \in Sessions /\ editing.job = NoJob /\ editing.at \notin Executors
    BY <1>1, IdleFacts DEF Sessions, Executors
  <2>2. CASE Open(s)
    BY <2>1, <2>2 DEF Open
  <2>3. CASE Abandon(s)
    BY <2>3, IdleFacts DEF Abandon, Ends
  <2>4. QED
    BY <2>2, <2>3
<1>3. messages' \in [Job -> Nat] /\ \A j \in Job : messages'[j] <= messages[j]
  BY <1>1
<1>4. QED
  BY <1>1, <1>2, <1>3, FreeStep

-------------------------------------------------------------------------------
(* The content changes. *)

\* What a transaction that stores a version, or only writes the recording, has
\* to keep.
LEMMA ContentStep ==
    ASSUME IndInv, NEW s \in Session, Ends(s), UNCHANGED <<messages, faults>>,
           RowsAlike, audio' \in Audio, NewestIsCurrent',
           transcripts' \in Seq(Job \cup {NoJob}), summaries' \in Seq(Summaries),
           SummariesOfTranscripts', Len(transcripts) <= Len(transcripts'),
           Makers \subseteq Makers',
           \A j \in Job : job'[j].status = "succeeded" =>
              job[j].status = "succeeded" \/ j \in Makers',
           \A j \in Job : /\ VersionsBy(j)' + At(j)' <= VersionsBy(j) + At(j)
                          /\ VersionsBy(j)' \in Nat
                          /\ job[j].kind = "none" => VersionsBy(j)' = 0
    PROVE  IndInv'
<1>1. /\ session \in [Session -> Sessions] /\ messages \in [Job -> Nat] /\ faults \in Nat
      /\ Len(transcripts) \in Nat /\ Len(transcripts') \in Nat
  BY InHand, LenProperties, BoundsAreNatural DEF Typed
<1>2. /\ session' \in [Session -> Sessions] /\ session'[s] = Idle
      /\ \A t \in Session \ {s} : session'[t] = session[t]
  BY <1>1, IdleFacts DEF Ends
<1>3. Typed'
  BY <1>2, InHand DEF Typed, RowsAlike
<1>4. SucceededLeftAVersion'
  BY InHand DEF SucceededLeftAVersion
<1>5. ASSUME NEW j \in Job PROVE (VersionsBy(j) + Deliveries(j) <= 1 + faults)'
  <2>1. /\ Deliveries(j) = messages[j] + At(j)
        /\ Deliveries(j)' = messages[j] + At(j)'
    BY DEF Deliveries, At
  <2>2. VersionsBy(j) \in Nat /\ At(j) \in Nat /\ messages[j] \in Nat
    BY <1>1, VersionsAreCounted, WorkersAreCounted
  <2>3. At(j)' \in Nat
    BY <1>1, IdleFacts, WorkersCounted DEF Ends
  <2>4. VersionsBy(j) + Deliveries(j) <= 1 + faults
    BY InHand DEF OneVersionPerDelivery
  <2>5. VersionsBy(j)' \in Nat /\ VersionsBy(j)' + At(j)' <= VersionsBy(j) + At(j)
    OBVIOUS
  <2>6. VersionsBy(j)' + (messages[j] + At(j)') <= 1 + faults
    BY <1>1, <2>1, <2>2, <2>3, <2>4, <2>5
  <2>7. QED
    BY <2>1, <2>6
<1>6. ASSUME NEW j \in Job PROVE RowFits(j)'
  <2>1. RowFits(j)
    BY InHand
  <2>2. job[j].kind = "summary" => job[j].base \in 1 .. Len(transcripts')
    BY <1>1, <2>1 DEF RowFits
  <2>3. QED
    BY <2>1, <2>2 DEF RowFits, RowsAlike
<1>7. ASSUME NEW t \in Session PROVE SessionFits(t)'
  <2>1. CASE t = s
    BY <1>2, <2>1, IdleFacts DEF SessionFits
  <2>2. CASE t # s
    <3>1. SessionFits(t) /\ session'[t] = session[t]
      BY <1>2, <2>2, InHand
    <3>2. session[t].row.base \in 1 .. Len(transcripts) =>
             session[t].row.base \in 1 .. Len(transcripts')
      BY <1>1
    <3>3. QED
      BY <3>1, <3>2 DEF SessionFits, RowsAlike
  <2>3. QED
    BY <2>1, <2>2
<1>8. QED
  BY <1>3, <1>4, <1>5, <1>6, <1>7, Rebuilt DEF OneVersionPerDelivery

\* A transcript is appended by x: the sets and counts that grow.
LEMMA TranscriptAppended ==
    ASSUME IndInv, NEW x \in Job \cup {NoJob}, Len(transcripts) < MaxVersions,
           transcripts' = Append(transcripts, x), summaries' = summaries
    PROVE  /\ transcripts' \in Seq(Job \cup {NoJob}) /\ summaries' \in Seq(Summaries)
           /\ Len(transcripts') = Len(transcripts) + 1 /\ Len(transcripts) \in Nat
           /\ Len(transcripts') \in 0 .. MaxVersions
           /\ SummariesOfTranscripts' /\ Makers \subseteq Makers' /\ x \in Makers'
           /\ \A j : VersionsBy(j) \in Nat /\
                VersionsBy(j)' = IF x = j THEN VersionsBy(j) + 1 ELSE VersionsBy(j)
<1>1. /\ transcripts \in Seq(Job \cup {NoJob}) /\ summaries \in Seq(Summaries)
      /\ SummariesOfTranscripts
  BY InHand DEF Typed
<1>2. /\ Len(transcripts) \in Nat /\ DOMAIN transcripts = 1 .. Len(transcripts)
      /\ Len(summaries) \in Nat /\ DOMAIN summaries = 1 .. Len(summaries)
  BY <1>1, LenProperties
<1>3. /\ transcripts' \in Seq(Job \cup {NoJob})
      /\ Len(transcripts') = Len(transcripts) + 1
      /\ \A i \in 1 .. Len(transcripts) : transcripts'[i] = transcripts[i]
      /\ transcripts'[Len(transcripts) + 1] = x
  BY <1>1, AppendProperties
<1>4. DOMAIN transcripts' = 1 .. Len(transcripts) + 1
  BY <1>3, LenProperties
<1>5. SummariesOfTranscripts'
  <2>1. ASSUME NEW i \in DOMAIN summaries PROVE summaries[i].of <= Len(transcripts) + 1
    <3>1. summaries[i].of <= Len(transcripts) /\ summaries[i] \in Summaries
      BY <1>1, <1>2 DEF SummariesOfTranscripts
    <3>2. QED
      BY <1>2, <3>1, BoundsAreNatural DEF Summaries
  <2>2. QED
    BY <1>3, <2>1 DEF SummariesOfTranscripts
<1>6. Makers \subseteq Makers' /\ x \in Makers'
  <2>1. Len(transcripts) + 1 \in DOMAIN transcripts'
    BY <1>2, <1>4
  <2>2. \A i \in DOMAIN transcripts : i \in DOMAIN transcripts' /\ transcripts'[i] = transcripts[i]
    BY <1>2, <1>3, <1>4
  <2>3. QED
    BY <1>3, <2>1, <2>2 DEF Makers
<1>7. ASSUME NEW j
      PROVE  /\ VersionsBy(j) \in Nat
             /\ VersionsBy(j)' = IF x = j THEN VersionsBy(j) + 1 ELSE VersionsBy(j)
  <2>1. Count(transcripts, j) \in Nat /\ CountBy(summaries, j) \in Nat
    BY VersionsAreCounted
  <2>2. Count(transcripts', j) =
           IF x = j THEN Count(transcripts, j) + 1 ELSE Count(transcripts, j)
    BY <1>1, TranscriptsCounted
  <2>3. /\ VersionsBy(j) = Count(transcripts, j) + CountBy(summaries, j)
        /\ VersionsBy(j)' = Count(transcripts', j) + CountBy(summaries, j)
    BY VersionsAreCounted DEF VersionsBy, Count, CountBy
  <2>4. QED
    BY <2>1, <2>2, <2>3
<1>8. Len(transcripts') \in 0 .. MaxVersions
  BY <1>2, <1>3, BoundsAreNatural
<1>9. QED
  BY <1>1, <1>2, <1>3, <1>5, <1>6, <1>7, <1>8

\* The same for a summary of a transcript that exists.
LEMMA SummaryAppended ==
    ASSUME IndInv, NEW x \in Summaries, x.of <= Len(transcripts),
           Len(summaries) < MaxVersions,
           summaries' = Append(summaries, x), transcripts' = transcripts
    PROVE  /\ transcripts' \in Seq(Job \cup {NoJob}) /\ summaries' \in Seq(Summaries)
           /\ Len(summaries') = Len(summaries) + 1 /\ Len(summaries) \in Nat
           /\ Len(summaries') \in 0 .. MaxVersions
           /\ SummariesOfTranscripts' /\ Makers \subseteq Makers' /\ x.by \in Makers'
           /\ \A j : VersionsBy(j) \in Nat /\
                VersionsBy(j)' = IF x.by = j THEN VersionsBy(j) + 1 ELSE VersionsBy(j)
<1>1. /\ transcripts \in Seq(Job \cup {NoJob}) /\ summaries \in Seq(Summaries)
      /\ SummariesOfTranscripts
  BY InHand DEF Typed
<1>2. Len(summaries) \in Nat /\ DOMAIN summaries = 1 .. Len(summaries)
  BY <1>1, LenProperties
<1>3. /\ summaries' \in Seq(Summaries) /\ Len(summaries') = Len(summaries) + 1
      /\ \A i \in 1 .. Len(summaries) : summaries'[i] = summaries[i]
      /\ summaries'[Len(summaries) + 1] = x
  BY <1>1, AppendProperties
<1>4. DOMAIN summaries' = 1 .. Len(summaries) + 1
  BY <1>3, LenProperties
<1>5. SummariesOfTranscripts'
  BY <1>1, <1>2, <1>3, <1>4 DEF SummariesOfTranscripts
<1>6. Makers \subseteq Makers' /\ x.by \in Makers'
  <2>1. Len(summaries) + 1 \in DOMAIN summaries'
    BY <1>2, <1>4
  <2>2. \A i \in DOMAIN summaries : i \in DOMAIN summaries' /\ summaries'[i] = summaries[i]
    BY <1>2, <1>3, <1>4
  <2>3. QED
    BY <1>3, <2>1, <2>2 DEF Makers
<1>7. ASSUME NEW j
      PROVE  /\ VersionsBy(j) \in Nat
             /\ VersionsBy(j)' = IF x.by = j THEN VersionsBy(j) + 1 ELSE VersionsBy(j)
  <2>1. CountBy(summaries, j) \in Nat /\ Count(transcripts, j) \in Nat
    BY VersionsAreCounted
  <2>2. CountBy(summaries', j) =
           IF x.by = j THEN CountBy(summaries, j) + 1 ELSE CountBy(summaries, j)
    BY <1>1, SummariesCounted
  <2>3. /\ VersionsBy(j) = Count(transcripts, j) + CountBy(summaries, j)
        /\ VersionsBy(j)' = Count(transcripts, j) + CountBy(summaries', j)
    BY VersionsAreCounted DEF VersionsBy, Count, CountBy
  <2>4. QED
    BY <2>1, <2>2, <2>3
<1>8. Len(summaries') \in 0 .. MaxVersions
  BY <1>2, <1>3, BoundsAreNatural
<1>9. QED
  BY <1>1, <1>2, <1>3, <1>5, <1>6, <1>7, <1>8

\* The executor's own task ends with the version it made: one delivery less,
\* one version more.
LEMMA DeliverySpent ==
    ASSUME IndInv, NEW s \in Worker, session[s].at \in Executors, Ends(s), NEW j \in Job
    PROVE  /\ At(j) \in Nat /\ At(j)' \in Nat
           /\ At(j)' = IF session[s].job = j THEN At(j) - 1 ELSE At(j)
<1>1. /\ session \in [Session -> Sessions] /\ s \in Session
      /\ session' = [session EXCEPT ![s] = Idle]
      /\ Idle \in Sessions /\ Idle.job # j
  BY InHand, IdleFacts, NoJobIsNoJob DEF Typed, Session, Ends
<1>2. CASE session[s].job = j
  BY <1>1, <1>2, WorkersCounted
<1>3. CASE session[s].job # j
  BY <1>1, <1>3, WorkersCounted
<1>4. QED
  BY <1>2, <1>3

\* Clients have no task to end.
LEMMA NothingSpent ==
    ASSUME IndInv, NEW s \in Session, session[s].at \notin Executors, Ends(s), NEW j
    PROVE  At(j) \in Nat /\ At(j)' = At(j)
<1>1. /\ session \in [Session -> Sessions] /\ session[s].job = NoJob
      /\ session' = [session EXCEPT ![s] = Idle]
      /\ Idle \in Sessions /\ Idle.job = NoJob
  BY InHand, IdleFacts DEF Typed, SessionFits, Ends
<1>2. QED
  BY <1>1, SameTask

\* execute_transcription stores a version and ends its job.
LEMMA PersistTranscriptKeeps ==
    ASSUME IndInv, NEW s \in Worker, PersistTranscript(s)
    PROVE  IndInv'
<1>1. /\ session[s].at \in Executors /\ Len(transcripts) < MaxVersions
      /\ Writes(s, "succeeded") /\ Ends(s)
      /\ transcripts' = Append(transcripts, session[s].job)
      /\ UNCHANGED <<summaries, messages, faults>>
  BY DEF PersistTranscript, Executors
<1>2. PICK x \in Job : x = session[s].job
  BY <1>1, AtWork
<1>3. /\ s \in Session /\ job[x].kind # "none" /\ audio \in Audio
  BY <1>1, <1>2, AtWork, InHand DEF Typed
<1>4. /\ RowsAlike
      /\ \A j \in Job : job'[j].status = job[j].status \/ j = x
  BY <1>1, <1>2, <1>3, WritesFacts DEF Terminal
<1>5. /\ transcripts' \in Seq(Job \cup {NoJob}) /\ summaries' \in Seq(Summaries)
      /\ Len(transcripts') = Len(transcripts) + 1 /\ Len(transcripts) \in Nat
      /\ Len(transcripts') \in 0 .. MaxVersions
      /\ SummariesOfTranscripts' /\ Makers \subseteq Makers' /\ x \in Makers'
      /\ \A j : VersionsBy(j) \in Nat /\
           VersionsBy(j)' = IF x = j THEN VersionsBy(j) + 1 ELSE VersionsBy(j)
  BY <1>1, <1>2, TranscriptAppended
<1> DEFINE summary == Flushed(audio.summary, session[s].audio.summary, 0)
           status == Flushed(audio.status, session[s].audio.status, "transcribed")
<1>6. summary \in {audio.summary, 0} /\ status \in {audio.status, "transcribed"}
  BY DEF Flushed
<1>7. audio' = [audio EXCEPT !.transcript = Len(transcripts) + 1,
                             !.summary = summary, !.status = status]
  BY DEF PersistTranscript
<1> HIDE DEF summary, status
<1>8. summary \in 0 .. MaxVersions /\ status \in Statuses
  BY <1>3, <1>6, BoundsAreNatural DEF Audio, Statuses
<1>9. /\ audio' \in Audio /\ (audio').transcript = Len(transcripts')
      /\ (audio').summary \in {audio.summary, 0}
  BY <1>3, <1>5, <1>6, <1>7, <1>8 DEF Audio
<1>10. NewestIsCurrent'
  BY <1>1, <1>9, InHand DEF NewestIsCurrent
<1>11. ASSUME NEW j \in Job
       PROVE  /\ VersionsBy(j)' + At(j)' <= VersionsBy(j) + At(j)
              /\ VersionsBy(j)' \in Nat
              /\ job[j].kind = "none" => VersionsBy(j)' = 0
  <2>1. /\ At(j) \in Nat /\ At(j)' \in Nat
        /\ At(j)' = IF x = j THEN At(j) - 1 ELSE At(j)
    BY <1>1, <1>2, DeliverySpent
  <2>2. /\ VersionsBy(j) \in Nat
        /\ VersionsBy(j)' = IF x = j THEN VersionsBy(j) + 1 ELSE VersionsBy(j)
    BY <1>5
  <2>3. job[j].kind = "none" => x # j /\ VersionsBy(j) = 0
    BY <1>3, InHand DEF RowFits
  <2>4. QED
    BY <2>1, <2>2, <2>3
<1>12. Len(transcripts) <= Len(transcripts')
  BY <1>5
<1>13. \A j \in Job : job'[j].status = "succeeded" =>
          job[j].status = "succeeded" \/ j \in Makers'
  BY <1>4, <1>5
<1>14. QED
  BY <1>1, <1>3, <1>4, <1>5, <1>9, <1>10, <1>11, <1>12, <1>13, ContentStep

\* Transcripts are as many as the recording can name.
LEMMA TranscriptsAreFew ==
    ASSUME IndInv
    PROVE  Len(transcripts) \in 0 .. MaxVersions
BY InHand DEF Typed, Audio, NewestIsCurrent

\* execute_summary stores a version of the transcript it was asked to summarise.
LEMMA PersistSummaryKeeps ==
    ASSUME IndInv, NEW s \in Worker, PersistSummary(s)
    PROVE  IndInv'
<1> DEFINE new == [of |-> session[s].row.base, by |-> session[s].job]
<1>1. /\ session[s].at \in Executors /\ Len(summaries) < MaxVersions
      /\ session[s].row.kind = "summary"
      /\ Writes(s, "succeeded") /\ Ends(s)
      /\ summaries' = Append(summaries, new)
      /\ UNCHANGED <<transcripts, messages, faults>>
  BY DEF PersistSummary, Executors
<1>2. PICK x \in Job : x = session[s].job
  BY <1>1, AtWork
<1>3. /\ s \in Session /\ job[x].kind # "none" /\ audio \in Audio
      /\ session[s].row.base \in 1 .. Len(transcripts)
  BY <1>1, <1>2, AtWork, InHand DEF Typed
<1>4. /\ RowsAlike
      /\ \A j \in Job : job'[j].status = job[j].status \/ j = x
  BY <1>1, <1>2, <1>3, WritesFacts DEF Terminal
<1>5. new \in Summaries /\ new.of <= Len(transcripts) /\ new.by = x
  BY <1>2, <1>3, TranscriptsAreFew, BoundsAreNatural DEF Summaries
<1> HIDE DEF new
<1>6. /\ transcripts' \in Seq(Job \cup {NoJob}) /\ summaries' \in Seq(Summaries)
      /\ Len(summaries') = Len(summaries) + 1 /\ Len(summaries) \in Nat
      /\ Len(summaries') \in 0 .. MaxVersions
      /\ SummariesOfTranscripts' /\ Makers \subseteq Makers' /\ x \in Makers'
      /\ \A j : VersionsBy(j) \in Nat /\
           VersionsBy(j)' = IF x = j THEN VersionsBy(j) + 1 ELSE VersionsBy(j)
  BY <1>1, <1>5, SummaryAppended
<1> DEFINE status == Flushed(audio.status, session[s].audio.status, "summary_ready")
<1>7. status \in {audio.status, "summary_ready"}
  BY DEF Flushed
<1>8. audio' = [audio EXCEPT !.summary = Len(summaries) + 1, !.status = status]
  BY DEF PersistSummary
<1> HIDE DEF status
<1>9. /\ audio' \in Audio /\ (audio').summary = Len(summaries')
      /\ (audio').transcript = audio.transcript
  BY <1>3, <1>6, <1>7, <1>8 DEF Audio, Statuses
<1>10. NewestIsCurrent'
  BY <1>1, <1>9, InHand DEF NewestIsCurrent
<1>11. ASSUME NEW j \in Job
       PROVE  /\ VersionsBy(j)' + At(j)' <= VersionsBy(j) + At(j)
              /\ VersionsBy(j)' \in Nat
              /\ job[j].kind = "none" => VersionsBy(j)' = 0
  <2>1. /\ At(j) \in Nat /\ At(j)' \in Nat
        /\ At(j)' = IF x = j THEN At(j) - 1 ELSE At(j)
    BY <1>1, <1>2, DeliverySpent
  <2>2. /\ VersionsBy(j) \in Nat
        /\ VersionsBy(j)' = IF x = j THEN VersionsBy(j) + 1 ELSE VersionsBy(j)
    BY <1>6
  <2>3. job[j].kind = "none" => x # j /\ VersionsBy(j) = 0
    BY <1>3, InHand DEF RowFits
  <2>4. QED
    BY <2>1, <2>2, <2>3
<1>12. Len(transcripts) <= Len(transcripts')
  BY <1>1, TranscriptsAreFew, BoundsAreNatural
<1>13. \A j \in Job : job'[j].status = "succeeded" =>
          job[j].status = "succeeded" \/ j \in Makers'
  BY <1>4, <1>6
<1>14. QED
  BY <1>1, <1>3, <1>4, <1>6, <1>9, <1>10, <1>11, <1>12, <1>13, ContentStep

\* A user's transcript replaces the current one and takes the summary away.
LEMMA SaveTranscriptKeeps ==
    ASSUME IndInv, NEW s \in Client, SaveTranscript(s)
    PROVE  IndInv'
<1>1. /\ session[s].at \notin Executors /\ s \in Session /\ audio \in Audio
      /\ Len(transcripts) < MaxVersions /\ Ends(s)
      /\ transcripts' = Append(transcripts, NoJob)
      /\ UNCHANGED <<summaries, job, messages, faults>>
  BY InHand DEF SaveTranscript, Executors, Session, Typed
<1>2. RowsAlike
  BY <1>1, InHand DEF RowsAlike, Typed
<1>3. /\ transcripts' \in Seq(Job \cup {NoJob}) /\ summaries' \in Seq(Summaries)
      /\ Len(transcripts') = Len(transcripts) + 1 /\ Len(transcripts) \in Nat
      /\ Len(transcripts') \in 0 .. MaxVersions
      /\ SummariesOfTranscripts' /\ Makers \subseteq Makers'
      /\ \A j : VersionsBy(j) \in Nat /\
           VersionsBy(j)' = IF NoJob = j THEN VersionsBy(j) + 1 ELSE VersionsBy(j)
  BY <1>1, TranscriptAppended
<1> DEFINE summary == Flushed(audio.summary, session[s].audio.summary, 0)
           status == Flushed(audio.status, session[s].audio.status, "transcribed")
<1>4. summary \in {audio.summary, 0} /\ status \in {audio.status, "transcribed"}
  BY DEF Flushed
<1>5. audio' = [audio EXCEPT !.transcript = Len(transcripts) + 1,
                             !.summary = summary, !.status = status]
  BY DEF SaveTranscript
<1> HIDE DEF summary, status
<1>6. summary \in 0 .. MaxVersions /\ status \in Statuses
  BY <1>1, <1>4, BoundsAreNatural DEF Audio, Statuses
<1>7. /\ audio' \in Audio /\ (audio').transcript = Len(transcripts')
      /\ (audio').summary \in {audio.summary, 0}
  BY <1>1, <1>3, <1>4, <1>5, <1>6 DEF Audio
<1>8. NewestIsCurrent'
  BY <1>1, <1>7, InHand DEF NewestIsCurrent
<1>9. ASSUME NEW j \in Job
      PROVE  /\ VersionsBy(j)' + At(j)' <= VersionsBy(j) + At(j)
             /\ VersionsBy(j)' \in Nat
             /\ job[j].kind = "none" => VersionsBy(j)' = 0
  <2>1. At(j) \in Nat /\ At(j)' = At(j)
    BY <1>1, NothingSpent
  <2>2. VersionsBy(j) \in Nat /\ VersionsBy(j)' = VersionsBy(j)
    BY <1>3, NoJobIsNoJob
  <2>3. QED
    BY <2>1, <2>2, InHand DEF RowFits
<1>10. Len(transcripts) <= Len(transcripts')
  BY <1>3
<1>11. QED
  BY <1>1, <1>2, <1>3, <1>7, <1>8, <1>9, <1>10, ContentStep

\* A user's summary, of any transcript there is.
LEMMA SaveSummaryKeeps ==
    ASSUME IndInv, NEW s \in Client, SaveSummary(s)
    PROVE  IndInv'
<1>1. /\ session[s].at \notin Executors /\ s \in Session /\ audio \in Audio
      /\ Len(summaries) < MaxVersions /\ Ends(s)
      /\ UNCHANGED <<transcripts, job, messages, faults>>
  BY InHand DEF SaveSummary, Executors, Session, Typed
<1>2. RowsAlike
  BY <1>1, InHand DEF RowsAlike, Typed
<1>3. PICK t \in 1 .. Len(transcripts) :
         summaries' = Append(summaries, [of |-> t, by |-> NoJob])
  BY DEF SaveSummary
<1> DEFINE new == [of |-> t, by |-> NoJob]
<1>4. new \in Summaries /\ new.of <= Len(transcripts) /\ new.by = NoJob
  BY <1>3, TranscriptsAreFew, BoundsAreNatural DEF Summaries
<1>5. summaries' = Append(summaries, new)
  BY <1>3
<1> HIDE DEF new
<1>6. /\ transcripts' \in Seq(Job \cup {NoJob}) /\ summaries' \in Seq(Summaries)
      /\ Len(summaries') = Len(summaries) + 1 /\ Len(summaries) \in Nat
      /\ Len(summaries') \in 0 .. MaxVersions
      /\ SummariesOfTranscripts' /\ Makers \subseteq Makers'
      /\ \A j : VersionsBy(j) \in Nat /\
           VersionsBy(j)' = IF new.by = j THEN VersionsBy(j) + 1 ELSE VersionsBy(j)
  BY <1>1, <1>4, <1>5, SummaryAppended
<1> DEFINE status == Flushed(audio.status, session[s].audio.status, "summary_ready")
<1>7. status \in {audio.status, "summary_ready"}
  BY DEF Flushed
<1>8. audio' = [audio EXCEPT !.summary = Len(summaries) + 1, !.status = status]
  BY DEF SaveSummary
<1> HIDE DEF status
<1>9. /\ audio' \in Audio /\ (audio').summary = Len(summaries')
      /\ (audio').transcript = audio.transcript
  BY <1>1, <1>6, <1>7, <1>8 DEF Audio, Statuses
<1>10. NewestIsCurrent'
  BY <1>1, <1>9, InHand DEF NewestIsCurrent
<1>11. ASSUME NEW j \in Job
       PROVE  /\ VersionsBy(j)' + At(j)' <= VersionsBy(j) + At(j)
              /\ VersionsBy(j)' \in Nat
              /\ job[j].kind = "none" => VersionsBy(j)' = 0
  <2>1. At(j) \in Nat /\ At(j)' = At(j)
    BY <1>1, NothingSpent
  <2>2. VersionsBy(j) \in Nat /\ VersionsBy(j)' = VersionsBy(j)
    BY <1>4, <1>6, NoJobIsNoJob
  <2>3. QED
    BY <2>1, <2>2, InHand DEF RowFits
<1>12. Len(transcripts) <= Len(transcripts')
  BY <1>1, TranscriptsAreFew, BoundsAreNatural
<1>13. QED
  BY <1>1, <1>2, <1>6, <1>9, <1>10, <1>11, <1>12, ContentStep

\* Confirming and deleting touch neither table nor the current versions.
LEMMA VerdictKeeps ==
    ASSUME IndInv, NEW s \in Client, Confirm(s) \/ Delete(s)
    PROVE  IndInv'
<1>1. /\ session[s].at \notin Executors /\ s \in Session /\ audio \in Audio
      /\ transcripts \in Seq(Job \cup {NoJob}) /\ summaries \in Seq(Summaries)
      /\ Ends(s) /\ UNCHANGED <<transcripts, summaries, job, messages, faults>>
  BY InHand DEF Confirm, Delete, Executors, Session, Typed
<1>2. RowsAlike
  BY <1>1, InHand DEF RowsAlike, Typed
<1>3. /\ audio' \in Audio /\ (audio').transcript = audio.transcript
      /\ (audio').summary = audio.summary
  BY <1>1 DEF Confirm, Delete, Audio, Statuses
<1>4. NewestIsCurrent' /\ SummariesOfTranscripts' /\ Makers \subseteq Makers'
  BY <1>1, <1>3, InHand DEF NewestIsCurrent, SummariesOfTranscripts, Makers
<1>5. ASSUME NEW j \in Job
      PROVE  /\ VersionsBy(j)' + At(j)' <= VersionsBy(j) + At(j)
             /\ VersionsBy(j)' \in Nat
             /\ job[j].kind = "none" => VersionsBy(j)' = 0
  <2>1. At(j) \in Nat /\ At(j)' = At(j)
    BY <1>1, NothingSpent
  <2>2. VersionsBy(j) \in Nat /\ VersionsBy(j)' = VersionsBy(j)
    BY <1>1, VersionsAreCounted DEF VersionsBy
  <2>3. QED
    BY <2>1, <2>2, InHand DEF RowFits
<1>6. Len(transcripts) <= Len(transcripts')
  BY <1>1, TranscriptsAreFew, BoundsAreNatural
<1>7. QED
  BY <1>1, <1>2, <1>3, <1>4, <1>5, <1>6, ContentStep

-------------------------------------------------------------------------------
(* The result. *)

\* The empty recording.
LEMMA Initially == Init => IndInv
<1> SUFFICES ASSUME Init PROVE IndInv
  OBVIOUS
<1>1. /\ Blank \in Audio /\ Blank.transcript = 0 /\ Blank.summary = 0
      /\ NoRow \in Rows /\ NoRow.kind = "none" /\ NoRow.status = "absent"
  BY BoundsAreNatural DEF Blank, Audio, Statuses, NoRow, Rows
<1>2. Typed
  BY <1>1, IdleFacts, BoundsAreNatural DEF Init, Typed
<1>3. Len(transcripts) = 0 /\ Len(summaries) = 0
         /\ DOMAIN transcripts = {} /\ DOMAIN summaries = {}
  BY DEF Init
<1>4. ASSUME NEW j \in Job
      PROVE  VersionsBy(j) = 0 /\ At(j) = 0
  <2>1. /\ {i \in DOMAIN transcripts : transcripts[i] = j} = {}
        /\ {i \in DOMAIN summaries : summaries[i].by = j} = {}
    BY <1>3
  <2>2. {s \in Worker : session[s].job = j} = {}
    BY IdleFacts, NoJobIsNoJob DEF Init, Session
  <2>3. Cardinality({}) = 0
    BY FS_EmptySet
  <2>4. VersionsBy(j) = Cardinality({}) + Cardinality({}) /\ At(j) = Cardinality({})
    BY <2>1, <2>2 DEF VersionsBy, At
  <2>5. QED
    BY <2>3, <2>4
<1>5. SummariesOfTranscripts /\ NewestIsCurrent
  BY <1>1, <1>3 DEF Init, SummariesOfTranscripts, NewestIsCurrent
<1>6. SucceededLeftAVersion
  BY <1>1 DEF Init, SucceededLeftAVersion
<1>7. OneVersionPerDelivery
  <2>1. ASSUME NEW j \in Job PROVE VersionsBy(j) + Deliveries(j) <= 1 + faults
    <3>1. Deliveries(j) = messages[j] + At(j) /\ messages[j] = 0 /\ faults = 0
      BY DEF Deliveries, At, Init
    <3>2. QED
      BY <3>1, <1>4
  <2>2. QED
    BY <2>1 DEF OneVersionPerDelivery
<1>8. \A j \in Job : RowFits(j)
  BY <1>1, <1>4 DEF Init, RowFits
<1>9. \A s \in Session : SessionFits(s)
  BY IdleFacts DEF Init, SessionFits
<1>10. QED
  BY <1>2, <1>5, <1>6, <1>7, <1>8, <1>9, InHand

\* Nothing moves.
LEMMA StutterKeeps ==
    ASSUME IndInv, UNCHANGED vars
    PROVE  IndInv'
<1>1. Typed' /\ SummariesOfTranscripts' /\ NewestIsCurrent'
  BY InHand DEF vars, Typed, SummariesOfTranscripts, NewestIsCurrent
<1>2. SucceededLeftAVersion' /\ OneVersionPerDelivery'
  BY InHand DEF vars, SucceededLeftAVersion, Makers, OneVersionPerDelivery,
                VersionsBy, Deliveries
<1>3. (\A j \in Job : RowFits(j)') /\ \A s \in Session : SessionFits(s)'
  BY InHand DEF vars, RowFits, SessionFits, VersionsBy
<1>4. QED
  BY <1>1, <1>2, <1>3, Rebuilt

\* The invariant is inductive.
LEMMA EveryStepKeeps ==
    ASSUME IndInv, [Next]_vars
    PROVE  IndInv'
<1>1. CASE \E j \in Job : JobStep(j)
  BY <1>1, JobStepKeeps
<1>2. CASE \E s \in Worker, j \in Job : Load(s, j)
  BY <1>2, LoadKeeps
<1>3. CASE \E s \in Worker : ExecutorStep(s) \/ Crash(s)
  BY <1>3, StartKeeps, EndKeeps, PersistTranscriptKeeps, PersistSummaryKeeps
     DEF ExecutorStep
<1>4. CASE \E s \in Client : RequestStep(s)
  BY <1>4, ClientKeeps, SaveTranscriptKeeps, SaveSummaryKeeps, VerdictKeeps
     DEF RequestStep
<1>5. CASE UNCHANGED vars
  BY <1>5, StutterKeeps
<1>6. QED
  BY <1>1, <1>2, <1>3, <1>4, <1>5 DEF Next

\* The inductive invariant holds throughout.
LEMMA RecordingsFit == Spec => []IndInv
<1>1. IndInv /\ [Next]_vars => IndInv'
  BY EveryStepKeeps
<1>2. QED
  BY Initially, <1>1, PTL DEF Spec

\* Although every session writes from its copy: the newest versions are the
\* current ones, a job that succeeded has left a version, and no job makes more
\* versions than its message is delivered.
THEOREM RecordingsAreConsistent == Spec => []HandoverInv
<1>1. IndInv => HandoverInv
  BY DEF IndInv
<1>2. QED
  BY <1>1, RecordingsFit, PTL

\* The numbers of versions do not depend on the copies of the sessions.
THEOREM NewestVersionIsCurrent == Spec => []NewestIsCurrent
<1>1. IndInv => NewestIsCurrent
  BY DEF IndInv, HandoverInv
<1>2. QED
  BY <1>1, RecordingsFit, PTL

\* Deliveries bound the versions of a job, whatever crashes and is sent twice.
THEOREM VersionsAreDelivered == Spec => []OneVersionPerDelivery
<1>1. IndInv => OneVersionPerDelivery
  BY DEF IndInv, HandoverInv
<1>2. QED
  BY <1>1, RecordingsFit, PTL

===============================================================================
