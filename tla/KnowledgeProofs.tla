---------------------------- MODULE KnowledgeProofs ----------------------------
(***************************************************************************)
(* Proofs about the versions of knowledge documents and about the          *)
(* meetings that are published as versions.                                *)
(***************************************************************************)
EXTENDS Meetings, TLAPS

-------------------------------------------------------------------------------
(***************************************************************************)
(* The versions of documents, for any number of versions, contents and     *)
(* days.  Instead of days the proof speaks of pairs of versions: the spans *)
(* of those that are published lie one after the other.                    *)
(***************************************************************************)

\* The span of u ends before that of v begins.
Precedes(u, v) ==
    /\ version[u].from < version[v].from
    /\ version[u].to # Never /\ version[u].to <= version[v].from

SpansApart ==
    \A d \in Document : \A u, v \in d \cap Published :
        u # v => Precedes(u, v) \/ Precedes(v, u)

VersionsIndInv == VersionsTypeOK /\ SpansApart /\ NumbersAreUnique

\* Who shares a document with v is looked at with v.
LEMMA ShareADocument ==
    ASSUME NEW d \in Document, NEW u \in d, NEW v \in d
    PROVE  u \in With(v) /\ v \in With(u) /\ u \in Version /\ v \in Version
  BY DocumentsApart DEF With

\* The columns of a row, one by one.
LEMMA Columns ==
    ASSUME VersionsTypeOK, NEW v \in Version
    PROVE  /\ version[v].status \in VersionStatus
           /\ version[v].number \in Nat
           /\ version[v].content \in Content \cup {NoContent}
           /\ version[v].from \in Nat /\ version[v].from <= MaxDay
           /\ version[v].to \in Nat /\ version[v].to <= MaxDay
           /\ version[v].to = 0 \/ version[v].from < version[v].to
           /\ MaxDay \in Nat
  BY VersionsBounds DEF VersionsTypeOK, Never

\* A row is its columns.
LEMMA RowIsColumns ==
    ASSUME VersionsTypeOK, NEW v \in Version
    PROVE  version[v] = [status |-> version[v].status, number |-> version[v].number,
                         content |-> version[v].content, from |-> version[v].from,
                         to |-> version[v].to]
  BY DEF VersionsTypeOK

\* Spans that lie one after the other give one answer for any day.
LEMMA OneAnswer == VersionsIndInv => OneInForce
  <1> SUFFICES ASSUME VersionsIndInv, NEW day \in Days, NEW d \in Document,
                      NEW u \in d, NEW v \in d,
                      InForce(u, day), InForce(v, day), u # v
               PROVE  FALSE
    BY DEF OneInForce
  <1>1. u \in Published /\ v \in Published /\ u \in Version /\ v \in Version
    BY ShareADocument DEF InForce, Published
  <1>2. Precedes(u, v) \/ Precedes(v, u)
    BY <1>1 DEF VersionsIndInv, SpansApart
  <1>3. day \in Nat
    BY DEF Days
  <1>4. VersionsTypeOK
    BY DEF VersionsIndInv
  <1>5. ASSUME NEW p \in Version, NEW q \in Version, Precedes(p, q),
               InForce(p, day), InForce(q, day)
        PROVE  FALSE
    BY <1>3, <1>4, <1>5, Columns DEF Precedes, InForce, Never
  <1> QED BY <1>1, <1>2, <1>5

\* A document without versions.
LEMMA VersionsInitHolds == VersionsInit => VersionsIndInv
  <1> SUFFICES ASSUME VersionsInit PROVE VersionsIndInv
    OBVIOUS
  <1>1. \A v \in Version : version[v] = NoVersion
    BY DEF VersionsInit
  <1>2. 0 \in 0 .. MaxDay
    BY VersionsBounds
  <1>3. NoVersion \in [status : VersionStatus, number : Nat,
                       content : Content \cup {NoContent},
                       from : 0 .. MaxDay, to : 0 .. MaxDay]
    BY <1>2 DEF NoVersion, VersionStatus, Never
  <1>4. VersionsTypeOK
    BY <1>1, <1>3 DEF VersionsTypeOK, VersionsInit, NoVersion
  <1>5. Published = {} /\ Stored = {}
    BY <1>1 DEF Published, Stored, NoVersion
  <1> QED BY <1>4, <1>5 DEF VersionsIndInv, SpansApart, NumbersAreUnique

\* A new version gets a number that no other has, and is not published.
LEMMA CreateHolds ==
    ASSUME VersionsIndInv, NEW v \in Version, NEW n \in Nat, NEW content \in Content,
           NEW from \in Days, NEW to \in {Never} \cup Days,
           CreateVersion(v, n, content, from, to)
    PROVE  VersionsIndInv'
  <1> DEFINE row == [status |-> "uploading", number |-> n, content |-> content,
                     from |-> from, to |-> to]
  <1>1. VersionsTypeOK /\ SpansApart /\ NumbersAreUnique
    BY DEF VersionsIndInv
  <1>2. /\ version[v].status = "absent"
        /\ \A u \in Stored \cap With(v) : version[u].number < n
        /\ to = Never \/ from < to
        /\ version' = [version EXCEPT ![v] = row]
    BY DEF CreateVersion, NextNumber
  <1>3. from \in 0 .. MaxDay /\ to \in 0 .. MaxDay
    BY VersionsBounds DEF Days, Never
  <1>4. row \in [status : VersionStatus, number : Nat, content : Content \cup {NoContent},
                 from : 0 .. MaxDay, to : 0 .. MaxDay]
    BY <1>3 DEF VersionStatus
  <1>5. /\ row.status = "uploading" /\ row.number = n
        /\ row.to = Never \/ row.from < row.to
    BY <1>2
  <1> HIDE DEF row
  <1>6. version'[v] = row /\ \A u \in Version : u # v => version'[u] = version[u]
    BY <1>1, <1>2 DEF VersionsTypeOK
  <1>7. VersionsTypeOK'
    BY <1>1, <1>2, <1>4, <1>5, <1>6 DEF VersionsTypeOK
  <1>8. Published' = Published /\ v \notin Published
    BY <1>2, <1>5, <1>6 DEF Published
  <1>9. SpansApart'
    BY <1>1, <1>6, <1>8 DEF SpansApart, Precedes, Published
  <1>10. Stored' = Stored \cup {v} /\ v \notin Stored
    BY <1>2, <1>5, <1>6 DEF Stored
  <1>11. NumbersAreUnique'
    <2> SUFFICES ASSUME NEW d \in Document, NEW u \in d \cap Stored', NEW w \in d \cap Stored',
                        version'[u].number = version'[w].number
                 PROVE  u = w
      BY DEF NumbersAreUnique
    <2>1. ASSUME NEW x \in d \cap Stored, v \in d
          PROVE  version'[x].number # n
      <3>1. x # v /\ x \in Version /\ version[x].number < n
        BY <1>2, <1>10, <2>1, ShareADocument
      <3> QED BY <1>1, <1>6, <3>1, Columns
    <2>2. CASE u # v /\ w # v
      <3>1. u \in d \cap Stored /\ w \in d \cap Stored
        BY <1>10, <2>2
      <3> QED BY <1>1, <1>6, <2>2, <3>1 DEF NumbersAreUnique, Stored
    <2>3. CASE u = v \/ w = v
      BY <1>5, <1>6, <1>10, <2>1, <2>3
    <2> QED BY <2>2, <2>3
  <1> QED BY <1>7, <1>9, <1>11 DEF VersionsIndInv

\* A change of the status alone, to something that is not published.
LEMMA MoveHolds ==
    ASSUME VersionsIndInv, NEW v \in Version, NEW from, NEW to \in VersionStatus,
           "absent" \notin from, to \notin {"absent", "published"},
           MovesVersion(v, from, to)
    PROVE  VersionsIndInv'
  <1> DEFINE row == [status |-> to, number |-> version[v].number,
                     content |-> version[v].content, from |-> version[v].from,
                     to |-> version[v].to]
  <1>1. VersionsTypeOK /\ SpansApart /\ NumbersAreUnique
    BY DEF VersionsIndInv
  <1>2. /\ version[v].status # "absent"
        /\ version' = [version EXCEPT ![v] = row]
    <2>1. version[v].status \in from
      BY DEF MovesVersion
    <2>2. version' = [version EXCEPT ![v] = [version[v] EXCEPT !.status = to]]
      BY DEF MovesVersion
    <2>3. [version[v] EXCEPT !.status = to] = row
      BY <1>1 DEF VersionsTypeOK
    <2> QED BY <2>1, <2>2, <2>3
  <1>3. row \in [status : VersionStatus, number : Nat, content : Content \cup {NoContent},
                 from : 0 .. MaxDay, to : 0 .. MaxDay]
    BY <1>1, Columns
  <1>4. /\ row.status = to /\ row.number = version[v].number
        /\ row.from = version[v].from /\ row.to = version[v].to
    OBVIOUS
  <1> HIDE DEF row
  <1>5. version'[v] = row /\ \A u \in Version : u # v => version'[u] = version[u]
    BY <1>1, <1>2 DEF VersionsTypeOK
  <1>6. VersionsTypeOK'
    BY <1>1, <1>2, <1>3, <1>4, <1>5 DEF VersionsTypeOK
  <1>7. \A u \in Version : /\ version'[u].number = version[u].number
                           /\ version'[u].from = version[u].from
                           /\ version'[u].to = version[u].to
    BY <1>4, <1>5
  <1>8. Published' \subseteq Published /\ Stored' = Stored
    BY <1>2, <1>4, <1>5 DEF Published, Stored
  <1>9. SpansApart'
    BY <1>1, <1>7, <1>8 DEF SpansApart, Precedes, Published
  <1>10. NumbersAreUnique'
    BY <1>1, <1>7, <1>8 DEF NumbersAreUnique, Stored
  <1> QED BY <1>6, <1>9, <1>10 DEF VersionsIndInv

\* What a publication does to each row.
LEMMA PublicationCuts ==
    ASSUME VersionsIndInv, NEW v \in Version, PublishVersion(v), NEW u \in Version
    PROVE  /\ version'[u] \in [status : VersionStatus, number : Nat,
                               content : Content \cup {NoContent},
                               from : 0 .. MaxDay, to : 0 .. MaxDay]
           /\ version'[u].number = version[u].number
           /\ version'[u].content = version[u].content
           /\ version'[u].from = version[u].from
           /\ version'[u].status = IF u = v THEN "published" ELSE version[u].status
           /\ version'[u].to = IF u \in Published \cap With(v)
                               THEN Cut(version[u], version[v].from)
                               ELSE version[u].to
           /\ version'[u].to = Never \/ version'[u].from < version'[u].to
  <1>1. VersionsTypeOK
    BY DEF VersionsIndInv
  <1>2. /\ version[v].status = "approved"
        /\ u \in Published \cap With(v) => version[u].from < version[v].from
        /\ version'[u] = IF u = v THEN [version[u] EXCEPT !.status = "published"]
                         ELSE IF u \in Published \cap With(v)
                              THEN [version[u] EXCEPT !.to = Cut(version[u], version[v].from)]
                         ELSE version[u]
    BY DEF PublishVersion
  <1>3. v \notin Published
    BY <1>2 DEF Published
  <1>4. CASE u = v
    <2>1. version'[u] = [status |-> "published", number |-> version[u].number,
                         content |-> version[u].content, from |-> version[u].from,
                         to |-> version[u].to]
      BY <1>1, <1>2, <1>4, RowIsColumns
    <2> QED BY <1>1, <1>3, <1>4, <2>1, Columns DEF VersionStatus, Never
  <1>5. CASE u # v /\ u \in Published \cap With(v)
    <2> DEFINE cut == Cut(version[u], version[v].from)
    <2>1. cut \in 0 .. MaxDay /\ version[u].from < cut
      BY <1>1, <1>2, <1>5, Columns DEF Cut, Never
    <2> HIDE DEF cut
    <2>2. version'[u] = [status |-> version[u].status, number |-> version[u].number,
                         content |-> version[u].content, from |-> version[u].from,
                         to |-> cut]
      BY <1>1, <1>2, <1>5, RowIsColumns DEF cut
    <2>3. /\ version'[u] \in [status : VersionStatus, number : Nat,
                              content : Content \cup {NoContent},
                              from : 0 .. MaxDay, to : 0 .. MaxDay]
          /\ version'[u].to = cut /\ version'[u].from < version'[u].to
      BY <1>1, <2>1, <2>2, Columns
    <2> QED BY <1>5, <2>2, <2>3 DEF cut
  <1>6. CASE u # v /\ u \notin Published \cap With(v)
    BY <1>1, <1>2, <1>6, Columns DEF VersionsTypeOK
  <1> QED BY <1>4, <1>5, <1>6

\* A publication: the spans of all others end before the new one begins.
LEMMA PublishHolds ==
    ASSUME VersionsIndInv, NEW v \in Version, PublishVersion(v)
    PROVE  VersionsIndInv'
  <1>1. VersionsTypeOK /\ SpansApart /\ NumbersAreUnique
    BY DEF VersionsIndInv
  <1>2. /\ version[v].status = "approved" /\ v \notin Published
        /\ \A u \in Published \cap With(v) : version[u].from < version[v].from
    BY DEF PublishVersion, Published
  <1>3. VersionsTypeOK'
    <2>1. version' = [u \in Version |-> version'[u]]
      BY DEF PublishVersion
    <2> QED BY <2>1, PublicationCuts DEF VersionsTypeOK
  <1>4. Published' = Published \cup {v}
    BY <1>2, PublicationCuts DEF Published
  <1>5. Stored' = Stored
    BY <1>2, PublicationCuts DEF Stored
  <1>6. NumbersAreUnique'
    BY <1>1, <1>5, PublicationCuts DEF NumbersAreUnique, Stored
  <1>7. ASSUME NEW p \in Published \cap With(v)
        PROVE  Precedes(p, v)' /\ p # v
    <2>1. p \in Version /\ p # v /\ version[p].from < version[v].from
      BY <1>2 DEF Published
    <2>2. /\ version'[p].from = version[p].from /\ version'[v].from = version[v].from
          /\ version'[p].to = Cut(version[p], version[v].from)
      BY <1>7, <2>1, PublicationCuts
    <2> QED BY <1>1, <2>1, <2>2, Columns DEF Precedes, Cut, Never
  <1>8. ASSUME NEW p \in Published, NEW q \in Published, Precedes(p, q)
        PROVE  Precedes(p, q)'
    <2>1. p \in Version /\ q \in Version
      BY DEF Published
    <2>2. version'[p].from = version[p].from /\ version'[q].from = version[q].from
      BY <1>8, <2>1, PublicationCuts
    <2>3. CASE p \in With(v)
      <3>1. /\ version[p].from < version[v].from
            /\ version'[p].to = Cut(version[p], version[v].from)
        BY <1>2, <1>8, <2>1, <2>3, PublicationCuts
      <3> QED BY <1>1, <1>8, <2>1, <2>2, <3>1, Columns DEF Precedes, Cut, Never
    <2>4. CASE p \notin With(v)
      <3>1. version'[p].to = version[p].to
        BY <1>8, <2>1, <2>4, PublicationCuts
      <3> QED BY <1>8, <2>2, <3>1 DEF Precedes
    <2> QED BY <2>3, <2>4
  <1>9. SpansApart'
    <2> SUFFICES ASSUME NEW d \in Document, NEW p \in d \cap Published',
                        NEW q \in d \cap Published', p # q
                 PROVE  Precedes(p, q)' \/ Precedes(q, p)'
      BY DEF SpansApart
    <2>1. CASE p # v /\ q # v
      <3>1. p \in d \cap Published /\ q \in d \cap Published
        BY <1>4, <2>1
      <3> QED BY <1>1, <1>8, <3>1 DEF SpansApart
    <2>2. CASE p = v \/ q = v
      BY <1>4, <1>7, <2>2, ShareADocument
    <2> QED BY <2>1, <2>2
  <1> QED BY <1>3, <1>6, <1>9 DEF VersionsIndInv

\* Every step keeps the spans apart and the numbers unique.
LEMMA VersionsStepHolds == VersionsIndInv /\ [VersionsNext]_version => VersionsIndInv'
  <1> SUFFICES ASSUME VersionsIndInv, [VersionsNext]_version PROVE VersionsIndInv'
    OBVIOUS
  <1>1. Numbers \subseteq Nat
    <2>1. VersionsTypeOK
      BY DEF VersionsIndInv
    <2> QED BY <2>1, Columns DEF Numbers
  <1>2. ASSUME NEW v \in Version, UploadVersion(v) PROVE VersionsIndInv'
    BY <1>1, <1>2, CreateHolds DEF UploadVersion
  <1>3. ASSUME NEW v \in Version, EditVersion(v) \/ WithdrawVersion(v) PROVE VersionsIndInv'
    <2>1. {"uploaded", "review", "approved", "rejected", "withdrawn"} \subseteq VersionStatus
      BY DEF VersionStatus
    <2>2. CASE PublishVersion(v)
      BY <2>2, PublishHolds
    <2>3. CASE VerifyVersion(v) \/ CorrectVersion(v)
      BY <2>1, <2>3, MoveHolds DEF VerifyVersion, CorrectVersion
    <2>4. CASE IngestVersion(v)
      BY <2>1, <2>4, MoveHolds DEF IngestVersion
    <2>5. CASE ApproveVersion(v)
      BY <2>1, <2>5, MoveHolds DEF ApproveVersion
    <2>6. CASE RejectVersion(v)
      BY <2>1, <2>6, MoveHolds DEF RejectVersion
    <2>7. CASE WithdrawVersion(v)
      BY <2>1, <2>7, MoveHolds DEF WithdrawVersion
    <2> QED BY <1>3, <2>2, <2>3, <2>4, <2>5, <2>6, <2>7 DEF EditVersion
  <1>4. CASE UNCHANGED version
    BY <1>4 DEF VersionsIndInv, VersionsTypeOK, SpansApart, Precedes, Published,
                NumbersAreUnique, Stored
  <1> QED BY <1>2, <1>3, <1>4 DEF VersionsNext

-------------------------------------------------------------------------------
(* The theorems. *)

\* publish_version: the spans of the published versions lie one after the other.
THEOREM PublishedSpansApart == VersionsSpec => []VersionsIndInv
  BY VersionsInitHolds, VersionsStepHolds, PTL DEF VersionsSpec

\* A reader who asks for any day finds one version in force, and no number twice.
THEOREM VersionsInvariant == VersionsSpec => []VersionsInv
  <1>1. VersionsIndInv => VersionsInv
    BY OneAnswer DEF VersionsIndInv, VersionsInv
  <1> QED BY <1>1, PublishedSpansApart, PTL

\* No handler replaces, moves or reopens a text that was published.
THEOREM HistoryStands == VersionsSpec => PublishedHistoryStands
  <1> DEFINE Stands(v) ==
          version[v].status \in {"published", "withdrawn"} =>
              /\ version'[v].status \in {"published", "withdrawn"}
              /\ version'[v].content = version[v].content
              /\ version'[v].from = version[v].from
              /\ version[v].to # Never => version'[v].to \in 1 .. version[v].to
  <1>1. VersionsIndInv /\ [VersionsNext]_version => [\A u \in Version : Stands(u)]_version
    <2> SUFFICES ASSUME VersionsIndInv, VersionsNext, NEW u \in Version,
                        version[u].status \in {"published", "withdrawn"}
                 PROVE  Stands(u)
      OBVIOUS
    <2>1. VersionsTypeOK
      BY DEF VersionsIndInv
    <2>2. version[u].to # Never => version[u].to \in 1 .. version[u].to
      BY <2>1, Columns DEF Never
    <2>3. ASSUME version'[u] = version[u] PROVE Stands(u)
      BY <2>2, <2>3
    <2>4. ASSUME NEW v \in Version, NEW from, NEW to, MovesVersion(v, from, to),
                 to = "withdrawn" \/ "published" \notin from,
                 "withdrawn" \notin from
          PROVE  Stands(u)
      <3>1. CASE u = v
        <4>1. version[u].status = "published" /\ to = "withdrawn"
          BY <2>4, <3>1 DEF MovesVersion
        <4>2. version'[u] = [version[u] EXCEPT !.status = to]
          BY <2>1, <2>4, <3>1 DEF MovesVersion, VersionsTypeOK
        <4>3. /\ version'[u].status = "withdrawn"
              /\ version'[u].content = version[u].content
              /\ version'[u].from = version[u].from /\ version'[u].to = version[u].to
          BY <2>1, <4>1, <4>2, Columns
        <4> QED BY <2>2, <4>3
      <3>2. CASE u # v
        BY <2>1, <2>3, <2>4, <3>2 DEF MovesVersion, VersionsTypeOK
      <3> QED BY <3>1, <3>2
    <2>5. ASSUME NEW v \in Version, PublishVersion(v) PROVE Stands(u)
      <3>1. /\ version'[u].content = version[u].content
            /\ version'[u].from = version[u].from
            /\ version'[u].status = IF u = v THEN "published" ELSE version[u].status
            /\ version'[u].to = IF u \in Published \cap With(v)
                                THEN Cut(version[u], version[v].from)
                                ELSE version[u].to
        BY <2>5, PublicationCuts
      <3>2. u \in Published \cap With(v) => version[u].from < version[v].from
        BY <2>5 DEF PublishVersion
      <3>3. version[u].to # Never => version'[u].to \in 1 .. version[u].to
        BY <2>1, <2>2, <3>1, <3>2, Columns DEF Cut, Never
      <3> QED BY <3>1, <3>3
    <2>6. ASSUME NEW v \in Version, UploadVersion(v) PROVE Stands(u)
      <3>1. u # v /\ version'[u] = version[u]
        BY <2>1, <2>6 DEF UploadVersion, CreateVersion, VersionsTypeOK
      <3> QED BY <2>3, <3>1
    <2>7. ASSUME NEW v \in Version, EditVersion(v) \/ WithdrawVersion(v) PROVE Stands(u)
      <3>1. CASE VerifyVersion(v) \/ IngestVersion(v) \/ CorrectVersion(v)
        BY <2>4, <3>1 DEF VerifyVersion, IngestVersion, CorrectVersion
      <3>2. CASE ApproveVersion(v) \/ RejectVersion(v) \/ WithdrawVersion(v)
        BY <2>4, <3>2 DEF ApproveVersion, RejectVersion, WithdrawVersion
      <3> QED BY <2>5, <2>7, <3>1, <3>2 DEF EditVersion
    <2> QED BY <2>6, <2>7 DEF VersionsNext
  <1>2. VersionsIndInv /\ [VersionsNext]_version =>
          [\A v \in Version : version[v].status \in {"published", "withdrawn"} =>
              /\ version'[v].status \in {"published", "withdrawn"}
              /\ version'[v].content = version[v].content
              /\ version'[v].from = version[v].from
              /\ version[v].to # Never => version'[v].to \in 1 .. version[v].to]_version
    BY <1>1
  <1> QED BY <1>2, PublishedSpansApart, PTL DEF VersionsSpec, PublishedHistoryStands

-------------------------------------------------------------------------------
(***************************************************************************)
(* A meeting and its knowledge, for any number of processes, requests,     *)
(* bases and versions.  Each step of a meeting is one of its documents or  *)
(* leaves them alone, so all that is proved of versions holds here.        *)
(***************************************************************************)

(* Meetings: what is said of each table and of each kind of process. *)

MeetingRows == [upload : {"verified", "deleting", "deleted"}, status : MeetingStatus,
                current : 0 .. MaxTranscripts]
MinuteRows == [transcript : 1 .. MaxTranscripts, confirmed : BOOLEAN]
MeetingJobRows == [attempt : 0 .. MaxAttempts, status : {"none"} \cup Active \cup Terminal,
                   cancel_requested : BOOLEAN, transcript : 0 .. MaxTranscripts]
PublicationRows == [version : Version \cup {"none"}, indexed : BOOLEAN]
WorkerTurns == [at : {"idle", "started"}, kind : Kind \cup {"none"}, attempt : 0 .. MaxAttempts,
                transcript : 0 .. MaxTranscripts]
PublisherTurns == [at : {"idle", "versioning", "uploading", "linking", "indexing"},
                   transcript : 0 .. MaxTranscripts, document : Document \cup {NoDocument},
                   version : Version \cup {"none"}, seen : MeetingStatus]

\* A text is in a document once.
TextsApart ==
    \A d \in Document : \A u, v \in d \cap Stored :
        version[u].content = version[v].content => u = v

VersionsFit == VersionsIndInv /\ TextsApart

MeetingFits == meeting \in MeetingRows /\ (meeting.status = "draft" <=> meeting.current = 0)

TextsFit == transcripts \in 0 .. MaxTranscripts /\ minutes \in Seq(MinuteRows)

\* Minutes are asked for, and made, from a transcript there is.
JobsFit ==
    /\ meetingJob \in [Kind -> MeetingJobRows]
    /\ meetingJob["minutes"].status # "none" => meetingJob["minutes"].transcript # 0

WorkersFit ==
    /\ worker \in [Worker -> WorkerTurns]
    /\ \A w \in Worker : worker[w].at = "started" /\ worker[w].kind = "minutes" =>
          worker[w].transcript # 0 /\ meetingJob["minutes"].status # "none"

RemovalFits ==
    /\ recording \in BOOLEAN /\ remover \in [Remover -> {"idle", "removing", "closing"}]
    /\ faults \in 0 .. MaxFaults

\* A deletion has begun where a request removes the recording or it is gone, and from
\* then on what is active of the knowledge is what came late.
DeletionFits ==
    /\ (\E r \in Remover : remover[r] # "idle") \/ ~recording => meeting.upload # "verified"
    /\ meeting.upload # "verified" => \A v \in Linked : EndedVersion(v) \/ v \in late

\* The version v holds the text of transcript t.
HoldsText(v, t) == v \in Stored /\ version[v].content = t

\* Nothing is published of a meeting that has no transcript.
PublicationFits ==
    /\ document \subseteq Document /\ late \subseteq Version
    /\ publication \in [1 .. MaxTranscripts -> PublicationRows]
    /\ meeting.current = 0 => \A t \in 1 .. MaxTranscripts : publication[t] = Unlinked
    /\ \A t \in 1 .. MaxTranscripts :
          publication[t] # Unlinked => HoldsText(publication[t].version, t)

\* A request that publishes has a transcript in hand and, once it has made one,
\* a version with its text.
PublisherFits(p) ==
    /\ publisher[p].at # "idle" => publisher[p].transcript # 0 /\ meeting.current # 0
    /\ publisher[p].at = "versioning" => publisher[p].document \in Document
    /\ publisher[p].at \in {"uploading", "linking"} =>
          HoldsText(publisher[p].version, publisher[p].transcript)
    /\ publisher[p].at = "indexing" => publication[publisher[p].transcript] # Unlinked

PublishersFit ==
    /\ publisher \in [Publisher -> PublisherTurns]
    /\ \A p \in Publisher : PublisherFits(p)

MeetingsIndInv ==
    /\ VersionsFit /\ MeetingFits /\ TextsFit /\ JobsFit /\ WorkersFit
    /\ RemovalFits /\ DeletionFits /\ PublicationFits /\ PublishersFit

-------------------------------------------------------------------------------
(* Who changes what. *)

\* The row of the meeting is changed by a new transcript, by a deletion, by the
\* end of a publication and by a withdrawal.
LEMMA ChangesOfMeeting ==
    ASSUME MeetingsNext
    PROVE  \/ meeting' = meeting
           \/ NewTranscript /\ meeting.status \notin Closed
           \/ \E r \in Remover : Mark(r) \/ Close(r)
           \/ \E p \in Publisher : Link(p)
           \/ \E v \in Version : WithdrawLinked(v)
  <1>1. CASE Texts
    BY <1>1 DEF Texts, StartTranscription, StartMinutes, EditTranscript, EditMinutes, ConfirmMinutes,
                RetryMeetingJob, Cancel, Sweep, Take, Transcribe, Summarize, Fail, Crash, NewMinutes
  <1>2. CASE Deletion
    BY <1>2 DEF Deletion, Mark, Remove, RemoveFails, Close
  <1>3. CASE Publication
    BY <1>3 DEF Publication, Publishing, Prepare, MakeVersion, Versioned, Complete, Refused, Resume,
                Index, Breaks, Govern
  <1> QED BY <1>1, <1>2, <1>3 DEF MeetingsNext

\* Transcripts and minutes.
LEMMA ChangesOfTexts ==
    ASSUME MeetingsNext
    PROVE  \/ UNCHANGED minuteRows
           \/ NewTranscript
           \/ meeting.current # 0 /\ NewMinutes(meeting.current)
           \/ \E w \in Worker : Summarize(w)
           \/ ConfirmMinutes
  <1>1. CASE Texts
    BY <1>1 DEF Texts, StartTranscription, StartMinutes, EditTranscript, EditMinutes,
                RetryMeetingJob, Cancel, Sweep, Take, Transcribe, Fail, Crash
  <1>2. CASE Deletion
    BY <1>2 DEF Deletion, Mark, Remove, RemoveFails, Close
  <1>3. CASE Publication
    BY <1>3 DEF Publication, Publishing, Prepare, MakeVersion, Versioned, Complete, Refused, Link,
                Resume, Index, Breaks, Govern, WithdrawLinked
  <1> QED BY <1>1, <1>2, <1>3 DEF MeetingsNext

\* Jobs and the processes that execute them.
LEMMA ChangesOfJobs ==
    ASSUME MeetingsNext
    PROVE  \/ UNCHANGED <<meetingJob, worker>>
           \/ StartTranscription \/ StartMinutes
           \/ \E k \in Kind : RetryMeetingJob(k) \/ Cancel(k) \/ Sweep(k)
           \/ \E w \in Worker, k \in Kind : Take(w, k)
           \/ \E w \in Worker, status \in Terminal : worker[w].at = "started" /\ Ends(w, status)
           \/ \E w \in Worker : Crash(w)
  <1>1. CASE Texts
    BY <1>1 DEF Texts, EditTranscript, EditMinutes, ConfirmMinutes, Transcribe, Summarize, Fail,
                Terminal, actors
  <1>2. CASE Deletion
    BY <1>2 DEF Deletion, Mark, Remove, RemoveFails, Close
  <1>3. CASE Publication
    BY <1>3 DEF Publication, Publishing, Prepare, MakeVersion, Versioned, Complete, Refused, Link,
                Resume, Index, Breaks, Govern, WithdrawLinked, actors
  <1> QED BY <1>1, <1>2, <1>3 DEF MeetingsNext

\* The recording and those who delete it, and the count of faults.
LEMMA ChangesOfRemoval ==
    ASSUME MeetingsNext
    PROVE  \/ UNCHANGED <<recording, remover, faults>>
           \/ \E r \in Remover : Mark(r) \/ Remove(r) \/ RemoveFails(r) \/ Close(r)
           \/ /\ UNCHANGED <<recording, remover>>
              /\ faults < MaxFaults /\ faults' = faults + 1
  <1>1. CASE Texts
    BY <1>1 DEF Texts, StartTranscription, StartMinutes, EditTranscript, EditMinutes, ConfirmMinutes,
                RetryMeetingJob, Cancel, Sweep, Take, Transcribe, Summarize, Fail, Crash, Ends, actors
  <1>2. CASE Deletion
    BY <1>2 DEF Deletion
  <1>3. CASE Publication
    BY <1>3 DEF Publication, Publishing, Prepare, MakeVersion, Versioned, Complete, Refused, Link,
                Resume, Index, Breaks, Govern, WithdrawLinked, actors
  <1> QED BY <1>1, <1>2, <1>3 DEF MeetingsNext

\* The knowledge document and its requests.
LEMMA ChangesOfKnowledge ==
    ASSUME MeetingsNext
    PROVE  \/ UNCHANGED <<knowledge, publisher>>
           \/ \E p \in Publisher : Publishing(p)
           \/ \E v \in Version : Govern(v) \/ WithdrawLinked(v)
  <1>1. CASE Texts
    BY <1>1 DEF Texts, StartTranscription, StartMinutes, EditTranscript, EditMinutes, ConfirmMinutes,
                RetryMeetingJob, Cancel, Sweep, Take, Transcribe, Summarize, Fail, Crash, Ends, actors
  <1>2. CASE Deletion
    BY <1>2 DEF Deletion, Mark, Remove, RemoveFails, Close
  <1>3. CASE Publication
    BY <1>3 DEF Publication, Govern, WithdrawLinked, actors
  <1> QED BY <1>1, <1>2, <1>3 DEF MeetingsNext

-------------------------------------------------------------------------------
(* Every step keeps every part. *)

\* A version that is there stays, with its text, whatever is done to the versions.
LEMMA TextsStand ==
    ASSUME VersionsIndInv, [VersionsNext]_version, NEW u \in Stored
    PROVE  u \in Stored' /\ version'[u].content = version[u].content
  <1>1. VersionsTypeOK /\ u \in Version /\ version[u].status # "absent"
    BY DEF VersionsIndInv, Stored
  <1>2. ASSUME version'[u] = version[u] PROVE u \in Stored' /\ version'[u].content = version[u].content
    BY <1>1, <1>2 DEF Stored
  <1>3. ASSUME NEW v \in Version, UploadVersion(v)
        PROVE  u \in Stored' /\ version'[u].content = version[u].content
    BY <1>1, <1>2, <1>3 DEF UploadVersion, CreateVersion, VersionsTypeOK
  <1>4. ASSUME NEW v \in Version, NEW from, NEW to, to # "absent", MovesVersion(v, from, to)
        PROVE  u \in Stored' /\ version'[u].content = version[u].content
    <2>1. version' = [version EXCEPT ![v] = [version[v] EXCEPT !.status = to]]
      BY <1>4 DEF MovesVersion
    <2>2. CASE u = v
      <3>1. version'[u].status = to /\ version'[u].content = version[u].content
        BY <1>1, <2>1, <2>2 DEF VersionsTypeOK
      <3> QED BY <1>1, <1>4, <3>1 DEF Stored
    <2>3. CASE u # v
      BY <1>1, <1>2, <2>1, <2>3 DEF VersionsTypeOK
    <2> QED BY <2>2, <2>3
  <1>5. ASSUME NEW v \in Version, PublishVersion(v)
        PROVE  u \in Stored' /\ version'[u].content = version[u].content
    BY <1>1, <1>5, PublicationCuts DEF Stored
  <1>6. ASSUME NEW v \in Version, EditVersion(v) \/ WithdrawVersion(v)
        PROVE  u \in Stored' /\ version'[u].content = version[u].content
    <2>1. CASE VerifyVersion(v) \/ IngestVersion(v) \/ CorrectVersion(v)
      BY <1>4, <2>1 DEF VerifyVersion, IngestVersion, CorrectVersion
    <2>2. CASE ApproveVersion(v) \/ RejectVersion(v) \/ WithdrawVersion(v)
      BY <1>4, <2>2 DEF ApproveVersion, RejectVersion, WithdrawVersion
    <2> QED BY <1>5, <1>6, <2>1, <2>2 DEF EditVersion
  <1>7. CASE UNCHANGED version
    BY <1>2, <1>7
  <1> QED BY <1>3, <1>6, <1>7 DEF VersionsNext

\* Only create_version inserts a version, and it refuses content that the document has.
LEMMA ContentStaysApart ==
    ASSUME VersionsIndInv, TextsApart, [VersionsNext]_version
    PROVE  TextsApart'
  <1>1. VersionsTypeOK
    BY DEF VersionsIndInv
  <1>2. ASSUME Stored' \subseteq Stored PROVE TextsApart'
    BY <1>2, TextsStand DEF TextsApart
  <1>3. ASSUME NEW v \in Version, UploadVersion(v) PROVE TextsApart'
    <2>1. PICK n \in Numbers, c \in Content, from \in Days, to \in {Never} \cup Days :
              CreateVersion(v, n, c, from, to)
      BY <1>3 DEF UploadVersion
    <2>2. /\ \A u \in Stored \cap With(v) : version[u].content # c
          /\ version'[v].status = "uploading" /\ version'[v].content = c
          /\ \A u \in Version : u # v => version'[u] = version[u]
      BY <1>1, <2>1 DEF CreateVersion, VersionsTypeOK
    <2>3. Stored' = Stored \cup {v} /\ v \notin Stored
      BY <2>1, <2>2 DEF CreateVersion, Stored
    <2> SUFFICES ASSUME NEW d \in Document, NEW u \in d \cap Stored', NEW w \in d \cap Stored',
                        version'[u].content = version'[w].content
                 PROVE  u = w
      BY DEF TextsApart
    <2>4. ASSUME NEW x \in d \cap Stored PROVE x # v /\ version'[x].content = version[x].content
      BY <2>2, <2>3, <2>4 DEF Stored
    <2>5. ASSUME NEW x \in d \cap Stored, v \in d PROVE version'[x].content # c
      BY <2>2, <2>4, <2>5, ShareADocument
    <2>6. CASE u # v /\ w # v
      BY <2>3, <2>4, <2>6 DEF TextsApart
    <2>7. CASE u = v \/ w = v
      BY <2>2, <2>3, <2>5, <2>7
    <2> QED BY <2>6, <2>7
  <1>4. ASSUME NEW v \in Version, EditVersion(v) \/ WithdrawVersion(v) PROVE Stored' \subseteq Stored
    <2>1. ASSUME NEW from, NEW to, "absent" \notin from, MovesVersion(v, from, to)
          PROVE  Stored' \subseteq Stored
      BY <1>1, <2>1 DEF MovesVersion, Stored, VersionsTypeOK
    <2>2. CASE PublishVersion(v)
      BY <2>2, PublicationCuts DEF PublishVersion, Stored
    <2>3. CASE VerifyVersion(v) \/ IngestVersion(v) \/ CorrectVersion(v)
      BY <2>1, <2>3 DEF VerifyVersion, IngestVersion, CorrectVersion
    <2>4. CASE ApproveVersion(v) \/ RejectVersion(v) \/ WithdrawVersion(v)
      BY <2>1, <2>4 DEF ApproveVersion, RejectVersion, WithdrawVersion
    <2> QED BY <1>4, <2>2, <2>3, <2>4 DEF EditVersion
  <1>5. CASE UNCHANGED version
    BY <1>2, <1>5 DEF Stored
  <1> QED BY <1>2, <1>3, <1>4, <1>5 DEF VersionsNext

\* What the editors do with a version leaves the others as active as they were.
LEMMA OthersStay ==
    ASSUME VersionsIndInv, NEW v \in Version, EditVersion(v) \/ WithdrawVersion(v),
           NEW u \in Version, u # v
    PROVE  version'[u].status = version[u].status
  <1>1. VersionsTypeOK
    BY DEF VersionsIndInv
  <1>2. ASSUME NEW from, NEW to, MovesVersion(v, from, to)
        PROVE  version'[u].status = version[u].status
    BY <1>1, <1>2 DEF MovesVersion, VersionsTypeOK
  <1>3. CASE PublishVersion(v)
    BY <1>3, PublicationCuts
  <1>4. CASE VerifyVersion(v) \/ IngestVersion(v) \/ CorrectVersion(v)
    BY <1>2, <1>4 DEF VerifyVersion, IngestVersion, CorrectVersion
  <1>5. CASE ApproveVersion(v) \/ RejectVersion(v) \/ WithdrawVersion(v)
    BY <1>2, <1>5 DEF ApproveVersion, RejectVersion, WithdrawVersion
  <1> QED BY <1>3, <1>4, <1>5 DEF EditVersion

\* A request makes a version of the document in hand.
LEMMA MakesOne ==
    ASSUME MeetingsIndInv, NEW p \in Publisher, MakeVersion(p)
    PROVE  \E t \in Content, d \in Document, seen \in MeetingStatus :
              meeting.current # 0 /\ t # 0 /\ Versioned(p, t, d, seen)
  <1>1. /\ MeetingFits /\ PublishersFit /\ PublisherFits(p) /\ document \subseteq Document
        /\ MaxTranscripts \in Nat /\ Content = 1 .. MaxTranscripts
    BY MeetingsBounds DEF MeetingsIndInv, PublishersFit, PublicationFits
  <1>2. CASE meeting.current # 0 /\ \E d \in document : Versioned(p, meeting.current, d, meeting.status)
    <2>1. /\ meeting.current \in Content /\ meeting.status \in MeetingStatus
      BY <1>1, <1>2 DEF MeetingFits, MeetingRows
    <2> QED BY <1>1, <1>2, <2>1
  <1>3. CASE /\ publisher[p].at = "versioning"
             /\ Versioned(p, publisher[p].transcript, publisher[p].document, publisher[p].seen)
    <2>1. /\ publisher[p].transcript \in Content /\ publisher[p].transcript # 0
          /\ publisher[p].document \in Document /\ publisher[p].seen \in MeetingStatus
          /\ meeting.current # 0
      BY <1>1, <1>3 DEF PublisherFits, PublishersFit, PublisherTurns
    <2> QED BY <1>3, <2>1
  <1> QED BY <1>2, <1>3 DEF MakeVersion

\* What happens to the versions around a meeting is what Versions allows.
LEMMA KnowledgeStep ==
    ASSUME MeetingsIndInv, MeetingsNext
    PROVE  [VersionsNext]_version
  <1>1. ASSUME NEW p \in Publisher, MakeVersion(p) PROVE VersionsNext
    <2>1. PICK t \in Content, d \in Document, seen \in MeetingStatus : Versioned(p, t, d, seen)
      BY <1>1, MakesOne
    <2>2. PICK v \in d, n \in Numbers, from \in Days : CreateVersion(v, n, t, from, Never)
      BY <2>1 DEF Versioned
    <2>3. v \in Version
      BY ShareADocument
    <2> QED BY <2>2, <2>3 DEF UploadVersion, VersionsNext
  <1>2. ASSUME NEW p \in Publisher, Complete(p) PROVE VersionsNext
    <2>1. publisher[p].version \in Version /\ VerifyVersion(publisher[p].version)
      BY <1>2 DEF Complete, MeetingsIndInv, PublishersFit, PublisherFits, HoldsText, Stored
    <2> QED BY <2>1 DEF EditVersion, VersionsNext
  <1>3. ASSUME NEW p \in Publisher, Publishing(p) PROVE [VersionsNext]_version
    BY <1>1, <1>2, <1>3 DEF Publishing, Prepare, Refused, Link, Resume, Index, Breaks, knowledge
  <1>4. ASSUME NEW v \in Version, Govern(v) \/ WithdrawLinked(v) PROVE VersionsNext
    BY <1>4 DEF Govern, WithdrawLinked, VersionsNext
  <1> QED BY <1>3, <1>4, ChangesOfKnowledge DEF knowledge

\* So what is known of versions holds of those of a meeting.
LEMMA VersionsStay == MeetingsIndInv /\ MeetingsNext => VersionsFit'
  BY KnowledgeStep, ContentStaysApart, VersionsStepHolds DEF MeetingsIndInv, VersionsFit

\* A meeting that has a transcript keeps one.
LEMMA MeetingStays ==
    ASSUME MeetingsIndInv, MeetingsNext
    PROVE  MeetingFits' /\ (meeting.current # 0 => meeting'.current # 0)
  <1>1. MeetingFits /\ MaxTranscripts \in Nat
    BY MeetingsBounds DEF MeetingsIndInv
  <1>2. CASE NewTranscript
    <2> DEFINE n == transcripts + 1
    <2>1. n \in 0 .. MaxTranscripts /\ n # 0
      BY <1>1, <1>2 DEF NewTranscript, MeetingsIndInv, TextsFit
    <2>2. meeting' = [meeting EXCEPT !.current = n, !.status = "transcribed"]
      BY <1>2 DEF NewTranscript
    <2> HIDE DEF n
    <2> QED BY <1>1, <2>1, <2>2 DEF MeetingFits, MeetingRows, MeetingStatus
  <1>3. ASSUME NEW r \in Remover, Mark(r) \/ Close(r)
        PROVE  MeetingFits' /\ meeting'.current = meeting.current
    BY <1>1, <1>3 DEF Mark, Close, MeetingFits, MeetingRows
  <1>4. ASSUME NEW status \in MeetingStatus, status # "draft", meeting.current # 0,
               meeting' = [meeting EXCEPT !.status = status]
        PROVE  MeetingFits' /\ meeting'.current = meeting.current
    BY <1>1, <1>4 DEF MeetingFits, MeetingRows
  <1>5. ASSUME NEW p \in Publisher, Link(p)
        PROVE  MeetingFits' /\ meeting'.current = meeting.current
    <2> DEFINE status == Flushed(meeting.status, publisher[p].seen, "published")
    <2>1. meeting.current # 0
      BY <1>5 DEF Link, MeetingsIndInv, PublishersFit, PublisherFits
    <2>2. status \in MeetingStatus /\ status # "draft"
      BY <1>1, <2>1 DEF Flushed, MeetingFits, MeetingRows, MeetingStatus
    <2>3. meeting' = [meeting EXCEPT !.status = status]
      BY <1>5 DEF Link
    <2> HIDE DEF status
    <2> QED BY <1>4, <2>1, <2>2, <2>3
  <1>6. ASSUME NEW v \in Version, WithdrawLinked(v)
        PROVE  MeetingFits' /\ meeting'.current = meeting.current
    <2>1. CASE meeting' = meeting
      BY <1>1, <2>1 DEF MeetingFits
    <2>2. CASE v \in Linked /\ meeting' = [meeting EXCEPT !.status = "withdrawn"]
      <3>1. meeting.current # 0
        BY <2>2 DEF MeetingsIndInv, PublicationFits, Linked, Unlinked
      <3> QED BY <1>4, <2>2, <3>1 DEF MeetingStatus
    <2> QED BY <1>6, <2>1, <2>2 DEF WithdrawLinked
  <1>7. CASE meeting' = meeting
    BY <1>1, <1>7 DEF MeetingFits
  <1> QED BY <1>2, <1>3, <1>5, <1>6, <1>7, ChangesOfMeeting

\* Transcripts are counted, and minutes name one of them.
LEMMA TextsStay ==
    ASSUME MeetingsIndInv, MeetingsNext
    PROVE  TextsFit'
  <1>1. TextsFit /\ MaxTranscripts \in Nat
    BY MeetingsBounds DEF MeetingsIndInv
  <1>2. CASE UNCHANGED minuteRows
    BY <1>1, <1>2 DEF minuteRows, TextsFit
  <1>3. CASE NewTranscript
    BY <1>1, <1>3 DEF NewTranscript, TextsFit
  <1>4. ASSUME NEW t \in 0 .. MaxTranscripts, t # 0, NewMinutes(t) PROVE TextsFit'
    <2>1. [transcript |-> t, confirmed |-> FALSE] \in MinuteRows
      BY <1>1, <1>4 DEF MinuteRows
    <2> QED BY <1>1, <1>4, <2>1 DEF NewMinutes, TextsFit
  <1>5. CASE meeting.current # 0 /\ NewMinutes(meeting.current)
    BY <1>4, <1>5 DEF MeetingsIndInv, MeetingFits, MeetingRows
  <1>6. ASSUME NEW w \in Worker, Summarize(w) PROVE TextsFit'
    <2>1. worker[w].transcript \in 0 .. MaxTranscripts /\ worker[w].transcript # 0
      BY <1>6 DEF Summarize, MeetingsIndInv, WorkersFit, WorkerTurns
    <2> QED BY <1>4, <1>6, <2>1 DEF Summarize
  <1>7. CASE ConfirmMinutes
    <2>1. PICK i \in DOMAIN minutes : minutes' = [minutes EXCEPT ![i].confirmed = TRUE]
      BY <1>7 DEF ConfirmMinutes
    <2>2. minutes[i] \in MinuteRows
      BY <1>1 DEF TextsFit
    <2>3. [minutes[i] EXCEPT !.confirmed = TRUE] \in MinuteRows
      BY <2>2 DEF MinuteRows
    <2>4. minutes' \in Seq(MinuteRows)
      BY <1>1, <2>1, <2>3 DEF TextsFit
    <2> QED BY <1>1, <1>7, <2>4 DEF ConfirmMinutes, TextsFit
  <1> QED BY <1>2, <1>3, <1>5, <1>6, <1>7, ChangesOfTexts

\* An attempt that is executed has been asked for.
LEMMA JobsStay ==
    ASSUME MeetingsIndInv, MeetingsNext
    PROVE  JobsFit' /\ WorkersFit'
  <1>1. /\ JobsFit /\ WorkersFit /\ MeetingFits /\ MaxTranscripts \in Nat
        /\ MaxAttempts \in Nat /\ MaxAttempts > 0 /\ Kind = {"transcription", "minutes"}
    BY MeetingsBounds DEF MeetingsIndInv, Kind
  \* A row is replaced by one that has been asked for, too.
  <1>2. ASSUME NEW k \in Kind, NEW row \in MeetingJobRows, row.status # "none",
               k = "minutes" => row.transcript # 0,
               meetingJob' = [meetingJob EXCEPT ![k] = row]
        PROVE  /\ JobsFit' /\ meetingJob'[k] = row
               /\ meetingJob["minutes"].status # "none" => meetingJob'["minutes"].status # "none"
    BY <1>1, <1>2 DEF JobsFit
  <1>3. ASSUME NEW k \in Kind, meetingJob[k].status # "none", NEW status \in Active \cup Terminal,
               NEW cancel \in BOOLEAN, NEW attempt \in 0 .. MaxAttempts,
               meetingJob' = [meetingJob EXCEPT ![k] =
                   [@ EXCEPT !.attempt = attempt, !.status = status, !.cancel_requested = cancel]]
        PROVE  /\ JobsFit' /\ meetingJob'[k].transcript = meetingJob[k].transcript
               /\ meetingJob["minutes"].status # "none" => meetingJob'["minutes"].status # "none"
    <2> DEFINE row == [meetingJob[k] EXCEPT !.attempt = attempt, !.status = status,
                                            !.cancel_requested = cancel]
    <2>1. row \in MeetingJobRows /\ row.status = status /\ row.transcript = meetingJob[k].transcript
      BY <1>1, <1>3 DEF JobsFit, MeetingJobRows
    <2>2. status # "none"
      BY <1>3 DEF Active, Terminal
    <2>3. meetingJob' = [meetingJob EXCEPT ![k] = row]
      BY <1>3
    <2> HIDE DEF row
    <2> QED BY <1>1, <1>2, <1>3, <2>1, <2>2, <2>3 DEF JobsFit
  \* A change of some columns is one of all of them.
  <1>4. ASSUME NEW k \in Kind
        PROVE  /\ meetingJob[k] \in MeetingJobRows /\ meetingJob[k].attempt \in 0 .. MaxAttempts
               /\ meetingJob[k].cancel_requested \in BOOLEAN
               /\ \A status : [meetingJob EXCEPT ![k].status = status] =
                      [meetingJob EXCEPT ![k] =
                          [@ EXCEPT !.attempt = meetingJob[k].attempt, !.status = status,
                                    !.cancel_requested = meetingJob[k].cancel_requested]]
    BY <1>1, <1>4 DEF JobsFit, MeetingJobRows
  <1>5. ASSUME UNCHANGED worker, meetingJob["minutes"].status # "none" =>
                                     meetingJob'["minutes"].status # "none"
        PROVE  WorkersFit'
    BY <1>1, <1>5 DEF WorkersFit
  <1>6. ASSUME NEW kind \in Kind, NEW transcript \in 0 .. MaxTranscripts, Starts(kind, transcript),
               kind = "minutes" => transcript # 0, UNCHANGED worker
        PROVE  JobsFit' /\ WorkersFit'
    <2> DEFINE row == [attempt |-> 1, status |-> "queued", cancel_requested |-> FALSE,
                       transcript |-> transcript]
    <2>1. row \in MeetingJobRows /\ row.status # "none" /\ row.transcript = transcript
      BY <1>1 DEF MeetingJobRows, Active
    <2>2. meetingJob' = [meetingJob EXCEPT ![kind] = row]
      BY <1>6 DEF Starts
    <2> HIDE DEF row
    <2> QED BY <1>2, <1>5, <1>6, <2>1, <2>2
  <1>7. CASE StartTranscription
    BY <1>1, <1>6, <1>7 DEF StartTranscription, actors
  <1>8. CASE StartMinutes
    BY <1>1, <1>6, <1>8 DEF StartMinutes, actors, MeetingFits, MeetingRows
  <1>9. ASSUME NEW k \in Kind, RetryMeetingJob(k) PROVE JobsFit' /\ WorkersFit'
    <2> DEFINE attempt == meetingJob[k].attempt + 1
    <2>1. /\ attempt \in 0 .. MaxAttempts /\ meetingJob[k].status # "none"
          /\ meetingJob' = [meetingJob EXCEPT ![k] =
                 [@ EXCEPT !.attempt = attempt, !.status = "queued", !.cancel_requested = FALSE]]
          /\ UNCHANGED worker
      <3>1. meetingJob[k].attempt \in 0 .. MaxAttempts /\ meetingJob[k].attempt < MaxAttempts
        BY <1>4, <1>9 DEF RetryMeetingJob
      <3>2. attempt \in 0 .. MaxAttempts
        BY <1>1, <3>1
      <3>3. meetingJob[k].status # "none"
        BY <1>9 DEF RetryMeetingJob
      <3>4. meetingJob' = [meetingJob EXCEPT ![k] =
                [@ EXCEPT !.attempt = attempt, !.status = "queued", !.cancel_requested = FALSE]]
        BY <1>1, <1>4, <1>9 DEF RetryMeetingJob, JobsFit, MeetingJobRows
      <3> QED BY <1>9, <3>2, <3>3, <3>4 DEF RetryMeetingJob, actors
    <2> HIDE DEF attempt
    <2> QED BY <1>3, <1>5, <2>1 DEF Active
  <1>10. ASSUME NEW k \in Kind, Cancel(k) PROVE JobsFit' /\ WorkersFit'
    <2>1. /\ meetingJob[k].status \in Active \cup Terminal /\ meetingJob[k].status # "none"
          /\ meetingJob' = [meetingJob EXCEPT ![k].cancel_requested = TRUE]
          /\ UNCHANGED worker
      BY <1>10 DEF Cancel, actors, Active
    <2>2. meetingJob' = [meetingJob EXCEPT ![k] =
              [@ EXCEPT !.attempt = meetingJob[k].attempt, !.status = meetingJob[k].status,
                        !.cancel_requested = TRUE]]
      BY <1>1, <2>1 DEF JobsFit, MeetingJobRows
    <2> QED BY <1>3, <1>4, <1>5, <2>1, <2>2
  <1>11. ASSUME NEW k \in Kind, meetingJob[k].status # "none", NEW status \in Active \cup Terminal,
                meetingJob' = [meetingJob EXCEPT ![k].status = status]
         PROVE  /\ JobsFit' /\ meetingJob'[k].transcript = meetingJob[k].transcript
                /\ meetingJob["minutes"].status # "none" => meetingJob'["minutes"].status # "none"
    <2> DEFINE attempt == meetingJob[k].attempt
               cancel == meetingJob[k].cancel_requested
    <2>1. meetingJob' = [meetingJob EXCEPT ![k] =
              [@ EXCEPT !.attempt = attempt, !.status = status, !.cancel_requested = cancel]]
      BY <1>4, <1>11
    <2>2. attempt \in 0 .. MaxAttempts /\ cancel \in BOOLEAN
      BY <1>4
    <2> HIDE DEF attempt, cancel
    <2> QED BY <1>3, <1>11, <2>1, <2>2
  <1>12. ASSUME NEW k \in Kind, Sweep(k) PROVE JobsFit' /\ WorkersFit'
    BY <1>5, <1>11, <1>12 DEF Sweep, actors, Terminal
  <1>13. ASSUME NEW w \in Worker, NEW k \in Kind, Take(w, k) PROVE JobsFit' /\ WorkersFit'
    <2>1. meetingJob[k].status # "none"
      BY <1>13 DEF Take, Active
    <2>2. CASE /\ meetingJob' = [meetingJob EXCEPT ![k].status = "cancelled"]
               /\ UNCHANGED worker
      BY <1>5, <1>11, <2>1, <2>2 DEF Terminal
    <2>3. CASE /\ meetingJob' = [meetingJob EXCEPT ![k].status = "running"]
               /\ worker' = [worker EXCEPT ![w] =
                      [at |-> "started", kind |-> k, attempt |-> meetingJob[k].attempt,
                       transcript |-> meetingJob[k].transcript]]
      <3>1. /\ JobsFit'
            /\ meetingJob["minutes"].status # "none" => meetingJob'["minutes"].status # "none"
        BY <1>11, <2>1, <2>3 DEF Active
      <3> DEFINE turn == [at |-> "started", kind |-> k, attempt |-> meetingJob[k].attempt,
                          transcript |-> meetingJob[k].transcript]
      <3>2. turn \in WorkerTurns
        BY <1>1, <1>4 DEF WorkerTurns, MeetingJobRows
      <3>3. turn.kind = k /\ turn.transcript = meetingJob[k].transcript
        OBVIOUS
      <3>4. worker' = [worker EXCEPT ![w] = turn]
        BY <2>3
      <3> HIDE DEF turn
      <3>5. WorkersFit'
        BY <1>1, <2>1, <3>1, <3>2, <3>3, <3>4 DEF WorkersFit, JobsFit
      <3> QED BY <3>1, <3>5
    <2> QED BY <1>13, <2>2, <2>3 DEF Take
  <1>14. Free \in WorkerTurns /\ Free.at # "started"
    BY <1>1 DEF Free, WorkerTurns
  <1>15. ASSUME NEW w \in Worker, NEW status \in Terminal, worker[w].at = "started", Ends(w, status)
         PROVE  JobsFit' /\ WorkersFit'
    <2> DEFINE kind == worker[w].kind
    <2>1. worker' = [worker EXCEPT ![w] = Free]
      BY <1>15 DEF Ends
    <2>2. \/ meetingJob' = meetingJob
          \/ kind \in Kind /\ meetingJob' = [meetingJob EXCEPT ![kind].status = status]
      <3>1. meetingJob' = [k \in Kind |->
                IF k = kind /\ meetingJob[k].attempt = worker[w].attempt
                THEN [meetingJob[k] EXCEPT !.status = status] ELSE meetingJob[k]]
        BY <1>15 DEF Ends
      <3>2. meetingJob = [k \in Kind |-> meetingJob[k]]
        BY <1>1 DEF JobsFit
      <3> HIDE DEF kind
      <3> QED BY <1>1, <3>1, <3>2 DEF JobsFit
    <2>3. status \in Active \cup Terminal /\ status # "none"
      BY <1>15 DEF Terminal
    <2>4. /\ JobsFit'
          /\ meetingJob["minutes"].status # "none" => meetingJob'["minutes"].status # "none"
      <3>1. CASE meetingJob' = meetingJob
        BY <1>1, <3>1 DEF JobsFit
      <3>2. CASE kind = "minutes" /\ meetingJob' = [meetingJob EXCEPT ![kind].status = status]
        <4>1. kind \in Kind /\ meetingJob[kind].status # "none"
          BY <1>1, <1>15, <3>2 DEF WorkersFit
        <4> HIDE DEF kind
        <4> QED BY <1>11, <2>3, <3>2, <4>1
      <3>3. CASE kind = "transcription" /\ meetingJob' = [meetingJob EXCEPT ![kind].status = status]
        <4>1. [meetingJob[kind] EXCEPT !.status = status] \in MeetingJobRows
          BY <1>1, <1>4, <2>3, <3>3 DEF MeetingJobRows
        <4>2. meetingJob'["minutes"] = meetingJob["minutes"]
          BY <1>1, <3>3 DEF JobsFit
        <4>3. meetingJob' \in [Kind -> MeetingJobRows]
          BY <1>1, <3>3, <4>1 DEF JobsFit
        <4> QED BY <1>1, <4>2, <4>3 DEF JobsFit
      <3> QED BY <1>1, <2>2, <3>1, <3>2, <3>3
    <2>5. WorkersFit'
      BY <1>1, <1>14, <2>1, <2>4 DEF WorkersFit
    <2> QED BY <2>4, <2>5
  <1>16. ASSUME NEW w \in Worker, Crash(w) PROVE JobsFit' /\ WorkersFit'
    BY <1>1, <1>14, <1>16 DEF Crash, JobsFit, WorkersFit
  <1>17. CASE UNCHANGED <<meetingJob, worker>>
    BY <1>1, <1>17 DEF JobsFit, WorkersFit
  <1> QED BY <1>7, <1>8, <1>9, <1>10, <1>12, <1>13, <1>15, <1>16, <1>17, ChangesOfJobs

\* Storage, those who delete, and faults.
LEMMA RemovalStays ==
    ASSUME MeetingsIndInv, MeetingsNext
    PROVE  RemovalFits'
  <1>1. RemovalFits /\ MaxFaults \in Nat
    BY MeetingsBounds DEF MeetingsIndInv
  <1>2. ASSUME NEW r \in Remover, Mark(r) \/ Remove(r) \/ RemoveFails(r) \/ Close(r)
        PROVE  RemovalFits'
    <2>1. CASE Mark(r) \/ Close(r)
      BY <1>1, <2>1 DEF RemovalFits, Mark, Close
    <2>2. CASE Remove(r)
      BY <1>1, <2>2 DEF RemovalFits, Remove
    <2>3. CASE RemoveFails(r)
      BY <1>1, <2>3 DEF RemovalFits, RemoveFails
    <2> QED BY <1>2, <2>1, <2>2, <2>3
  <1>3. CASE UNCHANGED <<recording, remover, faults>>
    BY <1>1, <1>3 DEF RemovalFits
  <1>4. CASE UNCHANGED <<recording, remover>> /\ faults < MaxFaults /\ faults' = faults + 1
    BY <1>1, <1>4 DEF RemovalFits
  <1> QED BY <1>2, <1>3, <1>4, ChangesOfRemoval

\* What a meeting is linked to is there.
LEMMA LinkedAreStored ==
    ASSUME PublicationFits
    PROVE  Linked \subseteq Stored
  BY DEF PublicationFits, Linked, Unlinked, HoldsText

\* A recording is never out of its deletion again, and only Mark puts it in.
LEMMA UploadStays ==
    ASSUME MeetingsIndInv, MeetingsNext
    PROVE  \/ \E r \in Remover : Mark(r)
           \/ meeting'.upload # "verified" <=> meeting.upload # "verified"
  <1>1. meeting \in MeetingRows /\ remover \in [Remover -> {"idle", "removing", "closing"}]
    BY DEF MeetingsIndInv, MeetingFits, RemovalFits
  <1>2. CASE NewTranscript
    BY <1>1, <1>2 DEF NewTranscript, MeetingRows
  <1>3. ASSUME NEW r \in Remover, Close(r)
        PROVE  meeting'.upload # "verified" /\ meeting.upload # "verified"
    BY <1>1, <1>3 DEF Close, MeetingRows, MeetingsIndInv, DeletionFits
  <1>4. ASSUME NEW p \in Publisher, Link(p) PROVE meeting'.upload = meeting.upload
    BY <1>1, <1>4 DEF Link, MeetingRows
  <1>5. ASSUME NEW v \in Version, WithdrawLinked(v) PROVE meeting'.upload = meeting.upload
    BY <1>1, <1>5 DEF WithdrawLinked, MeetingRows
  <1> QED BY <1>2, <1>3, <1>4, <1>5, ChangesOfMeeting

\* Publications, versions and what came late, in the steps that publish.
LEMMA LateKnowledge ==
    ASSUME MeetingsIndInv, MeetingsNext, meeting.upload # "verified"
    PROVE  \A v \in Linked' : EndedVersion(v)' \/ v \in late'
  <1>1. /\ VersionsIndInv /\ VersionsTypeOK /\ PublicationFits /\ PublishersFit
        /\ \A v \in Linked : EndedVersion(v) \/ v \in late
        /\ Linked \subseteq Stored /\ Stored \subseteq Version
    BY LinkedAreStored DEF MeetingsIndInv, VersionsFit, VersionsIndInv, DeletionFits, Stored
  <1>2. ASSUME Linked' \subseteq Linked, late \subseteq late',
               \A u \in Linked : version'[u].status = version[u].status \/ u \in late' \/ EndedVersion(u)'
        PROVE  \A v \in Linked' : EndedVersion(v)' \/ v \in late'
    BY <1>1, <1>2 DEF EndedVersion
  <1>3. ASSUME UNCHANGED publication PROVE Linked' = Linked
    BY <1>3 DEF Linked
  <1>4. CASE UNCHANGED knowledge
    BY <1>2, <1>3, <1>4 DEF knowledge
  <1>5. ASSUME NEW p \in Publisher, Link(p) PROVE \A v \in Linked' : EndedVersion(v)' \/ v \in late'
    <2> DEFINE row == [version |-> publisher[p].version, indexed |-> FALSE]
    <2>1. /\ publication' = [publication EXCEPT ![publisher[p].transcript] = row]
          /\ row.version = publisher[p].version /\ UNCHANGED version
          /\ late' = late \cup {publisher[p].version}
      BY <1>5 DEF Link, LateWith
    <2> HIDE DEF row
    <2>2. Linked' \subseteq Linked \cup {publisher[p].version}
      BY <1>1, <2>1 DEF Linked, PublicationFits
    <2> QED BY <1>1, <2>1, <2>2 DEF EndedVersion
  <1>6. ASSUME NEW p \in Publisher, MakeVersion(p) PROVE \A v \in Linked' : EndedVersion(v)' \/ v \in late'
    <2>1. PICK t \in Content, d \in Document, seen \in MeetingStatus : Versioned(p, t, d, seen)
      BY <1>6, MakesOne
    <2>2. PICK v \in d, n \in Numbers, from \in Days : CreateVersion(v, n, t, from, Never)
      BY <2>1 DEF Versioned
    <2>3. v \notin Stored
      BY <2>2 DEF CreateVersion, Stored
    <2>4. \A u \in Stored : version'[u] = version[u]
      BY <1>1, <2>2, <2>3 DEF CreateVersion, VersionsTypeOK
    <2>5. UNCHANGED <<publication, late>>
      BY <2>1 DEF Versioned
    <2> QED BY <1>1, <1>2, <1>3, <2>4, <2>5
  <1>7. ASSUME NEW p \in Publisher, Complete(p) PROVE \A v \in Linked' : EndedVersion(v)' \/ v \in late'
    <2> DEFINE v == publisher[p].version
    <2>1. v \in Version /\ VerifyVersion(v) /\ UNCHANGED <<publication, late>>
      BY <1>1, <1>7 DEF Complete, PublishersFit, PublisherFits, HoldsText, Stored
    <2> HIDE DEF v
    <2>2. version[v].status = "uploading" /\ EditVersion(v)
      BY <2>1 DEF VerifyVersion, MovesVersion, EditVersion
    <2>3. v \in Linked => v \in late
      BY <1>1, <2>2 DEF EndedVersion
    <2>4. \A u \in Linked : u # v => version'[u].status = version[u].status
      BY <1>1, <2>1, <2>2, OthersStay
    <2> QED BY <1>2, <1>3, <2>1, <2>3, <2>4
  <1>8. ASSUME NEW p \in Publisher, Index(p) PROVE \A v \in Linked' : EndedVersion(v)' \/ v \in late'
    <2>1. Linked' = Linked
      <3> DEFINE t == publisher[p].transcript
                 row == [publication[t] EXCEPT !.indexed = TRUE]
      <3>1. t \in 1 .. MaxTranscripts
        BY <1>1, <1>8, MeetingsBounds DEF Index, PublishersFit, PublisherFits, PublisherTurns
      <3>2. row.version = publication[t].version
        BY <1>1, <3>1 DEF PublicationFits, PublicationRows
      <3>3. publication' = [publication EXCEPT ![t] = row]
        BY <1>8 DEF Index
      <3> HIDE DEF t, row
      <3>4. \A i \in 1 .. MaxTranscripts : publication'[i].version = publication[i].version
        BY <1>1, <3>1, <3>2, <3>3 DEF PublicationFits
      <3> QED BY <3>4 DEF Linked
    <2>2. UNCHANGED <<late, version>>
      BY <1>8 DEF Index
    <2> QED BY <1>2, <2>1, <2>2
  <1>9. ASSUME NEW p \in Publisher, Publishing(p) PROVE \A v \in Linked' : EndedVersion(v)' \/ v \in late'
    <2>1. CASE Prepare(p) \/ Refused(p) \/ Resume(p) \/ Breaks(p)
      <3>1. UNCHANGED <<publication, late, version>>
        BY <2>1 DEF Prepare, Refused, Resume, Breaks, knowledge
      <3> QED BY <1>2, <1>3, <3>1
    <2> QED BY <1>5, <1>6, <1>7, <1>8, <1>9, <2>1 DEF Publishing
  <1>10. ASSUME NEW v \in Version, Govern(v) PROVE \A u \in Linked' : EndedVersion(u)' \/ u \in late'
    <2>1. /\ EditVersion(v) /\ UNCHANGED publication
          /\ late' = IF EndedVersion(v) THEN late \cup {v} ELSE late
      BY <1>10 DEF Govern, LateWith
    <2>2. v \in Linked => v \in late'
      BY <1>1, <2>1
    <2>3. \A u \in Linked : u # v => version'[u].status = version[u].status
      BY <1>1, <2>1, OthersStay
    <2> QED BY <1>2, <1>3, <2>1, <2>2, <2>3
  <1>11. ASSUME NEW v \in Version, WithdrawLinked(v)
         PROVE  \A u \in Linked' : EndedVersion(u)' \/ u \in late'
    <2>1. WithdrawVersion(v) /\ UNCHANGED <<publication, late>>
      BY <1>11 DEF WithdrawLinked
    <2>2. EndedVersion(v)'
      BY <1>1, <2>1 DEF WithdrawVersion, MovesVersion, VersionsTypeOK, EndedVersion
    <2>3. \A u \in Linked : u # v => version'[u].status = version[u].status
      BY <1>1, <2>1, OthersStay
    <2> QED BY <1>2, <1>3, <2>1, <2>2, <2>3
  <1> QED BY <1>4, <1>9, <1>10, <1>11, ChangesOfKnowledge

\* Mark finds nothing active under the lock of the meeting; what becomes active later
\* is late.
LEMMA DeletionStays ==
    ASSUME MeetingsIndInv, MeetingsNext
    PROVE  DeletionFits'
  <1>1. /\ DeletionFits /\ RemovalFits /\ meeting \in MeetingRows
    BY DEF MeetingsIndInv, MeetingFits
  <1>2. ASSUME NEW r \in Remover, Mark(r) PROVE DeletionFits'
    <2>1. meeting'.upload # "verified"
      BY <1>1, <1>2 DEF Mark, MeetingRows
    <2>2. UNCHANGED knowledge /\ \A v \in Linked : EndedVersion(v)
      BY <1>2 DEF Mark, Blocked
    <2> QED BY <2>1, <2>2 DEF DeletionFits, knowledge, Linked, EndedVersion
  <1>3. CASE ~\E r \in Remover : Mark(r)
    <2>1. meeting'.upload # "verified" <=> meeting.upload # "verified"
      BY <1>3, UploadStays
    <2>2. (\E r \in Remover : remover'[r] # "idle") \/ ~recording' => meeting'.upload # "verified"
      <3>1. ASSUME NEW r \in Remover, Remove(r) PROVE meeting'.upload # "verified"
        BY <1>1, <2>1, <3>1 DEF Remove, DeletionFits
      <3>2. ASSUME NEW r \in Remover, RemoveFails(r) \/ Close(r) PROVE meeting'.upload # "verified"
        BY <1>1, <2>1, <3>2 DEF RemoveFails, Close, DeletionFits
      <3>3. CASE UNCHANGED <<recording, remover>>
        BY <1>1, <2>1, <3>3 DEF DeletionFits
      <3> QED BY <1>3, <3>1, <3>2, <3>3, ChangesOfRemoval
    <2>3. ASSUME meeting'.upload # "verified"
          PROVE  \A v \in Linked' : EndedVersion(v)' \/ v \in late'
      BY <2>1, <2>3, LateKnowledge
    <2> QED BY <2>2, <2>3 DEF DeletionFits
  <1> QED BY <1>2, <1>3

\* A text that is held is held for good.
LEMMA TextIsHeld ==
    ASSUME MeetingsIndInv, MeetingsNext, NEW v, NEW t, HoldsText(v, t)
    PROVE  v \in Stored' /\ version'[v].content = t
  <1>1. VersionsIndInv /\ [VersionsNext]_version
    BY KnowledgeStep DEF MeetingsIndInv, VersionsFit
  <1> QED BY <1>1, TextsStand DEF HoldsText

\* A publication that exists belongs to a meeting with a transcript.
LEMMA PublicationStays ==
    ASSUME MeetingsIndInv, MeetingsNext
    PROVE  PublicationFits'
  <1>1. PublicationFits /\ PublishersFit /\ MaxTranscripts \in Nat /\ "none" \notin Version
    BY MeetingsBounds DEF MeetingsIndInv
  <1>2. meeting.current # 0 => meeting'.current # 0
    BY MeetingStays
  <1>3. ASSUME UNCHANGED publication, document' \subseteq Document, late' \subseteq Version
        PROVE  PublicationFits'
    BY <1>1, <1>2, <1>3, TextIsHeld DEF PublicationFits, HoldsText
  <1>4. ASSUME NEW t \in 1 .. MaxTranscripts, NEW row \in PublicationRows,
               publication' = [publication EXCEPT ![t] = row], meeting.current # 0,
               HoldsText(row.version, t),
               document' \subseteq Document, late' \subseteq Version
        PROVE  PublicationFits'
    <2>1. /\ publication' \in [1 .. MaxTranscripts -> PublicationRows]
          /\ publication'[t] = row
          /\ \A i \in 1 .. MaxTranscripts : i # t => publication'[i] = publication[i]
      BY <1>1, <1>4 DEF PublicationFits
    <2>2. ASSUME NEW i \in 1 .. MaxTranscripts, publication'[i] # Unlinked
          PROVE  publication'[i].version \in Stored' /\ version'[publication'[i].version].content = i
      <3>1. HoldsText(row.version, t) /\ (i # t => HoldsText(publication[i].version, i))
        BY <1>1, <1>4, <2>1, <2>2 DEF PublicationFits
      <3> QED BY <2>1, <3>1, TextIsHeld
    <2> QED BY <1>2, <1>4, <2>1, <2>2 DEF PublicationFits, HoldsText
  <1>5. \A v \in Version : LateWith(v) \subseteq Version
    BY <1>1 DEF LateWith, PublicationFits
  <1>6. ASSUME NEW p \in Publisher, Link(p) PROVE PublicationFits'
    <2> DEFINE t == publisher[p].transcript
               row == [version |-> publisher[p].version, indexed |-> FALSE]
    <2>1. /\ t \in 1 .. MaxTranscripts /\ meeting.current # 0
          /\ HoldsText(publisher[p].version, t) /\ publisher[p].version \in Version
      BY <1>1, <1>6 DEF Link, PublishersFit, PublisherFits, PublisherTurns, HoldsText, Stored
    <2>2. row \in PublicationRows /\ row.version = publisher[p].version
      BY <2>1 DEF PublicationRows
    <2>3. /\ publication' = [publication EXCEPT ![t] = row] /\ UNCHANGED document
          /\ late' = LateWith(publisher[p].version)
      BY <1>6 DEF Link
    <2>4. document' \subseteq Document /\ late' \subseteq Version
      BY <1>1, <1>5, <2>1, <2>3 DEF PublicationFits
    <2> HIDE DEF t, row
    <2> QED BY <1>4, <2>1, <2>2, <2>3, <2>4
  <1>7. ASSUME NEW p \in Publisher, Index(p) PROVE PublicationFits'
    <2> DEFINE t == publisher[p].transcript
               row == [publication[t] EXCEPT !.indexed = TRUE]
    <2>1. t \in 1 .. MaxTranscripts /\ meeting.current # 0 /\ publication[t] # Unlinked
      BY <1>1, <1>7 DEF Index, PublishersFit, PublisherFits, PublisherTurns
    <2>2. row \in PublicationRows /\ row.version = publication[t].version
      BY <1>1, <2>1 DEF PublicationFits, PublicationRows
    <2>3. HoldsText(row.version, t)
      BY <1>1, <2>1, <2>2 DEF PublicationFits
    <2>4. publication' = [publication EXCEPT ![t] = row] /\ UNCHANGED <<document, late>>
      BY <1>7 DEF Index
    <2>5. document' \subseteq Document /\ late' \subseteq Version
      BY <1>1, <2>4 DEF PublicationFits
    <2> HIDE DEF t, row
    <2> QED BY <1>4, <2>1, <2>2, <2>3, <2>4, <2>5
  <1>8. ASSUME NEW p \in Publisher, Prepare(p) PROVE PublicationFits'
    BY <1>1, <1>3, <1>8 DEF Prepare, PublicationFits
  <1>9. ASSUME UNCHANGED <<document, publication, late>> PROVE PublicationFits'
    BY <1>1, <1>3, <1>9 DEF PublicationFits
  <1>10. ASSUME NEW p \in Publisher, Publishing(p) PROVE PublicationFits'
    BY <1>6, <1>7, <1>8, <1>9, <1>10
    DEF Publishing, MakeVersion, Versioned, Complete, Refused, Resume, Breaks, knowledge
  <1>11. ASSUME NEW v \in Version, Govern(v) \/ WithdrawLinked(v) PROVE PublicationFits'
    BY <1>1, <1>3, <1>5, <1>11 DEF Govern, WithdrawLinked, PublicationFits
  <1> QED BY <1>9, <1>10, <1>11, ChangesOfKnowledge DEF knowledge

\* A transcript that is linked stays so, to the same version.
LEMMA LinkStands ==
    ASSUME MeetingsIndInv, MeetingsNext, NEW t \in 1 .. MaxTranscripts, publication[t] # Unlinked
    PROVE  publication'[t] # Unlinked /\ publication'[t].version = publication[t].version
  <1>1. PublicationFits /\ PublishersFit /\ "none" \notin Version
    BY MeetingsBounds DEF MeetingsIndInv
  <1>2. CASE UNCHANGED publication
    BY <1>2
  <1>3. ASSUME NEW p \in Publisher, Link(p)
        PROVE  publication'[t] # Unlinked /\ publication'[t].version = publication[t].version
    <2>1. t # publisher[p].transcript
      BY <1>3 DEF Link
    <2>2. publication'[t] = publication[t]
      BY <1>1, <1>3, <2>1 DEF Link, PublicationFits
    <2> QED BY <2>2
  <1>4. ASSUME NEW p \in Publisher, Index(p)
        PROVE  publication'[t] # Unlinked /\ publication'[t].version = publication[t].version
    <2>1. publication'[t].version = publication[t].version
      BY <1>1, <1>4 DEF Index, PublicationFits, PublicationRows
    <2>2. publication[t].version \in Version
      BY <1>1 DEF PublicationFits, HoldsText, Stored
    <2> QED BY <1>1, <2>1, <2>2 DEF Unlinked
  <1>5. ASSUME NEW p \in Publisher, Publishing(p)
        PROVE  publication'[t] # Unlinked /\ publication'[t].version = publication[t].version
    BY <1>2, <1>3, <1>4, <1>5
    DEF Publishing, Prepare, MakeVersion, Versioned, Complete, Refused, Resume, Breaks, knowledge
  <1>6. ASSUME NEW v \in Version, Govern(v) \/ WithdrawLinked(v)
        PROVE  publication'[t] # Unlinked /\ publication'[t].version = publication[t].version
    BY <1>2, <1>6 DEF Govern, WithdrawLinked
  <1> QED BY <1>2, <1>5, <1>6, ChangesOfKnowledge DEF knowledge

\* A request that publishes goes from one commit to the next with what it has.
LEMMA PublishersStay ==
    ASSUME MeetingsIndInv, MeetingsNext
    PROVE  PublishersFit'
  <1>1. /\ PublishersFit /\ PublicationFits /\ MeetingFits /\ MaxTranscripts \in Nat
        /\ meeting.current # 0 => meeting'.current # 0
        /\ "none" \notin Version
    BY MeetingsBounds, MeetingStays DEF MeetingsIndInv
  \* What a request in its place has is there after the step, too.
  <1>2. ASSUME NEW p \in Publisher, publisher'[p] = publisher[p] PROVE PublisherFits(p)'
    <2>1. PublisherFits(p) /\ publisher[p] \in PublisherTurns
      BY <1>1 DEF PublishersFit
    <2>2. ASSUME publisher[p].at \in {"uploading", "linking"}
          PROVE  /\ publisher[p].version \in Stored'
                 /\ version'[publisher[p].version].content = publisher[p].transcript
      <3>1. HoldsText(publisher[p].version, publisher[p].transcript)
        BY <2>1, <2>2 DEF PublisherFits
      <3> QED BY <3>1, TextIsHeld
    <2>3. ASSUME publisher[p].at = "indexing" PROVE publication'[publisher[p].transcript] # Unlinked
      <3>1. publisher[p].transcript \in 1 .. MaxTranscripts
        BY <1>1, <2>1, <2>3 DEF PublisherFits, PublisherTurns
      <3> QED BY <2>1, <2>3, <3>1, LinkStands DEF PublisherFits
    <2> QED BY <1>1, <1>2, <2>1, <2>2, <2>3 DEF PublisherFits, HoldsText
  <1>3. ASSUME NEW p \in Publisher, NEW turn \in PublisherTurns, Turns(p, turn),
               turn.at # "idle" => turn.transcript # 0 /\ meeting.current # 0,
               turn.at = "versioning" => turn.document \in Document,
               turn.at \in {"uploading", "linking"} =>
                   turn.version \in Stored' /\ version'[turn.version].content = turn.transcript,
               turn.at = "indexing" => publication'[turn.transcript] # Unlinked
        PROVE  PublishersFit'
    <2>1. publisher' \in [Publisher -> PublisherTurns]
      BY <1>1, <1>3 DEF Turns, PublishersFit
    <2>2. publisher'[p] = turn /\ \A q \in Publisher : q # p => publisher'[q] = publisher[q]
      BY <1>1, <1>3 DEF Turns, PublishersFit
    <2>3. PublisherFits(p)'
      BY <1>1, <1>3, <2>2 DEF PublisherFits, HoldsText
    <2>4. \A q \in Publisher : q # p => PublisherFits(q)'
      BY <1>2, <2>2
    <2> QED BY <2>1, <2>3, <2>4 DEF PublishersFit
  <1>4. meeting.current \in 0 .. MaxTranscripts /\ meeting.status \in MeetingStatus
    BY <1>1 DEF MeetingFits, MeetingRows
  <1>5. IdlePublisher \in PublisherTurns /\ IdlePublisher.at = "idle"
    BY <1>1 DEF IdlePublisher, PublisherTurns, MeetingStatus
  <1>6. ASSUME NEW p \in Publisher, Turns(p, IdlePublisher) PROVE PublishersFit'
    BY <1>3, <1>5, <1>6
  <1>7. ASSUME NEW p \in Publisher, Prepare(p) PROVE PublishersFit'
    <2>1. PICK d \in Document :
              Turns(p, [at |-> "versioning", transcript |-> meeting.current, document |-> d,
                          version |-> "none", seen |-> meeting.status])
      BY <1>7 DEF Prepare
    <2> DEFINE turn == [at |-> "versioning", transcript |-> meeting.current, document |-> d,
                        version |-> "none", seen |-> meeting.status]
    <2>2. turn \in PublisherTurns
      BY <1>4 DEF PublisherTurns
    <2>3. /\ turn.at = "versioning" /\ turn.transcript # 0 /\ meeting.current # 0
          /\ turn.document \in Document /\ Turns(p, turn)
      BY <1>7, <2>1 DEF Prepare
    <2> HIDE DEF turn
    <2> QED BY <1>3, <2>2, <2>3
  <1>8. ASSUME NEW p \in Publisher, MakeVersion(p) PROVE PublishersFit'
    <2>1. PICK t \in Content, d \in Document, seen \in MeetingStatus :
              meeting.current # 0 /\ t # 0 /\ Versioned(p, t, d, seen)
      BY <1>8, MakesOne
    <2>2. PICK v \in d, n \in Numbers, from \in Days :
              /\ CreateVersion(v, n, t, from, Never)
              /\ Turns(p, [at |-> "uploading", transcript |-> t, document |-> d, version |-> v,
                             seen |-> seen])
      BY <2>1 DEF Versioned
    <2> DEFINE turn == [at |-> "uploading", transcript |-> t, document |-> d, version |-> v,
                        seen |-> seen]
    <2>3. v \in Version /\ t \in 0 .. MaxTranscripts
      BY <1>1, ShareADocument, MeetingsBounds
    <2>4. turn \in PublisherTurns
      BY <2>3 DEF PublisherTurns
    <2>5. /\ turn.at = "uploading" /\ turn.version = v /\ turn.transcript = t /\ Turns(p, turn)
      BY <2>2
    <2>6. v \in Stored' /\ version'[v].content = t
      BY <2>2, <2>3 DEF CreateVersion, MeetingsIndInv, VersionsFit, VersionsIndInv, VersionsTypeOK,
                        Stored
    <2> HIDE DEF turn
    <2>7. turn.version \in Stored' /\ version'[turn.version].content = turn.transcript
      BY <2>5, <2>6
    <2> QED BY <1>3, <2>1, <2>4, <2>5, <2>7
  <1>9. ASSUME NEW p \in Publisher, NEW place \in {"linking", "indexing"},
               publisher[p].at \in {"uploading", "linking"}, Reaches(p, place),
               place = "indexing" => publication'[publisher[p].transcript] # Unlinked
        PROVE  PublishersFit'
    <2> DEFINE turn == [publisher[p] EXCEPT !.at = place]
    <2>1. publisher[p] \in PublisherTurns
      BY <1>1 DEF PublishersFit
    <2>2. /\ turn \in PublisherTurns /\ turn.transcript = publisher[p].transcript
          /\ turn.version = publisher[p].version /\ turn.at = place
      BY <2>1 DEF PublisherTurns
    <2>3. /\ publisher[p].transcript # 0 /\ meeting.current # 0
          /\ HoldsText(publisher[p].version, publisher[p].transcript)
      BY <1>1, <1>9 DEF PublishersFit, PublisherFits
    <2>4. Turns(p, turn)
      BY <1>9 DEF Reaches
    <2> HIDE DEF turn
    <2>5. turn.version \in Stored' /\ version'[turn.version].content = turn.transcript
      BY <2>2, <2>3, TextIsHeld
    <2> QED BY <1>3, <1>9, <2>2, <2>3, <2>4, <2>5
  <1>10. ASSUME NEW p \in Publisher, Link(p) PROVE PublishersFit'
    <2> DEFINE t == publisher[p].transcript
               row == [version |-> publisher[p].version, indexed |-> FALSE]
    <2>1. t \in 1 .. MaxTranscripts /\ publisher[p].version \in Version
      BY <1>1, <1>10 DEF Link, PublishersFit, PublisherFits, PublisherTurns, HoldsText, Stored
    <2>2. row # Unlinked
      BY <1>1, <2>1 DEF Unlinked
    <2>3. publication' = [publication EXCEPT ![t] = row]
      BY <1>10 DEF Link
    <2> HIDE DEF row
    <2>4. publication'[t] # Unlinked
      BY <1>1, <2>1, <2>2, <2>3 DEF PublicationFits
    <2> QED BY <1>9, <1>10, <2>4 DEF Link
  <1>11. ASSUME NEW p \in Publisher, Resume(p) PROVE PublishersFit'
    <2> DEFINE turn == [at |-> "indexing", transcript |-> meeting.current, document |-> NoDocument,
                        version |-> publication[meeting.current].version,
                        seen |-> meeting.status]
    <2>1. meeting.current \in 1 .. MaxTranscripts /\ publication[meeting.current] # Unlinked
      BY <1>1, <1>4, <1>11 DEF Resume
    <2>2. publication[meeting.current].version \in Version \cup {"none"}
      BY <1>1, <2>1 DEF PublicationFits, PublicationRows
    <2>3. turn \in PublisherTurns
      BY <1>4, <2>2 DEF PublisherTurns
    <2>4. turn.at = "indexing" /\ turn.transcript = meeting.current /\ Turns(p, turn)
      BY <1>11 DEF Resume
    <2> HIDE DEF turn
    <2>5. publication'[turn.transcript] # Unlinked
      BY <2>1, <2>4, LinkStands
    <2> QED BY <1>3, <1>11, <2>3, <2>4, <2>5 DEF Resume
  <1>12. ASSUME NEW p \in Publisher, Publishing(p) PROVE PublishersFit'
    <2>1. CASE Complete(p)
      BY <1>9, <2>1 DEF Complete
    <2>2. CASE Refused(p) \/ Index(p) \/ Breaks(p)
      BY <1>6, <2>2 DEF Refused, Index, Breaks
    <2> QED BY <1>7, <1>8, <1>10, <1>11, <1>12, <2>1, <2>2 DEF Publishing
  <1>13. CASE UNCHANGED publisher
    BY <1>1, <1>2, <1>13 DEF PublishersFit
  <1> QED BY <1>12, <1>13, ChangesOfKnowledge DEF Govern, WithdrawLinked, actors

-------------------------------------------------------------------------------
(* The invariant. *)

\* A meeting whose recording has been verified, and nothing else.
LEMMA MeetingsBegin == MeetingsInit => MeetingsIndInv
  <1> SUFFICES ASSUME MeetingsInit PROVE MeetingsIndInv
    OBVIOUS
  <1>1. /\ MaxTranscripts \in Nat /\ MaxAttempts \in Nat /\ MaxFaults \in Nat
        /\ 0 \in 0 .. MaxTranscripts /\ 0 \in 0 .. MaxAttempts /\ 0 \in 0 .. MaxFaults
    BY MeetingsBounds
  <1>2. VersionsFit
    BY VersionsInitHolds DEF MeetingsInit, VersionsFit, VersionsInit, TextsApart, Stored, NoVersion
  <1>3. MeetingFits
    BY <1>1 DEF MeetingsInit, MeetingFits, MeetingRows, MeetingStatus
  <1>4. TextsFit
    BY <1>1 DEF MeetingsInit, TextsFit
  <1>5. JobsFit
    <2>1. NoMeetingJob \in MeetingJobRows /\ NoMeetingJob.status = "none"
      BY <1>1 DEF NoMeetingJob, MeetingJobRows
    <2> QED BY <2>1 DEF MeetingsInit, JobsFit, Kind
  <1>6. WorkersFit
    <2>1. Free \in WorkerTurns /\ Free.at = "idle"
      BY <1>1 DEF Free, WorkerTurns
    <2> QED BY <2>1 DEF MeetingsInit, WorkersFit
  <1>7. RemovalFits
    BY <1>1 DEF MeetingsInit, RemovalFits
  <1>8. PublicationFits
    <2>1. Unlinked \in PublicationRows
      BY DEF Unlinked, PublicationRows
    <2> QED BY <2>1 DEF MeetingsInit, PublicationFits
  <1>9. PublishersFit
    <2>1. IdlePublisher \in PublisherTurns /\ IdlePublisher.at = "idle"
      BY <1>1 DEF IdlePublisher, PublisherTurns, MeetingStatus
    <2> QED BY <2>1 DEF MeetingsInit, PublishersFit, PublisherFits
  <1>10. DeletionFits
    BY DEF MeetingsInit, DeletionFits
  <1> QED BY <1>2, <1>3, <1>4, <1>5, <1>6, <1>7, <1>8, <1>9, <1>10 DEF MeetingsIndInv

\* Every step keeps the invariant.
LEMMA MeetingsGoOn == MeetingsIndInv /\ [MeetingsNext]_meetingsVars => MeetingsIndInv'
  <1> SUFFICES ASSUME MeetingsIndInv, [MeetingsNext]_meetingsVars PROVE MeetingsIndInv'
    OBVIOUS
  <1>1. CASE MeetingsNext
    BY <1>1, VersionsStay, MeetingStays, TextsStay, JobsStay, RemovalStays, DeletionStays,
       PublicationStays, PublishersStay
    DEF MeetingsIndInv
  <1>2. CASE UNCHANGED meetingsVars
    <2>1. VersionsFit' /\ version' = version
      BY <1>2, ContentStaysApart, VersionsStepHolds
      DEF MeetingsIndInv, VersionsFit, meetingsVars, knowledge
    <2>2. MeetingFits' /\ TextsFit' /\ JobsFit'
      BY <1>2 DEF MeetingsIndInv, meetingsVars, minuteRows, MeetingFits, TextsFit, JobsFit
    <2>3. WorkersFit' /\ RemovalFits'
      BY <1>2 DEF MeetingsIndInv, meetingsVars, actors, WorkersFit, RemovalFits
    <2>4. PublicationFits' /\ PublishersFit'
      BY <1>2, <2>1
      DEF MeetingsIndInv, meetingsVars, actors, knowledge, PublicationFits, PublishersFit,
          PublisherFits, HoldsText, Stored
    <2>5. DeletionFits'
      BY <1>2, <2>1
      DEF MeetingsIndInv, meetingsVars, actors, knowledge, DeletionFits, Linked, EndedVersion
    <2> QED BY <2>1, <2>2, <2>3, <2>4, <2>5 DEF MeetingsIndInv
  <1> QED BY <1>1, <1>2

\* The invariant of a meeting and of the versions it is published as.
THEOREM MeetingsInvariance == MeetingsSpec => []MeetingsIndInv
  BY MeetingsBegin, MeetingsGoOn, PTL DEF MeetingsSpec

-------------------------------------------------------------------------------
(* The theorems. *)

\* Whatever requests about a meeting do to the knowledge base, in however many
\* transactions, is what the versions of a document may do: a behaviour of a
\* meeting is one of its document.
THEOREM MeetingsKeepTheVersions == MeetingsSpec => VersionsSpec
  <1>1. MeetingsInit => VersionsInit
    BY DEF MeetingsInit
  <1>2. MeetingsIndInv /\ [MeetingsNext]_meetingsVars => [VersionsNext]_version
    BY KnowledgeStep DEF meetingsVars, knowledge
  <1> QED BY <1>1, <1>2, MeetingsInvariance, PTL DEF MeetingsSpec, VersionsSpec

\* With the transcripts of a meeting among its contents, too, a document has one
\* version in force for any day.
THEOREM PublishedTranscriptsApart == MeetingsSpec => []VersionsInv
  BY MeetingsKeepTheVersions, VersionsInvariant, PTL

\* The types are part of the invariant.
LEMMA MeetingsAreTyped == MeetingsIndInv => MeetingsTypeOK
  BY DEF MeetingsIndInv, VersionsFit, VersionsIndInv, MeetingFits, MeetingRows, TextsFit, MinuteRows,
         JobsFit, MeetingJobRows, WorkersFit, WorkerTurns, RemovalFits, PublicationFits,
         PublicationRows, PublishersFit, PublisherTurns, MeetingsTypeOK

\* No handler touches the transcript of a meeting that is closed.
LEMMA ClosedStays ==
    ASSUME MeetingsIndInv, MeetingsNext, meeting.status \in Closed
    PROVE  meeting'.current = meeting.current /\ meeting'.status \in Closed
  <1>1. meeting \in MeetingRows
    BY DEF MeetingsIndInv, MeetingFits
  <1>2. ASSUME NEW r \in Remover, Mark(r) \/ Close(r)
        PROVE  meeting'.current = meeting.current /\ meeting'.status \in Closed
    BY <1>1, <1>2 DEF Mark, Close, MeetingRows
  <1>3. ASSUME NEW status \in Closed, meeting' = [meeting EXCEPT !.status = status]
        PROVE  meeting'.current = meeting.current /\ meeting'.status \in Closed
    BY <1>1, <1>3 DEF MeetingRows
  <1>4. ASSUME NEW p \in Publisher, Link(p)
        PROVE  meeting'.current = meeting.current /\ meeting'.status \in Closed
    <2> DEFINE status == Flushed(meeting.status, publisher[p].seen, "published")
    <2>1. status \in Closed /\ meeting' = [meeting EXCEPT !.status = status]
      BY <1>4 DEF Link, Flushed, Closed
    <2> HIDE DEF status
    <2> QED BY <1>3, <2>1
  <1>5. ASSUME NEW v \in Version, WithdrawLinked(v)
        PROVE  meeting'.current = meeting.current /\ meeting'.status \in Closed
    BY <1>3, <1>5 DEF WithdrawLinked, Closed
  <1> QED BY <1>2, <1>4, <1>5, ChangesOfMeeting

\* Both ways of making minutes read the current transcript under the lock.
LEMMA MinutesAreCurrent ==
    ASSUME MeetingsIndInv, MeetingsNext, Len(minutes') > Len(minutes)
    PROVE  minutes'[Len(minutes')].transcript = meeting.current
  <1>1. minutes \in Seq(MinuteRows) /\ Len(minutes) \in Nat
    BY DEF MeetingsIndInv, TextsFit
  <1>2. ASSUME NewMinutes(meeting.current) PROVE minutes'[Len(minutes')].transcript = meeting.current
    <2> DEFINE row == [transcript |-> meeting.current, confirmed |-> FALSE]
    <2>1. minutes' = Append(minutes, row) /\ row.transcript = meeting.current
      BY <1>2 DEF NewMinutes
    <2> HIDE DEF row
    <2> QED BY <1>1, <2>1
  <1>3. ~UNCHANGED minuteRows /\ ~NewTranscript
    BY <1>1 DEF minuteRows, NewTranscript
  <1>4. ~ConfirmMinutes
    BY <1>1 DEF ConfirmMinutes
  <1>5. ASSUME NEW w \in Worker, Summarize(w) PROVE NewMinutes(meeting.current)
    BY <1>5 DEF Summarize
  <1> QED BY <1>2, <1>3, <1>4, <1>5, ChangesOfTexts

\* When the recording is gone its deletion has begun, and what is active since is late.
LEMMA KnowledgeIsLate == MeetingsIndInv => RecordingOutlivesKnowledge
  BY DEF MeetingsIndInv, DeletionFits, RecordingOutlivesKnowledge

\* A text that is linked is in the version that says so.
LEMMA LinkedTexts == MeetingsIndInv => PreparedOnce
  BY DEF MeetingsIndInv, VersionsFit, TextsApart, PublicationFits, HoldsText, PreparedOnce

\* A meeting becomes withdrawn with the last version that is linked to it.
LEMMA WithdrawalIsLast ==
    ASSUME MeetingsIndInv, MeetingsNext,
           meeting.status # "withdrawn", meeting'.status = "withdrawn"
    PROVE  \A v \in Linked : version'[v].status \in {"withdrawn", "rejected"}
  <1>1. meeting \in MeetingRows /\ VersionsTypeOK
    BY DEF MeetingsIndInv, MeetingFits, VersionsFit, VersionsIndInv
  <1>2. ~NewTranscript
    BY <1>1 DEF NewTranscript, MeetingRows
  <1>3. ASSUME NEW r \in Remover, Mark(r) \/ Close(r) PROVE FALSE
    BY <1>1, <1>3 DEF Mark, Close, MeetingRows
  <1>4. ASSUME NEW p \in Publisher, Link(p) PROVE FALSE
    BY <1>1, <1>4 DEF Link, Flushed, MeetingRows
  <1>5. PICK v \in Version : WithdrawLinked(v)
    BY <1>2, <1>3, <1>4, ChangesOfMeeting
  <1>6. v \in Linked /\ \A u \in Linked \ {v} : EndedVersion(u)
    BY <1>5 DEF WithdrawLinked
  <1>7. /\ version'[v].status = "withdrawn"
        /\ \A u \in Version : u # v => version'[u] = version[u]
    BY <1>1, <1>5 DEF WithdrawLinked, WithdrawVersion, MovesVersion, VersionsTypeOK
  <1>8. Linked \subseteq Version
    BY LinkedAreStored DEF MeetingsIndInv, Stored
  <1> QED BY <1>6, <1>7, <1>8 DEF EndedVersion

\* What a meeting promises to those who rely on its record: a text is once in a
\* document, a transcript is published as the version that was linked first, and what
\* outlives a recording without having been ended came late.
THEOREM MeetingsAreReliable == MeetingsSpec => MeetingsHold
  <1>1. MeetingsIndInv => MeetingsTypeOK /\ PreparedOnce /\ RecordingOutlivesKnowledge
    BY MeetingsAreTyped, LinkedTexts, KnowledgeIsLate
  <1>2. MeetingsIndInv /\ [MeetingsNext]_meetingsVars =>
            [meeting.status \in Closed =>
                meeting'.current = meeting.current /\ meeting'.status \in Closed]_meetingsVars
    BY ClosedStays
  <1>3. MeetingsIndInv /\ [MeetingsNext]_meetingsVars =>
            [Len(minutes') > Len(minutes) =>
                minutes'[Len(minutes')].transcript = meeting.current]_meetingsVars
    BY MinutesAreCurrent
  <1>4. MeetingsIndInv /\ [MeetingsNext]_meetingsVars =>
            [\A t \in 1 .. MaxTranscripts :
                publication[t] # Unlinked =>
                    publication'[t].version = publication[t].version]_meetingsVars
    BY LinkStands
  <1>5. MeetingsIndInv /\ [MeetingsNext]_meetingsVars =>
            [meeting.status # "withdrawn" /\ meeting'.status = "withdrawn" =>
                \A v \in Linked : version'[v].status \in {"withdrawn", "rejected"}]_meetingsVars
    BY WithdrawalIsLast
  <1> QED
    BY <1>1, <1>2, <1>3, <1>4, <1>5, MeetingsInvariance, PTL
    DEF MeetingsSpec, MeetingsHold, TranscriptIsFrozen, MinutesFollowTranscript,
        LinkedOnce, WithdrawnWithItsKnowledge
================================================================================
