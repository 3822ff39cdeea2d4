------------------------------- MODULE Reports --------------------------------
(***************************************************************************)
(* One operation report: its versions, their review and publication, the   *)
(* generation of drafts, exports, and the daily run that starts reports    *)
(* for every organisation.                                                 *)
(*                                                                         *)
(* No handler locks a row.  A request reads the report and its current     *)
(* version, decides on those copies, and commits later; an attribute that  *)
(* equals the copy is not written.                                         *)
(***************************************************************************)
EXTENDS Naturals, Sequences, FiniteSets

CONSTANTS
    Editor,             \* people who edit, review and publish
    Generation,         \* jobs that generate a draft
    Export,             \* rows of report_exports
    Source,             \* records of the day, on which reports are based
    WorkOrder,          \* the sources that are work orders
    ChunkSize,          \* how many sources a model is given at a time
    Organization,       \* active organisation units
    DailyRun,           \* executions of the daily task
    MaxReportVersions   \* bound: versions of the report

ASSUME ReportBounds == ChunkSize \in Nat \ {0} /\ MaxReportVersions \in Nat

ASSUME OrdersAreSources == WorkOrder \subseteq Source

VARIABLES
    report,      \* row of operation_reports
    versions,    \* rows of report_versions, in the order of their numbers
    approvals,   \* versions an approval was ever recorded for
    confirmed,   \* recordings, events and findings that are confirmed now
    everConfirmed,
    orders,      \* how far the work orders are
    editor,      \* a person's request: what it does and the copies it read
    generation,  \* jobs and the copies of their executions
    export,      \* exports with the version they are for, their jobs and stored files
    daily,       \* what the schedule made for each organisation
    dailyRun     \* executions of the daily task

reportVars == <<report, versions, approvals, confirmed, everConfirmed, orders, editor,
                generation, export, daily, dailyRun>>

ReviewStates == {"draft", "pending_review", "approved", "rejected"}
ReportStatus == ReviewStates \cup {"published", "withdrawn"}
VersionNo == 0 .. MaxReportVersions
Requests == {"edit", "submit", "approve", "reject", "publish", "withdraw"}
JobStates == {"none", "queued", "running", "succeeded", "failed", "cancelled"}
ExportJobStates == JobStates \cup {"stored"}
OrderStates == {"none", "draft", "approved", "ended", "endedThatDay"}

ReportRow == [status : ReportStatus, current : VersionNo, published : VersionNo]

ReportsTypeOK ==
    /\ report \in ReportRow
    /\ report.current \in 0 .. Len(versions) /\ report.published \in 0 .. Len(versions)
    /\ versions \in Seq([review : ReviewStates, immutable : BOOLEAN, sources : SUBSET Source])
    /\ Len(versions) <= MaxReportVersions
    /\ approvals \subseteq DOMAIN versions
    /\ confirmed \subseteq everConfirmed /\ everConfirmed \subseteq Source \ WorkOrder
    /\ orders \in [WorkOrder -> OrderStates]
    /\ editor \in [Editor -> [request : Requests \cup {"none"}, copy : ReportRow]]
    /\ generation \in [Generation ->
           [status : JobStates, cancel : BOOLEAN, copy : ReportStatus,
            collected : SUBSET Source]]
    /\ export \in [Export ->
           [status : {"none", "queued", "succeeded", "cancelled"}, job : ExportJobStates,
            cancel : BOOLEAN, asked : VersionNo, file : VersionNo]]
    /\ daily \in [Organization -> [report : BOOLEAN, versions : Nat]]
    /\ dailyRun \in [DailyRun ->
           [at : {"off", "looking", "creating", "generating"},
            todo : SUBSET Organization, org : Organization \cup {"none"}]]

NoReport == [status |-> "draft", current |-> 0, published |-> 0]
IdleEditor == [request |-> "none", copy |-> NoReport]

ReportsInit ==
    /\ report = NoReport /\ versions = <<>> /\ approvals = {}
    /\ confirmed = {} /\ everConfirmed = {} /\ orders = [o \in WorkOrder |-> "none"]
    /\ editor = [e \in Editor |-> IdleEditor]
    /\ generation = [g \in Generation |->
           [status |-> "none", cancel |-> FALSE, copy |-> "draft", collected |-> {}]]
    /\ export = [x \in Export |->
           [status |-> "none", job |-> "none", cancel |-> FALSE, asked |-> 0, file |-> 0]]
    /\ daily = [o \in Organization |-> [report |-> FALSE, versions |-> 0]]
    /\ dailyRun = [d \in DailyRun |-> [at |-> "off", todo |-> {}, org |-> "none"]]

-------------------------------------------------------------------------------
(* People. *)

Current == versions[report.current]

\* Faulty: publication goes by the status of the report.
ReadyByReport(request) ==
    CASE request = "edit" -> report.current # 0 => ~Current.immutable
      [] request = "submit" -> report.current # 0 /\ Current.review = "draft"
      [] request \in {"approve", "reject"} ->
             report.current # 0 /\ Current.review = "pending_review"
      [] request = "publish" -> report.current # 0 /\ report.status = "approved"
      [] request = "withdraw" -> report.status = "published"

\* What each handler demands of the report and of the version it finds current.
Ready(request) ==
    CASE request = "edit" -> report.current # 0 => ~Current.immutable
      [] request = "submit" -> report.current # 0 /\ Current.review = "draft"
      [] request \in {"approve", "reject"} ->
             report.current # 0 /\ Current.review = "pending_review"
      [] request = "publish" -> report.current # 0 /\ Current.review = "approved"
      [] request = "withdraw" -> report.status = "published"

OpenReport(e, request) ==
    /\ editor[e] = IdleEditor /\ Ready(request)
    /\ editor' = [editor EXCEPT ![e] = [request |-> request, copy |-> report]]
    /\ UNCHANGED <<report, versions, approvals, confirmed, everConfirmed, orders, generation,
                   export, daily, dailyRun>>

\* What the row says after a commit that assigned `new` to a copy that read `old`.
Written(row, old, new) == IF old = new THEN row ELSE new

Closes(e) ==
    /\ editor' = [editor EXCEPT ![e] = IdleEditor]
    /\ UNCHANGED <<confirmed, everConfirmed, orders, generation, export, daily, dailyRun>>

\* Faulty: the pointer is the number that was counted before the insertion.
AddsVersionBefore(copy, sources) ==
    /\ Len(versions) < MaxReportVersions
    /\ versions' = Append(versions,
           [review |-> "draft", immutable |-> FALSE, sources |-> sources])
    /\ report' = [report EXCEPT !.current = Len(versions) + 2,
                                !.status = Written(@, copy, "draft")]
    /\ UNCHANGED approvals

\* A new version becomes the current one; its number is counted when it is inserted.
\* `copy` is the status the transaction has read.
AddsVersion(copy, sources) ==
    /\ Len(versions) < MaxReportVersions
    /\ versions' = Append(versions,
           [review |-> "draft", immutable |-> FALSE, sources |-> sources])
    /\ report' = [report EXCEPT !.current = Len(versions) + 1,
                                !.status = Written(@, copy, "draft")]
    /\ UNCHANGED approvals

\* update_report_content, and restore_report_version, which calls it with old content
EditReport(e) ==
    /\ editor[e].request = "edit"
    /\ AddsVersion(editor[e].copy.status, {})
    /\ Closes(e)

\* The review status of the version that was read, and the status of the report.
Judge(e, review) ==
    LET copy == editor[e].copy IN
    /\ versions' = [versions EXCEPT ![copy.current].review = review]
    /\ report' = [report EXCEPT !.status = Written(@, copy.status, review)]
    /\ approvals' = IF review = "approved" THEN approvals \cup {copy.current} ELSE approvals
    /\ Closes(e)

SubmitReview(e) == editor[e].request = "submit" /\ Judge(e, "pending_review")

ReviewReport(e) ==
    \/ editor[e].request = "approve" /\ Judge(e, "approved")
    \/ editor[e].request = "reject" /\ Judge(e, "rejected")

PublishReport(e) ==
    LET copy == editor[e].copy IN
    /\ editor[e].request = "publish"
    /\ versions' = [versions EXCEPT ![copy.current].immutable = TRUE]
    /\ report' = [report EXCEPT !.published = Written(@, copy.published, copy.current),
                                !.status = Written(@, copy.status, "published")]
    /\ UNCHANGED approvals
    /\ Closes(e)

WithdrawReport(e) ==
    /\ editor[e].request = "withdraw"
    /\ report' = [report EXCEPT !.status = "withdrawn"]
    /\ UNCHANGED <<versions, approvals>>
    /\ Closes(e)

\* The number was taken in between: the constraint refuses the insertion.
LoseEdit(e) ==
    /\ editor[e].request = "edit"
    /\ UNCHANGED <<report, versions, approvals>>
    /\ Closes(e)

ReportWork(e) ==
    \/ \E request \in Requests : OpenReport(e, request)
    \/ EditReport(e) \/ LoseEdit(e) \/ SubmitReview(e) \/ ReviewReport(e)
    \/ PublishReport(e) \/ WithdrawReport(e)

-------------------------------------------------------------------------------
(* Generation. *)

\* Recordings, events and findings are confirmed, and may be closed or corrected again.
ConfirmSource(s) ==
    /\ s \notin WorkOrder
    /\ confirmed' = IF s \in confirmed THEN confirmed \ {s} ELSE confirmed \cup {s}
    /\ everConfirmed' = everConfirmed \cup {s}
    /\ UNCHANGED <<report, versions, approvals, orders, editor, generation, export, daily,
                   dailyRun>>

\* A work order is raised as a draft, approved by a person, and closed or cancelled, on
\* the day of the report or on another.
MoveOrder(o, to) ==
    /\ <<orders[o], to>> \in {<<"none", "draft">>, <<"draft", "approved">>}
                               \cup {"draft", "approved"} \X {"ended", "endedThatDay"}
    /\ orders' = [orders EXCEPT ![o] = to]
    /\ UNCHANGED <<report, versions, approvals, confirmed, everConfirmed, editor, generation,
                   export, daily, dailyRun>>

Generates ==
    UNCHANGED <<approvals, confirmed, everConfirmed, orders, editor, export, daily, dailyRun>>

\* _collect_sources: of recordings, events and findings the confirmed ones; of work
\* orders, approved or not, those that have not ended or were changed that day.
Collectable ==
    confirmed \cup {o \in WorkOrder : orders[o] \in {"draft", "approved", "endedThatDay"}}

RequestGeneration(g) ==
    /\ generation[g].status = "none"
    /\ generation' = [generation EXCEPT ![g].status = "queued"]
    /\ UNCHANGED <<report, versions>> /\ Generates

CancelGeneration(g) ==
    /\ generation[g].status = "queued" \/ generation[g].status = "running"
    /\ generation' = [generation EXCEPT ![g].cancel = TRUE]
    /\ UNCHANGED <<report, versions>> /\ Generates

\* execute_report_generation reads the report and collects the sources.  "running"
\* is the state of the execution; the row of the job says queued until the end.
StartGeneration(g) ==
    /\ generation[g].status = "queued"
    /\ generation' = IF generation[g].cancel
         THEN [generation EXCEPT ![g].status = "cancelled"]
         ELSE [generation EXCEPT ![g].status = "running", ![g].copy = report.status,
                                 ![g].collected = Collectable]
    /\ UNCHANGED <<report, versions>> /\ Generates

\* Faulty: whatever the model names is stored as a source.
CitedAsNamed(collected, named) == named

\* The sources of the draft: those the model names and that were collected, or, when
\* they had to be given to it in several chunks, all of them.
Cited(collected, named) ==
    IF Cardinality(collected) <= ChunkSize THEN collected \cap named ELSE collected

FinishGeneration(g) ==
    /\ generation[g].status = "running"
    /\ \E named \in SUBSET Source :
          AddsVersion(generation[g].copy, Cited(generation[g].collected, named))
    /\ generation' = [generation EXCEPT ![g].status = "succeeded"]
    /\ UNCHANGED <<confirmed, everConfirmed, orders, editor, export, daily, dailyRun>>

\* The model fails: the attempt fails.  Or the worker is lost and the task comes back.
BreakGeneration(g, status) ==
    /\ generation[g].status = "running"
    /\ generation' = [generation EXCEPT ![g].status = status, ![g].collected = {}]
    /\ UNCHANGED <<report, versions>> /\ Generates

Drafting(g) ==
    \/ RequestGeneration(g) \/ CancelGeneration(g) \/ StartGeneration(g)
    \/ FinishGeneration(g)
    \/ BreakGeneration(g, "failed") \/ BreakGeneration(g, "queued")

-------------------------------------------------------------------------------
(* Exports. *)

Exports ==
    UNCHANGED <<report, versions, approvals, confirmed, everConfirmed, orders, editor,
                generation, daily, dailyRun>>

\* create_export fixes the version.
CreateExport(x) ==
    /\ export[x].status = "none" /\ report.current # 0
    /\ export' = [export EXCEPT ![x].status = "queued", ![x].job = "queued",
                                ![x].asked = report.current]
    /\ Exports

CancelExport(x) ==
    /\ export[x].job \in {"queued", "running", "stored"}
    /\ export' = [export EXCEPT ![x].cancel = TRUE]
    /\ Exports

\* execute_report_export looks once whether it is cancelled.  "running" and "stored"
\* are states of the execution.
BeginExport(x) ==
    /\ export[x].job = "queued"
    /\ export' = IF export[x].cancel
         THEN [export EXCEPT ![x].status = "cancelled", ![x].job = "cancelled"]
         ELSE [export EXCEPT ![x].job = "running"]
    /\ Exports

\* Faulty: what is current by now is rendered.
StoreExportCurrent(x) ==
    /\ export[x].job = "running"
    /\ export' = [export EXCEPT ![x].job = "stored", ![x].file = report.current]
    /\ Exports

\* The version is rendered and the file stored, in the place of one an earlier attempt
\* has stored.
StoreExport(x) ==
    /\ export[x].job = "running"
    /\ export' = [export EXCEPT ![x].job = "stored", ![x].file = export[x].asked]
    /\ Exports

FinishExport(x) ==
    /\ export[x].job = "stored"
    /\ export' = [export EXCEPT ![x].job = "succeeded", ![x].status = "succeeded"]
    /\ Exports

\* The worker is lost and the task comes back; or the store raises, perhaps after it has
\* taken the file: then the job fails and the row of the export says what it said.
BreakExport(x, job) ==
    /\ export[x].job \in {"running", "stored"}
    /\ export' = [export EXCEPT ![x].job = job]
    /\ Exports

\* retry_job makes a new job for the same row, which it leaves as it is.
RetryExport(x) ==
    /\ export[x].job \in {"failed", "cancelled"}
    /\ export' = [export EXCEPT ![x].job = "queued", ![x].cancel = FALSE]
    /\ Exports

Exporting(x) ==
    \/ CreateExport(x) \/ CancelExport(x) \/ BeginExport(x) \/ StoreExport(x) \/ FinishExport(x)
    \/ BreakExport(x, "failed") \/ BreakExport(x, "queued") \/ RetryExport(x)

-------------------------------------------------------------------------------
(* The daily run. *)

DailyKeeps ==
    UNCHANGED <<report, versions, approvals, confirmed, everConfirmed, orders, editor,
                generation, export>>

\* process_daily_reports, started by the schedule or delivered again
StartDaily(d) ==
    /\ dailyRun[d].at = "off"
    /\ dailyRun' = [dailyRun EXCEPT ![d] =
           [at |-> "looking", todo |-> Organization, org |-> "none"]]
    /\ UNCHANGED daily /\ DailyKeeps

\* Faulty: a report that has no version yet is generated.
LookForDailyAgain(d, o) ==
    /\ dailyRun[d].at = "looking" /\ o \in dailyRun[d].todo
    /\ dailyRun' = [dailyRun EXCEPT ![d] =
           [at |-> IF ~daily[o].report THEN "creating"
                   ELSE IF daily[o].versions = 0 THEN "generating" ELSE "looking",
            todo |-> @.todo \ {o}, org |-> o]]
    /\ UNCHANGED daily /\ DailyKeeps

\* An organisation that has its report is passed over.
LookForDaily(d, o) ==
    /\ dailyRun[d].at = "looking" /\ o \in dailyRun[d].todo
    /\ dailyRun' = [dailyRun EXCEPT ![d] =
           [at |-> IF daily[o].report THEN "looking" ELSE "creating",
            todo |-> @.todo \ {o}, org |-> o]]
    /\ UNCHANGED daily /\ DailyKeeps

\* create_report commits; when another run was first, the constraint refuses the row
\* and the run raises.
CreateDaily(d) ==
    LET o == dailyRun[d].org IN
    /\ dailyRun[d].at = "creating"
    /\ daily' = [daily EXCEPT ![o].report = TRUE]
    /\ dailyRun' = [dailyRun EXCEPT ![d].at = IF daily[o].report THEN "off" ELSE "generating"]
    /\ DailyKeeps

\* generate_report, inline
GenerateDaily(d) ==
    /\ dailyRun[d].at = "generating"
    /\ daily' = [daily EXCEPT ![dailyRun[d].org].versions = @ + 1]
    /\ dailyRun' = [dailyRun EXCEPT ![d].at = "looking"]
    /\ DailyKeeps

\* The model raises, or the process is lost.
BreakDaily(d) ==
    /\ dailyRun[d].at # "off"
    /\ dailyRun' = [dailyRun EXCEPT ![d].at = "off"]
    /\ UNCHANGED daily /\ DailyKeeps

EndDaily(d) ==
    /\ dailyRun[d].at = "looking" /\ dailyRun[d].todo = {}
    /\ dailyRun' = [dailyRun EXCEPT ![d].at = "off"]
    /\ UNCHANGED daily /\ DailyKeeps

Daily(d) ==
    \/ StartDaily(d) \/ CreateDaily(d) \/ GenerateDaily(d) \/ BreakDaily(d) \/ EndDaily(d)
    \/ \E o \in Organization : LookForDaily(d, o)

ReportsNext ==
    \/ \E e \in Editor : ReportWork(e)
    \/ \E g \in Generation : Drafting(g)
    \/ \E s \in Source : ConfirmSource(s)
    \/ \E o \in WorkOrder, to \in OrderStates : MoveOrder(o, to)
    \/ \E x \in Export : Exporting(x)
    \/ \E d \in DailyRun : Daily(d)

ReportsSpec == ReportsInit /\ [][ReportsNext]_reportVars

-------------------------------------------------------------------------------
(* Properties. *)

\* What is published has been approved and cannot be overwritten, whatever was edited,
\* generated and reviewed by others between the reading and the publishing.
PublishedWasApproved ==
    report.published # 0 =>
        report.published \in approvals /\ versions[report.published].immutable

\* A report is based on records: each source of a version is a recording, an event or a
\* finding that was confirmed, or a work order that exists, approved or not, whatever
\* the model names and whatever changes while it writes.
SourcesWereCollectable ==
    \A n \in DOMAIN versions : \A s \in versions[n].sources :
        s \in everConfirmed \/ (s \in WorkOrder /\ orders[s] # "none")

\* However often an export is broken off, cancelled and tried again while the report goes
\* on changing: what is stored shows the version that was current when it was asked for,
\* and the row says it can be fetched exactly when its last job has stored it.
ExportIsWhatWasAsked ==
    \A x \in Export :
        /\ export[x].file \in {0, export[x].asked}
        /\ export[x].status = "succeeded" <=> export[x].job = "succeeded"
        /\ export[x].status = "succeeded" => export[x].file # 0
        /\ export[x].job = "cancelled" => export[x].status = "cancelled"

\* However often the daily task is started, delivered again or broken off, an
\* organisation's report of the day is generated at most once.
DailyOnce == \A o \in Organization : daily[o].versions <= 1

\* What a report promises in every state: published is what was approved, sources are
\* records, exports show what was asked for, and there is one report a day.
ReportsInv ==
    /\ ReportsTypeOK
    /\ PublishedWasApproved /\ SourcesWereCollectable
    /\ ExportIsWhatWasAsked /\ DailyOnce
===============================================================================
