----------------------------- MODULE Inspections ------------------------------
(***************************************************************************)
(* One inspection: its images are uploaded, analysed by a job, and the     *)
(* findings reviewed by people and followed up as production events.       *)
(*                                                                         *)
(* The executor works in one transaction from the first image to the last, *)
(* so its copy of the job and of the images grows old during the calls of  *)
(* the provider; and when a call fails the handler of the exception        *)
(* commits what the transaction holds so far.  No handler locks a row.     *)
(***************************************************************************)
EXTENDS Naturals, FiniteSets, JobStatus

CONSTANTS
    Image,         \* images of the inspection; the model finds one thing on each
    Analyst,       \* worker processes
    Inspector,     \* people who review findings and delete images
    MaxAnalyses,   \* bound: attempts of the analysis
    MaxLosses      \* bound: worker processes lost, or messages delivered twice

ASSUME InspectionBounds == MaxAnalyses \in Nat \ {0} /\ MaxLosses \in Nat
ASSUME AnalystsAreFinite == IsFiniteSet(Analyst)

VARIABLES
    image,      \* rows of inspection_images
    found,      \* inspection_findings, by image: how many rows
    review,     \* review_status of the findings of an image
    events,     \* production events made from the finding of an image
    analysis,   \* the latest job of the inspection
    messages,   \* task messages, by attempt, the ones that executions hold included
    analyst,    \* executions: the copies they work on
    inspector,  \* a reviewer's copy of what the request checks
    overlapped, \* have two executions of the analysis overlapped?
    losses

inspectionVars ==
    <<image, found, review, events, analysis, messages, analyst, inspector, overlapped, losses>>

ImageStatus == {"absent", "pending", "verified", "analyzing", "analyzed", "deleted"}
ReviewStatus == {"pending", "confirmed", "rejected"}

NoAnalysis == [attempt |-> 0, status |-> "none", cancel_requested |-> FALSE]
Off == [at |-> "off", attempt |-> 0, todo |-> {}, done |-> {}, marked |-> {}]
Away == [at |-> "away", image |-> "none"]

InspectionTypeOK ==
    /\ image \in [Image -> [status : ImageStatus, deleted : BOOLEAN]]
    /\ found \in [Image -> Nat]
    /\ review \in [Image -> ReviewStatus]
    /\ events \in [Image -> 0 .. 1]
    /\ analysis \in [attempt : 0 .. MaxAnalyses, status : {"none"} \cup Active \cup Terminal,
                     cancel_requested : BOOLEAN]
    /\ messages \in [1 .. MaxAnalyses -> 0 .. 1 + MaxLosses]
    /\ analyst \in [Analyst -> [at : {"off", "on"}, attempt : 0 .. MaxAnalyses,
                                todo : SUBSET Image, done : SUBSET Image,
                                marked : SUBSET Image]]
    /\ inspector \in [Inspector -> [at : {"away", "reviewing", "deleting"},
                                  image : Image \cup {"none"}]]
    /\ overlapped \in BOOLEAN
    /\ losses \in 0 .. MaxLosses

InspectionInit ==
    /\ image = [i \in Image |-> [status |-> "absent", deleted |-> FALSE]]
    /\ found = [i \in Image |-> 0]
    /\ review = [i \in Image |-> "pending"]
    /\ events = [i \in Image |-> 0]
    /\ analysis = NoAnalysis /\ messages = [n \in 1 .. MaxAnalyses |-> 0]
    /\ analyst = [a \in Analyst |-> Off]
    /\ inspector = [r \in Inspector |-> Away]
    /\ overlapped = FALSE /\ losses = 0

-------------------------------------------------------------------------------
(* Images. *)

CreateImage(i) ==
    /\ image[i].status = "absent"
    /\ image' = [image EXCEPT ![i].status = "pending"]
    /\ UNCHANGED <<found, review, events, analysis, messages, analyst, inspector,
                   overlapped, losses>>

\* complete_image, when size, type and digest are those that were declared.  The route
\* does not look whether the image is deleted; of one that is, only the status would
\* change, which no handler reads of a deleted row, so that step is left out.
CompleteImage(i) ==
    /\ image[i].status = "pending" /\ ~image[i].deleted
    /\ image' = [image EXCEPT ![i].status = "verified"]
    /\ UNCHANGED <<found, review, events, analysis, messages, analyst, inspector,
                   overlapped, losses>>

Protected(i) == found[i] > 0 /\ review[i] = "confirmed"

\* delete_image looks for confirmed findings ...
AskToDelete(r, i) ==
    /\ inspector[r] = Away
    /\ image[i].status # "absent" /\ ~image[i].deleted /\ ~Protected(i)
    /\ inspector' = [inspector EXCEPT ![r] = [at |-> "deleting", image |-> i]]
    /\ UNCHANGED <<image, found, review, events, analysis, messages, analyst,
                   overlapped, losses>>

\* ... and deletes the object and commits.
DeleteImage(r) ==
    /\ inspector[r].at = "deleting"
    /\ image' = [image EXCEPT ![inspector[r].image] = [status |-> "deleted", deleted |-> TRUE]]
    /\ inspector' = [inspector EXCEPT ![r] = Away]
    /\ UNCHANGED <<found, review, events, analysis, messages, analyst, overlapped, losses>>

-------------------------------------------------------------------------------
(* Analysis. *)

\* analyze_inspection: the operation key of a first attempt is used once.
Analyze ==
    /\ analysis.status = "none"
    /\ \E i \in Image : image[i].status = "verified" /\ ~image[i].deleted
    /\ analysis' = [analysis EXCEPT !.attempt = 1, !.status = "queued"]
    /\ messages' = [messages EXCEPT ![1] = 1]
    /\ UNCHANGED <<image, found, review, events, analyst, inspector, overlapped, losses>>

RetryAnalysis ==
    /\ analysis.status \in {"failed", "cancelled"} /\ analysis.attempt < MaxAnalyses
    /\ analysis' = [attempt |-> analysis.attempt + 1, status |-> "queued",
                    cancel_requested |-> FALSE]
    /\ messages' = [messages EXCEPT ![analysis.attempt + 1] = 1]
    /\ UNCHANGED <<image, found, review, events, analyst, inspector, overlapped, losses>>

CancelAnalysis ==
    /\ analysis.status \in Active
    /\ analysis' = [analysis EXCEPT !.cancel_requested = TRUE]
    /\ UNCHANGED <<image, found, review, events, messages, analyst, inspector, overlapped, losses>>

\* Faulty: images that are analysed already are read again.
AllImages == {i \in Image : image[i].status \notin {"absent", "pending"} /\ ~image[i].deleted}

Analyzable == {i \in Image : image[i].status \in {"verified", "analyzing"} /\ ~image[i].deleted}

\* Faulty: a message that an execution holds can be received by another.
NoneExecuting(n) == {}

Executing(n) == {a \in Analyst : analyst[a].at = "on" /\ analyst[a].attempt = n}

\* _analyze begins: copies of the job and of the images, nothing is committed.
\* A job that is over, or is to be cancelled, ends here; without an image the
\* attempt fails.
BeginAnalysis(a, n) ==
    LET live == n = analysis.attempt /\ analysis.status \in Active
        goes == live /\ Analyzable # {} /\ ~analysis.cancel_requested
    IN
    /\ analyst[a].at = "off" /\ messages[n] > Cardinality(Executing(n))
    /\ analyst' = IF goes
         THEN [analyst EXCEPT ![a] =
                  [at |-> "on", attempt |-> n, todo |-> Analyzable, done |-> {},
                   marked |-> {i \in Analyzable : image[i].status = "analyzing"}]]
         ELSE analyst
    /\ overlapped' = (overlapped \/ (goes /\ \E b \in Analyst : analyst[b].at = "on"))
    /\ analysis' = IF live /\ ~goes
         THEN [analysis EXCEPT !.status = IF Analyzable = {} THEN "failed" ELSE "cancelled"]
         ELSE analysis
    /\ messages' = IF goes THEN messages ELSE [messages EXCEPT ![n] = @ - 1]
    /\ UNCHANGED <<image, found, review, events, inspector, losses>>

\* The provider answers for one image.
Inspect(a, i) ==
    /\ i \in analyst[a].todo
    /\ analyst' = [analyst EXCEPT ![a].todo = @ \ {i}, ![a].done = @ \cup {i}]
    /\ UNCHANGED <<image, found, review, events, analysis, messages, inspector,
                   overlapped, losses>>

\* Faulty: the whole row is written back.
CommitsRows(a, broken, status) ==
    /\ found' = [i \in Image |-> IF i \in analyst[a].done THEN found[i] + 1 ELSE found[i]]
    /\ image' = [i \in Image |->
           IF i \in analyst[a].done THEN [status |-> "analyzed", deleted |-> FALSE]
           ELSE IF i \in broken THEN [status |-> "analyzing", deleted |-> FALSE]
           ELSE image[i]]
    /\ analysis' = [analysis EXCEPT !.status =
           IF analyst[a].attempt = analysis.attempt THEN status ELSE @]
    /\ messages' = [messages EXCEPT ![analyst[a].attempt] = @ - 1]
    /\ analyst' = [analyst EXCEPT ![a] = Off]
    /\ UNCHANGED <<review, events, inspector, overlapped, losses>>

\* What the transaction holds: findings, statuses and the outcome of the attempt.
\* A status that changed in the copy is written over whatever the row says by then.
CommitsAnalysis(a, broken, status) ==
    /\ found' = [i \in Image |-> IF i \in analyst[a].done THEN found[i] + 1 ELSE found[i]]
    /\ image' = [i \in Image |->
           IF i \in analyst[a].done THEN [image[i] EXCEPT !.status = "analyzed"]
           ELSE IF i \in broken \ analyst[a].marked THEN [image[i] EXCEPT !.status = "analyzing"]
           ELSE image[i]]
    /\ analysis' = [analysis EXCEPT !.status =
           IF analyst[a].attempt = analysis.attempt THEN status ELSE @]
    /\ messages' = [messages EXCEPT ![analyst[a].attempt] = @ - 1]
    /\ analyst' = [analyst EXCEPT ![a] = Off]
    /\ UNCHANGED <<review, events, inspector, overlapped, losses>>

FinishAnalysis(a) ==
    /\ analyst[a].at = "on" /\ analyst[a].todo = {}
    /\ CommitsAnalysis(a, {}, "succeeded")

\* The provider fails at an image: mark_job_failed commits what was done before.
BreakAnalysis(a, i) ==
    /\ i \in analyst[a].todo
    /\ CommitsAnalysis(a, {i}, "failed")

\* Faulty: the message was acknowledged when it was received.
LoseAnalystAndMessage(a) ==
    /\ analyst[a].at = "on" /\ losses < MaxLosses
    /\ analyst' = [analyst EXCEPT ![a] = Off]
    /\ messages' = [messages EXCEPT ![analyst[a].attempt] = @ - 1]
    /\ losses' = losses + 1
    /\ UNCHANGED <<image, found, review, events, analysis, inspector, overlapped>>

\* The process is lost with its transaction; its message is delivered again.
LoseAnalyst(a) ==
    /\ analyst[a].at = "on" /\ losses < MaxLosses
    /\ analyst' = [analyst EXCEPT ![a] = Off]
    /\ losses' = losses + 1
    /\ UNCHANGED <<image, found, review, events, analysis, messages, inspector, overlapped>>

\* The broker delivers a message again while the first delivery is at work.
DeliverTwice(n) ==
    /\ messages[n] > 0 /\ losses < MaxLosses
    /\ messages' = [messages EXCEPT ![n] = @ + 1]
    /\ losses' = losses + 1
    /\ UNCHANGED <<image, found, review, events, analysis, analyst, inspector, overlapped>>

-------------------------------------------------------------------------------
(* Review. *)

\* _review_finding reads the finding ...
OpenFinding(r, i) ==
    /\ inspector[r] = Away /\ found[i] > 0 /\ review[i] = "pending"
    /\ inspector' = [inspector EXCEPT ![r] = [at |-> "reviewing", image |-> i]]
    /\ UNCHANGED <<image, found, review, events, analysis, messages, analyst,
                   overlapped, losses>>

\* ... and writes the decision.
DecideFinding(r, decision) ==
    /\ inspector[r].at = "reviewing"
    /\ review' = [review EXCEPT ![inspector[r].image] = decision]
    /\ inspector' = [inspector EXCEPT ![r] = Away]
    /\ UNCHANGED <<image, found, events, analysis, messages, analyst, overlapped, losses>>

\* start_finding_workflow or link_finding_to_event; the first of them is counted.
FollowUp(i) ==
    /\ found[i] > 0 /\ review[i] = "confirmed" /\ events[i] < 1
    /\ events' = [events EXCEPT ![i] = @ + 1]
    /\ UNCHANGED <<image, found, review, analysis, messages, analyst, inspector,
                   overlapped, losses>>

InspectionNext ==
    \/ \E i \in Image : CreateImage(i) \/ CompleteImage(i) \/ FollowUp(i)
    \/ Analyze \/ RetryAnalysis \/ CancelAnalysis
    \/ \E n \in 1 .. MaxAnalyses : DeliverTwice(n) \/ \E a \in Analyst : BeginAnalysis(a, n)
    \/ \E a \in Analyst : \/ FinishAnalysis(a) \/ LoseAnalyst(a)
                          \/ \E i \in Image : Inspect(a, i) \/ BreakAnalysis(a, i)
    \/ \E r \in Inspector : \/ \E i \in Image : AskToDelete(r, i) \/ OpenFinding(r, i)
                           \/ \E d \in {"confirmed", "rejected"} : DecideFinding(r, d)
                           \/ DeleteImage(r)

InspectionSpec == InspectionInit /\ [][InspectionNext]_inspectionVars

Analyzes(a) == FinishAnalysis(a) \/ \E i \in Image : Inspect(a, i) \/ BreakAnalysis(a, i)

\* Workers take messages, and a provider answers or fails.
AnalysisProgress ==
    \A a \in Analyst :
        /\ \A n \in 1 .. MaxAnalyses : WF_inspectionVars(BeginAnalysis(a, n))
        /\ WF_inspectionVars(Analyzes(a))

InspectionFairSpec == InspectionSpec /\ AnalysisProgress

-------------------------------------------------------------------------------
(* Properties. *)

\* As long as executions do not overlap, an attempt that breaks off, is lost or is
\* repeated leaves nothing behind that a retry would miss or do twice: an image has
\* its findings, once, exactly when it counts as analysed, unless it was deleted.
AnalyzedMeansFound ==
    ~overlapped => \A i \in Image :
        /\ found[i] <= 1
        /\ ~image[i].deleted => (found[i] > 0 <=> image[i].status = "analyzed")

\* A deleted image stays deleted, whatever an analysis that had begun writes.
DeletedStaysDeleted == [][\A i \in Image : image[i].deleted => image'[i].deleted]_inspectionVars

\* An analysis that was asked for ends, although workers are lost on the way: its
\* row says queued until the end, so the message that comes back is executed again.
AnalysisEnds == analysis.status \in Active ~> analysis.status \in Terminal

\* What an inspection promises in every state: rows of their types, and images that
\* count as analysed exactly when their findings are stored.
InspectionsInv == InspectionTypeOK /\ AnalyzedMeansFound
===============================================================================
