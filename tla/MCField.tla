------------------------------- MODULE MCField --------------------------------
(* The parts of the business that share no state: a behaviour is about one of *)
(* them, and where that is not small enough about one side of it.             *)
EXTENDS HazardCases, Inspections, Reports, Meetings, TLC

CONSTANTS
    Drafter,   \* the editor who edits while drafts are generated
    First      \* the publisher of the behaviours about texts

VARIABLE focus

fieldVars == <<hazardVars, inspectionVars, reportVars, meetingsVars, focus>>

MCInit ==
    /\ HazardInit /\ InspectionInit /\ ReportsInit /\ MeetingsInit
    /\ focus \in {"hazard", "inspection", "review", "drafts", "exports", "daily",
                  "transcripts", "minutes", "recording", "publications", "bases"}

DraftsNext ==
    \/ OpenReport(Drafter, "edit") \/ EditReport(Drafter)
    \/ \E g \in Generation : Drafting(g)
    \/ \E s \in Source : ConfirmSource(s)
    \/ \E o \in WorkOrder, to \in OrderStates : MoveOrder(o, to)

ExportsNext ==
    \/ OpenReport(Drafter, "edit") \/ EditReport(Drafter)
    \/ \E x \in Export : Exporting(x)

OnReports ==
    \/ focus = "review" /\ \E e \in Editor : ReportWork(e)
    \/ focus = "drafts" /\ DraftsNext
    \/ focus = "exports" /\ ExportsNext
    \/ focus = "daily" /\ \E d \in DailyRun : Daily(d)

NoMinutes == minutes' = <<>> /\ meetingJob'["minutes"] = NoMeetingJob

\* The rows of a document are taken in one order.
RowsInOrder ==
    \A v \in Version : version[v] = NoVersion /\ version'[v] # NoVersion =>
        v = CHOOSE u \in With(v) : version[u] = NoVersion

\* A behaviour about bases has one version in each, others have several in one.
FewDocuments ==
    IF focus = "bases" THEN \A d \in Document : Cardinality(d \cap Stored') <= 1
    ELSE \A d \in document' : Cardinality(d) > 1

OnMeetings ==
    /\ \/ focus = "transcripts" /\ (Texts \/ Publishing(First)) /\ NoMinutes
       \/ focus = "minutes" /\ (Texts \/ Publishing(First))
                            /\ meetingJob'["transcription"] = NoMeetingJob
       \/ focus = "recording" /\ (Texts \/ Deletion) /\ NoMinutes
       \/ focus = "publications" /\ (EditTranscript \/ Deletion \/ Publication)
       \/ focus = "bases" /\ (EditTranscript \/ Publication)
    /\ RowsInOrder /\ FewDocuments

MCNext ==
    /\ UNCHANGED focus
    /\ \/ /\ focus = "hazard" /\ HazardNext
          /\ UNCHANGED <<inspectionVars, reportVars, meetingsVars>>
       \/ /\ focus = "inspection" /\ InspectionNext
          /\ UNCHANGED <<hazardVars, reportVars, meetingsVars>>
       \/ /\ OnReports
          /\ UNCHANGED <<hazardVars, inspectionVars, meetingsVars>>
       \/ /\ OnMeetings
          /\ UNCHANGED <<hazardVars, inspectionVars, reportVars>>

\* What is fair, where a behaviour is about it.
OnDeletion == focus \in {"recording", "publications"}

MCFairness ==
    /\ \A a \in Analyst, n \in 1 .. MaxAnalyses :
          WF_inspectionVars(focus = "inspection" /\ BeginAnalysis(a, n))
    /\ \A a \in Analyst : WF_inspectionVars(focus = "inspection" /\ Analyzes(a))
    /\ \A r \in Remover :
          /\ WF_meetingsVars(OnDeletion /\ Mark(r))
          /\ WF_meetingsVars(OnDeletion /\ Remove(r))
          /\ WF_meetingsVars(OnDeletion /\ Close(r))

MCSpec == MCInit /\ [][MCNext]_fieldVars /\ MCFairness
===============================================================================
