------------------------------ MODULE FieldProofs ------------------------------
(***************************************************************************)
(* Proofs about hazards, inspections and reports.                          *)
(***************************************************************************)
EXTENDS HazardCases, Inspections, Reports, FiniteSetTheorems, TLAPS

-------------------------------------------------------------------------------
(***************************************************************************)
(* The record of a hazard is complete and its decisions were informed, for *)
(* any number of people and any number of rounds.  HazardInv is inductive: *)
(* a decision raises the version, so that it outdates what everybody else  *)
(* has read, and a reader of the present version knows the present round.  *)
(***************************************************************************)

\* The rows' columns, one by one.
LEMMA Columns ==
    ASSUME HazardTypeOK
    PROVE  /\ MaxHazardVersion \in Nat
           /\ hazard = [status |-> hazard.status, version |-> hazard.version]
           /\ hazard.status \in HazardStatus
           /\ hazard.version \in Nat /\ hazard.version <= MaxHazardVersion
           /\ assessments \in Nat /\ submissions \in Nat
           /\ Len(acceptances) \in Nat /\ DOMAIN acceptances = 1 .. Len(acceptances)
           /\ Len(transitions) \in Nat /\ DOMAIN transitions = 1 .. Len(transitions)
           /\ \A o \in Officer : /\ view[o].version \in Nat /\ view[o].round \in Nat
                                 /\ view[o].round <= MaxHazardVersion
  BY HazardBounds DEF HazardTypeOK, VersionNumbers

\* A hazard that was just reported.
LEMMA HazardInitHolds == HazardInit => HazardInv
  <1> SUFFICES ASSUME HazardInit PROVE HazardInv
    OBVIOUS
  <1>1. HazardTypeOK
    <2>1. hazard \in [status : HazardStatus, version : VersionNumbers]
      BY HazardBounds DEF HazardInit, HazardStatus, VersionNumbers
    <2>2. assessments \in 0 .. 1 /\ submissions \in 0 .. MaxHazardVersion
      BY HazardBounds DEF HazardInit
    <2>3. acceptances = <<>> /\ transitions = <<>> /\ links \subseteq Order
      BY DEF HazardInit
    <2>4. view \in [Officer -> [version : 0 .. MaxHazardVersion,
                               round : 0 .. MaxHazardVersion]]
      BY HazardBounds DEF HazardInit, Unread
    <2> QED BY <2>1, <2>2, <2>3, <2>4 DEF HazardTypeOK
  <1>2. StoryIsComplete /\ JudgedWhatWasRead /\ EveryRoundIsJudged
    <2>1. /\ hazard.status = "pending_assessment" /\ hazard.version = 1
          /\ submissions = 0 /\ acceptances = <<>> /\ transitions = <<>>
      BY DEF HazardInit
    <2>2. Len(transitions) = 0 /\ DOMAIN transitions = {}
          /\ Len(acceptances) = 0 /\ DOMAIN acceptances = {}
      BY <2>1
    <2> QED BY <2>1, <2>2 DEF StoryIsComplete, JudgedWhatWasRead, EveryRoundIsJudged
  <1>3. ReadIsPast /\ CountsFit
    BY DEF HazardInit, ReadIsPast, CountsFit, Unread
  <1> QED BY <1>1, <1>2, <1>3 DEF HazardInv

\* A transition continues the story and outdates what people have read.
LEMMA TransitionContinues ==
    ASSUME HazardInv, NEW target \in HazardStatus, Transition(target), UNCHANGED view
    PROVE  /\ hazard' \in [status : HazardStatus, version : VersionNumbers]
           /\ transitions' \in Seq([from : HazardStatus, to : HazardStatus,
                                    after : VersionNumbers])
           /\ hazard'.status = target
           /\ hazard'.version = hazard.version + 1
           /\ StoryIsComplete'
           /\ ReadIsPast'
  <1>1. HazardTypeOK /\ StoryIsComplete /\ ReadIsPast
    BY DEF HazardInv
  <1> DEFINE entry == [from |-> hazard.status, to |-> target, after |-> hazard.version + 1]
             Entries == [from : HazardStatus, to : HazardStatus, after : VersionNumbers]
  <1>2. /\ hazard.version < MaxHazardVersion
        /\ hazard' = [status |-> target, version |-> hazard.version + 1]
        /\ transitions' = Append(transitions, entry)
    BY DEF Transition
  <1>3. hazard.version + 1 \in VersionNumbers
    BY <1>1, <1>2, Columns DEF VersionNumbers
  <1>4. entry \in Entries
    BY <1>1, <1>3, Columns
  <1>5. transitions \in Seq(Entries)
    BY <1>1 DEF HazardTypeOK
  <1>6. /\ entry.from = hazard.status /\ entry.to = target
        /\ entry.after = hazard.version + 1
    OBVIOUS
  <1> HIDE DEF entry, Entries
  <1>7. /\ transitions' \in Seq(Entries)
        /\ Len(transitions') = Len(transitions) + 1
        /\ transitions'[Len(transitions) + 1] = entry
        /\ \A i \in 1 .. Len(transitions) : transitions'[i] = transitions[i]
    BY <1>2, <1>4, <1>5
  <1>8. StoryIsComplete'
    <2>1. Len(transitions) = hazard.version - 1 /\ hazard.version \in Nat
      BY <1>1, Columns DEF StoryIsComplete
    <2>2. hazard.status = IF Len(transitions) = 0 THEN "pending_assessment"
                          ELSE transitions[Len(transitions)].to
      <3>1. transitions = <<>> <=> Len(transitions) = 0
        BY <1>5
      <3> QED BY <1>1, <3>1 DEF StoryIsComplete
    <2>3. DOMAIN transitions' = 1 .. Len(transitions) + 1 /\ transitions' # <<>>
      BY <1>5, <1>7
    <2>4. ASSUME NEW i \in 1 .. Len(transitions) + 1
          PROVE  /\ transitions'[i].after = i + 1
                 /\ transitions'[i].from = IF i = 1 THEN "pending_assessment"
                                           ELSE transitions'[i - 1].to
      <3>1. CASE i = Len(transitions) + 1
        BY <3>1, <1>5, <1>6, <1>7, <2>1, <2>2
      <3>2. CASE i \in 1 .. Len(transitions)
        <4>1. /\ transitions[i].after = i + 1
              /\ transitions[i].from = IF i = 1 THEN "pending_assessment"
                                       ELSE transitions[i - 1].to
          BY <1>1, <1>5, <3>2 DEF StoryIsComplete
        <4>2. i # 1 => i - 1 \in 1 .. Len(transitions)
          BY <3>2
        <4> QED BY <1>7, <3>2, <4>1, <4>2
      <3> QED BY <1>5, <3>1, <3>2
    <2>5. hazard'.status = target /\ hazard'.version = hazard.version + 1
      BY <1>2
    <2>6. transitions'[Len(transitions')].to = target
      BY <1>6, <1>7
    <2> QED BY <1>7, <2>1, <2>3, <2>4, <2>5, <2>6 DEF StoryIsComplete
  <1>9. ReadIsPast'
    <2>1. \A o \in Officer : view[o].version <= hazard.version /\ view[o].version \in Nat
      BY <1>1, Columns DEF ReadIsPast
    <2> QED BY <1>1, <1>2, <2>1, Columns DEF ReadIsPast
  <1> QED BY <1>2, <1>3, <1>7, <1>8, <1>9 DEF Entries

\* Reading the hazard.
LEMMA ReadHolds ==
    ASSUME HazardInv, NEW o \in Officer, ReadHazard(o)
    PROVE  HazardInv'
  <1> USE DEF HazardInv
  <1>1. /\ view' = [view EXCEPT ![o] = [version |-> hazard.version, round |-> submissions]]
        /\ UNCHANGED <<hazard, assessments, submissions, acceptances, transitions, links>>
    BY DEF ReadHazard
  <1>2. HazardTypeOK'
    BY <1>1, Columns DEF HazardTypeOK
  <1>3. ReadIsPast'
    BY <1>1, Columns DEF ReadIsPast, HazardTypeOK
  <1> QED BY <1>1, <1>2, <1>3
         DEF StoryIsComplete, JudgedWhatWasRead, EveryRoundIsJudged, CountsFit

\* The assessment, the only one.
LEMMA AssessHolds ==
    ASSUME HazardInv, NEW o \in Officer, Assess(o)
    PROVE  HazardInv'
  <1>1. /\ HazardTypeOK /\ JudgedWhatWasRead /\ EveryRoundIsJudged /\ CountsFit
    BY DEF HazardInv
  <1>2. /\ hazard.status = "pending_assessment" /\ assessments' = assessments + 1
        /\ Transition("pending_rectification")
        /\ UNCHANGED <<submissions, acceptances, links, view>>
    BY DEF Assess
  <1>3. /\ hazard' \in [status : HazardStatus, version : VersionNumbers]
        /\ transitions' \in Seq([from : HazardStatus, to : HazardStatus,
                                 after : VersionNumbers])
        /\ hazard'.status = "pending_rectification"
        /\ hazard'.version = hazard.version + 1
        /\ StoryIsComplete' /\ ReadIsPast'
    BY <1>2, TransitionContinues DEF HazardStatus
  <1>4. HazardTypeOK'
    BY <1>1, <1>2, <1>3 DEF HazardTypeOK, CountsFit
  <1>5. JudgedWhatWasRead' /\ EveryRoundIsJudged'
    BY <1>1, <1>2, <1>3 DEF JudgedWhatWasRead, EveryRoundIsJudged
  <1>6. CountsFit'
    BY <1>1, <1>2, <1>3, Columns DEF CountsFit
  <1> QED BY <1>3, <1>4, <1>5, <1>6 DEF HazardInv

\* The beginning of a rectification.
LEMMA StartHolds ==
    ASSUME HazardInv, NEW o \in Officer, StartRectification(o)
    PROVE  HazardInv'
  <1>1. /\ HazardTypeOK /\ JudgedWhatWasRead /\ EveryRoundIsJudged /\ CountsFit
    BY DEF HazardInv
  <1>2. /\ hazard.status = "pending_rectification" /\ Transition("rectifying")
        /\ UNCHANGED <<assessments, submissions, acceptances, links, view>>
    BY DEF StartRectification
  <1>3. /\ hazard' \in [status : HazardStatus, version : VersionNumbers]
        /\ transitions' \in Seq([from : HazardStatus, to : HazardStatus,
                                 after : VersionNumbers])
        /\ hazard'.status = "rectifying"
        /\ hazard'.version = hazard.version + 1
        /\ StoryIsComplete' /\ ReadIsPast'
    BY <1>2, TransitionContinues DEF HazardStatus
  <1>4. HazardTypeOK'
    BY <1>1, <1>2, <1>3 DEF HazardTypeOK
  <1>5. JudgedWhatWasRead' /\ EveryRoundIsJudged'
    BY <1>1, <1>2, <1>3 DEF JudgedWhatWasRead, EveryRoundIsJudged
  <1>6. CountsFit'
    BY <1>1, <1>2, <1>3, Columns DEF CountsFit
  <1> QED BY <1>3, <1>4, <1>5, <1>6 DEF HazardInv

\* A submission opens a round that is still to be judged.
LEMMA SubmitHolds ==
    ASSUME HazardInv, NEW o \in Officer, SubmitRectification(o)
    PROVE  HazardInv'
  <1>1. /\ HazardTypeOK /\ JudgedWhatWasRead /\ EveryRoundIsJudged /\ CountsFit
    BY DEF HazardInv
  <1>2. /\ hazard.status = "rectifying" /\ Transition("pending_acceptance")
        /\ submissions' = submissions + 1
        /\ UNCHANGED <<assessments, acceptances, links, view>>
    BY DEF SubmitRectification
  <1>3. /\ hazard' \in [status : HazardStatus, version : VersionNumbers]
        /\ transitions' \in Seq([from : HazardStatus, to : HazardStatus,
                                 after : VersionNumbers])
        /\ hazard'.status = "pending_acceptance"
        /\ hazard'.version = hazard.version + 1
        /\ StoryIsComplete' /\ ReadIsPast'
    BY <1>2, TransitionContinues DEF HazardStatus
  <1>4. submissions' < hazard'.version /\ submissions' \in 0 .. MaxHazardVersion
    BY <1>1, <1>2, <1>3, Columns DEF CountsFit, VersionNumbers
  <1>5. HazardTypeOK'
    BY <1>1, <1>2, <1>3, <1>4 DEF HazardTypeOK
  <1>6. JudgedWhatWasRead'
    BY <1>1, <1>2 DEF JudgedWhatWasRead
  <1>7. EveryRoundIsJudged'
    BY <1>1, <1>2, <1>3, Columns DEF EveryRoundIsJudged
  <1>8. CountsFit'
    BY <1>1, <1>2, <1>3, <1>4 DEF CountsFit
  <1> QED BY <1>3, <1>5, <1>6, <1>7, <1>8 DEF HazardInv

\* A judgement is about the open round, which its author has read.
LEMMA AcceptHolds ==
    ASSUME HazardInv, NEW o \in Officer, NEW approved \in BOOLEAN, Accept(o, approved)
    PROVE  HazardInv'
  <1>1. /\ HazardTypeOK /\ JudgedWhatWasRead /\ EveryRoundIsJudged /\ ReadIsPast /\ CountsFit
    BY DEF HazardInv
  <1> DEFINE decision == IF approved THEN "accepted" ELSE "rejected"
             target == IF approved THEN "closed" ELSE "rectifying"
             judgement == [decision |-> decision, round |-> submissions,
                           read |-> view[o].round]
             Judgements == [decision : {"accepted", "rejected"},
                            round : 0 .. MaxHazardVersion, read : 0 .. MaxHazardVersion]
  <1>2. /\ hazard.status = "pending_acceptance" /\ view[o].version = hazard.version
        /\ acceptances' = Append(acceptances, judgement)
        /\ Transition(target)
        /\ UNCHANGED <<assessments, submissions, links, view>>
    BY DEF Accept, Judged, CheckVersion
  <1>3. target \in HazardStatus /\ target \in {"closed", "rectifying"}
    BY DEF HazardStatus
  <1>4. /\ decision \in {"accepted", "rejected"}
        /\ decision = "accepted" <=> target = "closed"
    OBVIOUS
  <1> HIDE DEF decision, target
  <1>5. /\ hazard' \in [status : HazardStatus, version : VersionNumbers]
        /\ transitions' \in Seq([from : HazardStatus, to : HazardStatus,
                                 after : VersionNumbers])
        /\ hazard'.status = target
        /\ hazard'.version = hazard.version + 1
        /\ StoryIsComplete' /\ ReadIsPast'
    BY <1>2, <1>3, TransitionContinues
  <1>6. judgement \in Judgements
    BY <1>1, <1>4, Columns DEF HazardTypeOK
  <1>7. /\ judgement.decision = decision /\ judgement.round = submissions
        /\ judgement.read = submissions
    BY <1>1, <1>2 DEF ReadIsPast
  <1>8. acceptances \in Seq(Judgements)
    BY <1>1 DEF HazardTypeOK
  <1> HIDE DEF judgement
  <1>9. /\ acceptances' \in Seq(Judgements)
        /\ Len(acceptances') = Len(acceptances) + 1
        /\ DOMAIN acceptances' = 1 .. Len(acceptances) + 1
        /\ acceptances'[Len(acceptances) + 1] = judgement
        /\ \A i \in 1 .. Len(acceptances) : acceptances'[i] = acceptances[i]
    BY <1>2, <1>6, <1>8
  <1>10. HazardTypeOK'
    BY <1>1, <1>2, <1>5, <1>9 DEF HazardTypeOK
  <1>11. /\ Len(acceptances) = submissions - 1 /\ submissions \in Nat
         /\ Len(acceptances) \in Nat
         /\ \A i \in 1 .. Len(acceptances) :
               acceptances[i].round = i /\ acceptances[i].decision # "accepted"
               /\ acceptances[i].read = i
    BY <1>1, <1>2, Columns DEF EveryRoundIsJudged, JudgedWhatWasRead
  <1>12. ASSUME NEW i \in 1 .. Len(acceptances) + 1
         PROVE  /\ acceptances'[i].read = acceptances'[i].round
                /\ acceptances'[i].round = i
                /\ acceptances'[i].decision = "accepted"
                       <=> hazard'.status = "closed" /\ i = submissions
    <2>1. CASE i = Len(acceptances) + 1
      BY <1>4, <1>5, <1>7, <1>9, <1>11, <2>1
    <2>2. CASE i \in 1 .. Len(acceptances)
      BY <1>9, <1>11, <2>2
    <2> QED BY <1>11, <2>1, <2>2
  <1>13. JudgedWhatWasRead'
    BY <1>9, <1>12 DEF JudgedWhatWasRead
  <1>14. EveryRoundIsJudged'
    BY <1>2, <1>3, <1>5, <1>9, <1>11, <1>12 DEF EveryRoundIsJudged
  <1>15. CountsFit'
    BY <1>1, <1>2, <1>3, <1>5, Columns DEF CountsFit
  <1> QED BY <1>5, <1>10, <1>13, <1>14, <1>15 DEF HazardInv

\* Links of work orders, and steps of others.
LEMMA OthersHold ==
    ASSUME HazardInv, UNCHANGED <<hazard, assessments, submissions, acceptances, transitions,
                                  view>>,
           links' \subseteq Order
    PROVE  HazardInv'
  BY DEF HazardInv, HazardTypeOK, StoryIsComplete, JudgedWhatWasRead, EveryRoundIsJudged,
         ReadIsPast, CountsFit

-------------------------------------------------------------------------------
(* The theorems. *)

\* The story, the judgements and the readers' copies fit together in every state.
THEOREM HazardInvariant == HazardSpec => []HazardInv
  <1>1. HazardInv /\ [HazardNext]_hazardVars => HazardInv'
    <2> SUFFICES ASSUME HazardInv, [HazardNext]_hazardVars PROVE HazardInv'
      OBVIOUS
    <2>1. links \subseteq Order
      BY DEF HazardInv, HazardTypeOK
    <2>2. ASSUME NEW order \in Order, LinkOrder(order)
          PROVE  HazardInv'
      BY <2>1, <2>2, OthersHold DEF LinkOrder
    <2>3. CASE UNCHANGED hazardVars
      BY <2>1, <2>3, OthersHold DEF hazardVars
    <2> QED BY <2>2, <2>3, ReadHolds, AssessHolds, StartHolds, SubmitHolds, AcceptHolds
            DEF HazardNext
  <1> QED BY <1>1, HazardInitHolds, PTL DEF HazardSpec

\* hazard_transitions is the hazard's whole history, whatever sequence of decisions.
THEOREM StoriesAreComplete == HazardSpec => []StoryIsComplete
  <1>1. HazardInv => StoryIsComplete
    BY DEF HazardInv
  <1> QED BY <1>1, HazardInvariant, PTL

\* accept_hazard: the round that is judged is the round its judge has read.
THEOREM JudgementsAreInformed == HazardSpec => []JudgedWhatWasRead
  <1>1. HazardInv => JudgedWhatWasRead
    BY DEF HazardInv
  <1> QED BY <1>1, HazardInvariant, PTL

\* Every submission is judged exactly once, in order, and the accepted one is the last.
THEOREM RoundsAreJudged == HazardSpec => []EveryRoundIsJudged
  <1>1. HazardInv => EveryRoundIsJudged
    BY DEF HazardInv
  <1> QED BY <1>1, HazardInvariant, PTL

-------------------------------------------------------------------------------
(***************************************************************************)
(* The findings of an inspection, for any number of images, executions and *)
(* reviewers.  Messages are counted: an execution ends with the message it *)
(* has received.                                                           *)
(***************************************************************************)

ImageRow == [status : ImageStatus, deleted : BOOLEAN]
AnalysisRow == [attempt : 0 .. MaxAnalyses, status : {"none"} \cup Active \cup Terminal,
                cancel_requested : BOOLEAN]
AnalystRow == [at : {"off", "on"}, attempt : 0 .. MaxAnalyses,
               todo : SUBSET Image, done : SUBSET Image, marked : SUBSET Image]

Held(n) == Cardinality(Executing(n))

\* A message that was received is there until its execution ends, and there are no
\* more of an attempt than were sent and repeated.
MessagesFit ==
    /\ messages \in [1 .. MaxAnalyses -> 0 .. 1 + MaxLosses]
    /\ \A n \in 1 .. MaxAnalyses : messages[n] <= 1 + losses /\ Held(n) <= messages[n]

\* An execution is one of an attempt that was made.
AnalystsFit ==
    /\ analyst \in [Analyst -> AnalystRow]
    /\ \A a \in Analyst :
          /\ analyst[a].at = "on" => analyst[a].attempt \in 1 .. analysis.attempt
          /\ analyst[a].at = "off" => analyst[a].todo = {}

\* An execution that is alone will find what nobody has found.
AloneFinds ==
    ~overlapped =>
        /\ \A a, b \in Analyst : analyst[a].at = "on" /\ analyst[b].at = "on" => a = b
        /\ \A a \in Analyst : analyst[a].at = "on" =>
              \A i \in analyst[a].todo \cup analyst[a].done : found[i] = 0

ImagesFit ==
    /\ image \in [Image -> ImageRow] /\ found \in [Image -> Nat] /\ AnalyzedMeansFound

ReviewFits ==
    /\ review \in [Image -> ReviewStatus] /\ events \in [Image -> 0 .. 1]
    /\ inspector \in [Inspector -> [at : {"away", "reviewing", "deleting"},
                                    image : Image \cup {"none"}]]

AnalysisFits ==
    /\ analysis \in AnalysisRow /\ overlapped \in BOOLEAN /\ losses \in 0 .. MaxLosses
    /\ analysis.status = "none" => analysis.attempt = 0

\* Parts that say enough of each other to be kept by every step.
InspectionIndInv ==
    ImagesFit /\ ReviewFits /\ AnalysisFits /\ MessagesFit /\ AnalystsFit /\ AloneFinds

-------------------------------------------------------------------------------
(* Counting executions. *)

\* There are finitely many executions.
LEMMA HeldIsCount ==
    ASSUME NEW n
    PROVE  IsFiniteSet(Executing(n)) /\ Held(n) \in Nat
  <1>1. Executing(n) \subseteq Analyst
    BY DEF Executing
  <1>2. IsFiniteSet(Executing(n))
    BY <1>1, AnalystsAreFinite, FS_Subset
  <1> QED BY <1>2, FS_CardinalityType DEF Held

\* Nobody at an attempt means no execution of it.
LEMMA HeldOfNone ==
    ASSUME NEW n, \A a \in Analyst : ~(analyst[a].at = "on" /\ analyst[a].attempt = n)
    PROVE  Held(n) = 0
  <1>1. Executing(n) = {}
    BY DEF Executing
  <1> QED BY <1>1, FS_EmptySet DEF Held

\* Held depends on place and attempt only.
LEMMA HeldStays ==
    ASSUME NEW n,
           \A a \in Analyst : (analyst'[a].at = "on" /\ analyst'[a].attempt = n)
                                 <=> (analyst[a].at = "on" /\ analyst[a].attempt = n)
    PROVE  Held(n)' = Held(n)
  <1>1. Executing(n)' = Executing(n)
    BY DEF Executing
  <1> QED BY <1>1 DEF Held

\* An execution that begins is one more ...
LEMMA HeldByOneMore ==
    ASSUME NEW n, NEW a \in Analyst, analyst[a].at = "off",
           analyst'[a].at = "on", analyst'[a].attempt = n,
           \A b \in Analyst : b # a => analyst'[b] = analyst[b]
    PROVE  Held(n)' = Held(n) + 1
  <1>1. Executing(n)' = Executing(n) \cup {a} /\ a \notin Executing(n)
    BY DEF Executing
  <1>2. Cardinality(Executing(n) \cup {a}) = Cardinality(Executing(n)) + 1
    BY <1>1, HeldIsCount, FS_AddElement
  <1> QED BY <1>1, <1>2 DEF Held

\* ... and one that ends is one less.
LEMMA HeldByOneLess ==
    ASSUME NEW n, NEW a \in Analyst, analyst[a].at = "on", analyst[a].attempt = n,
           analyst'[a].at = "off", \A b \in Analyst : b # a => analyst'[b] = analyst[b]
    PROVE  Held(n)' = Held(n) - 1 /\ Held(n) >= 1
  <1>1. Executing(n)' = Executing(n) \ {a} /\ a \in Executing(n)
    BY DEF Executing
  <1>2. Cardinality(Executing(n) \ {a}) = Cardinality(Executing(n)) - 1
    BY <1>1, HeldIsCount, FS_RemoveElement
  <1>3. Held(n)' = Held(n) - 1
    BY <1>1, <1>2 DEF Held
  <1>4. IsFiniteSet(Executing(n) \ {a})
    BY HeldIsCount, FS_Subset
  <1>5. Cardinality(Executing(n) \ {a}) \in Nat
    BY <1>4, FS_CardinalityType
  <1>6. Held(n)' \in Nat /\ Held(n) \in Nat
    BY <1>1, <1>5, HeldIsCount DEF Held
  <1> QED BY <1>3, <1>6

-------------------------------------------------------------------------------
\* The invariant holds of an inspection without images.
LEMMA InspectionInitInv == InspectionInit => InspectionIndInv
  <1> SUFFICES ASSUME InspectionInit PROVE InspectionIndInv
    OBVIOUS
  <1> USE InspectionBounds DEF InspectionInit, Off
  <1>1. ImagesFit
    <2>1. \A i \in Image : found[i] = 0 /\ image[i].status = "absent"
      OBVIOUS
    <2>2. AnalyzedMeansFound
      BY <2>1 DEF AnalyzedMeansFound
    <2>3. image \in [Image -> ImageRow] /\ found \in [Image -> Nat]
      BY DEF ImageRow, ImageStatus
    <2> QED BY <2>2, <2>3 DEF ImagesFit
  <1>2. ReviewFits
    <2>1. Away \in [at : {"away", "reviewing", "deleting"}, image : Image \cup {"none"}]
      BY DEF Away
    <2> QED BY <2>1 DEF ReviewFits, ReviewStatus
  <1>3. AnalysisFits
    <2>1. analysis \in AnalysisRow /\ (analysis.status = "none" => analysis.attempt = 0)
      BY DEF AnalysisRow, NoAnalysis
    <2>2. overlapped \in BOOLEAN /\ losses \in 0 .. MaxLosses
      <3>1. overlapped \in BOOLEAN
        BY Zenon
      <3> QED BY <3>1
    <2> QED BY <2>1, <2>2 DEF AnalysisFits
  <1>4. AnalystsFit
    BY DEF AnalystsFit, AnalystRow
  <1>5. \A n \in 1 .. MaxAnalyses : Held(n) = 0
    BY HeldOfNone
  <1>6. MessagesFit
    BY <1>5 DEF MessagesFit
  <1>7. AloneFinds
    BY DEF AloneFinds
  <1> QED BY <1>1, <1>2, <1>3, <1>4, <1>6, <1>7 DEF InspectionIndInv

\* What does not touch jobs and executions.
LEMMA JobsStay ==
    ASSUME InspectionIndInv, UNCHANGED <<analysis, messages, analyst, overlapped, losses>>
    PROVE  AnalysisFits' /\ MessagesFit' /\ AnalystsFit'
  <1>1. AnalysisFits' /\ AnalystsFit'
    BY DEF InspectionIndInv, AnalysisFits, AnalystsFit
  <1>2. MessagesFit'
    BY DEF InspectionIndInv, MessagesFit, Held, Executing
  <1> QED BY <1>1, <1>2

\* What does not touch images and findings.
LEMMA FindingsStay ==
    ASSUME InspectionIndInv, UNCHANGED <<image, found, overlapped>>
    PROVE  ImagesFit'
  BY DEF InspectionIndInv, ImagesFit, AnalyzedMeansFound

\* What does not touch findings and executions.
LEMMA AloneStays ==
    ASSUME InspectionIndInv, UNCHANGED <<found, analyst, overlapped>>
    PROVE  AloneFinds'
  BY DEF InspectionIndInv, AloneFinds

\* One image changes: if it is not deleted, it does not count as analysed before or after.
LEMMA OneImage ==
    ASSUME InspectionIndInv, NEW i \in Image, NEW new \in ImageRow,
           image' = [image EXCEPT ![i] = new], UNCHANGED <<found, overlapped>>,
           \/ new.deleted
           \/ new.status # "analyzed" /\ image[i].status # "analyzed" /\ ~image[i].deleted
    PROVE  ImagesFit'
  <1>1. /\ image' \in [Image -> ImageRow] /\ image'[i] = new
        /\ \A k \in Image : k # i => image'[k] = image[k]
    BY DEF InspectionIndInv, ImagesFit
  <1>2. AnalyzedMeansFound'
    BY <1>1 DEF InspectionIndInv, ImagesFit, AnalyzedMeansFound
  <1> QED BY <1>1, <1>2 DEF InspectionIndInv, ImagesFit

\* A reviewer who is done goes away.
LEMMA InspectorAway ==
    ASSUME ReviewFits, NEW r \in Inspector, inspector' = [inspector EXCEPT ![r] = Away],
           review' \in [Image -> ReviewStatus], events' = events
    PROVE  ReviewFits'
  BY DEF ReviewFits, Away

\* The steps about an image.
LEMMA ImageStepInv ==
    ASSUME InspectionIndInv, NEW i \in Image, CreateImage(i) \/ CompleteImage(i)
    PROVE  InspectionIndInv'
  <1>1. UNCHANGED <<found, review, events, analysis, messages, analyst, inspector, overlapped, losses>>
    BY DEF CreateImage, CompleteImage
  <1>2. PICK status \in {"pending", "verified"} :
          /\ image' = [image EXCEPT ![i] = [image[i] EXCEPT !.status = status]]
          /\ image[i].status \in {"absent", "pending"}
    BY DEF CreateImage, CompleteImage
  <1> DEFINE new == [image[i] EXCEPT !.status = status]
  <1>3. image[i] \in ImageRow
    BY DEF InspectionIndInv, ImagesFit
  <1>4. new \in ImageRow /\ new.status = status /\ new.deleted = image[i].deleted
    BY <1>2, <1>3 DEF ImageRow, ImageStatus
  <1>5. ImagesFit'
    <2>1. image' = [image EXCEPT ![i] = new]
      BY <1>2
    <2> HIDE DEF new
    <2> QED BY <1>1, <1>2, <1>3, <1>4, <2>1, OneImage DEF ImageRow
  <1>6. ReviewFits'
    BY <1>1 DEF InspectionIndInv, ReviewFits
  <1> QED BY <1>1, <1>5, <1>6, JobsStay, AloneStays DEF InspectionIndInv

\* An image that is deleted is neither analysed nor found anything on.
LEMMA DeleteImageInv ==
    ASSUME InspectionIndInv, NEW r \in Inspector, DeleteImage(r)
    PROVE  InspectionIndInv'
  <1> DEFINE new == [status |-> "deleted", deleted |-> TRUE]
  <1>1. /\ UNCHANGED <<found, review, events, analysis, messages, analyst, overlapped, losses>>
        /\ image' = [image EXCEPT ![inspector[r].image] = new]
        /\ inspector' = [inspector EXCEPT ![r] = Away]
    BY DEF DeleteImage
  <1>2. new \in ImageRow /\ new.deleted
    BY DEF ImageRow, ImageStatus
  <1> HIDE DEF new
  <1>3. ImagesFit'
    <2>1. CASE inspector[r].image \in Image
      BY <1>1, <1>2, <2>1, OneImage
    <2>2. CASE inspector[r].image \notin Image
      <3>1. image' = image
        BY <1>1, <2>2 DEF InspectionIndInv, ImagesFit
      <3> QED BY <1>1, <3>1, FindingsStay
    <2> QED BY <2>1, <2>2
  <1>4. ReviewFits'
    BY <1>1, InspectorAway DEF InspectionIndInv, ReviewFits
  <1> QED BY <1>1, <1>3, <1>4, JobsStay, AloneStays DEF InspectionIndInv

\* The steps of people.
LEMMA ReviewStepInv ==
    ASSUME InspectionIndInv,
           \/ \E i \in Image : FollowUp(i)
           \/ \E r \in Inspector, i \in Image : AskToDelete(r, i) \/ OpenFinding(r, i)
           \/ \E r \in Inspector, d \in {"confirmed", "rejected"} : DecideFinding(r, d)
    PROVE  InspectionIndInv'
  <1>1. UNCHANGED <<image, found, analysis, messages, analyst, overlapped, losses>>
    BY DEF FollowUp, AskToDelete, OpenFinding, DecideFinding
  <1>2. ReviewFits
    BY DEF InspectionIndInv
  <1>3. ReviewFits'
    <2>1. CASE \E i \in Image : FollowUp(i)
      <3>1. PICK i \in Image : FollowUp(i)
        BY <2>1
      <3>2. events[i] + 1 \in 0 .. 1
        BY <1>2, <3>1 DEF FollowUp, ReviewFits
      <3> QED BY <1>2, <3>1, <3>2 DEF FollowUp, ReviewFits
    <2>2. CASE \E r \in Inspector, i \in Image : AskToDelete(r, i) \/ OpenFinding(r, i)
      <3>1. PICK r \in Inspector, i \in Image, at \in {"reviewing", "deleting"} :
              /\ inspector' = [inspector EXCEPT ![r] = [at |-> at, image |-> i]]
              /\ UNCHANGED <<review, events>>
        BY <2>2 DEF AskToDelete, OpenFinding
      <3> QED BY <1>2, <3>1 DEF ReviewFits
    <2>3. CASE \E r \in Inspector, d \in {"confirmed", "rejected"} : DecideFinding(r, d)
      <3>1. PICK r \in Inspector, d \in {"confirmed", "rejected"} : DecideFinding(r, d)
        BY <2>3
      <3>2. review' \in [Image -> ReviewStatus]
        BY <1>2, <3>1 DEF DecideFinding, ReviewFits, ReviewStatus
      <3> QED BY <1>2, <3>1, <3>2, InspectorAway DEF DecideFinding
    <2> QED BY <2>1, <2>2, <2>3
  <1> QED BY <1>1, <1>3, JobsStay, FindingsStay, AloneStays DEF InspectionIndInv

\* A new attempt: its message is not held by anybody.
LEMMA RequestAnalysisInv ==
    ASSUME InspectionIndInv, Analyze \/ RetryAnalysis \/ CancelAnalysis
    PROVE  InspectionIndInv'
  <1>1. UNCHANGED <<image, found, review, events, analyst, inspector, overlapped, losses>>
    BY DEF Analyze, RetryAnalysis, CancelAnalysis
  <1>2. /\ analysis.attempt \in 0 .. MaxAnalyses /\ analysis \in AnalysisRow
        /\ analysis.status = "none" => analysis.attempt = 0
        /\ MaxAnalyses \in Nat \ {0} /\ MaxLosses \in Nat /\ losses \in Nat
    BY InspectionBounds DEF InspectionIndInv, AnalysisFits, AnalysisRow
  <1>3. CASE CancelAnalysis
    <2>1. /\ analysis' = [analysis EXCEPT !.cancel_requested = TRUE] /\ messages' = messages
          /\ analysis.status \in Active
      BY <1>3 DEF CancelAnalysis
    <2>2. /\ analysis' \in AnalysisRow /\ analysis'.status # "none"
          /\ analysis'.attempt = analysis.attempt
      BY <1>2, <2>1 DEF AnalysisRow, Active
    <2>3. AnalysisFits' /\ AnalystsFit' /\ MessagesFit'
      BY <1>1, <2>1, <2>2 DEF InspectionIndInv, AnalysisFits, AnalystsFit, MessagesFit, Held, Executing
    <2> QED BY <1>1, <2>3, FindingsStay, AloneStays DEF InspectionIndInv, ReviewFits
  <1>4. CASE Analyze \/ RetryAnalysis
    <2> DEFINE n == analysis.attempt + 1
    <2>1. /\ n \in 1 .. MaxAnalyses /\ analysis'.attempt = n /\ analysis'.status = "queued"
          /\ analysis' \in AnalysisRow /\ messages' = [messages EXCEPT ![n] = 1]
      <3>1. CASE Analyze
        <4>1. analysis.attempt = 0 /\ n = 1 /\ 1 \in 0 .. MaxAnalyses /\ n \in 1 .. MaxAnalyses
          BY <1>2, <3>1 DEF Analyze
        <4>2. analysis' = [analysis EXCEPT !.attempt = 1, !.status = "queued"]
          BY <3>1 DEF Analyze
        <4>3. analysis' \in AnalysisRow /\ analysis'.attempt = 1 /\ analysis'.status = "queued"
          BY <1>2, <4>1, <4>2 DEF AnalysisRow, Active
        <4> QED BY <3>1, <4>1, <4>3 DEF Analyze
      <3>2. CASE RetryAnalysis
        <4>1. n \in 1 .. MaxAnalyses /\ n \in 0 .. MaxAnalyses
          BY <1>2, <3>2 DEF RetryAnalysis
        <4> QED BY <3>2, <4>1 DEF RetryAnalysis, AnalysisRow, Active
      <3> QED BY <1>4, <3>1, <3>2
    <2>2. AnalysisFits'
      BY <1>1, <2>1 DEF InspectionIndInv, AnalysisFits
    <2>3. AnalystsFit'
      BY <1>1, <1>2, <2>1 DEF InspectionIndInv, AnalystsFit
    <2>4. \A m : Held(m)' = Held(m)
      BY <1>1, HeldStays
    <2>5. Held(n) = 0
      <3>1. \A a \in Analyst : analyst[a].at = "on" => analyst[a].attempt <= analysis.attempt
        BY <1>2 DEF InspectionIndInv, AnalystsFit
      <3>2. \A a \in Analyst : ~(analyst[a].at = "on" /\ analyst[a].attempt = n)
        BY <1>2, <3>1
      <3> QED BY <3>2, HeldOfNone
    <2> HIDE DEF n
    <2>6. /\ messages' \in [1 .. MaxAnalyses -> 0 .. 1 + MaxLosses] /\ messages'[n] = 1
          /\ \A m \in 1 .. MaxAnalyses : m # n => messages'[m] = messages[m]
      BY <1>2, <2>1 DEF InspectionIndInv, MessagesFit
    <2>7. ASSUME NEW m \in 1 .. MaxAnalyses
          PROVE  messages'[m] <= 1 + losses' /\ Held(m)' <= messages'[m]
      <3>1. CASE m = n
        BY <1>1, <1>2, <2>4, <2>5, <2>6, <3>1
      <3>2. CASE m # n
        BY <1>1, <2>4, <2>6, <3>2 DEF InspectionIndInv, MessagesFit
      <3> QED BY <3>1, <3>2
    <2>8. MessagesFit'
      BY <2>6, <2>7 DEF MessagesFit
    <2> QED BY <1>1, <2>2, <2>3, <2>8, FindingsStay, AloneStays DEF InspectionIndInv, ReviewFits
  <1> QED BY <1>3, <1>4

-------------------------------------------------------------------------------
(* Executions. *)

\* What the provers need to know of messages and attempts.
LEMMA InspectionFields ==
    ASSUME InspectionIndInv
    PROVE  /\ MaxAnalyses \in Nat /\ MaxLosses \in Nat /\ losses \in 0 .. MaxLosses
           /\ analysis.attempt \in 0 .. MaxAnalyses /\ analysis \in AnalysisRow
           /\ \A n \in 1 .. MaxAnalyses :
                 /\ messages[n] \in Nat /\ Held(n) \in Nat
                 /\ messages[n] <= 1 + losses /\ Held(n) <= messages[n]
           /\ \A a \in Analyst :
                 /\ analyst[a] \in AnalystRow /\ analyst[a].at \in {"off", "on"}
                 /\ analyst[a].todo \subseteq Image /\ analyst[a].done \subseteq Image
                 /\ analyst[a].attempt \in 0 .. MaxAnalyses
  <1>1. MaxAnalyses \in Nat /\ MaxLosses \in Nat
    BY InspectionBounds
  <1>2. /\ losses \in 0 .. MaxLosses /\ analysis \in AnalysisRow /\ analysis.attempt \in 0 .. MaxAnalyses
    BY DEF InspectionIndInv, AnalysisFits, AnalysisRow
  <1>3. ASSUME NEW n \in 1 .. MaxAnalyses
        PROVE  /\ messages[n] \in Nat /\ Held(n) \in Nat
               /\ messages[n] <= 1 + losses /\ Held(n) <= messages[n]
    <2>1. messages[n] \in 0 .. 1 + MaxLosses
      BY DEF InspectionIndInv, MessagesFit
    <2>2. messages[n] \in Nat
      BY <1>1, <2>1
    <2> QED BY <2>2, HeldIsCount DEF InspectionIndInv, MessagesFit
  <1>4. ASSUME NEW a \in Analyst
        PROVE  /\ analyst[a] \in AnalystRow /\ analyst[a].at \in {"off", "on"}
               /\ analyst[a].todo \subseteq Image /\ analyst[a].done \subseteq Image
               /\ analyst[a].attempt \in 0 .. MaxAnalyses
    BY DEF InspectionIndInv, AnalystsFit, AnalystRow
  <1> QED BY <1>1, <1>2, <1>3, <1>4

\* One message less: somebody who held it lets go, or it was held by nobody.
LEMMA OneMessageLess ==
    ASSUME InspectionIndInv, NEW n \in 1 .. MaxAnalyses, messages' = [messages EXCEPT ![n] = @ - 1],
           losses' = losses, \A m \in 1 .. MaxAnalyses : m # n => Held(m)' = Held(m),
           Held(n)' \in Nat, Held(n)' <= messages[n] - 1
    PROVE  MessagesFit'
  <1> DEFINE less == messages[n] - 1
  <1>1. less \in 0 .. 1 + MaxLosses /\ less <= 1 + losses /\ Held(n)' <= less
    BY InspectionFields
  <1>2. messages' = [messages EXCEPT ![n] = less]
    OBVIOUS
  <1> HIDE DEF less
  <1>3. /\ messages' \in [1 .. MaxAnalyses -> 0 .. 1 + MaxLosses] /\ messages'[n] = less
        /\ \A m \in 1 .. MaxAnalyses : m # n => messages'[m] = messages[m]
    BY <1>1, <1>2 DEF InspectionIndInv, MessagesFit
  <1>4. ASSUME NEW m \in 1 .. MaxAnalyses
        PROVE  messages'[m] <= 1 + losses' /\ Held(m)' <= messages'[m]
    <2>1. CASE m = n
      BY <1>1, <1>3, <2>1
    <2>2. CASE m # n
      BY <1>3, <2>2, InspectionFields
    <2> QED BY <2>1, <2>2
  <1> QED BY <1>3, <1>4 DEF MessagesFit

\* An analyst's place changes; nobody else's does.
LEMMA OneAnalyst ==
    ASSUME InspectionIndInv, NEW a \in Analyst, NEW new \in AnalystRow,
           analyst' = [analyst EXCEPT ![a] = new],
           analysis'.attempt = analysis.attempt,
           new.at = "on" => new.attempt \in 1 .. analysis.attempt,
           new.at = "off" => new.todo = {}
    PROVE  /\ AnalystsFit' /\ analyst'[a] = new
           /\ \A b \in Analyst : b # a => analyst'[b] = analyst[b]
  BY DEF InspectionIndInv, AnalystsFit

\* A process without an attempt has nothing to do.
LEMMA OffIsRow == Off \in AnalystRow /\ Off.at = "off" /\ Off.todo = {}
  BY InspectionBounds DEF Off, AnalystRow

\* An execution ends: the others are who they were.
LEMMA AnalystLeaves ==
    ASSUME InspectionIndInv, NEW a \in Analyst, analyst[a].at = "on",
           analyst' = [analyst EXCEPT ![a] = Off], analysis'.attempt = analysis.attempt
    PROVE  /\ AnalystsFit' /\ analyst'[a] = Off
           /\ \A b \in Analyst : b # a => analyst'[b] = analyst[b]
           /\ analyst[a].attempt \in 1 .. MaxAnalyses
           /\ \A m \in 1 .. MaxAnalyses : m # analyst[a].attempt => Held(m)' = Held(m)
           /\ Held(analyst[a].attempt) >= 1
           /\ \A n : n = analyst[a].attempt => Held(n)' = Held(n) - 1
  <1>1. /\ AnalystsFit' /\ analyst'[a] = Off
        /\ \A b \in Analyst : b # a => analyst'[b] = analyst[b]
    BY OffIsRow, OneAnalyst
  <1>2. analyst[a].attempt \in 1 .. MaxAnalyses
    <2>1. analyst[a].attempt \in 1 .. analysis.attempt
      BY DEF InspectionIndInv, AnalystsFit
    <2> QED BY <2>1, InspectionFields
  <1>3. ASSUME NEW m \in 1 .. MaxAnalyses, m # analyst[a].attempt
        PROVE  Held(m)' = Held(m)
    BY <1>1, <1>3, OffIsRow, HeldStays
  <1>4. ASSUME NEW n, n = analyst[a].attempt
        PROVE  Held(n)' = Held(n) - 1 /\ Held(n) >= 1
    BY <1>1, <1>4, OffIsRow, HeldByOneLess
  <1> QED BY <1>1, <1>2, <1>3, <1>4

\* A delivery that finds nothing to do, and ends the attempt or not.
LEMMA BeginNothingInv ==
    ASSUME InspectionIndInv, NEW n \in 1 .. MaxAnalyses, messages[n] > Held(n),
           messages' = [messages EXCEPT ![n] = @ - 1], analyst' = analyst,
           analysis' \in AnalysisRow, analysis'.attempt = analysis.attempt,
           analysis'.status = "none" => analysis.status = "none", overlapped' = overlapped,
           UNCHANGED <<image, found, review, events, inspector, losses>>
    PROVE  InspectionIndInv'
  <1>1. \A m \in 1 .. MaxAnalyses : Held(m)' = Held(m)
    BY DEF Held, Executing
  <1>2. Held(n)' \in Nat /\ Held(n)' <= messages[n] - 1
    BY <1>1, InspectionFields
  <1>3. MessagesFit'
    BY <1>1, <1>2, OneMessageLess
  <1>4. AnalysisFits' /\ AnalystsFit'
    BY DEF InspectionIndInv, AnalysisFits, AnalystsFit
  <1> QED BY <1>3, <1>4, FindingsStay, AloneStays DEF InspectionIndInv, ReviewFits

\* An execution begins: its images have not been found anything on, if it is alone.
LEMMA BeginInv ==
    ASSUME InspectionIndInv, NEW a \in Analyst, NEW n \in 1 .. MaxAnalyses,
           analyst[a].at = "off", messages[n] > Held(n), n = analysis.attempt,
           NEW new \in AnalystRow, analyst' = [analyst EXCEPT ![a] = new],
           new.at = "on", new.attempt = n, new.todo = Analyzable, new.done = {},
           overlapped' \in BOOLEAN,
           ~overlapped' => ~overlapped /\ \A b \in Analyst : analyst[b].at # "on",
           UNCHANGED <<analysis, messages, image, found, review, events, inspector, losses>>
    PROVE  InspectionIndInv'
  <1>1. /\ AnalystsFit' /\ analyst'[a] = new
        /\ \A b \in Analyst : b # a => analyst'[b] = analyst[b]
    <2>1. new.attempt \in 1 .. analysis.attempt
      BY InspectionFields
    <2> QED BY <2>1, OneAnalyst
  <1>2. Held(n)' = Held(n) + 1
    BY <1>1, HeldByOneMore
  <1>3. \A m \in 1 .. MaxAnalyses : m # n => Held(m)' = Held(m)
    BY <1>1, HeldStays
  <1>4. ASSUME NEW m \in 1 .. MaxAnalyses
        PROVE  messages'[m] <= 1 + losses' /\ Held(m)' <= messages'[m]
    <2>1. CASE m = n
      <3>1. Held(n)' <= messages[n]
        BY <1>2, InspectionFields
      <3> QED BY <2>1, <3>1, InspectionFields
    <2>2. CASE m # n
      BY <1>3, <2>2, InspectionFields
    <2> QED BY <2>1, <2>2
  <1>5. MessagesFit'
    BY <1>4 DEF InspectionIndInv, MessagesFit
  <1>6. AnalysisFits' /\ ReviewFits'
    BY DEF InspectionIndInv, AnalysisFits, ReviewFits
  <1>7. ImagesFit'
    BY DEF InspectionIndInv, ImagesFit, AnalyzedMeansFound
  <1>8. ASSUME ~overlapped'
        PROVE  /\ \A b, c \in Analyst : analyst'[b].at = "on" /\ analyst'[c].at = "on" => b = c
               /\ \A b \in Analyst : analyst'[b].at = "on" =>
                     \A i \in analyst'[b].todo \cup analyst'[b].done : found'[i] = 0
    <2>1. \A b \in Analyst : analyst'[b].at = "on" => b = a
      BY <1>1, <1>8
    <2>2. ASSUME NEW i \in Analyzable
          PROVE  found[i] = 0
      <3>1. i \in Image /\ ~image[i].deleted /\ image[i].status # "analyzed"
        BY DEF Analyzable
      <3>2. ~(found[i] > 0) /\ found[i] \in Nat
        BY <1>8, <3>1 DEF InspectionIndInv, ImagesFit, AnalyzedMeansFound
      <3> QED BY <3>2
    <2> QED BY <1>1, <2>1, <2>2
  <1>9. AloneFinds'
    BY <1>8 DEF AloneFinds
  <1> QED BY <1>1, <1>5, <1>6, <1>7, <1>9 DEF InspectionIndInv

\* An execution begins with copies of the images that are to be analysed.
LEMMA BeginAnalysisInv ==
    ASSUME InspectionIndInv, NEW a \in Analyst, NEW n \in 1 .. MaxAnalyses, BeginAnalysis(a, n)
    PROVE  InspectionIndInv'
  <1> DEFINE live == n = analysis.attempt /\ analysis.status \in Active
             goes == live /\ Analyzable # {} /\ ~analysis.cancel_requested
             new == [at |-> "on", attempt |-> n, todo |-> Analyzable, done |-> {},
                     marked |-> {i \in Analyzable : image[i].status = "analyzing"}]
  <1>1. /\ analyst[a].at = "off" /\ messages[n] > Held(n)
        /\ UNCHANGED <<image, found, review, events, inspector, losses>>
    BY DEF BeginAnalysis, Held
  <1>2. CASE goes
    <2>1. /\ analyst' = [analyst EXCEPT ![a] = new] /\ analysis' = analysis /\ messages' = messages
      BY <1>2 DEF BeginAnalysis
    <2>2. /\ new \in AnalystRow /\ new.at = "on" /\ new.attempt = n /\ new.todo = Analyzable
          /\ new.done = {}
      <3>1. n \in 0 .. MaxAnalyses
        BY InspectionFields
      <3> QED BY <3>1 DEF AnalystRow, Analyzable
    <2>3. overlapped' = (overlapped \/ \E b \in Analyst : analyst[b].at = "on")
      BY <1>2 DEF BeginAnalysis
    <2>4. /\ overlapped' \in BOOLEAN
          /\ ~overlapped' => ~overlapped /\ \A b \in Analyst : analyst[b].at # "on"
      BY <2>3, Zenon
    <2>5. n = analysis.attempt
      BY <1>2
    <2> HIDE DEF new, goes, live
    <2> QED BY <1>1, <2>1, <2>2, <2>4, <2>5, BeginInv
  <1>3. CASE ~goes
    <2>1. analyst' = analyst /\ messages' = [messages EXCEPT ![n] = @ - 1]
      BY <1>3 DEF BeginAnalysis
    <2>2. overlapped' = overlapped
      <3>1. overlapped' = (overlapped \/ (goes /\ \E b \in Analyst : analyst[b].at = "on"))
        BY DEF BeginAnalysis
      <3>2. overlapped \in BOOLEAN
        BY DEF InspectionIndInv, AnalysisFits
      <3> HIDE DEF goes, live
      <3> QED BY <1>3, <3>1, <3>2, Zenon
    <2>3. /\ analysis' \in AnalysisRow /\ analysis'.attempt = analysis.attempt
          /\ analysis'.status = "none" => analysis.status = "none"
      <3>1. \/ analysis' = analysis
            \/ analysis' = [analysis EXCEPT !.status = "failed"]
            \/ analysis' = [analysis EXCEPT !.status = "cancelled"]
        BY <1>3 DEF BeginAnalysis
      <3> QED BY <3>1, InspectionFields DEF AnalysisRow, Terminal
    <2> QED BY <1>1, <2>1, <2>2, <2>3, BeginNothingInv
  <1> QED BY <1>2, <1>3

\* The provider's answer moves an image from what is to do to what is done.
LEMMA InspectInv ==
    ASSUME InspectionIndInv, NEW a \in Analyst, NEW i \in Image, Inspect(a, i)
    PROVE  InspectionIndInv'
  <1> DEFINE new == [analyst[a] EXCEPT !.todo = @ \ {i}, !.done = @ \cup {i}]
  <1>1. /\ i \in analyst[a].todo
        /\ UNCHANGED <<image, found, review, events, analysis, messages, inspector, overlapped, losses>>
    BY DEF Inspect
  <1>2. /\ new \in AnalystRow /\ new.at = analyst[a].at /\ new.attempt = analyst[a].attempt
        /\ new.todo \cup new.done = analyst[a].todo \cup analyst[a].done
    <2>1. analyst[a] \in AnalystRow
      BY InspectionFields
    <2> QED BY <1>1, <2>1 DEF AnalystRow
  <1>3. analyst' = [analyst EXCEPT ![a] = new]
    BY DEF Inspect
  <1>4. new.at = "on" /\ new.attempt \in 1 .. analysis.attempt
    BY <1>1, <1>2, InspectionFields DEF InspectionIndInv, AnalystsFit
  <1> HIDE DEF new
  <1>5. /\ AnalystsFit' /\ analyst'[a] = new
        /\ \A b \in Analyst : b # a => analyst'[b] = analyst[b]
    BY <1>1, <1>2, <1>3, <1>4, OneAnalyst
  <1>6. \A m : Held(m)' = Held(m)
    BY <1>2, <1>5, HeldStays
  <1>7. MessagesFit' /\ AnalysisFits' /\ ReviewFits'
    BY <1>1, <1>6 DEF InspectionIndInv, MessagesFit, AnalysisFits, ReviewFits
  <1>8. AloneFinds'
    <2>1. \A b \in Analyst : /\ analyst'[b].at = analyst[b].at
                             /\ analyst'[b].todo \cup analyst'[b].done = analyst[b].todo \cup analyst[b].done
      BY <1>2, <1>5
    <2> QED BY <1>1, <2>1 DEF InspectionIndInv, AloneFinds
  <1> QED BY <1>1, <1>5, <1>7, <1>8, FindingsStay DEF InspectionIndInv

\* The transaction of an execution commits, complete or broken off at an image.
LEMMA CommitsAnalysisInv ==
    ASSUME InspectionIndInv, NEW a \in Analyst, analyst[a].at = "on",
           NEW broken \in SUBSET analyst[a].todo, NEW status \in Terminal,
           CommitsAnalysis(a, broken, status)
    PROVE  InspectionIndInv'
  <1>1. /\ analyst' = [analyst EXCEPT ![a] = Off]
        /\ UNCHANGED <<review, events, inspector, overlapped, losses>>
        /\ found' = [i \in Image |-> IF i \in analyst[a].done THEN found[i] + 1 ELSE found[i]]
        /\ image' = [i \in Image |->
              IF i \in analyst[a].done THEN [image[i] EXCEPT !.status = "analyzed"]
              ELSE IF i \in broken \ analyst[a].marked THEN [image[i] EXCEPT !.status = "analyzing"]
              ELSE image[i]]
    BY DEF CommitsAnalysis
  <1>2. /\ analysis' \in AnalysisRow /\ analysis'.attempt = analysis.attempt
        /\ analysis'.status = "none" => analysis.status = "none"
    <2>1. analysis' = [analysis EXCEPT !.status = status] \/ analysis' = analysis
      <3>1. CASE analyst[a].attempt = analysis.attempt
        BY <3>1 DEF CommitsAnalysis
      <3>2. CASE analyst[a].attempt # analysis.attempt
        <4>1. analysis' = [analysis EXCEPT !.status = analysis.status]
          BY <3>2 DEF CommitsAnalysis
        <4> QED BY <4>1, InspectionFields DEF AnalysisRow
      <3> QED BY <3>1, <3>2
    <2> QED BY <2>1, InspectionFields DEF AnalysisRow, Terminal
  <1>3. /\ AnalystsFit' /\ analyst'[a] = Off
        /\ \A b \in Analyst : b # a => analyst'[b] = analyst[b]
        /\ analyst[a].attempt \in 1 .. MaxAnalyses
        /\ \A m \in 1 .. MaxAnalyses : m # analyst[a].attempt => Held(m)' = Held(m)
        /\ \A n : n = analyst[a].attempt => Held(n)' = Held(n) - 1
        /\ Held(analyst[a].attempt) >= 1
    BY <1>1, <1>2, AnalystLeaves
  <1>4. MessagesFit'
    <2>1. PICK n \in 1 .. MaxAnalyses : n = analyst[a].attempt
      BY <1>3
    <2>2. messages' = [messages EXCEPT ![n] = @ - 1]
      BY <2>1 DEF CommitsAnalysis
    <2>3. Held(n)' = Held(n) - 1 /\ Held(n) >= 1
      BY <1>3, <2>1
    <2>4. Held(n)' \in Nat /\ Held(n)' <= messages[n] - 1
      BY <2>3, InspectionFields
    <2> QED BY <1>1, <1>3, <2>1, <2>2, <2>4, OneMessageLess
  <1>5. AnalysisFits' /\ ReviewFits'
    BY <1>1, <1>2 DEF InspectionIndInv, AnalysisFits, ReviewFits
  <1>6. ASSUME NEW i \in Image
        PROVE  /\ found[i] \in Nat /\ image[i] \in ImageRow
               /\ i \in analyst[a].done =>
                     /\ found'[i] = found[i] + 1 /\ image'[i].status = "analyzed"
                     /\ image'[i].deleted = image[i].deleted
               /\ i \notin analyst[a].done =>
                     /\ found'[i] = found[i]
                     /\ \/ image'[i] = image[i]
                        \/ i \in broken /\ image'[i].status = "analyzing"
               /\ image'[i] \in ImageRow
    <2>1. found[i] \in Nat /\ image[i] \in ImageRow
      BY DEF InspectionIndInv, ImagesFit
    <2>2. CASE i \in analyst[a].done
      <3>1. image'[i] = [image[i] EXCEPT !.status = "analyzed"] /\ found'[i] = found[i] + 1
        BY <1>1, <2>2
      <3> QED BY <2>1, <2>2, <3>1 DEF ImageRow, ImageStatus
    <2>3. CASE i \notin analyst[a].done
      <3>1. /\ found'[i] = found[i]
            /\ \/ image'[i] = image[i]
               \/ i \in broken /\ image'[i] = [image[i] EXCEPT !.status = "analyzing"]
        BY <1>1, <2>3
      <3> QED BY <2>1, <2>3, <3>1 DEF ImageRow, ImageStatus
    <2> QED BY <2>2, <2>3, <2>1
  <1>7. AnalyzedMeansFound'
    <2>1. SUFFICES ASSUME ~overlapped, NEW i \in Image
                   PROVE  /\ found'[i] <= 1
                          /\ ~image'[i].deleted => (found'[i] > 0 <=> image'[i].status = "analyzed")
      BY <1>1 DEF AnalyzedMeansFound
    <2>2. /\ found[i] <= 1
          /\ ~image[i].deleted => (found[i] > 0 <=> image[i].status = "analyzed")
          /\ i \in analyst[a].todo \cup analyst[a].done => found[i] = 0
      BY <2>1 DEF InspectionIndInv, ImagesFit, AnalyzedMeansFound, AloneFinds
    <2>3. CASE i \in analyst[a].done
      BY <1>6, <2>2, <2>3
    <2>4. CASE i \notin analyst[a].done /\ image'[i] = image[i]
      BY <1>6, <2>2, <2>4
    <2>5. CASE i \notin analyst[a].done /\ image'[i] # image[i]
      BY <1>6, <2>2, <2>5
    <2> QED BY <2>3, <2>4, <2>5
  <1>8. image' \in [Image -> ImageRow] /\ found' \in [Image -> Nat]
    <2>1. image' = [i \in Image |-> image'[i]] /\ found' = [i \in Image |-> found'[i]]
      BY <1>1
    <2>2. \A i \in Image : image'[i] \in ImageRow /\ found'[i] \in Nat
      BY <1>6
    <2> QED BY <2>1, <2>2
  <1>9. AloneFinds'
    <2>1. ASSUME ~overlapped', NEW b \in Analyst
          PROVE  analyst'[b].at # "on"
      <3>1. b # a => analyst[b].at # "on"
        BY <1>1, <2>1 DEF InspectionIndInv, AloneFinds
      <3> QED BY <1>3, <3>1, OffIsRow
    <2> QED BY <2>1 DEF AloneFinds
  <1> QED BY <1>3, <1>4, <1>5, <1>7, <1>8, <1>9 DEF InspectionIndInv, ImagesFit

\* A process is lost, or a message delivered twice: the rows do not notice.
LEMMA LoseAnalystInv ==
    ASSUME InspectionIndInv, NEW a \in Analyst, LoseAnalyst(a)
    PROVE  InspectionIndInv'
  <1>1. /\ analyst[a].at = "on" /\ analyst' = [analyst EXCEPT ![a] = Off]
        /\ losses < MaxLosses /\ losses' = losses + 1
        /\ UNCHANGED <<image, found, review, events, analysis, messages, inspector, overlapped>>
    BY DEF LoseAnalyst
  <1>2. /\ AnalystsFit' /\ analyst'[a] = Off
        /\ \A b \in Analyst : b # a => analyst'[b] = analyst[b]
        /\ \A m \in 1 .. MaxAnalyses : m # analyst[a].attempt => Held(m)' = Held(m)
        /\ \A n : n = analyst[a].attempt => Held(n)' = Held(n) - 1
    BY <1>1, AnalystLeaves
  <1>3. losses' \in 0 .. MaxLosses
    BY <1>1, InspectionFields
  <1>4. AnalysisFits' /\ ReviewFits'
    BY <1>1, <1>3 DEF InspectionIndInv, AnalysisFits, ReviewFits
  <1>5. ASSUME NEW m \in 1 .. MaxAnalyses
        PROVE  messages'[m] <= 1 + losses' /\ Held(m)' <= messages'[m]
    <2>1. Held(m)' = Held(m) \/ Held(m)' = Held(m) - 1
      BY <1>2
    <2>2. /\ messages[m] \in Nat /\ Held(m) \in Nat /\ losses \in Nat
          /\ messages[m] <= 1 + losses /\ Held(m) <= messages[m]
      BY InspectionFields
    <2> QED BY <1>1, <2>1, <2>2
  <1>6. MessagesFit'
    BY <1>1, <1>5 DEF InspectionIndInv, MessagesFit
  <1>7. AloneFinds'
    <2>1. \A b \in Analyst : analyst'[b].at = "on" => analyst'[b] = analyst[b]
      BY <1>2, OffIsRow
    <2> QED BY <1>1, <2>1 DEF InspectionIndInv, AloneFinds
  <1> QED BY <1>1, <1>2, <1>4, <1>6, <1>7, FindingsStay DEF InspectionIndInv

\* A message that is delivered again is one more, at the cost of a loss.
LEMMA DeliverTwiceInv ==
    ASSUME InspectionIndInv, NEW n \in 1 .. MaxAnalyses, DeliverTwice(n)
    PROVE  InspectionIndInv'
  <1> DEFINE more == messages[n] + 1
  <1>1. /\ losses < MaxLosses /\ losses' = losses + 1 /\ messages' = [messages EXCEPT ![n] = more]
        /\ UNCHANGED <<image, found, review, events, analysis, analyst, inspector, overlapped>>
    BY DEF DeliverTwice
  <1>2. losses' \in 0 .. MaxLosses /\ more \in 0 .. 1 + MaxLosses /\ more <= 1 + losses'
    BY <1>1, InspectionFields
  <1>3. \A m : Held(m)' = Held(m)
    BY <1>1, HeldStays
  <1> HIDE DEF more
  <1>4. /\ messages' \in [1 .. MaxAnalyses -> 0 .. 1 + MaxLosses] /\ messages'[n] = more
        /\ \A m \in 1 .. MaxAnalyses : m # n => messages'[m] = messages[m]
    BY <1>1, <1>2 DEF InspectionIndInv, MessagesFit
  <1>5. ASSUME NEW m \in 1 .. MaxAnalyses
        PROVE  messages'[m] <= 1 + losses' /\ Held(m)' <= messages'[m]
    <2>1. CASE m = n
      BY <1>2, <1>3, <1>4, <2>1, InspectionFields DEF more
    <2>2. CASE m # n
      BY <1>1, <1>3, <1>4, <2>2, InspectionFields
    <2> QED BY <2>1, <2>2
  <1>6. MessagesFit'
    BY <1>4, <1>5 DEF MessagesFit
  <1>7. AnalysisFits' /\ ReviewFits' /\ AnalystsFit'
    BY <1>1, <1>2 DEF InspectionIndInv, AnalysisFits, ReviewFits, AnalystsFit
  <1> QED BY <1>1, <1>6, <1>7, FindingsStay, AloneStays DEF InspectionIndInv

-------------------------------------------------------------------------------
\* Every step of people, jobs and executions keeps the invariant.
LEMMA InspectionStepInv ==
    ASSUME InspectionIndInv, [InspectionNext]_inspectionVars
    PROVE  InspectionIndInv'
  <1>1. CASE UNCHANGED inspectionVars
    BY <1>1, JobsStay, FindingsStay, AloneStays DEF inspectionVars, InspectionIndInv, ReviewFits
  <1>2. CASE \E i \in Image : CreateImage(i) \/ CompleteImage(i)
    BY <1>2, ImageStepInv
  <1>3. CASE \/ \E i \in Image : FollowUp(i)
             \/ \E r \in Inspector, i \in Image : AskToDelete(r, i) \/ OpenFinding(r, i)
             \/ \E r \in Inspector, d \in {"confirmed", "rejected"} : DecideFinding(r, d)
    BY <1>3, ReviewStepInv
  <1>4. CASE Analyze \/ RetryAnalysis \/ CancelAnalysis
    BY <1>4, RequestAnalysisInv
  <1>5. CASE \E n \in 1 .. MaxAnalyses : DeliverTwice(n) \/ \E a \in Analyst : BeginAnalysis(a, n)
    BY <1>5, DeliverTwiceInv, BeginAnalysisInv
  <1>6. ASSUME NEW a \in Analyst, FinishAnalysis(a) \/ LoseAnalyst(a)
        PROVE  InspectionIndInv'
    <2>1. CASE FinishAnalysis(a)
      <3>1. analyst[a].at = "on" /\ CommitsAnalysis(a, {}, "succeeded") /\ {} \in SUBSET analyst[a].todo
        BY <2>1 DEF FinishAnalysis
      <3> QED BY <3>1, CommitsAnalysisInv DEF Terminal
    <2> QED BY <1>6, <2>1, LoseAnalystInv
  <1>7. ASSUME NEW a \in Analyst, NEW i \in Image, Inspect(a, i) \/ BreakAnalysis(a, i)
        PROVE  InspectionIndInv'
    <2>1. CASE BreakAnalysis(a, i)
      <3>1. CommitsAnalysis(a, {i}, "failed") /\ {i} \in SUBSET analyst[a].todo /\ i \in analyst[a].todo
        BY <2>1 DEF BreakAnalysis
      <3>2. analyst[a].at = "on"
        BY <3>1, InspectionFields DEF InspectionIndInv, AnalystsFit
      <3> QED BY <3>1, <3>2, CommitsAnalysisInv DEF Terminal
    <2> QED BY <1>7, <2>1, InspectInv
  <1>8. CASE \E r \in Inspector : DeleteImage(r)
    BY <1>8, DeleteImageInv
  <1> QED BY <1>1, <1>2, <1>3, <1>4, <1>5, <1>6, <1>7, <1>8 DEF InspectionNext

\* The invariant of an inspection.
THEOREM InspectionInvariance == InspectionSpec => []InspectionIndInv
  BY InspectionInitInv, InspectionStepInv, PTL DEF InspectionSpec

\* As long as executions do not overlap, images count as analysed exactly when their
\* findings are stored, and are never analysed twice, for any number of images, worker
\* processes, attempts and losses.
THEOREM InspectionsAreConsistent == InspectionSpec => []InspectionsInv
  <1>1. InspectionIndInv => InspectionsInv
    BY DEF InspectionIndInv, InspectionsInv, InspectionTypeOK, ImagesFit, ReviewFits, AnalysisFits,
           MessagesFit, AnalystsFit, ImageRow, AnalysisRow, AnalystRow
  <1> QED BY <1>1, InspectionInvariance, PTL

\* A deleted image stays deleted, whatever an analysis writes that has read it before.
THEOREM DeletedImagesStayDeleted == InspectionSpec => DeletedStaysDeleted
  <1>1. ASSUME InspectionIndInv, [InspectionNext]_inspectionVars, NEW i \in Image, image[i].deleted
        PROVE  image'[i].deleted
    <2> USE <1>1
    <2>1. image \in [Image -> ImageRow]
      BY DEF InspectionIndInv, ImagesFit
    <2>2. CASE image' = image
      BY <2>2
    <2>3. ASSUME NEW k \in Image, CreateImage(k) \/ CompleteImage(k)
          PROVE  image'[i].deleted
      <3>1. PICK status \in {"pending", "verified"} : image' = [image EXCEPT ![k].status = status]
        BY <2>3 DEF CreateImage, CompleteImage
      <3> QED BY <2>1, <3>1 DEF ImageRow
    <2>4. ASSUME NEW r \in Inspector, DeleteImage(r)
          PROVE  image'[i].deleted
      BY <2>1, <2>4 DEF DeleteImage
    <2>5. ASSUME NEW a \in Analyst, NEW broken, NEW status, CommitsAnalysis(a, broken, status)
          PROVE  image'[i].deleted
      <3>1. \/ image'[i] = image[i]
            \/ image'[i] = [image[i] EXCEPT !.status = "analyzed"]
            \/ image'[i] = [image[i] EXCEPT !.status = "analyzing"]
        BY <2>1, <2>5 DEF CommitsAnalysis
      <3> QED BY <2>1, <3>1 DEF ImageRow
    <2> QED BY <2>2, <2>3, <2>4, <2>5
            DEF InspectionNext, inspectionVars, FollowUp, AskToDelete, OpenFinding, DecideFinding,
                Analyze, RetryAnalysis, CancelAnalysis, BeginAnalysis, DeliverTwice, Inspect,
                FinishAnalysis, BreakAnalysis, LoseAnalyst
  <1>2. InspectionIndInv /\ [InspectionNext]_inspectionVars =>
           [\A i \in Image : image[i].deleted => image'[i].deleted]_inspectionVars
    BY <1>1
  <1> QED BY <1>2, InspectionInvariance, PTL DEF InspectionSpec, DeletedStaysDeleted

-------------------------------------------------------------------------------
(***************************************************************************)
(* What is published was approved, and cites what could be collected, for  *)
(* any number of editors, generations, exports and daily runs.  Copies may *)
(* be old, but versions and approvals only grow.                           *)
(***************************************************************************)

VersionRow == [review : ReviewStates, immutable : BOOLEAN, sources : SUBSET Source]
EditorRow == [request : Requests \cup {"none"}, copy : ReportRow]
GenerationRow == [status : JobStates, cancel : BOOLEAN, copy : ReportStatus,
                  collected : SUBSET Source]
ExportRow == [status : {"none", "queued", "succeeded", "cancelled"}, job : ExportJobStates,
              cancel : BOOLEAN, asked : VersionNo, file : VersionNo]
DailyRow == [report : BOOLEAN, versions : Nat]
DailyRunRow == [at : {"off", "looking", "creating", "generating"},
                todo : SUBSET Organization, org : Organization \cup {"none"}]

\* A copy is about a version that exists; who publishes has read one that was approved.
EditorFits(e) ==
    LET copy == editor[e].copy IN
    /\ copy.current \in 0 .. Len(versions) /\ copy.published \in 0 .. Len(versions)
    /\ editor[e].request \in {"submit", "approve", "reject", "publish"} => copy.current # 0
    /\ editor[e].request = "publish" => copy.current \in approvals

ApprovedIsRecorded ==
    \A n \in DOMAIN versions : versions[n].review = "approved" => n \in approvals

\* What may have been a source by now.
EverCollectable == everConfirmed \cup {o \in WorkOrder : orders[o] # "none"}

SourcesFit == \A n \in DOMAIN versions : versions[n].sources \subseteq EverCollectable

CollectedWereCollectable ==
    \A g \in Generation : generation[g].collected \subseteq EverCollectable

\* An export that has not been asked for is nowhere; one whose file is stored by the
\* execution at work, or that succeeded, has a file; and a file shows what was asked for.
ExportFits(new) ==
    /\ new.status = "none" => new.job = "none" /\ new.file = 0
    /\ new.job = "none" => new.status = "none"
    /\ new.status # "none" => new.asked # 0
    /\ new.file \in {0, new.asked}
    /\ new.job \in {"stored", "succeeded"} => new.file # 0
    /\ new.status = "succeeded" <=> new.job = "succeeded"
    /\ new.job = "cancelled" => new.status = "cancelled"

\* Whoever generates an organisation's report is the one who has created it.
DailyRunFits(d) ==
    LET o == dailyRun[d].org IN
    /\ dailyRun[d].at \in {"creating", "generating"} => o \in Organization
    /\ dailyRun[d].at = "generating" =>
          /\ daily[o].report /\ daily[o].versions = 0
          /\ \A c \in DailyRun : dailyRun[c].at = "generating" /\ dailyRun[c].org = o => c = d


TextsFit ==
    /\ report \in ReportRow
    /\ report.current \in 0 .. Len(versions) /\ report.published \in 0 .. Len(versions)
    /\ versions \in Seq(VersionRow) /\ Len(versions) <= MaxReportVersions
    /\ approvals \subseteq DOMAIN versions
    /\ confirmed \subseteq everConfirmed /\ everConfirmed \subseteq Source \ WorkOrder
    /\ orders \in [WorkOrder -> OrderStates]
    /\ PublishedWasApproved /\ SourcesFit /\ ApprovedIsRecorded

EditorsFit == editor \in [Editor -> EditorRow] /\ \A e \in Editor : EditorFits(e)

DraftsFit == generation \in [Generation -> GenerationRow] /\ CollectedWereCollectable

ExportsFit == export \in [Export -> ExportRow] /\ \A x \in Export : ExportFits(export[x])

DailyFits ==
    /\ daily \in [Organization -> DailyRow] /\ dailyRun \in [DailyRun -> DailyRunRow]
    /\ DailyOnce /\ \A d \in DailyRun : DailyRunFits(d)
    /\ \A o \in Organization : daily[o].versions # 0 => daily[o].report

\* Parts that say enough of each other to be kept by every step.
ReportsIndInv == TextsFit /\ EditorsFit /\ DraftsFit /\ ExportsFit /\ DailyFits

-------------------------------------------------------------------------------
\* The invariant holds before there is a version.
LEMMA ReportsInitInv == ReportsInit => ReportsIndInv
  <1> SUFFICES ASSUME ReportsInit PROVE ReportsIndInv
    OBVIOUS
  <1> USE ReportBounds DEF ReportsInit, NoReport
  <1>1. TextsFit
    BY DEF TextsFit, ReportRow, ReportStatus, ReviewStates, VersionNo, OrderStates, PublishedWasApproved,
           SourcesFit, EverCollectable, ApprovedIsRecorded
  <1>2. EditorsFit
    <2>1. IdleEditor \in EditorRow
      BY DEF IdleEditor, EditorRow, ReportRow, ReportStatus, ReviewStates, VersionNo
    <2>2. \A e \in Editor : editor[e] = IdleEditor
      OBVIOUS
    <2> QED BY <2>1, <2>2 DEF EditorsFit, EditorFits, IdleEditor
  <1>3. DraftsFit
    BY DEF DraftsFit, GenerationRow, CollectedWereCollectable, EverCollectable, JobStates, ReportStatus, ReviewStates
  <1>4. ExportsFit
    BY DEF ExportsFit, ExportRow, ExportFits, ExportJobStates, JobStates, VersionNo
  <1>5. DailyFits
    BY DEF DailyFits, DailyRow, DailyRunRow, DailyOnce, DailyRunFits
  <1> QED BY <1>1, <1>2, <1>3, <1>4, <1>5 DEF ReportsIndInv

-------------------------------------------------------------------------------
(* People and drafts. *)

\* What a copy says stays true while versions and approvals only grow.
LEMMA EditorsKeep ==
    ASSUME EditorsFit, Len(versions) \in Nat, Len(versions') \in Nat,
           Len(versions) <= Len(versions'), approvals \subseteq approvals',
           editor' \in [Editor -> EditorRow],
           \A e \in Editor : editor'[e] = editor[e] \/ editor'[e] = IdleEditor
    PROVE  EditorsFit'
  <1>1. ASSUME NEW e \in Editor
        PROVE  EditorFits(e)'
    <2>1. CASE editor'[e] = editor[e]
      BY <2>1 DEF EditorsFit, EditorFits
    <2>2. CASE editor'[e] = IdleEditor
      BY <2>2 DEF EditorFits, IdleEditor, NoReport
    <2> QED BY <2>1, <2>2
  <1> QED BY <1>1 DEF EditorsFit

\* A request that ends leaves its place as it found it.
LEMMA EditorLeaves ==
    ASSUME EditorsFit, NEW e \in Editor, editor' = [editor EXCEPT ![e] = IdleEditor],
           Len(versions) \in Nat, Len(versions') \in Nat,
           Len(versions) <= Len(versions'), approvals \subseteq approvals'
    PROVE  EditorsFit'
  <1>1. IdleEditor \in EditorRow
    BY ReportBounds DEF IdleEditor, NoReport, EditorRow, ReportRow, ReportStatus, ReviewStates, VersionNo
  <1>2. /\ editor' \in [Editor -> EditorRow]
        /\ \A d \in Editor : editor'[d] = editor[d] \/ editor'[d] = IdleEditor
    BY <1>1 DEF EditorsFit
  <1> QED BY <1>2, EditorsKeep

\* Whatever may have been a source is one.
LEMMA RecordsAreSources ==
    ASSUME TextsFit
    PROVE  Collectable \subseteq EverCollectable /\ EverCollectable \subseteq Source
  <1>1. WorkOrder \subseteq Source
    BY OrdersAreSources
  <1> QED BY <1>1 DEF TextsFit, Collectable, EverCollectable

\* A draft becomes the current version.
LEMMA AddsVersionInv ==
    ASSUME TextsFit, NEW copy \in ReportStatus, NEW sources \in SUBSET EverCollectable,
           AddsVersion(copy, sources), UNCHANGED <<confirmed, everConfirmed, orders>>
    PROVE  /\ TextsFit' /\ approvals' = approvals
           /\ Len(versions) \in Nat /\ Len(versions') = Len(versions) + 1
  <1> DEFINE new == [review |-> "draft", immutable |-> FALSE, sources |-> sources]
             row == [report EXCEPT !.current = Len(versions) + 1,
                                   !.status = Written(@, copy, "draft")]
  <1>1. /\ Len(versions) < MaxReportVersions /\ versions' = Append(versions, new)
        /\ report' = row /\ approvals' = approvals
    BY DEF AddsVersion
  <1>2. Len(versions) \in Nat /\ MaxReportVersions \in Nat /\ DOMAIN versions = 1 .. Len(versions)
    BY ReportBounds DEF TextsFit
  <1>3. /\ new \in VersionRow /\ new.review = "draft" /\ new.sources = sources
    BY RecordsAreSources DEF VersionRow, ReviewStates
  <1>4. /\ row \in ReportRow /\ row.current = Len(versions) + 1 /\ row.published = report.published
    <2>1. Written(report.status, copy, "draft") \in ReportStatus
      BY DEF Written, ReportStatus, ReviewStates, TextsFit, ReportRow
    <2> HIDE DEF Written
    <2>2. Len(versions) + 1 \in VersionNo
      BY <1>1, <1>2 DEF VersionNo
    <2> QED BY <2>1, <2>2 DEF TextsFit, ReportRow
  <1> HIDE DEF new, row
  <1>5. /\ versions' \in Seq(VersionRow) /\ Len(versions') = Len(versions) + 1
        /\ \A n \in DOMAIN versions : versions'[n] = versions[n]
        /\ versions'[Len(versions) + 1] = new
        /\ DOMAIN versions' = 1 .. Len(versions) + 1
        /\ \A n \in DOMAIN versions' : n \in DOMAIN versions \/ n = Len(versions) + 1
    BY <1>1, <1>2, <1>3 DEF TextsFit
  <1>6. PublishedWasApproved' /\ report'.published = report.published
    BY <1>1, <1>2, <1>4, <1>5 DEF TextsFit, PublishedWasApproved
  <1>7. SourcesFit'
    BY <1>3, <1>5 DEF TextsFit, SourcesFit, EverCollectable
  <1>8. ApprovedIsRecorded'
    BY <1>1, <1>3, <1>5 DEF TextsFit, ApprovedIsRecorded
  <1>9. report' \in ReportRow /\ report'.current \in 0 .. Len(versions') /\ report'.published \in 0 .. Len(versions')
    BY <1>1, <1>2, <1>4, <1>5 DEF TextsFit
  <1>10. approvals' \subseteq DOMAIN versions' /\ Len(versions') <= MaxReportVersions
    BY <1>1, <1>2, <1>5 DEF TextsFit
  <1> QED BY <1>1, <1>2, <1>5, <1>6, <1>7, <1>8, <1>9, <1>10 DEF TextsFit

\* A version changes in its review or becomes immutable; the row keeps its pointer, and
\* what it says is published is what it said or what the request has read.
LEMMA VersionInv ==
    ASSUME TextsFit, NEW n \in DOMAIN versions, NEW new \in VersionRow,
           versions' = [versions EXCEPT ![n] = new],
           new.sources = versions[n].sources,
           versions[n].immutable => new.immutable,
           approvals \subseteq approvals', approvals' \subseteq DOMAIN versions,
           new.review = "approved" => n \in approvals',
           report' \in ReportRow, report'.current = report.current,
           \/ report'.published = report.published
           \/ report'.published = n /\ n \in approvals /\ new.immutable,
           UNCHANGED <<confirmed, everConfirmed, orders>>
    PROVE  TextsFit' /\ Len(versions) \in Nat /\ Len(versions') = Len(versions)
  <1>1. /\ Len(versions) \in Nat /\ DOMAIN versions = 1 .. Len(versions)
    BY DEF TextsFit
  <1>2. /\ versions' \in Seq(VersionRow) /\ Len(versions') = Len(versions)
        /\ DOMAIN versions' = DOMAIN versions /\ versions'[n] = new
        /\ \A m \in DOMAIN versions : m # n => versions'[m] = versions[m]
    BY DEF TextsFit
  <1>3. PublishedWasApproved'
    BY <1>1, <1>2 DEF TextsFit, PublishedWasApproved
  <1>4. SourcesFit'
    BY <1>2 DEF TextsFit, SourcesFit, EverCollectable
  <1>5. ApprovedIsRecorded'
    BY <1>2 DEF TextsFit, ApprovedIsRecorded
  <1> QED BY <1>1, <1>2, <1>3, <1>4, <1>5 DEF TextsFit

\* The steps of people.
LEMMA OpenReportInv ==
    ASSUME TextsFit, EditorsFit, NEW e \in Editor, NEW request \in Requests, OpenReport(e, request)
    PROVE  TextsFit' /\ EditorsFit'
  <1> DEFINE new == [request |-> request, copy |-> report]
  <1>1. /\ Ready(request) /\ editor' = [editor EXCEPT ![e] = new]
        /\ UNCHANGED <<report, versions, approvals, confirmed, everConfirmed, orders>>
    BY DEF OpenReport
  <1>2. new \in EditorRow /\ new.request = request /\ new.copy = report
    BY DEF EditorRow, TextsFit
  <1>3. request \in {"submit", "approve", "reject", "publish"} => report.current # 0
    BY <1>1 DEF Ready
  <1>4. request = "publish" => report.current \in approvals
    <2>1. request = "publish" => report.current # 0 /\ versions[report.current].review = "approved"
      BY <1>1 DEF Ready, Current
    <2>2. report.current # 0 => report.current \in DOMAIN versions
      BY DEF TextsFit
    <2> QED BY <2>1, <2>2 DEF TextsFit, ApprovedIsRecorded
  <1> HIDE DEF new
  <1>5. TextsFit'
    BY <1>1 DEF TextsFit, PublishedWasApproved, SourcesFit, EverCollectable, ApprovedIsRecorded
  <1>6. editor' \in [Editor -> EditorRow] /\ editor'[e] = new
        /\ \A d \in Editor : d # e => editor'[d] = editor[d]
    BY <1>1, <1>2 DEF EditorsFit
  <1>7. EditorFits(e)'
    BY <1>1, <1>2, <1>3, <1>4, <1>6 DEF EditorFits, TextsFit
  <1>8. \A d \in Editor : d # e => EditorFits(d)'
    BY <1>1, <1>6 DEF EditorFits, EditorsFit
  <1> QED BY <1>5, <1>6, <1>7, <1>8 DEF EditorsFit

\* An edit adds a draft.
LEMMA EditReportInv ==
    ASSUME TextsFit, EditorsFit, NEW e \in Editor, EditReport(e)
    PROVE  TextsFit' /\ EditorsFit'
  <1>1. editor[e].copy.status \in ReportStatus
    BY DEF EditorsFit, EditorRow, ReportRow
  <1>2. AddsVersion(editor[e].copy.status, {}) /\ UNCHANGED <<confirmed, everConfirmed, orders>>
        /\ editor' = [editor EXCEPT ![e] = IdleEditor]
    BY DEF EditReport, Closes
  <1>3. TextsFit' /\ approvals' = approvals /\ Len(versions) \in Nat /\ Len(versions') = Len(versions) + 1
    BY <1>1, <1>2, AddsVersionInv
  <1>4. EditorsFit'
    <2>1. /\ Len(versions) \in Nat /\ Len(versions') \in Nat /\ Len(versions) <= Len(versions')
          /\ approvals \subseteq approvals' /\ editor' = [editor EXCEPT ![e] = IdleEditor]
      BY <1>2, <1>3
    <2> QED BY <2>1, EditorLeaves
  <1> QED BY <1>3, <1>4

\* A judgement of the current version is recorded on the version and on the report.
LEMMA JudgeInv ==
    ASSUME TextsFit, EditorsFit, NEW e \in Editor,
           NEW verdict \in {"pending_review", "approved", "rejected"}, Judge(e, verdict),
           editor[e].request \in {"submit", "approve", "reject", "publish"}
    PROVE  TextsFit' /\ EditorsFit'
  <1> DEFINE n == editor[e].copy.current
             new == [versions[n] EXCEPT !.review = verdict]
             row == [report EXCEPT !.status = Written(@, editor[e].copy.status, verdict)]
  <1>1. /\ versions' = [versions EXCEPT ![n] = new] /\ report' = row
        /\ approvals' = IF verdict = "approved" THEN approvals \cup {n} ELSE approvals
        /\ editor' = [editor EXCEPT ![e] = IdleEditor] /\ UNCHANGED <<confirmed, everConfirmed, orders>>
    BY DEF Judge, Closes
  <1>2. n \in DOMAIN versions
    <2>1. EditorFits(e) /\ Len(versions) \in Nat /\ DOMAIN versions = 1 .. Len(versions)
      BY DEF EditorsFit, TextsFit
    <2> QED BY <2>1 DEF EditorFits
  <1>3. /\ new \in VersionRow /\ new.review = verdict /\ new.sources = versions[n].sources
        /\ new.immutable = versions[n].immutable
    <2>1. versions[n] \in VersionRow
      BY <1>2 DEF TextsFit
    <2> QED BY <2>1 DEF VersionRow, ReviewStates
  <1>4. row \in ReportRow /\ row.current = report.current /\ row.published = report.published
    <2>1. Written(report.status, editor[e].copy.status, verdict) \in ReportStatus
      BY DEF Written, ReportStatus, ReviewStates, TextsFit, ReportRow
    <2> HIDE DEF Written
    <2> QED BY <2>1 DEF TextsFit, ReportRow
  <1>5. /\ approvals \subseteq approvals' /\ approvals' \subseteq DOMAIN versions
        /\ new.review = "approved" => n \in approvals'
    BY <1>1, <1>2, <1>3 DEF TextsFit
  <1> HIDE DEF n, new, row
  <1>6. TextsFit' /\ Len(versions) \in Nat /\ Len(versions') = Len(versions)
    BY <1>1, <1>2, <1>3, <1>4, <1>5, VersionInv
  <1>7. EditorsFit'
    <2>1. /\ Len(versions) \in Nat /\ Len(versions') \in Nat /\ Len(versions) <= Len(versions')
          /\ approvals \subseteq approvals' /\ editor' = [editor EXCEPT ![e] = IdleEditor]
      BY <1>1, <1>5, <1>6
    <2> QED BY <2>1, EditorLeaves
  <1> QED BY <1>6, <1>7

\* What is published is the version the request has read, which was approved then.
LEMMA PublishReportInv ==
    ASSUME TextsFit, EditorsFit, NEW e \in Editor, PublishReport(e)
    PROVE  TextsFit' /\ EditorsFit'
  <1> DEFINE n == editor[e].copy.current
             new == [versions[n] EXCEPT !.immutable = TRUE]
             row == [report EXCEPT !.published = Written(@, editor[e].copy.published, n),
                                   !.status = Written(@, editor[e].copy.status, "published")]
  <1>1. /\ versions' = [versions EXCEPT ![n] = new] /\ report' = row
        /\ approvals' = approvals /\ editor[e].request = "publish"
        /\ editor' = [editor EXCEPT ![e] = IdleEditor] /\ UNCHANGED <<confirmed, everConfirmed, orders>>
    BY DEF PublishReport, Closes
  <1>2. n \in approvals /\ n \in DOMAIN versions
    <2>1. EditorFits(e)
      BY DEF EditorsFit
    <2> QED BY <1>1, <2>1 DEF EditorFits, TextsFit
  <1>3. /\ new \in VersionRow /\ new.review = versions[n].review
        /\ new.sources = versions[n].sources /\ new.immutable = TRUE
    <2>1. versions[n] \in VersionRow
      BY <1>2 DEF TextsFit
    <2> QED BY <2>1 DEF VersionRow
  <1>4. /\ row \in ReportRow /\ row.current = report.current
        /\ row.published = report.published \/ row.published = n
    <2>1. Written(report.status, editor[e].copy.status, "published") \in ReportStatus
      BY DEF Written, ReportStatus, TextsFit, ReportRow
    <2>2. /\ Written(report.published, editor[e].copy.published, n) \in VersionNo
          /\ \/ Written(report.published, editor[e].copy.published, n) = report.published
             \/ Written(report.published, editor[e].copy.published, n) = n
      BY DEF Written, TextsFit, ReportRow, EditorsFit, EditorRow
    <2> HIDE DEF Written
    <2> QED BY <2>1, <2>2 DEF TextsFit, ReportRow
  <1>5. new.review = "approved" => n \in approvals'
    BY <1>1, <1>2
  <1> HIDE DEF n, new, row
  <1>6. TextsFit' /\ Len(versions) \in Nat /\ Len(versions') = Len(versions)
    BY <1>1, <1>2, <1>3, <1>4, <1>5, VersionInv DEF TextsFit
  <1>7. EditorsFit'
    <2>1. /\ Len(versions) \in Nat /\ Len(versions') \in Nat /\ Len(versions) <= Len(versions')
          /\ approvals \subseteq approvals' /\ editor' = [editor EXCEPT ![e] = IdleEditor]
      BY <1>1, <1>6
    <2> QED BY <2>1, EditorLeaves
  <1> QED BY <1>6, <1>7

\* A withdrawal leaves the versions as they are.
LEMMA WithdrawReportInv ==
    ASSUME TextsFit, EditorsFit, NEW e \in Editor, WithdrawReport(e) \/ LoseEdit(e)
    PROVE  TextsFit' /\ EditorsFit'
  <1>1. /\ UNCHANGED <<versions, approvals, confirmed, everConfirmed, orders>>
        /\ editor' = [editor EXCEPT ![e] = IdleEditor]
    BY DEF WithdrawReport, LoseEdit, Closes
  <1>2. report' \in ReportRow /\ report'.current = report.current /\ report'.published = report.published
    <2>1. CASE report' = [report EXCEPT !.status = "withdrawn"]
      BY <2>1 DEF TextsFit, ReportRow, ReportStatus
    <2>2. CASE report' = report
      BY <2>2 DEF TextsFit
    <2> QED BY <2>1, <2>2 DEF WithdrawReport, LoseEdit
  <1>3. TextsFit' /\ Len(versions) \in Nat
    BY <1>1, <1>2 DEF TextsFit, PublishedWasApproved, SourcesFit, EverCollectable, ApprovedIsRecorded
  <1>4. EditorsFit'
    <2>1. /\ Len(versions) \in Nat /\ Len(versions') \in Nat /\ Len(versions) <= Len(versions')
          /\ approvals \subseteq approvals' /\ editor' = [editor EXCEPT ![e] = IdleEditor]
      BY <1>1, <1>3
    <2> QED BY <2>1, EditorLeaves
  <1> QED BY <1>3, <1>4

\* What the requests of people do.
LEMMA ReportWorkInv ==
    ASSUME TextsFit, EditorsFit, NEW e \in Editor, ReportWork(e)
    PROVE  TextsFit' /\ EditorsFit'
  <1>1. CASE \E request \in Requests : OpenReport(e, request)
    BY <1>1, OpenReportInv
  <1>2. CASE EditReport(e)
    BY <1>2, EditReportInv
  <1>3. CASE SubmitReview(e)
    BY <1>3, JudgeInv DEF SubmitReview
  <1>4. CASE ReviewReport(e)
    BY <1>4, JudgeInv DEF ReviewReport
  <1>5. CASE PublishReport(e)
    BY <1>5, PublishReportInv
  <1>6. CASE WithdrawReport(e) \/ LoseEdit(e)
    BY <1>6, WithdrawReportInv
  <1> QED BY <1>1, <1>2, <1>3, <1>4, <1>5, <1>6 DEF ReportWork

\* What a draft cites was given to the model, in one piece or in several.
LEMMA CitedWereCollected ==
    ASSUME NEW collected, NEW named
    PROVE  Cited(collected, named) \subseteq collected
  BY DEF Cited

\* A generated draft has the sources that were collected.
LEMMA FinishGenerationInv ==
    ASSUME TextsFit, EditorsFit, DraftsFit, NEW g \in Generation, FinishGeneration(g)
    PROVE  TextsFit' /\ EditorsFit'
  <1>1. PICK named \in SUBSET Source :
          AddsVersion(generation[g].copy, Cited(generation[g].collected, named))
    BY DEF FinishGeneration
  <1>2. UNCHANGED <<confirmed, everConfirmed, orders, editor>>
    BY DEF FinishGeneration
  <1>3. generation[g].copy \in ReportStatus
    BY DEF DraftsFit, GenerationRow
  <1>4. Cited(generation[g].collected, named) \in SUBSET EverCollectable
    BY CitedWereCollected DEF DraftsFit, CollectedWereCollectable, EverCollectable
  <1>5. TextsFit' /\ approvals' = approvals /\ Len(versions) \in Nat /\ Len(versions') = Len(versions) + 1
    BY <1>1, <1>2, <1>3, <1>4, AddsVersionInv
  <1>6. Len(versions') \in Nat /\ Len(versions) <= Len(versions') /\ approvals \subseteq approvals'
    BY <1>5
  <1>7. EditorsFit'
    BY <1>2, <1>5, <1>6, EditorsKeep DEF EditorsFit
  <1> QED BY <1>5, <1>7

\* A job and the copies of its execution.
LEMMA DraftInv ==
    ASSUME DraftsFit, TextsFit, NEW g \in Generation, Drafting(g)
    PROVE  DraftsFit'
  <1>1. UNCHANGED <<everConfirmed, orders>>
    BY DEF Drafting, RequestGeneration, CancelGeneration, StartGeneration, FinishGeneration,
           BreakGeneration, Generates
  <1>2. ASSUME NEW new \in GenerationRow, new.collected \subseteq EverCollectable,
               generation' = [generation EXCEPT ![g] = new]
        PROVE  DraftsFit'
    BY <1>1, <1>2 DEF DraftsFit, CollectedWereCollectable, EverCollectable
  <1>3. generation[g] \in GenerationRow /\ generation[g].collected \subseteq EverCollectable
    BY DEF DraftsFit, CollectedWereCollectable, EverCollectable
  <1>4. ASSUME NEW status \in JobStates,
               generation' = [generation EXCEPT ![g] = [generation[g] EXCEPT !.status = status]]
        PROVE  DraftsFit'
    <2> DEFINE new == [generation[g] EXCEPT !.status = status]
    <2>1. new \in GenerationRow /\ new.collected \subseteq EverCollectable
      BY <1>3 DEF GenerationRow
    <2> HIDE DEF new
    <2> QED BY <1>2, <1>4, <2>1 DEF new
  <1>5. CASE RequestGeneration(g)
    BY <1>4, <1>5 DEF RequestGeneration, JobStates
  <1>6. CASE CancelGeneration(g)
    <2> DEFINE new == [generation[g] EXCEPT !.cancel = TRUE]
    <2>1. new \in GenerationRow /\ new.collected \subseteq EverCollectable
      BY <1>3 DEF GenerationRow
    <2>2. generation' = [generation EXCEPT ![g] = new]
      BY <1>6 DEF CancelGeneration
    <2> HIDE DEF new
    <2> QED BY <1>2, <2>1, <2>2
  <1>7. CASE StartGeneration(g)
    <2>1. CASE generation[g].cancel
      BY <1>4, <1>7, <2>1 DEF StartGeneration, JobStates
    <2>2. CASE ~generation[g].cancel
      <3> DEFINE new == [generation[g] EXCEPT !.status = "running", !.copy = report.status,
                                              !.collected = Collectable]
      <3>1. new \in GenerationRow /\ new.collected \subseteq EverCollectable
        BY <1>3, RecordsAreSources DEF GenerationRow, JobStates, TextsFit, ReportRow
      <3>2. generation' = [generation EXCEPT ![g] = new]
        BY <1>7, <2>2 DEF StartGeneration
      <3> HIDE DEF new
      <3> QED BY <1>2, <3>1, <3>2
    <2> QED BY <2>1, <2>2
  <1>8. CASE FinishGeneration(g)
    BY <1>4, <1>8 DEF FinishGeneration, JobStates
  <1>9. CASE BreakGeneration(g, "failed") \/ BreakGeneration(g, "queued")
    <2>1. PICK status \in {"failed", "queued"} : BreakGeneration(g, status)
      BY <1>9
    <2> DEFINE new == [generation[g] EXCEPT !.status = status, !.collected = {}]
    <2>2. new \in GenerationRow /\ new.collected \subseteq EverCollectable
      BY <1>3, <2>1 DEF GenerationRow, JobStates
    <2>3. generation' = [generation EXCEPT ![g] = new]
      BY <2>1 DEF BreakGeneration
    <2> HIDE DEF new
    <2> QED BY <1>2, <2>2, <2>3
  <1> QED BY <1>5, <1>6, <1>7, <1>8, <1>9 DEF Drafting

\* What generations do.
LEMMA DraftingInv ==
    ASSUME TextsFit, EditorsFit, DraftsFit, NEW g \in Generation, Drafting(g)
    PROVE  TextsFit' /\ EditorsFit' /\ DraftsFit'
  <1>1. CASE FinishGeneration(g)
    BY <1>1, FinishGenerationInv, DraftInv
  <1>2. CASE ~FinishGeneration(g)
    <2>1. UNCHANGED <<report, versions, approvals, confirmed, everConfirmed, orders, editor>>
      BY <1>2 DEF Drafting, RequestGeneration, CancelGeneration, StartGeneration,
                  BreakGeneration, Generates
    <2> QED BY <2>1, DraftInv
            DEF TextsFit, PublishedWasApproved, SourcesFit, EverCollectable, ApprovedIsRecorded,
                EditorsFit, EditorFits
  <1> QED BY <1>1, <1>2

\* What may have been a source only grows.
LEMMA RecordsGrow ==
    ASSUME TextsFit, EditorsFit, DraftsFit, EverCollectable \subseteq EverCollectable',
           confirmed' \subseteq everConfirmed', everConfirmed' \subseteq Source \ WorkOrder,
           orders' \in [WorkOrder -> OrderStates],
           UNCHANGED <<report, versions, approvals, editor, generation>>
    PROVE  TextsFit' /\ EditorsFit' /\ DraftsFit'
  <1>1. SourcesFit' /\ CollectedWereCollectable'
    BY DEF TextsFit, SourcesFit, DraftsFit, CollectedWereCollectable
  <1> QED BY <1>1 DEF TextsFit, PublishedWasApproved, ApprovedIsRecorded,
                      EditorsFit, EditorFits, DraftsFit

\* What is confirmed can be collected.
LEMMA ConfirmSourceInv ==
    ASSUME TextsFit, EditorsFit, DraftsFit, NEW s \in Source, ConfirmSource(s)
    PROVE  TextsFit' /\ EditorsFit' /\ DraftsFit'
  <1>1. /\ everConfirmed \subseteq everConfirmed' /\ everConfirmed' \subseteq Source \ WorkOrder
        /\ confirmed' \subseteq everConfirmed'
        /\ UNCHANGED <<report, versions, approvals, orders, editor, generation>>
    BY DEF ConfirmSource, TextsFit
  <1>2. EverCollectable \subseteq EverCollectable' /\ orders' \in [WorkOrder -> OrderStates]
    BY <1>1 DEF EverCollectable, TextsFit
  <1> QED BY <1>1, <1>2, RecordsGrow

\* An order that moves on can still be said to have been one.
LEMMA MoveOrderInv ==
    ASSUME TextsFit, EditorsFit, DraftsFit, NEW o \in WorkOrder, NEW to \in OrderStates,
           MoveOrder(o, to)
    PROVE  TextsFit' /\ EditorsFit' /\ DraftsFit'
  <1>1. /\ orders' = [orders EXCEPT ![o] = to] /\ to # "none"
        /\ UNCHANGED <<report, versions, approvals, confirmed, everConfirmed, editor, generation>>
    BY DEF MoveOrder
  <1>2. orders' \in [WorkOrder -> OrderStates] /\ EverCollectable \subseteq EverCollectable'
    BY <1>1 DEF EverCollectable, TextsFit
  <1>3. confirmed' \subseteq everConfirmed' /\ everConfirmed' \subseteq Source \ WorkOrder
    BY <1>1 DEF TextsFit
  <1> QED BY <1>1, <1>2, <1>3, RecordsGrow

-------------------------------------------------------------------------------
\* An export renders the version it was asked for.
LEMMA ExportingInv ==
    ASSUME TextsFit, ExportsFit, NEW x \in Export, Exporting(x)
    PROVE  ExportsFit'
  <1>1. ASSUME NEW new \in ExportRow, ExportFits(new), export' = [export EXCEPT ![x] = new]
        PROVE  ExportsFit'
    BY <1>1 DEF ExportsFit
  <1>2. export[x] \in ExportRow /\ ExportFits(export[x]) /\ report.current \in VersionNo
    BY DEF ExportsFit, TextsFit, ReportRow
  <1>3. CASE CreateExport(x)
    <2> DEFINE new == [export[x] EXCEPT !.status = "queued", !.job = "queued", !.asked = report.current]
    <2>1. new \in ExportRow /\ ExportFits(new)
      BY <1>2, <1>3 DEF CreateExport, ExportRow, ExportJobStates, JobStates, ExportFits
    <2>2. export' = [export EXCEPT ![x] = new]
      BY <1>3 DEF CreateExport
    <2> HIDE DEF new
    <2> QED BY <1>1, <2>1, <2>2
  <1>4. CASE CancelExport(x)
    <2> DEFINE new == [export[x] EXCEPT !.cancel = TRUE]
    <2>1. new \in ExportRow /\ ExportFits(new)
      BY <1>2, <1>4 DEF CancelExport, ExportRow, ExportJobStates, JobStates, ExportFits
    <2>2. export' = [export EXCEPT ![x] = new]
      BY <1>4 DEF CancelExport
    <2> HIDE DEF new
    <2> QED BY <1>1, <2>1, <2>2
  <1>5. CASE BeginExport(x)
    <2>1. CASE export[x].cancel
      <3> DEFINE new == [export[x] EXCEPT !.status = "cancelled", !.job = "cancelled"]
      <3>1. new \in ExportRow /\ ExportFits(new)
        BY <1>2, <1>5 DEF BeginExport, ExportRow, ExportJobStates, JobStates, ExportFits
      <3>2. export' = [export EXCEPT ![x] = new]
        BY <1>5, <2>1 DEF BeginExport
      <3> HIDE DEF new
      <3> QED BY <1>1, <3>1, <3>2
    <2>2. CASE ~export[x].cancel
      <3> DEFINE new == [export[x] EXCEPT !.job = "running"]
      <3>1. new \in ExportRow /\ ExportFits(new)
        BY <1>2, <1>5 DEF BeginExport, ExportRow, ExportJobStates, JobStates, ExportFits
      <3>2. export' = [export EXCEPT ![x] = new]
        BY <1>5, <2>2 DEF BeginExport
      <3> HIDE DEF new
      <3> QED BY <1>1, <3>1, <3>2
    <2> QED BY <2>1, <2>2
  <1>6. CASE StoreExport(x)
    <2> DEFINE new == [export[x] EXCEPT !.job = "stored", !.file = export[x].asked]
    <2>1. new \in ExportRow /\ ExportFits(new)
      BY <1>2, <1>6 DEF StoreExport, ExportRow, ExportJobStates, JobStates, ExportFits
    <2>2. export' = [export EXCEPT ![x] = new]
      BY <1>6 DEF StoreExport
    <2> HIDE DEF new
    <2> QED BY <1>1, <2>1, <2>2
  <1>7. CASE FinishExport(x)
    <2> DEFINE new == [export[x] EXCEPT !.job = "succeeded", !.status = "succeeded"]
    <2>1. new \in ExportRow /\ ExportFits(new)
      BY <1>2, <1>7 DEF FinishExport, ExportRow, ExportJobStates, JobStates, ExportFits
    <2>2. export' = [export EXCEPT ![x] = new]
      BY <1>7 DEF FinishExport
    <2> HIDE DEF new
    <2> QED BY <1>1, <2>1, <2>2
  <1>8. CASE BreakExport(x, "failed") \/ BreakExport(x, "queued")
    <2>1. PICK job \in {"failed", "queued"} : BreakExport(x, job)
      BY <1>8
    <2> DEFINE new == [export[x] EXCEPT !.job = job]
    <2>2. new \in ExportRow /\ ExportFits(new)
      BY <1>2, <2>1 DEF BreakExport, ExportRow, ExportJobStates, JobStates, ExportFits
    <2>3. export' = [export EXCEPT ![x] = new]
      BY <2>1 DEF BreakExport
    <2> HIDE DEF new
    <2> QED BY <1>1, <2>2, <2>3
  <1>9. CASE RetryExport(x)
    <2> DEFINE new == [export[x] EXCEPT !.job = "queued", !.cancel = FALSE]
    <2>1. new \in ExportRow /\ ExportFits(new)
      BY <1>2, <1>9 DEF RetryExport, ExportRow, ExportJobStates, JobStates, ExportFits
    <2>2. export' = [export EXCEPT ![x] = new]
      BY <1>9 DEF RetryExport
    <2> HIDE DEF new
    <2> QED BY <1>1, <2>1, <2>2
  <1> QED BY <1>3, <1>4, <1>5, <1>6, <1>7, <1>8, <1>9 DEF Exporting

-------------------------------------------------------------------------------
(* The daily run. *)

\* A run that does not begin to generate.
LEMMA DailyLooks ==
    ASSUME DailyFits, NEW d \in DailyRun, NEW new \in DailyRunRow,
           daily' = daily, dailyRun' = [dailyRun EXCEPT ![d] = new], new.at # "generating",
           new.at = "creating" => new.org \in Organization
    PROVE  DailyFits'
  <1>1. /\ dailyRun' \in [DailyRun -> DailyRunRow] /\ dailyRun'[d] = new
        /\ \A c \in DailyRun : c # d => dailyRun'[c] = dailyRun[c]
    BY DEF DailyFits
  <1>2. DailyRunFits(d)'
    BY <1>1 DEF DailyRunFits
  <1>3. ASSUME NEW c \in DailyRun, c # d
        PROVE  DailyRunFits(c)'
    BY <1>1, <1>3 DEF DailyFits, DailyRunFits
  <1> QED BY <1>1, <1>2, <1>3 DEF DailyFits, DailyOnce

\* A daily run creates the report of an organisation that has none.
LEMMA CreateDailyInv ==
    ASSUME DailyFits, NEW d \in DailyRun, CreateDaily(d)
    PROVE  DailyFits'
  <1> DEFINE o == dailyRun[d].org
             new == [dailyRun[d] EXCEPT !.at = IF daily[o].report THEN "off" ELSE "generating"]
             row == [daily[o] EXCEPT !.report = TRUE]
  <1>1. /\ dailyRun[d].at = "creating" /\ dailyRun[d] \in DailyRunRow /\ o \in Organization
        /\ daily' = [daily EXCEPT ![o] = row] /\ dailyRun' = [dailyRun EXCEPT ![d] = new]
    BY DEF CreateDaily, DailyFits, DailyRunFits
  <1>2. /\ new \in DailyRunRow /\ new.org = o
        /\ new.at = IF daily[o].report THEN "off" ELSE "generating"
    BY <1>1 DEF DailyRunRow
  <1>3. row \in DailyRow /\ row.report = TRUE /\ row.versions = daily[o].versions
    BY <1>1 DEF DailyFits, DailyRow
  <1> HIDE DEF new, row
  <1>4. /\ dailyRun' \in [DailyRun -> DailyRunRow] /\ dailyRun'[d] = new
        /\ \A c \in DailyRun : c # d => dailyRun'[c] = dailyRun[c]
        /\ daily' \in [Organization -> DailyRow] /\ daily'[o] = row
        /\ \A p \in Organization : p # o => daily'[p] = daily[p]
    BY <1>1, <1>2, <1>3 DEF DailyFits
  <1>5. \A p \in Organization : daily'[p].versions = daily[p].versions /\ (daily[p].report => daily'[p].report)
    BY <1>1, <1>3, <1>4
  <1>6. new.at = "generating" => ~daily[o].report /\ daily[o].versions = 0
    BY <1>1, <1>2 DEF DailyFits
  <1>7. ASSUME NEW c \in DailyRun, c # d, dailyRun'[c].at = "generating"
        PROVE  ~(new.at = "generating" /\ dailyRun'[c].org = o)
    <2>1. DailyRunFits(c) /\ dailyRun[c].at = "generating" /\ dailyRun'[c].org = dailyRun[c].org
      BY <1>4, <1>7 DEF DailyFits
    <2> QED BY <1>6, <2>1 DEF DailyRunFits
  <1>8. ASSUME NEW c \in DailyRun
        PROVE  DailyRunFits(c)'
    <2>1. CASE c = d
      <3>1. DailyRunFits(d)'
        BY <1>1, <1>2, <1>3, <1>4, <1>6, <1>7 DEF DailyRunFits
      <3> QED BY <2>1, <3>1
    <2>2. CASE c # d
      <3>1. DailyRunFits(c) /\ dailyRun'[c] = dailyRun[c]
        BY <1>4, <2>2 DEF DailyFits
      <3>2. ASSUME dailyRun[c].at = "generating", NEW b \in DailyRun,
                   dailyRun'[b].at = "generating", dailyRun'[b].org = dailyRun[c].org
            PROVE  b = c
        <4>1. CASE b = d
          BY <1>2, <1>4, <1>7, <2>2, <3>1, <3>2, <4>1
        <4>2. CASE b # d
          BY <1>4, <3>1, <3>2, <4>2 DEF DailyRunFits
        <4> QED BY <4>1, <4>2
      <3> QED BY <1>5, <3>1, <3>2 DEF DailyRunFits
    <2> QED BY <2>1, <2>2
  <1>9. DailyOnce' /\ \A p \in Organization : daily'[p].versions # 0 => daily'[p].report
    BY <1>5 DEF DailyFits, DailyOnce
  <1> QED BY <1>4, <1>8, <1>9 DEF DailyFits

\* The one version it adds is of the report it has created.
LEMMA GenerateDailyInv ==
    ASSUME DailyFits, NEW d \in DailyRun, GenerateDaily(d)
    PROVE  DailyFits'
  <1> DEFINE o == dailyRun[d].org
             new == [dailyRun[d] EXCEPT !.at = "looking"]
             row == [daily[o] EXCEPT !.versions = @ + 1]
  <1>1. /\ dailyRun[d].at = "generating" /\ dailyRun[d] \in DailyRunRow /\ o \in Organization
        /\ daily' = [daily EXCEPT ![o] = row] /\ dailyRun' = [dailyRun EXCEPT ![d] = new]
        /\ daily[o].report /\ daily[o].versions = 0
        /\ \A c \in DailyRun : dailyRun[c].at = "generating" /\ dailyRun[c].org = o => c = d
    BY DEF GenerateDaily, DailyFits, DailyRunFits
  <1>2. new \in DailyRunRow /\ new.at = "looking"
    BY <1>1 DEF DailyRunRow
  <1>3. row \in DailyRow /\ row.report = daily[o].report /\ row.versions = 1
    <2>1. daily[o] \in DailyRow /\ daily[o].versions + 1 = 1
      BY <1>1 DEF DailyFits
    <2> QED BY <2>1 DEF DailyRow
  <1> HIDE DEF new, row
  <1>4. /\ dailyRun' \in [DailyRun -> DailyRunRow] /\ dailyRun'[d] = new
        /\ \A c \in DailyRun : c # d => dailyRun'[c] = dailyRun[c]
        /\ daily' \in [Organization -> DailyRow] /\ daily'[o] = row
        /\ \A p \in Organization : p # o => daily'[p] = daily[p]
    BY <1>1, <1>2, <1>3 DEF DailyFits
  <1>5. ASSUME NEW c \in DailyRun
        PROVE  DailyRunFits(c)'
    <2>1. CASE c = d
      <3>1. DailyRunFits(d)'
        BY <1>2, <1>4 DEF DailyRunFits
      <3> QED BY <2>1, <3>1
    <2>2. CASE c # d
      <3>1. DailyRunFits(c) /\ dailyRun'[c] = dailyRun[c]
        BY <1>4, <2>2 DEF DailyFits
      <3>2. dailyRun[c].at = "generating" => dailyRun[c].org # o
        BY <1>1, <2>2
      <3>3. \A b \in DailyRun : dailyRun'[b].at = "generating" => dailyRun'[b] = dailyRun[b]
        BY <1>2, <1>4
      <3> QED BY <1>4, <3>1, <3>2, <3>3 DEF DailyRunFits
    <2> QED BY <2>1, <2>2
  <1>6. DailyOnce' /\ \A p \in Organization : daily'[p].versions # 0 => daily'[p].report
    <2>1. ASSUME NEW p \in Organization
          PROVE  daily'[p].versions <= 1 /\ (daily'[p].versions # 0 => daily'[p].report)
      <3>1. CASE p = o
        <4>1. daily'[o].versions = 1 /\ daily'[o].report
          BY <1>1, <1>3, <1>4
        <4> HIDE DEF o
        <4>2. daily'[p].versions = 1 /\ daily'[p].report
          BY <3>1, <4>1
        <4> QED BY <4>2
      <3>2. CASE p # o
        BY <1>4, <3>2 DEF DailyFits, DailyOnce
      <3> QED BY <3>1, <3>2
    <2> QED BY <2>1 DEF DailyOnce
  <1> QED BY <1>4, <1>5, <1>6 DEF DailyFits

\* What daily runs do.
LEMMA DailyInv ==
    ASSUME DailyFits, NEW d \in DailyRun, Daily(d)
    PROVE  DailyFits'
  <1>1. dailyRun[d] \in DailyRunRow
    BY DEF DailyFits
  <1>2. CASE StartDaily(d)
    <2> DEFINE new == [at |-> "looking", todo |-> Organization, org |-> "none"]
    <2>1. new \in DailyRunRow /\ new.at = "looking"
      BY DEF DailyRunRow
    <2>2. daily' = daily /\ dailyRun' = [dailyRun EXCEPT ![d] = new]
      BY <1>2 DEF StartDaily
    <2> HIDE DEF new
    <2> QED BY <2>1, <2>2, DailyLooks
  <1>3. ASSUME NEW o \in Organization, LookForDaily(d, o)
        PROVE  DailyFits'
    <2> DEFINE new == [at |-> IF daily[o].report THEN "looking" ELSE "creating",
                       todo |-> dailyRun[d].todo \ {o}, org |-> o]
    <2>1. new \in DailyRunRow /\ new.at \in {"looking", "creating"} /\ new.org = o
      BY <1>1 DEF DailyRunRow
    <2>2. daily' = daily /\ dailyRun' = [dailyRun EXCEPT ![d] = new]
      BY <1>3 DEF LookForDaily
    <2> HIDE DEF new
    <2> QED BY <2>1, <2>2, DailyLooks
  <1>4. CASE BreakDaily(d) \/ EndDaily(d)
    <2> DEFINE new == [dailyRun[d] EXCEPT !.at = "off"]
    <2>1. new \in DailyRunRow /\ new.at = "off"
      BY <1>1 DEF DailyRunRow
    <2>2. daily' = daily /\ dailyRun' = [dailyRun EXCEPT ![d] = new]
      BY <1>4 DEF BreakDaily, EndDaily
    <2> HIDE DEF new
    <2> QED BY <2>1, <2>2, DailyLooks
  <1> QED BY <1>2, <1>3, <1>4, CreateDailyInv, GenerateDailyInv DEF Daily

-------------------------------------------------------------------------------
\* Every step keeps the invariant.
LEMMA ReportsStepInv == ASSUME ReportsIndInv, [ReportsNext]_reportVars PROVE ReportsIndInv'
  <1> USE DEF ReportsIndInv
  <1>1. ASSUME UNCHANGED <<report, versions, approvals, confirmed, everConfirmed, orders>>, UNCHANGED editor,
               UNCHANGED generation
        PROVE  TextsFit' /\ EditorsFit' /\ DraftsFit'
    BY <1>1 DEF TextsFit, PublishedWasApproved, SourcesFit, EverCollectable, ApprovedIsRecorded,
                EditorsFit, EditorFits, DraftsFit, CollectedWereCollectable, EverCollectable
  <1>2. ASSUME UNCHANGED export PROVE ExportsFit'
    BY <1>2 DEF ExportsFit
  <1>3. ASSUME UNCHANGED <<daily, dailyRun>> PROVE DailyFits'
    BY <1>3 DEF DailyFits, DailyOnce, DailyRunFits
  <1>4. ASSUME UNCHANGED <<generation, everConfirmed, orders>> PROVE DraftsFit'
    BY <1>4 DEF DraftsFit, CollectedWereCollectable, EverCollectable
  <1>5. CASE UNCHANGED reportVars
    BY <1>1, <1>2, <1>3, <1>5 DEF reportVars
  <1>6. ASSUME NEW e \in Editor, ReportWork(e) PROVE ReportsIndInv'
    <2>1. UNCHANGED <<generation, everConfirmed, orders, export, daily, dailyRun>>
      BY <1>6 DEF ReportWork, OpenReport, EditReport, LoseEdit, SubmitReview, ReviewReport, Judge,
                  PublishReport, WithdrawReport, Closes
    <2> QED BY <1>2, <1>3, <1>4, <1>6, <2>1, ReportWorkInv
  <1>7. ASSUME NEW g \in Generation, Drafting(g) PROVE ReportsIndInv'
    <2>1. UNCHANGED <<export, daily, dailyRun>>
      BY <1>7 DEF Drafting, RequestGeneration, CancelGeneration, StartGeneration, FinishGeneration,
                  BreakGeneration, Generates
    <2> QED BY <1>2, <1>3, <1>7, <2>1, DraftingInv
  <1>8. ASSUME NEW s \in Source, ConfirmSource(s) PROVE ReportsIndInv'
    BY <1>2, <1>3, <1>8, ConfirmSourceInv DEF ConfirmSource
  <1>9. ASSUME NEW x \in Export, Exporting(x) PROVE ReportsIndInv'
    <2>1. /\ UNCHANGED <<report, versions, approvals, confirmed, everConfirmed, orders>> /\ UNCHANGED editor
          /\ UNCHANGED generation /\ UNCHANGED <<daily, dailyRun>>
      BY <1>9 DEF Exporting, CreateExport, CancelExport, BeginExport, StoreExport, FinishExport,
                  BreakExport, RetryExport, Exports
    <2> QED BY <1>1, <1>3, <1>9, <2>1, ExportingInv
  <1>10. ASSUME NEW d \in DailyRun, Daily(d) PROVE ReportsIndInv'
    <2>1. /\ UNCHANGED <<report, versions, approvals, confirmed, everConfirmed, orders>> /\ UNCHANGED editor
          /\ UNCHANGED generation /\ UNCHANGED export
      BY <1>10 DEF Daily, StartDaily, LookForDaily, CreateDaily, GenerateDaily, BreakDaily, EndDaily,
                   DailyKeeps
    <2> QED BY <1>1, <1>2, <1>10, <2>1, DailyInv
  <1>11. ASSUME NEW o \in WorkOrder, NEW to \in OrderStates, MoveOrder(o, to) PROVE ReportsIndInv'
    BY <1>2, <1>3, <1>11, MoveOrderInv DEF MoveOrder
  <1> QED BY <1>5, <1>6, <1>7, <1>8, <1>9, <1>10, <1>11 DEF ReportsNext

\* The invariant of reports, drafts, exports and daily runs.
THEOREM ReportsInvariance == ReportsSpec => []ReportsIndInv
  BY ReportsInitInv, ReportsStepInv, PTL DEF ReportsSpec

\* Whatever people, generations, exports and daily runs do to a report whose rows nobody
\* locks: what is published was approved and cannot be overwritten, sources were confirmed
\* records or work orders, exports show what was asked for however often they are tried,
\* and the daily report is generated once.
THEOREM ReportsAreReliable == ReportsSpec => []ReportsInv
  <1>1. ReportsIndInv => ReportsTypeOK
    BY DEF ReportsIndInv, TextsFit, EditorsFit, DraftsFit, ExportsFit, DailyFits,
           ReportsTypeOK, VersionRow, EditorRow, GenerationRow, ExportRow, DailyRow, DailyRunRow
  <1>2. ReportsIndInv => PublishedWasApproved /\ DailyOnce
    BY DEF ReportsIndInv, TextsFit, DailyFits
  <1>3. ReportsIndInv => SourcesWereCollectable
    BY DEF ReportsIndInv, TextsFit, SourcesFit, EverCollectable, SourcesWereCollectable
  <1>4. ReportsIndInv => ExportIsWhatWasAsked
    BY DEF ReportsIndInv, ExportsFit, ExportFits, ExportIsWhatWasAsked
  <1>5. ReportsIndInv => ReportsInv
    BY <1>1, <1>2, <1>3, <1>4 DEF ReportsInv
  <1> QED BY <1>5, ReportsInvariance, PTL
================================================================================
