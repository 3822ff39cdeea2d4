----------------------------- MODULE HazardCases ------------------------------
(***************************************************************************)
(* One hazard from its report to its closing.  People read it, think, and  *)
(* send a decision together with the version they have read; the handler   *)
(* locks the row and compares.  Each handler is one transaction under the  *)
(* row lock, so what interleaves is the reading and the deciding.          *)
(***************************************************************************)
EXTENDS Naturals, Sequences

CONSTANTS
    Officer,          \* people who handle the hazard
    Order,            \* work orders a hazard may be linked to
    MaxHazardVersion  \* bound: versions of the hazard

ASSUME HazardBounds == MaxHazardVersion \in Nat \ {0}

VARIABLES
    hazard,       \* the row of hazards
    assessments,  \* how many hazard_assessments there are
    submissions,  \* how many hazard_rectifications there are
    acceptances,  \* hazard_acceptances
    transitions,  \* hazard_transitions
    links,        \* hazard_work_order_links
    view          \* what each person has read last

hazardVars == <<hazard, assessments, submissions, acceptances, transitions, links, view>>

HazardStatus ==
    {"pending_assessment", "pending_rectification", "rectifying", "pending_acceptance", "closed"}

VersionNumbers == 1 .. MaxHazardVersion

HazardTypeOK ==
    /\ hazard \in [status : HazardStatus, version : VersionNumbers]
    /\ assessments \in 0 .. 1
    /\ submissions \in 0 .. MaxHazardVersion
    /\ acceptances \in Seq([decision : {"accepted", "rejected"}, round : 0 .. MaxHazardVersion,
                            read : 0 .. MaxHazardVersion])
    /\ transitions \in Seq([from : HazardStatus, to : HazardStatus, after : VersionNumbers])
    /\ links \subseteq Order
    /\ view \in [Officer -> [version : 0 .. MaxHazardVersion, round : 0 .. MaxHazardVersion]]

Unread == [version |-> 0, round |-> 0]

HazardInit ==
    /\ hazard = [status |-> "pending_assessment", version |-> 1]
    /\ assessments = 0 /\ submissions = 0
    /\ acceptances = <<>> /\ transitions = <<>> /\ links = {}
    /\ view = [o \in Officer |-> Unread]

\* read_hazard
ReadHazard(o) ==
    /\ view' = [view EXCEPT ![o] = [version |-> hazard.version, round |-> submissions]]
    /\ UNCHANGED <<hazard, assessments, submissions, acceptances, transitions, links>>

\* Faulty: the version is not compared.
UncheckedVersion(o) == view[o].version # 0

\* _check_version: the hazard is the one the person has read.
CheckVersion(o) == view[o].version = hazard.version

\* Faulty: the version is not raised.
TransitionUncounted(target) ==
    /\ hazard.version < MaxHazardVersion
    /\ hazard' = [hazard EXCEPT !.status = target]
    /\ transitions' = Append(transitions,
           [from |-> hazard.status, to |-> target, after |-> hazard.version])

\* _transition
Transition(target) ==
    /\ hazard.version < MaxHazardVersion
    /\ hazard' = [status |-> target, version |-> hazard.version + 1]
    /\ transitions' = Append(transitions,
           [from |-> hazard.status, to |-> target, after |-> hazard.version + 1])

\* Faulty: a hazard may be assessed again while it is being handled.
AssessAgain(o) ==
    /\ CheckVersion(o) /\ hazard.status # "closed"
    /\ assessments' = assessments + 1
    /\ Transition("pending_rectification")
    /\ UNCHANGED <<submissions, acceptances, links, view>>

\* assess_hazard, with a due time in the future
Assess(o) ==
    /\ CheckVersion(o) /\ hazard.status = "pending_assessment"
    /\ assessments' = assessments + 1
    /\ Transition("pending_rectification")
    /\ UNCHANGED <<submissions, acceptances, links, view>>

StartRectification(o) ==
    /\ CheckVersion(o) /\ hazard.status = "pending_rectification"
    /\ Transition("rectifying")
    /\ UNCHANGED <<assessments, submissions, acceptances, links, view>>

SubmitRectification(o) ==
    /\ CheckVersion(o) /\ hazard.status = "rectifying"
    /\ submissions' = submissions + 1
    /\ Transition("pending_acceptance")
    /\ UNCHANGED <<assessments, acceptances, links, view>>

Judged(o, approved) ==
    /\ acceptances' = Append(acceptances,
           [decision |-> IF approved THEN "accepted" ELSE "rejected",
            round |-> submissions, read |-> view[o].round])
    /\ Transition(IF approved THEN "closed" ELSE "rectifying")
    /\ UNCHANGED <<assessments, submissions, links, view>>

\* Faulty: a hazard that is being rectified may be accepted, too.
AcceptEarly(o, approved) ==
    /\ CheckVersion(o) /\ hazard.status \in {"rectifying", "pending_acceptance"}
    /\ Judged(o, approved)

\* accept_hazard, approving or not
Accept(o, approved) ==
    /\ CheckVersion(o) /\ hazard.status = "pending_acceptance"
    /\ Judged(o, approved)

\* link_work_order: a second link of the same order is the first one.
LinkOrder(order) ==
    /\ links' = links \cup {order}
    /\ UNCHANGED <<hazard, assessments, submissions, acceptances, transitions, view>>

HazardNext ==
    \/ \E o \in Officer :
          \/ ReadHazard(o) \/ Assess(o) \/ StartRectification(o) \/ SubmitRectification(o)
          \/ \E approved \in BOOLEAN : Accept(o, approved)
    \/ \E order \in Order : LinkOrder(order)

HazardSpec == HazardInit /\ [][HazardNext]_hazardVars

-------------------------------------------------------------------------------
(* Properties. *)

\* The transitions tell the whole story: they are numbered without a gap, each
\* starts where the one before ended, and the last one led to where the hazard is.
StoryIsComplete ==
    /\ Len(transitions) = hazard.version - 1
    /\ \A i \in DOMAIN transitions :
          /\ transitions[i].after = i + 1
          /\ transitions[i].from = IF i = 1 THEN "pending_assessment" ELSE transitions[i - 1].to
    /\ hazard.status = IF transitions = <<>> THEN "pending_assessment"
                       ELSE transitions[Len(transitions)].to

\* Whoever accepts or rejects a rectification has read that rectification, although
\* others may have rejected it and a new one been submitted while they thought.
JudgedWhatWasRead == \A i \in DOMAIN acceptances : acceptances[i].read = acceptances[i].round

\* Every rectification is judged once, in the order of submission, and the hazard is
\* closed exactly when the last one was accepted.
EveryRoundIsJudged ==
    /\ Len(acceptances) = submissions - (IF hazard.status = "pending_acceptance" THEN 1 ELSE 0)
    /\ \A i \in DOMAIN acceptances :
          /\ acceptances[i].round = i
          /\ acceptances[i].decision = "accepted" <=> hazard.status = "closed" /\ i = submissions

\* What a person has read is no newer than the hazard, and whoever has read the present
\* version has read the present round.
ReadIsPast ==
    \A o \in Officer :
        /\ view[o].version <= hazard.version
        /\ view[o].version = hazard.version => view[o].round = submissions

\* The assessment and every submission are moves of the hazard, so the versions count
\* more than the submissions, and a hazard is never without its assessment later on.
CountsFit ==
    /\ submissions < hazard.version
    /\ hazard.status = "pending_assessment" <=> assessments = 0

\* The hazard's story, its judgements and what people have read fit together in every
\* state, whoever acts at the same time.
HazardInv ==
    /\ HazardTypeOK
    /\ StoryIsComplete /\ JudgedWhatWasRead /\ EveryRoundIsJudged
    /\ ReadIsPast /\ CountsFit
===============================================================================
