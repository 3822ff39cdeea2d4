------------------------------- MODULE MCOrders --------------------------------
(* What an investigation starts with and what it leads to, which share no     *)
(* state: a behaviour is about the requests that start investigations of an   *)
(* event, or about the review of one and the work order that it makes.        *)
EXTENDS WorkOrders, ClassifyRequests, TLC

VARIABLE focus

MCInit ==
    /\ Init /\ RequestsInit
    /\ focus \in {"order", "requests"}
    /\ focus = "order" => inline

\* Rows are inserted in one order, as they are interchangeable until then.
InOrder ==
    \A j \in Job : job[j].status = "absent" /\ job'[j].status # "absent" =>
        j = CHOOSE i \in Job : job[i].status = "absent"

MCNext ==
    /\ UNCHANGED focus
    /\ \/ focus = "order" /\ Next /\ UNCHANGED requestsVars
       \/ focus = "requests" /\ RequestsNext /\ InOrder /\ UNCHANGED vars

\* What is fair, where a behaviour is about it.
MCFairness ==
    /\ WF_vars(focus = "order" /\ \E s \in Scanner : ScanFinds(s))
    /\ \A s \in Scanner : WF_vars(focus = "order" /\ ScanCommits(s))
    /\ \A q \in Request : WF_requestsVars(focus = "requests" /\ Serve(q))

MCSpec == MCInit /\ [][MCNext]_<<vars, requestsVars, focus>> /\ MCFairness
===============================================================================
