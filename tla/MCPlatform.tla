------------------------------ MODULE MCPlatform -------------------------------
(* Services of the platform that share no state, and the versions of a        *)
(* knowledge document: a behaviour is about one of them.  The life of one job *)
(* is followed to its end.                                                    *)
EXTENDS Versions, Configuration, AuditChain, Idempotency, Access, Outbox, LeasedJobs, TLC

VARIABLE focus

platformVars == <<version, configurationVars, auditVars, idempotencyVars, accessVars>>
deliveryVars == <<outboxVars, vars>>

MCInit ==
    /\ VersionsInit /\ ConfigurationInit /\ AuditInit /\ IdempotencyInit /\ AccessInit
    /\ OutboxInit /\ Init
    /\ focus \in {"versions", "configuration", "audit", "idempotency", "access",
                  "outbox", "job"}

\* Rows are inserted, and contents are uploaded, in one order, as they are
\* interchangeable until then.
VersionsInOrder ==
    \A v \in Version : version[v] = NoVersion /\ version'[v] # NoVersion =>
        /\ v = CHOOSE u \in Version : version[u] = NoVersion
        /\ version'[v].content = CHOOSE c \in Content : \A u \in Version : version[u].content # c

\* Bound: only the assignment of the account's own tree, beside another one, begins
\* later or expires.
Windowed ==
    {a \in Assignment : /\ assignment[a].scope = "org_and_descendants" /\ assignment[a].units = {}
                        /\ \E b \in Assignment \ {a} : assignment[b].user # NoUser}

\* So are units and assignments.  What follows an answer follows without it as well.
AccessInOrder ==
    /\ reply = NoReply
    /\ \A u \in Unit : ~unit[u].made /\ unit'[u].made =>
          u = CHOOSE w \in Unit : ~unit[w].made
    /\ \A a \in Assignment : assignment[a].user = NoUser /\ assignment'[a].user # NoUser =>
          /\ a = CHOOSE b \in Assignment : assignment[b].user = NoUser
          /\ assignment'[a].window = IF a \in Windowed' THEN "ahead" ELSE "open"
    /\ \A a \in Assignment : assignment[a].user # NoUser /\ a \notin Windowed =>
          assignment'[a].window = assignment[a].window

Platform ==
    \/ /\ focus = "versions" /\ VersionsNext /\ VersionsInOrder
       /\ UNCHANGED <<configurationVars, auditVars, idempotencyVars, accessVars>>
    \/ /\ focus = "configuration" /\ ConfigurationNext
       /\ UNCHANGED <<version, auditVars, idempotencyVars, accessVars>>
    \/ /\ focus = "audit" /\ AuditNext
       /\ UNCHANGED <<version, configurationVars, idempotencyVars, accessVars>>
    \/ /\ focus = "idempotency" /\ IdempotencyNext
       /\ UNCHANGED <<version, configurationVars, auditVars, accessVars>>
    \/ /\ focus = "access" /\ AccessNext /\ AccessInOrder
       /\ UNCHANGED <<version, configurationVars, auditVars, idempotencyVars>>

MCNext ==
    /\ UNCHANGED focus
    /\ \/ Platform /\ UNCHANGED deliveryVars
       \/ focus = "outbox" /\ OutboxNext /\ UNCHANGED <<vars, platformVars>>
       \/ focus = "job" /\ Next /\ UNCHANGED <<outboxVars, platformVars>>

\* What is fair, where a behaviour is about it.
MCFairness ==
    /\ \A p \in Publisher :
          /\ WF_outboxVars(focus = "outbox" /\ Take(p))
          /\ WF_outboxVars(focus = "outbox" /\ \E m \in Message : Send(p, m) \/ SendRefused(p, m))
          /\ WF_outboxVars(focus = "outbox" /\ Commit(p))
    /\ WF_outboxVars(focus = "outbox" /\ TimePasses)
    /\ \A j \in Job :
          /\ WF_vars(focus = "job" /\ Publish(j))
          /\ WF_vars(focus = "job" /\ Sweep(j))
          /\ WF_vars(focus = "job" /\ CancelWrite(j))
    /\ \A w \in Worker :
          /\ WF_vars(focus = "job" /\ \E j \in Job : Deliver(w, j))
          /\ WF_vars(focus = "job" /\ (Claim(w) \/ ClaimRefused(w)))
          /\ WF_vars(focus = "job" /\ (Begin(w) \/ Retrieve(w) \/ Answer(w) \/ Fail(w)))
          /\ WF_vars(focus = "job" /\ (Release(w) \/ Settle(w)))
    /\ WF_vars(focus = "job" /\ Tick)

MCSpec == MCInit /\ [][MCNext]_<<platformVars, deliveryVars, focus>> /\ MCFairness
===============================================================================
