-------------------------------- MODULE Outbox --------------------------------
(***************************************************************************)
(* The transactional outbox: messages inserted with their jobs, and        *)
(* publishers that each lock a batch of due rows, hand them to the broker  *)
(* one by one, decide in memory, and commit the whole batch at the end.    *)
(*                                                                         *)
(* LeasedJobs sees one message at a time; here are the batch, the row      *)
(* locks, the back-off and the limit on attempts.                          *)
(***************************************************************************)
EXTENDS Integers, FiniteSets

CONSTANTS
    Message,       \* rows of task_outbox
    Publisher,     \* processes that run publish_outbox
    BatchSize,     \* batch_size
    MaxAttempts,   \* settings.outbox_max_attempts
    BaseDelay,     \* settings.outbox_base_retry_seconds
    DelayCap,      \* the ceiling of a back-off
    MaxRoundFaults      \* bound: rounds that are lost before their commit

ASSUME OutboxLimits ==
    /\ BatchSize \in Nat \ {0} /\ MaxAttempts \in Nat \ {0}
    /\ BaseDelay \in Nat \ {0} /\ DelayCap \in Nat \ {0}
    /\ MaxRoundFaults \in Nat
    /\ Message # {} /\ IsFiniteSet(Message)

VARIABLES
    row,    \* the committed rows
    wait,   \* time until available_at, zero when it has come
    round,  \* what each publisher is doing: rows it has locked, rows it has
            \* still to send, rows it has marked published, time since its "now"
    sent,   \* how many times the broker accepted the message
    roundFaults  \* rounds lost so far

outboxVars == <<row, wait, round, sent, roundFaults>>

Idle == [batch |-> {}, todo |-> {}, published |-> {}, age |-> 0]
NoRow == [status |-> "absent", attempts |-> 0, born |-> 0]

RowsTyped ==
    /\ row \in [Message -> [status   : {"absent", "pending", "published", "failed"},
                            attempts : 0 .. MaxAttempts,
                            born     : Nat]]
    /\ round \in [Publisher -> [batch     : SUBSET Message,
                                todo      : SUBSET Message,
                                published : SUBSET Message,
                                age       : Nat]]
    /\ sent \in [Message -> Nat]
    /\ roundFaults \in 0 .. MaxRoundFaults

\* A row is put off by at most the ceiling, and its attempts stay in bounds.
OutboxTypeOK ==
    /\ RowsTyped
    /\ wait \in [Message -> 0 .. DelayCap]
    /\ \A p \in Publisher : /\ Cardinality(round[p].batch) <= BatchSize
                            /\ round[p].age <= DelayCap

OutboxInit ==
    /\ row = [m \in Message |-> NoRow]
    /\ wait = [m \in Message |-> 0]
    /\ round = [p \in Publisher |-> Idle]
    /\ sent = [m \in Message |-> 0]
    /\ roundFaults = 0

\* A transaction with a new job commits.  created_at is the time the
\* transaction began, so rows may become visible out of their order or tie.
Insert(m) ==
    /\ row[m].status = "absent"
    /\ \E born \in 1 .. Cardinality(Message) :
          row' = [row EXCEPT ![m] = [status |-> "pending", attempts |-> 0, born |-> born]]
    /\ UNCHANGED <<wait, round, sent, roundFaults>>

-------------------------------------------------------------------------------
(* A round of publish_pending_outbox. *)

\* Faulty: the rows are read without FOR UPDATE.
LockedNever == {}

Locked == UNION {round[p].batch : p \in Publisher}

\* Faulty: the query does not ask for the status.
DueAnyStatus(m) == row[m].status # "absent" /\ wait[m] = 0

Due(m) == row[m].status = "pending" /\ wait[m] = 0

\* The oldest rows that are due and not locked, at most BatchSize of them.
IsBatch(batch) ==
    LET available == {m \in Message : Due(m)} \ Locked
    IN  /\ batch \subseteq available
        /\ \/ Cardinality(batch) = BatchSize
           \/ batch = available /\ Cardinality(batch) < BatchSize
        /\ \A m \in batch, n \in available \ batch : row[m].born <= row[n].born

Take(p) ==
    /\ round[p].batch = {}
    /\ \E batch \in SUBSET Message \ {{}} :
          /\ IsBatch(batch)
          /\ round' = [round EXCEPT ![p] =
                [batch |-> batch, todo |-> batch, published |-> {}, age |-> 0]]
    /\ UNCHANGED <<row, wait, sent, roundFaults>>

\* The rows are sent in the order in which they were selected.
IsNext(p, m) ==
    /\ m \in round[p].todo
    /\ \A n \in round[p].todo : row[m].born <= row[n].born

Send(p, m) ==
    /\ IsNext(p, m)
    /\ sent' = [sent EXCEPT ![m] = @ + 1]
    /\ round' = [round EXCEPT ![p] = [round[p] EXCEPT !.todo = @ \ {m}, !.published = @ \cup {m}]]
    /\ UNCHANGED <<row, wait, roundFaults>>

\* Faulty: a failed send is also marked published.
SendFailsUnnoticed(p, m) ==
    /\ IsNext(p, m)
    /\ round' = [round EXCEPT ![p] = [round[p] EXCEPT !.todo = @ \ {m}, !.published = @ \cup {m}]]
    /\ UNCHANGED <<row, wait, sent, roundFaults>>

\* send_task raises; the broker may have taken the message all the same.
SendRefused(p, m) ==
    /\ IsNext(p, m)
    /\ round' = [round EXCEPT ![p] = [round[p] EXCEPT !.todo = @ \ {m}]]
    /\ \/ UNCHANGED sent
       \/ sent' = [sent EXCEPT ![m] = @ + 1]
    /\ UNCHANGED <<row, wait, roundFaults>>

\* Faulty: no ceiling on the back-off.
DelayUncapped(attempts) == BaseDelay * 2 ^ (attempts - 1)

Delay(attempts) ==
    LET seconds == BaseDelay * 2 ^ (attempts - 1)
    IN  IF seconds < DelayCap THEN seconds ELSE DelayCap

\* Faulty: the limit is compared before the attempt is counted.
AfterRoundLate(r, ok) ==
    [r EXCEPT !.attempts = r.attempts + 1,
              !.status = IF ok THEN "published"
                         ELSE IF r.attempts >= MaxAttempts THEN "failed" ELSE "pending"]

\* Faulty: a failed attempt sets the counter instead of raising it.
AfterRoundReset(r, ok) ==
    [r EXCEPT !.attempts = IF ok THEN r.attempts + 1 ELSE 1,
              !.status = IF ok THEN "published"
                         ELSE IF 1 >= MaxAttempts THEN "failed" ELSE "pending"]

\* What the round made of a row: sent, given up, or to be tried again.
AfterRound(r, ok) ==
    [r EXCEPT !.attempts = r.attempts + 1,
              !.status = IF ok THEN "published"
                         ELSE IF r.attempts + 1 >= MaxAttempts THEN "failed" ELSE "pending"]

\* available_at counts from the start of the round, so what is left of the
\* back-off is shorter by the age of the round.
Rest(m, p) ==
    LET after == AfterRound(row[m], m \in round[p].published)
        delay == Delay(after.attempts)
    IN  IF after.status # "pending" \/ delay <= round[p].age THEN 0 ELSE delay - round[p].age

\* One commit for the whole batch, which also releases the locks.
Commit(p) ==
    /\ round[p].batch # {} /\ round[p].todo = {}
    /\ row' = [m \in Message |-> IF m \in round[p].batch
                                 THEN AfterRound(row[m], m \in round[p].published)
                                 ELSE row[m]]
    /\ wait' = [m \in Message |-> IF m \in round[p].batch THEN Rest(m, p) ELSE wait[m]]
    /\ round' = [round EXCEPT ![p] = Idle]
    /\ UNCHANGED <<sent, roundFaults>>

\* The process is lost or the commit fails: nothing of the round is recorded.
Lose(p) ==
    /\ round[p].batch # {} /\ roundFaults < MaxRoundFaults
    /\ round' = [round EXCEPT ![p] = Idle]
    /\ roundFaults' = roundFaults + 1
    /\ UNCHANGED <<row, wait, sent>>

TimePasses ==
    /\ wait' = [m \in Message |-> IF wait[m] > 0 THEN wait[m] - 1 ELSE 0]
    /\ round' = [p \in Publisher |->
          IF round[p].batch # {} /\ round[p].age < DelayCap
          THEN [round[p] EXCEPT !.age = @ + 1] ELSE round[p]]
    /\ UNCHANGED <<row, sent, roundFaults>>

OutboxNext ==
    \/ \E m \in Message : Insert(m)
    \/ \E p \in Publisher : Take(p) \/ Commit(p) \/ Lose(p)
    \/ \E p \in Publisher, m \in Message : Send(p, m) \/ SendRefused(p, m)
    \/ TimePasses

OutboxSpec == OutboxInit /\ [][OutboxNext]_outboxVars

-------------------------------------------------------------------------------
(* Safety. *)

\* publish_pending_outbox: several publishers never work on one row, and the
\* row of a message that is being worked on is still pending, however many
\* rounds overlap.
OneHolder ==
    /\ \A p, q \in Publisher : p # q => round[p].batch \cap round[q].batch = {}
    /\ \A p \in Publisher :
          /\ round[p].todo \subseteq round[p].batch
          /\ round[p].published \subseteq round[p].batch \ round[p].todo
          /\ \A m \in round[p].batch : row[m].status = "pending"

Tried(m) == \E p \in Publisher : m \in round[p].batch \ round[p].todo

\* A message recorded as published was accepted by the broker; it is accepted
\* more often only when a round is lost after sending or a send fails in doubt:
\* each counted attempt, each lost round and the round at work account for one.
SentIsAccountedFor ==
    /\ \A m \in Message : row[m].status = "published" => sent[m] >= 1
    /\ \A p \in Publisher : \A m \in round[p].published : sent[m] >= 1
    /\ \A m \in Message :
          sent[m] <= row[m].attempts + roundFaults + (IF Tried(m) THEN 1 ELSE 0)

\* A message is given up after exactly the configured number of counted
\* attempts, and is pending only while it has attempts left.
GivenUpAtLimit ==
    \A m \in Message :
        /\ row[m].status = "absent" => row[m] = NoRow /\ sent[m] = 0
        /\ row[m].status = "pending" => row[m].attempts < MaxAttempts
        /\ row[m].status = "failed" => row[m].attempts = MaxAttempts

RoundsInv == RowsTyped /\ OneHolder /\ SentIsAccountedFor /\ GivenUpAtLimit

\* The outbox in every state: batches, delays and attempts within their limits, one
\* holder for each row, and every copy of a message explained.
OutboxInv == OutboxTypeOK /\ RoundsInv

\* A row changes only in the commit of the round that holds it, one attempt at
\* a time, and once published or failed it never changes again: an overlapping
\* or late round cannot send it back to pending.
ChangedByItsHolder ==
    [][\A m \in Message :
          row[m].status # "absent" /\ row'[m] # row[m] =>
             /\ \E p \in Publisher : m \in round[p].batch /\ round'[p] = Idle
             /\ row[m].status = "pending"
             /\ row'[m].attempts = row[m].attempts + 1]_outboxVars

-------------------------------------------------------------------------------
(* Liveness. *)

\* Beat starts publish_outbox every second in some worker process, a round
\* that is not lost goes on, and time passes.
OutboxFairness ==
    /\ \A p \in Publisher :
          /\ WF_outboxVars(Take(p))
          /\ WF_outboxVars(\E m \in Message : Send(p, m) \/ SendRefused(p, m))
          /\ WF_outboxVars(Commit(p))
    /\ WF_outboxVars(TimePasses)

OutboxFairSpec == OutboxSpec /\ OutboxFairness

\* Every message leaves the outbox, sent or given up, behind older messages
\* that keep failing and coming back before it, and whatever rounds are lost.
EveryMessageLeaves ==
    \A m \in Message : row[m].status = "pending" ~> row[m].status \in {"published", "failed"}
===============================================================================
