------------------------- MODULE SharedServicesProofs --------------------------
(***************************************************************************)
(* Proofs about the services all modules share: the outbox, the audit log, *)
(* the runtime configuration, the keys of requests and what accounts see.  *)
(***************************************************************************)
EXTENDS Outbox, AuditChain, Configuration, Idempotency, Access, FiniteSetTheorems, TLAPS

-------------------------------------------------------------------------------
(***************************************************************************)
(* Several publishers share the outbox safely, for every number of         *)
(* messages, publishers, batch size and limit: RoundsInv of Outbox is      *)
(* inductive, one lemma per action; batches and back-offs stay within      *)
(* their limits on top of it.                                              *)
(***************************************************************************)

\* What the provers need to know of the rows, publisher records and limits,
\* field by field: the columns task_outbox declares.
LEMMA Fields ==
    ASSUME RowsTyped
    PROVE  /\ MaxAttempts \in Nat /\ MaxAttempts > 0 /\ MaxRoundFaults \in Nat
           /\ roundFaults \in Nat
           /\ \A m \in Message :
                 /\ row[m].status \in {"absent", "pending", "published", "failed"}
                 /\ row[m].attempts \in Nat /\ row[m].attempts <= MaxAttempts
                 /\ row[m].born \in Nat
                 /\ sent[m] \in Nat
           /\ \A p \in Publisher :
                 /\ round[p].batch \subseteq Message
                 /\ round[p].todo \subseteq Message
                 /\ round[p].published \subseteq Message
                 /\ round[p].age \in Nat
  BY OutboxLimits DEF RowsTyped

\* The empty table satisfies the invariant.
LEMMA InitInv == OutboxInit => RoundsInv
  <1> SUFFICES ASSUME OutboxInit PROVE RoundsInv
    OBVIOUS
  <1>1. RowsTyped
    BY OutboxLimits DEF OutboxInit, RowsTyped, Idle, NoRow
  <1>2. OneHolder
    BY DEF OutboxInit, OneHolder, Idle
  <1>3. SentIsAccountedFor
    BY DEF OutboxInit, SentIsAccountedFor, Tried, Idle, NoRow
  <1>4. GivenUpAtLimit
    BY DEF OutboxInit, GivenUpAtLimit, NoRow
  <1> QED BY <1>1, <1>2, <1>3, <1>4 DEF RoundsInv

\* create_job's insert touches no row that is held.
LEMMA InsertInv ==
    ASSUME RoundsInv, NEW m \in Message, Insert(m)
    PROVE  RoundsInv'
  <1> USE DEF RoundsInv
  <1>1. PICK born \in 1 .. Cardinality(Message) :
           row' = [row EXCEPT ![m] = [status |-> "pending", attempts |-> 0, born |-> born]]
    BY DEF Insert
  <1>0. /\ row[m].status = "absent" /\ UNCHANGED <<round, sent, roundFaults>>
        /\ row'[m] = [status |-> "pending", attempts |-> 0, born |-> born]
        /\ \A n \in Message \ {m} : row'[n] = row[n]
    BY <1>1 DEF Insert, RowsTyped
  <1>2. born \in Nat
    BY FS_CardinalityType, OutboxLimits
  <1>3. RowsTyped'
    BY <1>1, <1>0, <1>2, OutboxLimits DEF RowsTyped
  <1>4. OneHolder'
    BY <1>0, Fields DEF OneHolder
  <1>5. SentIsAccountedFor'
    BY <1>0, Fields DEF SentIsAccountedFor, GivenUpAtLimit, Tried
  <1>6. GivenUpAtLimit'
    BY <1>0, Fields, OutboxLimits DEF GivenUpAtLimit
  <1> QED BY <1>3, <1>4, <1>5, <1>6

\* A new round takes only rows nobody holds, and has tried none of them yet.
LEMMA TakeInv ==
    ASSUME RoundsInv, NEW p \in Publisher, Take(p)
    PROVE  RoundsInv'
  <1> USE DEF RoundsInv
  <1>1. PICK batch \in SUBSET Message \ {{}} :
           /\ IsBatch(batch)
           /\ round' = [round EXCEPT ![p] =
                 [batch |-> batch, todo |-> batch, published |-> {}, age |-> 0]]
    BY DEF Take
  <1>2. /\ round[p].batch = {} /\ UNCHANGED <<row, sent, roundFaults>>
        /\ round'[p] = [batch |-> batch, todo |-> batch, published |-> {}, age |-> 0]
        /\ \A q \in Publisher \ {p} : round'[q] = round[q]
    BY <1>1 DEF Take, RowsTyped
  <1>3. \A m \in batch : /\ row[m].status = "pending"
                         /\ \A q \in Publisher : m \notin round[q].batch
    BY <1>1 DEF IsBatch, Due, Locked
  <1>4. RowsTyped'
    BY <1>1, <1>2 DEF RowsTyped
  <1>5. OneHolder'
    BY <1>2, <1>3 DEF OneHolder
  <1>6. \A m \in Message : Tried(m)' = Tried(m)
    BY <1>2 DEF Tried
  <1>7. SentIsAccountedFor'
    BY <1>2, <1>6 DEF SentIsAccountedFor
  <1>8. GivenUpAtLimit'
    BY <1>2 DEF GivenUpAtLimit
  <1> QED BY <1>4, <1>5, <1>7, <1>8

\* What sending a message, with or without success, does to one round: the
\* message was not tried before, because no other round holds it.
LEMMA SendingInv ==
    ASSUME RoundsInv, NEW p \in Publisher, NEW m \in Message, IsNext(p, m),
           NEW ok \in SUBSET {m},
           round' = [round EXCEPT ![p] = [round[p] EXCEPT !.todo = @ \ {m}, !.published = @ \cup ok]],
           \/ sent' = [sent EXCEPT ![m] = @ + 1]
           \/ ok = {} /\ sent' = sent,
           UNCHANGED <<row, roundFaults>>
    PROVE  RoundsInv'
  <1> USE DEF RoundsInv
  <1>1. /\ round'[p].batch = round[p].batch
        /\ round'[p].todo = round[p].todo \ {m}
        /\ round'[p].published = round[p].published \cup ok
        /\ \A q \in Publisher \ {p} : round'[q] = round[q]
    BY DEF RowsTyped
  <1>2. RowsTyped'
    <2>1. round[p] \in [batch : SUBSET Message, todo : SUBSET Message,
                        published : SUBSET Message, age : Nat]
      BY DEF RowsTyped
    <2>2. [round[p] EXCEPT !.todo = @ \ {m}, !.published = @ \cup ok]
             \in [batch : SUBSET Message, todo : SUBSET Message,
                  published : SUBSET Message, age : Nat]
      BY <2>1
    <2>4. round' \in [Publisher -> [batch : SUBSET Message, todo : SUBSET Message,
                                    published : SUBSET Message, age : Nat]]
      BY <2>2 DEF RowsTyped
    <2> QED BY <2>4 DEF RowsTyped
  <1>3. m \in round[p].batch /\ m \in round[p].todo
    BY DEF IsNext, OneHolder
  <1>4. OneHolder'
    <2>1. \A q \in Publisher : round'[q].batch = round[q].batch
      BY <1>1
    <2>2. /\ round'[p].todo \subseteq round[p].batch
          /\ round'[p].published \subseteq round[p].batch \ round'[p].todo
      BY <1>1, <1>3 DEF OneHolder
    <2>3. \A q \in Publisher \ {p} :
             /\ round'[q].todo \subseteq round[q].batch
             /\ round'[q].published \subseteq round[q].batch \ round'[q].todo
      BY <1>1 DEF OneHolder
    <2> QED BY <2>1, <2>2, <2>3 DEF OneHolder
  <1>5. ~Tried(m) /\ Tried(m)' /\ \A n \in Message \ {m} : Tried(n)' = Tried(n)
    BY <1>1, <1>3 DEF Tried, OneHolder
  <1>6. /\ \A n \in Message \ {m} : sent'[n] = sent[n]
        /\ sent[m] \in Nat
        /\ sent'[m] = sent[m] + 1 \/ (ok = {} /\ sent'[m] = sent[m])
        /\ sent'[m] >= sent[m]
        /\ ok # {} => sent'[m] >= 1
    BY Fields DEF RowsTyped
  <1>7. SentIsAccountedFor'
    <2>1. \A n \in Message : row'[n].status = "published" => sent'[n] >= 1
      BY <1>6, Fields DEF SentIsAccountedFor
    <2>2. ASSUME NEW q \in Publisher, NEW n \in round'[q].published
          PROVE  sent'[n] >= 1
      <3>1. n \in round[q].published \/ n \in ok
        BY <1>1
      <3>2. CASE n \in ok
        BY <3>2, <1>6
      <3>3. CASE n \in round[q].published
        <4>1. sent[n] >= 1 /\ n \in Message /\ sent[n] \in Nat
          BY <3>3, Fields DEF SentIsAccountedFor
        <4> QED BY <4>1, <1>6
      <3> QED BY <3>1, <3>2, <3>3
    <2>3. \A n \in Message :
             sent'[n] <= row'[n].attempts + roundFaults' + (IF Tried(n)' THEN 1 ELSE 0)
      BY <1>5, <1>6, Fields DEF SentIsAccountedFor
    <2> QED BY <2>1, <2>2, <2>3 DEF SentIsAccountedFor
  <1>8. GivenUpAtLimit'
    BY <1>3, <1>6 DEF GivenUpAtLimit, OneHolder
  <1> QED BY <1>2, <1>4, <1>7, <1>8

\* send_task returned or raised: both are the case above.
LEMMA SendInv ==
    ASSUME RoundsInv, NEW p \in Publisher, NEW m \in Message,
           Send(p, m) \/ SendRefused(p, m)
    PROVE  RoundsInv'
  <1>1. CASE Send(p, m)
    <2>1. /\ IsNext(p, m) /\ sent' = [sent EXCEPT ![m] = @ + 1]
          /\ round' = [round EXCEPT ![p] = [round[p] EXCEPT !.todo = @ \ {m}, !.published = @ \cup {m}]]
          /\ UNCHANGED <<row, roundFaults>>
      BY <1>1 DEF Send
    <2> DEFINE ok == {m}
    <2>2. round' = [round EXCEPT ![p] = [round[p] EXCEPT !.todo = @ \ {m}, !.published = @ \cup ok]]
      BY <2>1
    <2>3. ok \in SUBSET {m}
      OBVIOUS
    <2> HIDE DEF ok
    <2> QED BY <2>1, <2>2, <2>3, SendingInv
  <1>2. CASE SendRefused(p, m)
    <2>1. /\ IsNext(p, m) /\ (UNCHANGED sent \/ sent' = [sent EXCEPT ![m] = @ + 1])
          /\ round' = [round EXCEPT ![p] = [round[p] EXCEPT !.todo = @ \ {m}]]
          /\ UNCHANGED <<row, roundFaults>>
      BY <1>2 DEF SendRefused
    <2> DEFINE ok == {}
    <2>2. round' = [round EXCEPT ![p] = [round[p] EXCEPT !.todo = @ \ {m}, !.published = @ \cup ok]]
      <3>1. round[p] \in [batch : SUBSET Message, todo : SUBSET Message,
                          published : SUBSET Message, age : Nat]
        BY DEF RoundsInv, RowsTyped
      <3>2. [round[p] EXCEPT !.todo = @ \ {m}]
              = [round[p] EXCEPT !.todo = @ \ {m}, !.published = round[p].published]
        BY <3>1
      <3>3. round[p].published \cup ok = round[p].published
        OBVIOUS
      <3>4. round' = [round EXCEPT ![p] = [round[p] EXCEPT !.todo = round[p].todo \ {m},
                                                          !.published = round[p].published]]
        BY <2>1, <3>2
      <3> QED BY <3>3, <3>4
    <2>3. ok \in SUBSET {m} /\ ok = {}
      OBVIOUS
    <2> HIDE DEF ok
    <2> QED BY <2>1, <2>2, <2>3, SendingInv
  <1> QED BY <1>1, <1>2

\* The commit turns each message the round tried into a counted attempt.
LEMMA CommitInv ==
    ASSUME RoundsInv, NEW p \in Publisher, Commit(p)
    PROVE  RoundsInv'
  <1> USE DEF RoundsInv
  <1> DEFINE B == round[p].batch
             Ok == round[p].published
  <1>1. /\ B # {} /\ round[p].todo = {} /\ UNCHANGED <<sent, roundFaults>>
        /\ round' = [round EXCEPT ![p] = Idle]
        /\ row' = [m \in Message |-> IF m \in B THEN AfterRound(row[m], m \in Ok) ELSE row[m]]
    BY DEF Commit
  <1>2. /\ round'[p] = Idle
        /\ \A q \in Publisher \ {p} : round'[q] = round[q]
    BY <1>1 DEF RowsTyped
  <1>3. \A m \in Message \ B : row'[m] = row[m]
    BY <1>1
  <1>4. ASSUME NEW m \in B
        PROVE  /\ m \in Message
               /\ row[m].status = "pending" /\ row[m].attempts < MaxAttempts
               /\ row'[m] \in [status   : {"absent", "pending", "published", "failed"},
                               attempts : 0 .. MaxAttempts, born : Nat]
               /\ row'[m].attempts = row[m].attempts + 1
               /\ row'[m].status \in {"published", "pending", "failed"}
               /\ row'[m].status = "published" => m \in Ok
               /\ row'[m].status = "failed" => row'[m].attempts = MaxAttempts
               /\ row'[m].status = "pending" => row'[m].attempts < MaxAttempts
    <2>1. m \in Message /\ row[m].status = "pending"
      BY Fields DEF OneHolder
    <2>2. row[m].attempts < MaxAttempts
      BY <2>1 DEF GivenUpAtLimit
    <2>3. row[m] \in [status   : {"absent", "pending", "published", "failed"},
                      attempts : 0 .. MaxAttempts, born : Nat]
      BY <2>1 DEF RowsTyped
    <2>4. row'[m] = AfterRound(row[m], m \in Ok)
      BY <1>1, <2>1
    <2>5. row[m].attempts \in Nat /\ row[m].born \in Nat /\ MaxAttempts \in Nat
      BY <2>1, Fields
    <2> DEFINE status == IF m \in Ok THEN "published"
                         ELSE IF row[m].attempts + 1 >= MaxAttempts THEN "failed" ELSE "pending"
    <2>6. row'[m] = [row[m] EXCEPT !.attempts = row[m].attempts + 1, !.status = status]
      BY <2>4 DEF AfterRound
    <2>9. /\ status \in {"published", "pending", "failed"}
          /\ status = "published" <=> m \in Ok
          /\ status = "failed" => row[m].attempts + 1 >= MaxAttempts
          /\ status = "pending" => ~(row[m].attempts + 1 >= MaxAttempts)
      OBVIOUS
    <2> HIDE DEF status
    <2>7. row'[m] = [status |-> status, attempts |-> row[m].attempts + 1, born |-> row[m].born]
      BY <2>3, <2>6
    <2>8. /\ row'[m].status = status
          /\ row'[m].attempts = row[m].attempts + 1
          /\ row'[m].born = row[m].born
      BY <2>7
    <2> QED BY <2>1, <2>2, <2>5, <2>7, <2>8, <2>9
  <1>5. RowsTyped'
    <2>1. \A m \in Message : row'[m] \in [status   : {"absent", "pending", "published", "failed"},
                                          attempts : 0 .. MaxAttempts, born : Nat]
      BY <1>3, <1>4 DEF RowsTyped
    <2>2. row' \in [Message -> [status   : {"absent", "pending", "published", "failed"},
                                attempts : 0 .. MaxAttempts, born : Nat]]
      BY <1>1, <2>1
    <2> QED BY <1>1, <2>2 DEF RowsTyped, Idle
  <1>6. OneHolder'
    BY <1>2, <1>3, Fields DEF OneHolder, Idle
  <1>7. /\ \A m \in B : Tried(m) /\ ~Tried(m)'
        /\ \A m \in Message \ B : Tried(m)' = Tried(m)
    BY <1>1, <1>2 DEF Tried, Idle, OneHolder
  <1>8. SentIsAccountedFor'
    <2>1. \A m \in Message : row'[m].status = "published" => sent'[m] >= 1
      BY <1>1, <1>3, <1>4 DEF SentIsAccountedFor
    <2>2. \A q \in Publisher : \A m \in round'[q].published : sent'[m] >= 1
      BY <1>1, <1>2 DEF SentIsAccountedFor, Idle
    <2>3. ASSUME NEW m \in Message
          PROVE  sent'[m] <= row'[m].attempts + roundFaults' + (IF Tried(m)' THEN 1 ELSE 0)
      <3>1. CASE m \in B
        <4>1. Tried(m) /\ ~Tried(m)'
          BY <3>1, <1>7
        <4>2. sent[m] <= row[m].attempts + roundFaults + 1
          BY <4>1 DEF SentIsAccountedFor
        <4>3. row'[m].attempts = row[m].attempts + 1
          BY <3>1, <1>4
        <4>4. /\ row[m].attempts \in Nat /\ sent[m] \in Nat /\ roundFaults \in Nat
              /\ sent'[m] = sent[m] /\ roundFaults' = roundFaults
          BY <1>1, Fields, OutboxLimits DEF RowsTyped
        <4> QED BY <4>1, <4>2, <4>3, <4>4
      <3>2. CASE m \notin B
        BY <3>2, <1>1, <1>3, <1>7 DEF SentIsAccountedFor
      <3> QED BY <3>1, <3>2
    <2> QED BY <2>1, <2>2, <2>3 DEF SentIsAccountedFor
  <1>9. GivenUpAtLimit'
    BY <1>1, <1>3, <1>4 DEF GivenUpAtLimit
  <1> QED BY <1>5, <1>6, <1>8, <1>9

\* A lost round forgets what it tried; the fault pays for the messages it sent.
LEMMA LoseInv ==
    ASSUME RoundsInv, NEW p \in Publisher, Lose(p)
    PROVE  RoundsInv'
  <1> USE DEF RoundsInv
  <1>1. /\ roundFaults < MaxRoundFaults /\ roundFaults' = roundFaults + 1 /\ UNCHANGED <<row, sent>>
        /\ round' = [round EXCEPT ![p] = Idle]
    BY DEF Lose
  <1>2. /\ round'[p] = Idle
        /\ \A q \in Publisher \ {p} : round'[q] = round[q]
    BY <1>1 DEF RowsTyped
  <1>3. RowsTyped'
    BY <1>1, OutboxLimits DEF RowsTyped, Idle
  <1>4. OneHolder'
    BY <1>1, <1>2 DEF OneHolder, Idle
  <1>5. SentIsAccountedFor'
    <2>1. \A q \in Publisher : \A m \in round'[q].published : sent'[m] >= 1
      BY <1>1, <1>2 DEF SentIsAccountedFor, Idle
    <2>2. \A m \in Message :
             sent'[m] <= row'[m].attempts + roundFaults' + (IF Tried(m)' THEN 1 ELSE 0)
      <3>1. \A m \in Message : sent[m] <= row[m].attempts + roundFaults + 1
        BY Fields DEF SentIsAccountedFor
      <3> QED BY <3>1, <1>1, Fields
    <2> QED BY <1>1, <2>1, <2>2 DEF SentIsAccountedFor
  <1>6. GivenUpAtLimit'
    BY <1>1 DEF GivenUpAtLimit
  <1> QED BY <1>3, <1>4, <1>5, <1>6

\* Time changes neither the rows nor what a round holds.
LEMMA TickInv ==
    ASSUME RoundsInv, TimePasses
    PROVE  RoundsInv'
  <1> USE DEF RoundsInv
  <1>1. /\ UNCHANGED <<row, sent, roundFaults>>
        /\ round' = [p \in Publisher |->
              IF round[p].batch # {} /\ round[p].age < DelayCap
              THEN [round[p] EXCEPT !.age = @ + 1] ELSE round[p]]
    BY DEF TimePasses
  <1>2. RowsTyped'
    <2>1. ASSUME NEW p \in Publisher
          PROVE  round'[p] \in [batch : SUBSET Message, todo : SUBSET Message,
                                published : SUBSET Message, age : Nat]
      <3>1. round[p] \in [batch : SUBSET Message, todo : SUBSET Message,
                          published : SUBSET Message, age : Nat]
        BY DEF RowsTyped
      <3>2. [round[p] EXCEPT !.age = @ + 1]
               \in [batch : SUBSET Message, todo : SUBSET Message,
                    published : SUBSET Message, age : Nat]
        BY <3>1
      <3> QED BY <1>1, <3>1, <3>2
    <2>2. round' \in [Publisher -> [batch : SUBSET Message, todo : SUBSET Message,
                                    published : SUBSET Message, age : Nat]]
      BY <1>1, <2>1
    <2> QED BY <1>1, <2>2 DEF RowsTyped
  <1>3. \A p \in Publisher : /\ round'[p].batch = round[p].batch
                             /\ round'[p].todo = round[p].todo
                             /\ round'[p].published = round[p].published
    BY <1>1 DEF RowsTyped
  <1>4. OneHolder'
    BY <1>1, <1>3 DEF OneHolder
  <1>5. \A m \in Message : Tried(m)' = Tried(m)
    BY <1>3 DEF Tried
  <1>6. SentIsAccountedFor'
    BY <1>1, <1>3, <1>5 DEF SentIsAccountedFor
  <1>7. GivenUpAtLimit'
    BY <1>1 DEF GivenUpAtLimit
  <1> QED BY <1>2, <1>4, <1>6, <1>7

\* A step that changes none of the variables.
LEMMA StutterInv ==
    ASSUME RoundsInv, UNCHANGED outboxVars
    PROVE  RoundsInv'
  BY DEF RoundsInv, outboxVars, RowsTyped, OneHolder, SentIsAccountedFor, Tried, GivenUpAtLimit

\* The invariant of the outbox holds with any number of messages, publishers,
\* lost rounds and attempts.
THEOREM RoundsInvariant == OutboxSpec => []RoundsInv
  <1>1. RoundsInv /\ [OutboxNext]_outboxVars => RoundsInv'
    <2> SUFFICES ASSUME RoundsInv, [OutboxNext]_outboxVars PROVE RoundsInv'
      OBVIOUS
    <2>1. CASE \E m \in Message : Insert(m)
      BY <2>1, InsertInv
    <2>2. CASE \E p \in Publisher : Take(p) \/ Commit(p) \/ Lose(p)
      BY <2>2, TakeInv, CommitInv, LoseInv
    <2>3. CASE \E p \in Publisher, m \in Message : Send(p, m) \/ SendRefused(p, m)
      BY <2>3, SendInv
    <2>4. CASE TimePasses
      BY <2>4, TickInv
    <2>5. CASE UNCHANGED outboxVars
      BY <2>5, StutterInv
    <2> QED BY <2>1, <2>2, <2>3, <2>4, <2>5 DEF OutboxNext
  <1> QED BY <1>1, InitInv, PTL DEF OutboxSpec

-------------------------------------------------------------------------------
(* Batches and back-offs. *)

\* A back-off has the ceiling, however many attempts were counted.
LEMMA DelayIsCapped ==
    ASSUME NEW n \in Nat
    PROVE  Delay(n + 1) \in Int /\ Delay(n + 1) <= DelayCap
  <1>1. n + 1 - 1 = n
    OBVIOUS
  <1>2. BaseDelay * 2 ^ n \in Int
    BY OutboxLimits
  <1> QED BY <1>1, <1>2, OutboxLimits DEF Delay

\* What is left of a back-off after the round is no longer than the ceiling.
LEMMA RestIsCapped ==
    ASSUME RowsTyped, NEW p \in Publisher, NEW m \in Message
    PROVE  Rest(m, p) \in 0 .. DelayCap
  <1> DEFINE after == AfterRound(row[m], m \in round[p].published)
  <1>1. row[m].attempts \in Nat /\ round[p].age \in Nat /\ DelayCap \in Nat
    BY Fields, OutboxLimits
  <1>2. after.attempts = row[m].attempts + 1
    BY DEF AfterRound, RowsTyped
  <1> DEFINE delay == Delay(after.attempts)
  <1>3. delay \in Int /\ delay <= DelayCap
    BY <1>1, <1>2, DelayIsCapped
  <1>4. Rest(m, p) = IF after.status # "pending" \/ delay <= round[p].age THEN 0
                     ELSE delay - round[p].age
    BY DEF Rest
  <1> HIDE DEF after, delay
  <1> QED BY <1>1, <1>3, <1>4

\* Every step keeps batches, ages and back-offs within their limits.
LEMMA LimitsKept ==
    ASSUME RoundsInv, RoundsInv', OutboxTypeOK, [OutboxNext]_outboxVars
    PROVE  OutboxTypeOK'
  <1>1. RowsTyped /\ RowsTyped'
    BY DEF RoundsInv
  <1>2. wait \in [Message -> 0 .. DelayCap] /\ DelayCap \in Nat
    BY OutboxLimits DEF OutboxTypeOK
  <1>3. wait' \in [Message -> 0 .. DelayCap]
    <2>1. ASSUME NEW p \in Publisher, Commit(p)
          PROVE  wait' \in [Message -> 0 .. DelayCap]
      <3>1. wait' = [m \in Message |-> IF m \in round[p].batch THEN Rest(m, p) ELSE wait[m]]
        BY <2>1 DEF Commit
      <3>2. \A m \in Message : Rest(m, p) \in 0 .. DelayCap
        BY <1>1, RestIsCapped
      <3> QED BY <1>2, <3>1, <3>2
    <2>2. CASE TimePasses
      BY <1>2, <2>2 DEF TimePasses
    <2>3. CASE UNCHANGED wait
      BY <1>2, <2>3
    <2> QED BY <2>1, <2>2, <2>3 DEF OutboxNext, outboxVars, Insert, Take, Lose, Send, SendRefused
  <1>4. ASSUME NEW q \in Publisher
        PROVE  Cardinality(round'[q].batch) <= BatchSize /\ round'[q].age <= DelayCap
    <2>1. Cardinality(round[q].batch) <= BatchSize /\ round[q].age <= DelayCap
      BY DEF OutboxTypeOK
    <2>2. ASSUME NEW p \in Publisher, Take(p)
          PROVE  Cardinality(round'[q].batch) <= BatchSize /\ round'[q].age <= DelayCap
      <3>1. PICK batch \in SUBSET Message :
               /\ IsBatch(batch)
               /\ round' = [round EXCEPT ![p] =
                     [batch |-> batch, todo |-> batch, published |-> {}, age |-> 0]]
        BY <2>2 DEF Take
      <3>2. Cardinality(batch) \in Nat
        BY FS_Subset, FS_CardinalityType, OutboxLimits
      <3>3. Cardinality(batch) <= BatchSize
        BY <3>1, <3>2, OutboxLimits DEF IsBatch
      <3>4. round'[q] = round[q] \/ (round'[q].batch = batch /\ round'[q].age = 0)
        BY <1>1, <3>1 DEF RowsTyped
      <3> QED BY <1>2, <2>1, <3>3, <3>4
    <2>3. ASSUME NEW p \in Publisher, round' = [round EXCEPT ![p] = Idle]
          PROVE  Cardinality(round'[q].batch) <= BatchSize /\ round'[q].age <= DelayCap
      <3>1. round'[q] = round[q] \/ (round'[q].batch = {} /\ round'[q].age = 0)
        BY <1>1, <2>3 DEF RowsTyped, Idle
      <3> QED BY <1>2, <2>1, <3>1, FS_EmptySet, OutboxLimits
    <2>4. ASSUME NEW p \in Publisher, NEW m \in Message, Send(p, m) \/ SendRefused(p, m)
          PROVE  Cardinality(round'[q].batch) <= BatchSize /\ round'[q].age <= DelayCap
      <3>1. \/ round' = [round EXCEPT ![p] = [round[p] EXCEPT !.todo = @ \ {m},
                                                 !.published = @ \cup {m}]]
            \/ round' = [round EXCEPT ![p] = [round[p] EXCEPT !.todo = @ \ {m}]]
        BY <2>4 DEF Send, SendRefused
      <3>2. round'[q] \in {round[q],
               [round[q] EXCEPT !.todo = @ \ {m}, !.published = @ \cup {m}],
               [round[q] EXCEPT !.todo = @ \ {m}]}
        BY <1>1, <3>1 DEF RowsTyped
      <3>3. round[q] \in [batch : SUBSET Message, todo : SUBSET Message,
                          published : SUBSET Message, age : Nat]
        BY <1>1 DEF RowsTyped
      <3>4. round'[q].batch = round[q].batch /\ round'[q].age = round[q].age
        BY <3>2, <3>3
      <3> QED BY <2>1, <3>4
    <2>5. CASE TimePasses
      <3>1. /\ round'[q].batch = round[q].batch
            /\ \/ round'[q].age = round[q].age
               \/ round[q].age < DelayCap /\ round'[q].age = round[q].age + 1
        BY <1>1, <2>5 DEF TimePasses, RowsTyped
      <3>2. round[q].age \in Nat
        BY <1>1, Fields
      <3> QED BY <1>2, <2>1, <3>1, <3>2
    <2>6. CASE UNCHANGED round
      BY <2>1, <2>6
    <2> QED BY <2>2, <2>3, <2>4, <2>5, <2>6 DEF OutboxNext, outboxVars, Insert, Commit, Lose
  <1> QED BY <1>1, <1>3, <1>4 DEF OutboxTypeOK

\* The outbox keeps to its limits and its rows to their holders, whatever the batch
\* size, the base of the back-off and its ceiling (publish_pending_outbox).
THEOREM OutboxInvariant == OutboxSpec => []OutboxInv
  <1>1. OutboxInit => OutboxTypeOK
    <2> SUFFICES ASSUME OutboxInit PROVE OutboxTypeOK
      OBVIOUS
    <2>1. RowsTyped
      BY InitInv DEF RoundsInv
    <2>2. /\ wait \in [Message -> 0 .. DelayCap]
          /\ \A p \in Publisher : round[p].batch = {} /\ round[p].age = 0
      BY OutboxLimits DEF OutboxInit, Idle
    <2>3. 0 <= BatchSize /\ 0 <= DelayCap
      BY OutboxLimits
    <2>4. \A p \in Publisher :
             Cardinality(round[p].batch) <= BatchSize /\ round[p].age <= DelayCap
      BY <2>2, <2>3, FS_EmptySet
    <2> QED BY <2>1, <2>2, <2>4 DEF OutboxTypeOK
  <1>2. RoundsInv /\ RoundsInv' /\ OutboxTypeOK /\ [OutboxNext]_outboxVars => OutboxTypeOK'
    BY LimitsKept
  <1>3. OutboxTypeOK /\ RoundsInv => OutboxInv
    BY DEF OutboxInv
  <1> QED BY <1>1, <1>2, <1>3, RoundsInvariant, PTL DEF OutboxSpec

\* Publishers that overlap, crash or stall never hold the same row, and hold
\* only pending rows (the promise of the docstring of publish_pending_outbox).
THEOREM OneHolderHolds == OutboxSpec => []OneHolder
  <1>1. RoundsInv => OneHolder
    BY DEF RoundsInv
  <1> QED BY <1>1, RoundsInvariant, PTL

\* No message is recorded as published without having been sent, and none is
\* sent more often than its attempts and the lost rounds explain.
THEOREM SentIsAccountedForHolds == OutboxSpec => []SentIsAccountedFor
  <1>1. RoundsInv => SentIsAccountedFor
    BY DEF RoundsInv
  <1> QED BY <1>1, RoundsInvariant, PTL

\* A message is given up after exactly max_attempts counted attempts.
THEOREM GivenUpAtLimitHolds == OutboxSpec => []GivenUpAtLimit
  <1>1. RoundsInv => GivenUpAtLimit
    BY DEF RoundsInv
  <1> QED BY <1>1, RoundsInvariant, PTL

\* A row changes only in the commit of the round that holds it, and only while
\* it is pending: published and failed rows are final.
THEOREM ChangedByItsHolderHolds == OutboxSpec => ChangedByItsHolder
  <1> DEFINE Changes == \A m \in Message :
          row[m].status # "absent" /\ row'[m] # row[m] =>
             /\ \E p \in Publisher : m \in round[p].batch /\ round'[p] = Idle
             /\ row[m].status = "pending"
             /\ row'[m].attempts = row[m].attempts + 1
  <1>1. RoundsInv /\ [OutboxNext]_outboxVars => Changes \/ UNCHANGED outboxVars
    <2> SUFFICES ASSUME RoundsInv, OutboxNext PROVE Changes
      BY DEF outboxVars
    <2>1. CASE \E m \in Message : Insert(m)
      BY <2>1 DEF Insert, RoundsInv, RowsTyped
    <2>2. ASSUME NEW p \in Publisher, Commit(p)
          PROVE  Changes
      <3>1. /\ row' = [m \in Message |-> IF m \in round[p].batch
                          THEN AfterRound(row[m], m \in round[p].published) ELSE row[m]]
            /\ round' = [round EXCEPT ![p] = Idle]
        BY <2>2 DEF Commit
      <3>2. round'[p] = Idle
        BY <3>1 DEF RoundsInv, RowsTyped
      <3>3. ASSUME NEW m \in round[p].batch
            PROVE  /\ row[m].status = "pending"
                   /\ row'[m].attempts = row[m].attempts + 1
        <4>1. m \in Message /\ row[m].status = "pending"
          BY Fields DEF RoundsInv, OneHolder
        <4>2. row'[m] = AfterRound(row[m], m \in round[p].published)
          BY <3>1, <4>1
        <4> QED BY <4>1, <4>2 DEF AfterRound, RoundsInv, RowsTyped
      <3> QED BY <3>1, <3>2, <3>3
    <2>3. CASE UNCHANGED row
      BY <2>3
    <2> QED BY <2>1, <2>2, <2>3 DEF OutboxNext, Take, Lose, Send, SendRefused, TimePasses
  <1>2. [](RoundsInv) /\ [][OutboxNext]_outboxVars => [][Changes]_outboxVars
    BY <1>1, PTL
  <1> QED BY <1>2, RoundsInvariant, PTL DEF OutboxSpec, ChangedByItsHolder

-------------------------------------------------------------------------------
(***************************************************************************)
(* The audit log is one chain, for any number of transactions.  The lock   *)
(* makes the clock's reading and the latest entry belong together: whoever *)
(* holds it has read a time later than every entry, and the predecessor it *)
(* has hashed is still the latest when it commits.                         *)
(***************************************************************************)

\* What is committed is past, and one entry of it is the latest.
LogIsPast == \A e \in auditLog : e.at <= clock

IsLatest(f) == f \in auditLog /\ \A g \in auditLog : g.at <= f.at

LogHasLatest == auditLog # {} => \E f \in auditLog : IsLatest(f)

\* A reading of the clock is later than the log.
TimeFits(w) ==
    writer[w].at \in {"timed", "hashed"} =>
        /\ writer[w].time \in 1 .. clock
        /\ \A e \in auditLog : e.at < writer[w].time

\* The predecessor that is hashed is the latest.
PreviousFits(w) ==
    writer[w].at = "hashed" =>
        IF auditLog = {} THEN writer[w].previous = NoEntry
        ELSE \E f \in auditLog : f.entry = writer[w].previous /\ IsLatest(f)

WritersFit == \A w \in Writer : TimeFits(w) /\ PreviousFits(w)

AuditIndInv ==
    AuditTypeOK /\ OneChain /\ LogIsPast /\ LogHasLatest /\ WritersFit

Writers == [at : {"ready", "locked", "timed", "hashed", "done"},
            time : 0 .. MaxTime, previous : Entry \cup {NoEntry}]

Entries == [entry : Entry, at : 1 .. MaxTime, previous : Entry \cup {NoEntry}]

\* Times are natural numbers.
LEMMA Times ==
    ASSUME AuditTypeOK
    PROVE  /\ MaxTime \in Nat /\ clock \in Nat /\ clock <= MaxTime
           /\ \A e \in auditLog : e.at \in Nat /\ e \in Entries
           /\ \A w \in Writer : writer[w] \in Writers /\ writer[w].time \in Nat
  BY AuditBounds DEF AuditTypeOK, Writers, Entries

\* An empty log.
LEMMA AuditInitHolds == AuditInit => AuditIndInv
  <1> SUFFICES ASSUME AuditInit PROVE AuditIndInv
    OBVIOUS
  <1>1. 0 \in 0 .. MaxTime
    BY AuditBounds
  <1>2. AuditTypeOK
    BY <1>1, AuditBounds DEF AuditInit, AuditTypeOK
  <1>3. WritersFit
    BY DEF AuditInit, WritersFit, TimeFits, PreviousFits
  <1> QED BY <1>2, <1>3 DEF AuditInit, AuditIndInv, OneChain, LogIsPast, LogHasLatest

\* A step of one writer that leaves the log alone.
LEMMA WriterHolds ==
    ASSUME AuditIndInv, NEW w \in Writer, NEW newRow \in Writers,
           writer' = [writer EXCEPT ![w] = newRow], auditLog' = auditLog,
           clock' \in 0 .. MaxTime, clock <= clock',
           auditLock' \in Writer \cup {NoWriter},
           \A u \in Writer : auditLock' = u <=> writer'[u].at \in {"locked", "timed", "hashed"},
           newRow.at \in {"timed", "hashed"} =>
               newRow.time \in 1 .. clock' /\ \A e \in auditLog : e.at < newRow.time,
           newRow.at = "hashed" =>
               IF auditLog = {} THEN newRow.previous = NoEntry
               ELSE \E f \in auditLog : f.entry = newRow.previous /\ IsLatest(f)
    PROVE  AuditIndInv'
  <1>1. AuditTypeOK /\ OneChain /\ LogIsPast /\ LogHasLatest /\ WritersFit
    BY DEF AuditIndInv
  <1>2. writer'[w] = newRow /\ \A u \in Writer : u # w => writer'[u] = writer[u]
    BY <1>1 DEF AuditTypeOK
  <1>3. AuditTypeOK'
    BY <1>1 DEF AuditTypeOK, Writers
  <1>4. OneChain' /\ LogHasLatest'
    BY <1>1 DEF OneChain, LogHasLatest, IsLatest
  <1>5. LogIsPast'
    BY <1>1, Times DEF LogIsPast
  <1>6. ASSUME NEW u \in Writer PROVE TimeFits(u)' /\ PreviousFits(u)'
    <2>1. CASE u = w
      BY <1>2, <2>1 DEF TimeFits, PreviousFits, IsLatest
    <2>2. CASE u # w
      BY <1>1, <1>2, <2>2, Times DEF WritersFit, TimeFits, PreviousFits, IsLatest
    <2> QED BY <2>1, <2>2
  <1> QED BY <1>3, <1>4, <1>5, <1>6 DEF AuditIndInv, WritersFit

\* Only the holder of the lock is anywhere between the lock and the commit.
LEMMA HolderAlone ==
    ASSUME AuditTypeOK, NEW w \in Writer, writer[w].at \in {"locked", "timed", "hashed"}
    PROVE  /\ auditLock = w
           /\ \A u \in Writer : u # w => writer[u].at \notin {"locked", "timed", "hashed"}
  BY DEF AuditTypeOK

\* The lock is taken.
LEMMA LockHolds == ASSUME AuditIndInv, NEW w \in Writer, LockChain(w) PROVE AuditIndInv'
  <1>1. AuditTypeOK
    BY DEF AuditIndInv
  <1> DEFINE newRow == [at |-> "locked", time |-> writer[w].time, previous |-> writer[w].previous]
  <1>2. newRow \in Writers /\ newRow.at = "locked"
    BY <1>1, Times DEF Writers
  <1>3. writer' = [writer EXCEPT ![w] = newRow]
    <2>1. newRow = [writer[w] EXCEPT !.at = "locked"]
      BY <1>1 DEF AuditTypeOK
    <2> QED BY <2>1 DEF LockChain
  <1> HIDE DEF newRow
  <1>4. auditLock' = w /\ auditLock = NoWriter /\ auditLog' = auditLog /\ clock' = clock
    BY DEF LockChain
  <1>5. \A u \in Writer : auditLock' = u <=> writer'[u].at \in {"locked", "timed", "hashed"}
    BY <1>1, <1>2, <1>3, <1>4, AuditBounds DEF AuditTypeOK
  <1>6. /\ auditLock' \in Writer \cup {NoWriter}
        /\ clock' \in 0 .. MaxTime /\ clock <= clock'
    BY <1>1, <1>4, Times DEF AuditTypeOK
  <1> QED BY <1>2, <1>3, <1>4, <1>5, <1>6, WriterHolds

\* The clock is read: it is later than everything that was committed.
LEMMA ReadHolds == ASSUME AuditIndInv, NEW w \in Writer, ReadClock(w) PROVE AuditIndInv'
  <1>1. AuditTypeOK /\ LogIsPast
    BY DEF AuditIndInv
  <1> DEFINE newRow == [at |-> "timed", time |-> clock + 1, previous |-> NoEntry]
  <1>2. /\ writer[w].at = "locked" /\ clock < MaxTime /\ clock' = clock + 1
        /\ auditLog' = auditLog /\ auditLock' = auditLock
        /\ writer' = [writer EXCEPT ![w] = newRow]
    BY DEF ReadClock
  <1>3. clock + 1 \in 0 .. MaxTime /\ clock + 1 \in 1 .. clock'
    BY <1>1, <1>2, Times
  <1>4. newRow \in Writers /\ newRow.at = "timed" /\ newRow.time = clock + 1
    BY <1>1, <1>3, Times DEF Writers
  <1> HIDE DEF newRow
  <1>5. \A e \in auditLog : e.at < newRow.time
    BY <1>1, <1>4, Times DEF LogIsPast
  <1>6. \A u \in Writer : auditLock' = u <=> writer'[u].at \in {"locked", "timed", "hashed"}
    BY <1>1, <1>2, <1>4 DEF AuditTypeOK
  <1>7. auditLock' \in Writer \cup {NoWriter} /\ clock <= clock'
    BY <1>1, <1>2, Times DEF AuditTypeOK
  <1> QED BY <1>2, <1>3, <1>4, <1>5, <1>6, <1>7, WriterHolds

\* The latest entry is found, if there is one.
LEMMA HashHolds == ASSUME AuditIndInv, NEW w \in Writer, HashEntry(w) PROVE AuditIndInv'
  <1>1. AuditTypeOK /\ LogHasLatest /\ WritersFit
    BY DEF AuditIndInv
  <1> DEFINE latest == CHOOSE e \in Latest : TRUE
             previous == IF auditLog = {} THEN NoEntry ELSE latest.entry
             newRow == [at |-> "hashed", time |-> writer[w].time, previous |-> previous]
  <1>2. auditLog # {} => latest \in Latest
    BY <1>1 DEF LogHasLatest, IsLatest, Latest
  <1>3. auditLog # {} => latest \in auditLog /\ IsLatest(latest)
    BY <1>2 DEF Latest, IsLatest
  <1> HIDE DEF latest
  <1>4. previous \in Entry \cup {NoEntry}
    BY <1>1, <1>3 DEF AuditTypeOK
  <1>5. IF auditLog = {} THEN previous = NoEntry
        ELSE \E f \in auditLog : f.entry = previous /\ IsLatest(f)
    BY <1>3
  <1>6. /\ writer[w].at = "timed" /\ auditLog' = auditLog /\ auditLock' = auditLock
        /\ clock' = clock /\ writer' = [writer EXCEPT ![w] = newRow]
    BY DEF HashEntry, latest
  <1> HIDE DEF previous
  <1>7. /\ newRow \in Writers /\ newRow.at = "hashed" /\ newRow.time = writer[w].time
        /\ newRow.previous = previous
    BY <1>1, <1>4, Times DEF Writers
  <1> HIDE DEF newRow
  <1>8. newRow.time \in 1 .. clock' /\ \A e \in auditLog : e.at < newRow.time
    BY <1>1, <1>6, <1>7 DEF WritersFit, TimeFits
  <1>9. \A u \in Writer : auditLock' = u <=> writer'[u].at \in {"locked", "timed", "hashed"}
    BY <1>1, <1>6, <1>7 DEF AuditTypeOK
  <1>10. /\ auditLock' \in Writer \cup {NoWriter}
         /\ clock' \in 0 .. MaxTime /\ clock <= clock'
    BY <1>1, <1>6, Times DEF AuditTypeOK
  <1> QED BY <1>5, <1>6, <1>7, <1>8, <1>9, <1>10, WriterHolds

\* A handler that raises leaves the log as it was.
LEMMA RollBackHolds == ASSUME AuditIndInv, NEW w \in Writer, RollBack(w) PROVE AuditIndInv'
  <1>1. AuditTypeOK
    BY DEF AuditIndInv
  <1> DEFINE newRow == [at |-> "done", time |-> writer[w].time, previous |-> writer[w].previous]
  <1>2. newRow \in Writers /\ newRow.at = "done"
    BY <1>1, Times DEF Writers
  <1>3. writer' = [writer EXCEPT ![w] = newRow]
    <2>1. newRow = [writer[w] EXCEPT !.at = "done"]
      BY <1>1 DEF AuditTypeOK
    <2> QED BY <2>1 DEF RollBack
  <1> HIDE DEF newRow
  <1>4. /\ auditLock' = NoWriter /\ auditLog' = auditLog /\ clock' = clock
        /\ writer[w].at \in {"locked", "timed", "hashed"}
    BY DEF RollBack
  <1>5. \A u \in Writer : auditLock' = u <=> writer'[u].at \in {"locked", "timed", "hashed"}
    BY <1>1, <1>2, <1>3, <1>4, HolderAlone, AuditBounds DEF AuditTypeOK
  <1>6. /\ auditLock' \in Writer \cup {NoWriter}
        /\ clock' \in 0 .. MaxTime /\ clock <= clock'
    BY <1>1, <1>4, Times DEF AuditTypeOK
  <1> QED BY <1>2, <1>3, <1>4, <1>5, <1>6, WriterHolds

\* A commit adds the entry behind the latest.
LEMMA CommitHolds == ASSUME AuditIndInv, NEW w \in Writer, CommitEntry(w) PROVE AuditIndInv'
  <1>1. AuditTypeOK /\ OneChain /\ LogIsPast /\ LogHasLatest /\ WritersFit
    BY DEF AuditIndInv
  <1> DEFINE new == [entry |-> w, at |-> writer[w].time, previous |-> writer[w].previous]
             newRow == [at |-> "done", time |-> writer[w].time, previous |-> writer[w].previous]
  <1>2. /\ writer[w].at = "hashed" /\ auditLog' = auditLog \cup {new}
        /\ auditLock' = NoWriter /\ clock' = clock
        /\ writer' = [writer EXCEPT ![w] = newRow]
    <2>1. newRow = [writer[w] EXCEPT !.at = "done"]
      BY <1>1 DEF AuditTypeOK
    <2> QED BY <2>1 DEF CommitEntry
  <1>3. /\ writer[w].time \in 1 .. clock
        /\ \A e \in auditLog : e.at < writer[w].time
        /\ IF auditLog = {} THEN writer[w].previous = NoEntry
           ELSE \E f \in auditLog : f.entry = writer[w].previous /\ IsLatest(f)
    BY <1>1, <1>2 DEF WritersFit, TimeFits, PreviousFits
  <1>4. writer[w].time \in 1 .. MaxTime
    BY <1>1, <1>3, Times
  <1>5. /\ new \in Entries /\ new.at = writer[w].time
        /\ new.previous = writer[w].previous
    BY <1>1, <1>4, Times DEF Entries, Entry, Writers
  <1>6. newRow \in Writers /\ newRow.at = "done"
    BY <1>1, Times DEF Writers
  <1> HIDE DEF new, newRow
  <1>7. \A u \in Writer : writer'[u].at \notin {"locked", "timed", "hashed"}
    BY <1>1, <1>2, <1>6, HolderAlone DEF AuditTypeOK
  <1>8. AuditTypeOK'
    BY <1>1, <1>2, <1>5, <1>6, <1>7, AuditBounds DEF AuditTypeOK, Writers, Entries
  <1>9. WritersFit'
    BY <1>7 DEF WritersFit, TimeFits, PreviousFits
  <1>10. \A e \in auditLog : e.at < new.at
    BY <1>3, <1>5
  <1>11. LogIsPast'
    BY <1>1, <1>2, <1>3, <1>5 DEF LogIsPast
  <1>12. LogHasLatest'
    <2>1. new.at \in Nat /\ \A e \in auditLog : e.at \in Nat /\ e.at <= new.at
      BY <1>1, <1>4, <1>5, <1>10, Times
    <2>2. new \in auditLog' /\ \A e \in auditLog' : e.at <= new.at
      BY <1>2, <2>1
    <2> QED BY <2>2 DEF LogHasLatest, IsLatest
  <1>13. ASSUME NEW e \in auditLog'
         PROVE  LET earlier == {f \in auditLog' : f.at < e.at} IN
                IF earlier = {} THEN e.previous = NoEntry
                ELSE \E f \in earlier : f.entry = e.previous /\ \A g \in earlier : g.at <= f.at
    <2>1. CASE e = new
      <3>1. {f \in auditLog' : f.at < e.at} = auditLog
        BY <1>2, <1>4, <1>5, <1>10, <2>1
      <3> QED BY <1>3, <1>5, <2>1, <3>1 DEF IsLatest
    <2>2. CASE e \in auditLog
      <3>1. ~(new.at < e.at)
        BY <1>1, <1>4, <1>5, <1>10, <2>2, Times
      <3>2. {f \in auditLog' : f.at < e.at} = {f \in auditLog : f.at < e.at}
        BY <1>2, <3>1
      <3> QED BY <1>1, <2>2, <3>2 DEF OneChain
    <2> QED BY <1>2, <2>1, <2>2
  <1>14. OneChain'
    BY <1>13 DEF OneChain
  <1> QED BY <1>8, <1>9, <1>11, <1>12, <1>14 DEF AuditIndInv

-------------------------------------------------------------------------------
(* The theorems. *)

\* add_audit: in every state the writers between lock and commit fit the log.
THEOREM ChainIsExtended == AuditSpec => []AuditIndInv
  <1>1. AuditIndInv /\ UNCHANGED auditVars => AuditIndInv'
    BY DEF auditVars, AuditIndInv, AuditTypeOK, OneChain, LogIsPast, LogHasLatest, IsLatest,
           WritersFit, TimeFits, PreviousFits
  <1>2. AuditIndInv /\ [AuditNext]_auditVars => AuditIndInv'
    BY <1>1, LockHolds, ReadHolds, HashHolds, CommitHolds, RollBackHolds DEF AuditNext
  <1> QED BY <1>2, AuditInitHolds, PTL DEF AuditSpec

\* The audit log is one chain in the order of its times.
THEOREM AuditInvariant == AuditSpec => []AuditInv
  <1>1. AuditIndInv => AuditInv
    BY DEF AuditIndInv, AuditInv
  <1> QED BY <1>1, ChainIsExtended, PTL

-------------------------------------------------------------------------------
(***************************************************************************)
(* One version in use and jobs that run as asked, for any number of        *)
(* administrators, versions, jobs and attempts.                            *)
(***************************************************************************)

\* Nothing is in use before the first activation, and one version from then on.
ActivationIsKept ==
    IF activated THEN \E c \in 1 .. configs : inUse = {c} ELSE inUse = {}

\* Whoever numbers a version has the lock; whoever activates one has an existing one.
AdminFits(a) ==
    /\ admin[a].at = "adding" => configLock = a
    /\ admin[a].at \in {"loaded", "locked", "clearing"} => admin[a].config \in 1 .. configs

\* The snapshot is what was asked for, and is all that an attempt uses.
SnapshotFits(s) ==
    /\ snapshot[s].config = snapshot[s].asked
    /\ snapshot[s].used # NotTaken => snapshot[s].used = snapshot[s].config

ConfigurationIndInv ==
    /\ ConfigurationTypeOK /\ ActivationIsKept
    /\ \A a \in Admin : AdminFits(a)
    /\ \A s \in Snapshot : SnapshotFits(s)

Admins == [at : {"away", "adding", "loaded", "locked", "clearing"},
           config : 0 .. MaxConfigs, wasActive : BOOLEAN, cleared : SUBSET ConfigNo]

Snapshots == [attempt : 0 .. MaxTries, asked : 0 .. NotTaken,
              config : 0 .. NotTaken, used : 0 .. NotTaken]

\* The types, one by one.
LEMMA Types ==
    ASSUME ConfigurationTypeOK
    PROVE  /\ MaxConfigs \in Nat /\ MaxTries \in Nat
           /\ configs \in Nat /\ configs <= MaxConfigs /\ inUse \subseteq 1 .. configs
           /\ configLock \in Admin \cup {NoAdmin} /\ activated \in BOOLEAN
           /\ admin \in [Admin -> Admins] /\ \A a \in Admin : admin[a] \in Admins
           /\ \A a \in Admin : admin[a].at = "adding" => admin[a].config = configs + 1
           /\ snapshot \in [Snapshot -> Snapshots]
           /\ \A s \in Snapshot : snapshot[s] \in Snapshots /\ snapshot[s].attempt \in Nat
  BY ConfigurationBounds DEF ConfigurationTypeOK, Admins, Snapshots

\* Nobody is there, and no version.
LEMMA AwayIsAdmin == AwayAdmin \in Admins /\ AwayAdmin.at = "away"
  <1>1. 0 \in 0 .. MaxConfigs
    BY ConfigurationBounds
  <1> QED BY <1>1 DEF AwayAdmin, Admins

\* Nothing is in use, and no job has a snapshot.
LEMMA ConfigurationInitHolds == ConfigurationInit => ConfigurationIndInv
  <1> SUFFICES ASSUME ConfigurationInit PROVE ConfigurationIndInv
    OBVIOUS
  <1> DEFINE blank == [attempt |-> 0, asked |-> NotTaken, config |-> NotTaken,
                       used |-> NotTaken]
  <1>1. 0 \in 0 .. MaxConfigs /\ 0 \in 0 .. MaxTries /\ NotTaken \in 0 .. NotTaken
    BY ConfigurationBounds DEF NotTaken
  <1>2. /\ blank \in Snapshots /\ blank.config = blank.asked
        /\ blank.used = NotTaken
    BY <1>1 DEF Snapshots
  <1>3. \A s \in Snapshot : snapshot[s] = blank
    BY DEF ConfigurationInit
  <1>4. snapshot \in [Snapshot -> Snapshots] /\ admin \in [Admin -> Admins]
    BY <1>2, AwayIsAdmin DEF ConfigurationInit
  <1> HIDE DEF blank
  <1>5. \A a \in Admin : admin[a].at = "away"
    BY AwayIsAdmin DEF ConfigurationInit
  <1>6. ConfigurationTypeOK
    BY <1>1, <1>4, <1>5 DEF ConfigurationInit, ConfigurationTypeOK, Admins, Snapshots
  <1> QED BY <1>2, <1>3, <1>5, <1>6
          DEF ConfigurationInit, ConfigurationIndInv, ActivationIsKept, AdminFits, SnapshotFits

\* A step of one administrator that leaves the versions and the jobs alone.
LEMMA AdminHolds ==
    ASSUME ConfigurationIndInv, NEW a \in Admin, NEW newRow \in Admins,
           admin' = [admin EXCEPT ![a] = newRow],
           UNCHANGED <<configs, inUse, activated, snapshot>>,
           configLock' \in Admin \cup {NoAdmin},
           \A b \in Admin : b # a /\ configLock = b => configLock' = b,
           newRow.at = "adding" => newRow.config = configs + 1 /\ configLock' = a,
           newRow.at \in {"loaded", "locked", "clearing"} => newRow.config \in 1 .. configs
    PROVE  ConfigurationIndInv'
  <1>1. /\ ConfigurationTypeOK /\ ActivationIsKept
        /\ \A b \in Admin : AdminFits(b)
        /\ \A s \in Snapshot : SnapshotFits(s)
    BY DEF ConfigurationIndInv
  <1>2. admin'[a] = newRow /\ \A b \in Admin : b # a => admin'[b] = admin[b]
    BY <1>1, Types
  <1>3. admin' \in [Admin -> Admins]
    BY <1>1, Types
  <1>4. ConfigurationTypeOK'
    BY <1>1, <1>2, <1>3 DEF ConfigurationTypeOK, Admins, Snapshots
  <1>5. ASSUME NEW b \in Admin PROVE AdminFits(b)'
    <2>1. CASE b = a
      BY <1>2, <2>1 DEF AdminFits
    <2>2. CASE b # a
      BY <1>1, <1>2, <2>2 DEF AdminFits
    <2> QED BY <2>1, <2>2
  <1>6. ActivationIsKept' /\ \A s \in Snapshot : SnapshotFits(s)'
    BY <1>1 DEF ActivationIsKept, SnapshotFits
  <1> QED BY <1>4, <1>5, <1>6 DEF ConfigurationIndInv

\* A step of one job.
LEMMA SnapshotHolds ==
    ASSUME ConfigurationIndInv, NEW s \in Snapshot, NEW newRow \in Snapshots,
           snapshot' = [snapshot EXCEPT ![s] = newRow],
           UNCHANGED <<configs, inUse, configLock, admin, activated>>,
           newRow.config = newRow.asked,
           newRow.used # NotTaken => newRow.used = newRow.config
    PROVE  ConfigurationIndInv'
  <1>1. /\ ConfigurationTypeOK /\ ActivationIsKept
        /\ \A b \in Admin : AdminFits(b)
        /\ \A t \in Snapshot : SnapshotFits(t)
    BY DEF ConfigurationIndInv
  <1>2. snapshot'[s] = newRow /\ \A t \in Snapshot : t # s => snapshot'[t] = snapshot[t]
    BY <1>1, Types
  <1>3. snapshot' \in [Snapshot -> Snapshots]
    BY <1>1, Types
  <1>4. ConfigurationTypeOK'
    BY <1>1, <1>3 DEF ConfigurationTypeOK, Admins, Snapshots
  <1>5. ASSUME NEW t \in Snapshot PROVE SnapshotFits(t)'
    BY <1>1, <1>2 DEF SnapshotFits, NotTaken
  <1>6. ActivationIsKept' /\ \A b \in Admin : AdminFits(b)'
    BY <1>1 DEF ActivationIsKept, AdminFits
  <1> QED BY <1>4, <1>5, <1>6 DEF ConfigurationIndInv

\* What administrators do before they commit.
LEMMA LockToAddHolds ==
    ASSUME ConfigurationIndInv, NEW a \in Admin, LockToAdd(a) PROVE ConfigurationIndInv'
  <1> DEFINE newRow == [at |-> "adding", config |-> configs + 1, wasActive |-> FALSE,
                     cleared |-> {}]
  <1>1. ConfigurationTypeOK
    BY DEF ConfigurationIndInv
  <1>2. /\ configLock = NoAdmin /\ configs < MaxConfigs /\ configLock' = a
        /\ admin' = [admin EXCEPT ![a] = newRow]
        /\ UNCHANGED <<configs, inUse, activated, snapshot>>
    BY DEF LockToAdd
  <1>3. configs + 1 \in 0 .. MaxConfigs
    BY <1>1, <1>2, Types
  <1>4. newRow \in Admins /\ newRow.at = "adding" /\ newRow.config = configs + 1
    BY <1>3 DEF Admins
  <1> HIDE DEF newRow
  <1> QED BY <1>2, <1>4, AdminHolds, ConfigurationBounds

\* An administrator loads the row to activate, before the lock.
LEMMA LoadHolds ==
    ASSUME ConfigurationIndInv, NEW a \in Admin, NEW c \in ConfigNo, LoadConfig(a, c)
    PROVE  ConfigurationIndInv'
  <1> DEFINE newRow == [at |-> "loaded", config |-> c, wasActive |-> c \in inUse, cleared |-> {}]
  <1>1. ConfigurationTypeOK
    BY DEF ConfigurationIndInv
  <1>2. /\ c \in 1 .. configs /\ configLock' = configLock
        /\ admin' = [admin EXCEPT ![a] = newRow]
        /\ UNCHANGED <<configs, inUse, activated, snapshot>>
    BY DEF LoadConfig
  <1>3. c \in 0 .. MaxConfigs /\ (c \in inUse) \in BOOLEAN
    BY <1>1, <1>2, Types
  <1>4. newRow \in Admins /\ newRow.at = "loaded" /\ newRow.config = c
    BY <1>3 DEF Admins
  <1> HIDE DEF newRow
  <1>5. configLock' \in Admin \cup {NoAdmin}
    BY <1>1, <1>2, Types
  <1> QED BY <1>2, <1>4, <1>5, AdminHolds

\* The lock goes to one administrator at a time.
LEMMA LockToActivateHolds ==
    ASSUME ConfigurationIndInv, NEW a \in Admin, LockToActivate(a) PROVE ConfigurationIndInv'
  <1> DEFINE newRow == [at |-> "locked", config |-> admin[a].config,
                     wasActive |-> admin[a].wasActive, cleared |-> admin[a].cleared]
  <1>1. ConfigurationTypeOK /\ AdminFits(a)
    BY DEF ConfigurationIndInv
  <1>2. newRow = [admin[a] EXCEPT !.at = "locked"]
    BY <1>1, Types DEF Admins
  <1>3. /\ admin[a].at = "loaded" /\ configLock = NoAdmin /\ configLock' = a
        /\ admin' = [admin EXCEPT ![a] = newRow]
        /\ UNCHANGED <<configs, inUse, activated, snapshot>>
    BY <1>2 DEF LockToActivate
  <1>4. newRow \in Admins /\ newRow.at = "locked" /\ newRow.config = admin[a].config
    BY <1>1, Types DEF Admins
  <1> HIDE DEF newRow
  <1>5. admin[a].config \in 1 .. configs
    BY <1>1, <1>3 DEF AdminFits
  <1> QED BY <1>3, <1>4, <1>5, AdminHolds, ConfigurationBounds

\* Under the lock an administrator deactivates what it finds in use.
LEMMA DeactivateHolds ==
    ASSUME ConfigurationIndInv, NEW a \in Admin, Deactivate(a) PROVE ConfigurationIndInv'
  <1> DEFINE newRow == [at |-> "clearing", config |-> admin[a].config,
                     wasActive |-> admin[a].wasActive, cleared |-> inUse]
  <1>1. ConfigurationTypeOK /\ AdminFits(a)
    BY DEF ConfigurationIndInv
  <1>2. /\ admin[a].at = "locked" /\ configLock' = configLock
        /\ admin' = [admin EXCEPT ![a] = newRow]
        /\ UNCHANGED <<configs, inUse, activated, snapshot>>
    BY DEF Deactivate
  <1>3. inUse \in SUBSET ConfigNo
    BY <1>1, Types DEF ConfigNo
  <1>4. newRow \in Admins /\ newRow.at = "clearing" /\ newRow.config = admin[a].config
    BY <1>1, <1>3, Types DEF Admins
  <1> HIDE DEF newRow
  <1>5. admin[a].config \in 1 .. configs /\ configLock' \in Admin \cup {NoAdmin}
    BY <1>1, <1>2, Types DEF AdminFits
  <1> QED BY <1>2, <1>4, <1>5, AdminHolds

\* A request that breaks off has changed no version.
LEMMA AbandonHolds ==
    ASSUME ConfigurationIndInv, NEW a \in Admin, AbandonConfig(a) PROVE ConfigurationIndInv'
  <1>1. ConfigurationTypeOK
    BY DEF ConfigurationIndInv
  <1>2. /\ configLock' = IF configLock = a THEN NoAdmin ELSE configLock
        /\ admin' = [admin EXCEPT ![a] = AwayAdmin]
        /\ UNCHANGED <<configs, inUse, activated, snapshot>>
    BY DEF AbandonConfig
  <1>3. configLock' \in Admin \cup {NoAdmin}
    BY <1>1, <1>2, Types
  <1> QED BY <1>2, <1>3, AwayIsAdmin, AdminHolds

\* A version is added by the only one who has its number.
LEMMA AddHolds ==
    ASSUME ConfigurationIndInv, NEW a \in Admin, AddConfig(a) PROVE ConfigurationIndInv'
  <1>1. /\ ConfigurationTypeOK /\ ActivationIsKept
        /\ \A b \in Admin : AdminFits(b)
        /\ \A s \in Snapshot : SnapshotFits(s)
    BY DEF ConfigurationIndInv
  <1>2. /\ admin[a].at = "adding" /\ configs' = admin[a].config
        /\ configLock' = IF configLock = a THEN NoAdmin ELSE configLock
        /\ admin' = [admin EXCEPT ![a] = AwayAdmin]
        /\ UNCHANGED <<inUse, activated, snapshot>>
    BY DEF AddConfig
  <1>3. configs' = configs + 1 /\ configLock = a /\ configs' \in 0 .. MaxConfigs
    BY <1>1, <1>2, Types DEF AdminFits, Admins
  <1>4. /\ admin'[a].at = "away" /\ \A b \in Admin : b # a => admin'[b] = admin[b]
        /\ \A b \in Admin : admin'[b].at # "adding"
        /\ admin' \in [Admin -> Admins]
    BY <1>1, <1>2, <1>3, AwayIsAdmin, Types DEF AdminFits
  <1>5. 1 .. configs \subseteq 1 .. configs' /\ configLock' \in Admin \cup {NoAdmin}
    BY <1>1, <1>2, <1>3, Types
  <1>6. ConfigurationTypeOK'
    BY <1>1, <1>2, <1>3, <1>4, <1>5, Types DEF ConfigurationTypeOK, Admins, Snapshots
  <1>7. ActivationIsKept'
    BY <1>1, <1>2, <1>5 DEF ActivationIsKept
  <1>8. \A b \in Admin : AdminFits(b)'
    BY <1>1, <1>4, <1>5 DEF AdminFits
  <1>9. \A s \in Snapshot : SnapshotFits(s)'
    BY <1>1, <1>2 DEF SnapshotFits
  <1> QED BY <1>6, <1>7, <1>8, <1>9 DEF ConfigurationIndInv

\* An activation that passes the unique index leaves just its version active.
LEMMA ActivateHolds ==
    ASSUME ConfigurationIndInv, NEW a \in Admin, Activate(a) PROVE ConfigurationIndInv'
  <1>1. /\ ConfigurationTypeOK /\ \A b \in Admin : AdminFits(b)
        /\ \A s \in Snapshot : SnapshotFits(s)
    BY DEF ConfigurationIndInv
  <1>2. /\ admin[a].at = "clearing" /\ inUse' = {admin[a].config} /\ activated' = TRUE
        /\ configLock' = IF configLock = a THEN NoAdmin ELSE configLock
        /\ admin' = [admin EXCEPT ![a] = AwayAdmin]
        /\ configs' = configs /\ snapshot' = snapshot
    BY DEF Activate, WrittenActive
  <1>3. admin[a].config \in 1 .. configs
    BY <1>1, <1>2 DEF AdminFits
  <1>4. /\ admin'[a].at = "away" /\ \A b \in Admin : b # a => admin'[b] = admin[b]
        /\ admin' \in [Admin -> Admins]
    BY <1>1, <1>2, AwayIsAdmin, Types
  <1>5. configLock' \in Admin \cup {NoAdmin}
    BY <1>1, <1>2, Types
  <1>6. ConfigurationTypeOK'
    BY <1>1, <1>2, <1>3, <1>4, <1>5 DEF ConfigurationTypeOK, Admins, Snapshots
  <1>7. ActivationIsKept'
    BY <1>2, <1>3 DEF ActivationIsKept
  <1>8. \A b \in Admin : AdminFits(b)'
    BY <1>1, <1>2, <1>4 DEF AdminFits
  <1>9. \A s \in Snapshot : SnapshotFits(s)'
    BY <1>1, <1>2 DEF SnapshotFits
  <1> QED BY <1>6, <1>7, <1>8, <1>9 DEF ConfigurationIndInv

\* What jobs do.
LEMMA TakeHolds ==
    ASSUME ConfigurationIndInv, NEW s \in Snapshot, TakeSnapshot(s) PROVE ConfigurationIndInv'
  <1> DEFINE newRow == [attempt |-> 1, asked |-> Current, config |-> Current, used |-> NotTaken]
  <1>1. ConfigurationTypeOK
    BY DEF ConfigurationIndInv
  <1>2. /\ MaxTries > 0 /\ snapshot' = [snapshot EXCEPT ![s] = newRow]
        /\ UNCHANGED <<configs, inUse, configLock, admin, activated>>
    BY DEF TakeSnapshot
  <1>3. Current \in 0 .. NotTaken
    <2>1. inUse # {} => (CHOOSE c \in inUse : TRUE) \in inUse
      OBVIOUS
    <2> QED BY <1>1, <2>1, Types DEF Current, NotTaken
  <1>4. 1 \in 0 .. MaxTries /\ NotTaken \in 0 .. NotTaken
    BY <1>2, ConfigurationBounds DEF NotTaken
  <1>5. newRow \in Snapshots /\ newRow.config = newRow.asked /\ newRow.used = NotTaken
    BY <1>3, <1>4 DEF Snapshots
  <1> HIDE DEF newRow
  <1> QED BY <1>2, <1>5, SnapshotHolds

\* A retry hands the snapshot of the attempt on.
LEMMA KeepHolds ==
    ASSUME ConfigurationIndInv, NEW s \in Snapshot, KeepSnapshot(s) PROVE ConfigurationIndInv'
  <1> DEFINE newRow == [attempt |-> snapshot[s].attempt + 1, asked |-> snapshot[s].asked,
                     config |-> snapshot[s].config, used |-> NotTaken]
  <1>1. ConfigurationTypeOK /\ SnapshotFits(s)
    BY DEF ConfigurationIndInv
  <1>2. /\ snapshot[s].attempt \in 1 .. MaxTries - 1
        /\ snapshot' = [snapshot EXCEPT ![s] = newRow]
        /\ UNCHANGED <<configs, inUse, configLock, admin, activated>>
    BY DEF KeepSnapshot
  <1>3. snapshot[s].attempt + 1 \in 0 .. MaxTries /\ NotTaken \in 0 .. NotTaken
    BY <1>2, ConfigurationBounds DEF NotTaken
  <1>4. /\ newRow \in Snapshots /\ newRow.config = snapshot[s].config
        /\ newRow.asked = snapshot[s].asked /\ newRow.used = NotTaken
    BY <1>1, <1>3, Types DEF Snapshots
  <1> HIDE DEF newRow
  <1>5. newRow.config = newRow.asked
    BY <1>1, <1>4 DEF SnapshotFits
  <1> QED BY <1>2, <1>4, <1>5, SnapshotHolds

\* An executor calls its provider with the snapshot's version.
LEMMA UseHolds ==
    ASSUME ConfigurationIndInv, NEW s \in Snapshot, UseSnapshot(s) PROVE ConfigurationIndInv'
  <1> DEFINE newRow == [attempt |-> snapshot[s].attempt, asked |-> snapshot[s].asked,
                     config |-> snapshot[s].config, used |-> snapshot[s].config]
  <1>1. ConfigurationTypeOK /\ SnapshotFits(s)
    BY DEF ConfigurationIndInv
  <1>2. newRow = [snapshot[s] EXCEPT !.used = snapshot[s].config]
    BY <1>1, Types DEF Snapshots
  <1>3. /\ snapshot' = [snapshot EXCEPT ![s] = newRow]
        /\ UNCHANGED <<configs, inUse, configLock, admin, activated>>
    BY <1>2 DEF UseSnapshot
  <1>4. /\ newRow \in Snapshots /\ newRow.config = snapshot[s].config
        /\ newRow.asked = snapshot[s].asked /\ newRow.used = snapshot[s].config
    BY <1>1, Types DEF Snapshots
  <1> HIDE DEF newRow
  <1>5. newRow.config = newRow.asked
    BY <1>1, <1>4 DEF SnapshotFits
  <1> QED BY <1>3, <1>4, <1>5, SnapshotHolds

-------------------------------------------------------------------------------
(* The theorems. *)

\* The locks of administrators and the snapshots of jobs fit the versions.
THEOREM LocksAndSnapshotsFit == ConfigurationSpec => []ConfigurationIndInv
  <1>1. ConfigurationIndInv /\ UNCHANGED configurationVars => ConfigurationIndInv'
    BY DEF configurationVars, ConfigurationIndInv, ConfigurationTypeOK, ActivationIsKept,
           AdminFits, SnapshotFits
  <1>2. ConfigurationIndInv /\ [ConfigurationNext]_configurationVars => ConfigurationIndInv'
    BY <1>1, LockToAddHolds, AddHolds, LoadHolds, LockToActivateHolds, DeactivateHolds,
       ActivateHolds, AbandonHolds, TakeHolds, KeepHolds, UseHolds DEF ConfigurationNext
  <1> QED BY <1>2, ConfigurationInitHolds, PTL DEF ConfigurationSpec

\* One version is in use from the first activation on, and an attempt of a job uses
\* the one that was in use when the job was asked for.
THEOREM ConfigurationInvariant == ConfigurationSpec => []ConfigurationInv
  <1>1. ConfigurationIndInv => OneInUse
    <2>1. ConfigurationIndInv /\ activated => Cardinality(inUse) = 1
      BY FS_Singleton DEF ConfigurationIndInv, ActivationIsKept
    <2>2. ConfigurationIndInv /\ ~activated => Cardinality(inUse) = 0
      BY FS_EmptySet DEF ConfigurationIndInv, ActivationIsKept
    <2> QED BY <2>1, <2>2 DEF OneInUse
  <1>2. ConfigurationIndInv => RunsAsAsked
    BY DEF ConfigurationIndInv, SnapshotFits, RunsAsAsked
  <1>3. ConfigurationIndInv => ConfigurationInv
    BY <1>1, <1>2 DEF ConfigurationIndInv, ConfigurationInv
  <1> QED BY <1>3, LocksAndSnapshotsFit, PTL

-------------------------------------------------------------------------------
(***************************************************************************)
(* One key, any number of requests and of rows.  What is proved rests on   *)
(* what happens to rows: a row belongs to one request, a request that      *)
(* executes finds its row uncompleted, and a row stays until the request   *)
(* that reserved it has given it back.                                     *)
(***************************************************************************)

Executes(c) == call[c].at \in {"executing", "acted"}

\* Rows have owners: two requests never share one.
RowsAreOwned ==
    /\ record.id <= inserts
    /\ \A c \in Call : call[c].id <= inserts
    /\ \A c, d \in Call : call[c].id # 0 /\ call[c].id = call[d].id => c = d

\* Its row has been given back.
GivenBack(request) == request.outcome \in {"error", "unrecorded"}

\* What a request knows of its row.
CallFits(c) ==
    /\ Executes(c) => call[c].id # 0 /\ ~record.completed
    /\ call[c].at \in {"new", "looked", "raced"} => call[c].id = 0
    /\ call[c].at \in {"new", "looked", "raced", "executing"} => effects[c] = 0
    /\ call[c].id # 0 => call[c].id = record.id \/ GivenBack(call[c])
    /\ effects[c] = 1 =>
          call[c].outcome = "unrecorded" \/ (call[c].id # 0 /\ call[c].id = record.id)

IdempotencyIndInv ==
    IdempotencyTypeOK /\ OneExecutes /\ RowsAreOwned /\ (\A c \in Call : CallFits(c))

Records == [id : 0 .. MaxInserts, digest : Digest \cup {"none"},
            completed : BOOLEAN, age : 0 .. Patience]

Calls == [at : {"new", "looked", "raced", "executing", "acted", "over"},
          digest : Digest \cup {"none"}, id : 0 .. MaxInserts, outcome : Outcomes]

\* The types, one by one.
LEMMA KeyTypes ==
    ASSUME IdempotencyTypeOK
    PROVE  /\ MaxInserts \in Nat /\ Patience \in Nat
           /\ record \in Records /\ record.id \in Nat
           /\ inserts \in Nat /\ inserts <= MaxInserts
           /\ call \in [Call -> Calls]
           /\ \A c \in Call : call[c] \in Calls /\ call[c].id \in Nat
           /\ answered \subseteq 1 .. MaxInserts
           /\ \A c \in Call : Executes(c) => call[c].id = record.id
           /\ answered # {} => record.completed /\ record.id \in answered
  BY IdempotencyBounds DEF IdempotencyTypeOK, Records, Calls, Executes

\* A key nobody has used.
LEMMA IdempotencyInitHolds == IdempotencyInit => IdempotencyIndInv
  <1> SUFFICES ASSUME IdempotencyInit PROVE IdempotencyIndInv
    OBVIOUS
  <1>1. 0 \in 0 .. MaxInserts /\ 0 \in 0 .. Patience /\ 0 \in 0 .. 1
    BY IdempotencyBounds
  <1>2. /\ record \in Records /\ record.id = 0
        /\ call \in [Call -> Calls] /\ effects \in [Call -> 0 .. 1]
        /\ \A c \in Call : call[c].at = "new" /\ call[c].id = 0 /\ call[c].outcome = "none"
    BY <1>1 DEF IdempotencyInit, NoRecord, Records, Calls, Outcomes
  <1>3. IdempotencyTypeOK
    BY <1>1, <1>2 DEF IdempotencyInit, IdempotencyTypeOK, Records, Calls
  <1>4. OneExecutes /\ \A c \in Call : CallFits(c)
    <2>1. \A c \in Call : effects[c] = 0
      BY DEF IdempotencyInit
    <2> QED BY <1>2, <2>1 DEF OneExecutes, CallFits, Executes
  <1>5. RowsAreOwned
    BY <1>2, IdempotencyBounds DEF IdempotencyInit, RowsAreOwned
  <1> QED BY <1>3, <1>4, <1>5 DEF IdempotencyIndInv

\* A step of one request that changes no row.
LEMMA QuietHolds ==
    ASSUME IdempotencyIndInv, NEW c \in Call, NEW newRow \in Calls,
           call' = [call EXCEPT ![c] = newRow],
           UNCHANGED <<record, inserts, answered>>, effects' \in [Call -> 0 .. 1],
           newRow.id = call[c].id,
           newRow.at \in {"executing", "acted"} => Executes(c),
           newRow.at \in {"new", "looked", "raced"} => newRow.id = 0,
           newRow.id # 0 => newRow.id = record.id \/ GivenBack(newRow),
           newRow.at \in {"new", "looked", "raced", "executing"} => effects'[c] = 0,
           effects'[c] = 1 =>
               newRow.outcome = "unrecorded" \/ (newRow.id # 0 /\ newRow.id = record.id),
           \A d \in Call : d # c => effects'[d] = effects[d]
    PROVE  IdempotencyIndInv'
  <1>1. IdempotencyTypeOK /\ OneExecutes /\ RowsAreOwned /\ \A d \in Call : CallFits(d)
    BY DEF IdempotencyIndInv
  <1>2. call'[c] = newRow /\ \A d \in Call : d # c => call'[d] = call[d]
    BY <1>1, KeyTypes
  <1>3. \A d \in Call : call'[d].id = call[d].id
    BY <1>2
  <1>4. \A d \in Call : call'[d].at \in {"executing", "acted"} => Executes(d)
    BY <1>2 DEF Executes
  <1>5. IdempotencyTypeOK'
    <2>1. call' \in [Call -> Calls]
      BY <1>1, KeyTypes
    <2> QED BY <1>1, <1>3, <1>4, <2>1 DEF IdempotencyTypeOK, Calls, Executes
  <1>6. OneExecutes'
    BY <1>1, <1>4 DEF OneExecutes, Executes
  <1>7. RowsAreOwned'
    BY <1>1, <1>3 DEF RowsAreOwned
  <1>8. ASSUME NEW d \in Call PROVE CallFits(d)'
    <2>1. CASE d = c
      BY <1>1, <1>2, <2>1 DEF CallFits, Executes
    <2>2. CASE d # c
      BY <1>1, <1>2, <2>2 DEF CallFits, Executes
    <2> QED BY <2>1, <2>2
  <1> QED BY <1>5, <1>6, <1>7, <1>8 DEF IdempotencyIndInv

\* Looking for the row.
LEMMA LookUpHolds ==
    ASSUME IdempotencyIndInv, NEW c \in Call, NEW digest \in Digest, LookUp(c, digest)
    PROVE  IdempotencyIndInv'
  <1> DEFINE at == IF MayGoOn THEN "looked" ELSE "over"
             outcome == IF MayGoOn THEN "none" ELSE "conflict"
             newRow == [at |-> at, digest |-> digest, id |-> 0, outcome |-> outcome]
  <1>1. IdempotencyTypeOK /\ CallFits(c)
    BY DEF IdempotencyIndInv
  <1>2. /\ call[c].at = "new" /\ call' = [call EXCEPT ![c] = newRow]
        /\ UNCHANGED <<record, inserts, effects, answered>>
    BY DEF LookUp
  <1>3. at \in {"looked", "over"} /\ outcome \in {"none", "conflict"}
    OBVIOUS
  <1> HIDE DEF at, outcome
  <1>4. newRow \in Calls /\ newRow.id = 0 /\ newRow.at \in {"looked", "over"}
    BY <1>1, <1>3, KeyTypes DEF Calls, Outcomes
  <1> HIDE DEF newRow
  <1>5. call[c].id = 0 /\ effects[c] = 0
    BY <1>1, <1>2 DEF CallFits
  <1>6. effects' \in [Call -> 0 .. 1] /\ \A d \in Call : effects'[d] = effects[d]
    BY <1>1, <1>2 DEF IdempotencyTypeOK
  <1>7. effects'[c] = 0 /\ effects'[c] # 1
    BY <1>5, <1>6
  <1>8. /\ newRow.at \notin {"executing", "acted"} /\ newRow.id = call[c].id
        /\ UNCHANGED <<record, inserts, answered>>
    BY <1>2, <1>4, <1>5
  <1> QED BY <1>2, <1>4, <1>6, <1>7, <1>8, QuietHolds

\* The end of a request, its row being left as it is.
LEMMA EndHolds ==
    ASSUME IdempotencyIndInv, NEW c \in Call, NEW outcome \in Outcomes, Ends(c, outcome),
           UNCHANGED <<record, inserts, effects, answered>>,
           call[c].at \in {"looked", "raced"} \/ Executes(c)
    PROVE  IdempotencyIndInv'
  <1> DEFINE newRow == [at |-> "over", digest |-> call[c].digest, id |-> call[c].id,
                     outcome |-> outcome]
  <1>1. IdempotencyTypeOK /\ CallFits(c)
    BY DEF IdempotencyIndInv
  <1>2. call' = [call EXCEPT ![c] = newRow]
    BY DEF Ends
  <1>3. /\ newRow \in Calls /\ newRow.id = call[c].id /\ newRow.at = "over"
        /\ newRow.outcome = outcome
    BY <1>1, KeyTypes DEF Calls
  <1> HIDE DEF newRow
  <1>4. /\ call[c].id # 0 => call[c].id = record.id
        /\ effects[c] = 1 => call[c].id # 0 /\ call[c].id = record.id
    BY <1>1, KeyTypes DEF CallFits, Executes
  <1>5. effects' \in [Call -> 0 .. 1]
    BY <1>1 DEF IdempotencyTypeOK
  <1> QED BY <1>2, <1>3, <1>4, <1>5, QuietHolds

\* The endpoint's commit.
LEMMA ActHolds ==
    ASSUME IdempotencyIndInv, NEW c \in Call, Act(c) PROVE IdempotencyIndInv'
  <1> DEFINE newRow == [at |-> "acted", digest |-> call[c].digest, id |-> call[c].id,
                     outcome |-> call[c].outcome]
  <1>1. IdempotencyTypeOK /\ CallFits(c)
    BY DEF IdempotencyIndInv
  <1>2. newRow = [call[c] EXCEPT !.at = "acted"]
    BY <1>1, KeyTypes DEF Calls
  <1>3. /\ call[c].at = "executing" /\ call' = [call EXCEPT ![c] = newRow]
        /\ effects' = [effects EXCEPT ![c] = 1]
        /\ UNCHANGED <<record, inserts, answered>>
    BY <1>2 DEF Act
  <1>4. /\ newRow \in Calls /\ newRow.id = call[c].id /\ newRow.at = "acted"
        /\ newRow.outcome = call[c].outcome
    BY <1>1, KeyTypes DEF Calls
  <1> HIDE DEF newRow
  <1>5. Executes(c) /\ call[c].id = record.id /\ call[c].id # 0
    BY <1>1, <1>3, KeyTypes DEF Executes, CallFits
  <1>6. effects' \in [Call -> 0 .. 1] /\ \A d \in Call : d # c => effects'[d] = effects[d]
    BY <1>1, <1>3 DEF IdempotencyTypeOK
  <1> QED BY <1>3, <1>4, <1>5, <1>6, QuietHolds

\* A reservation: the key has no row, so nobody executes, and all who had one gave it back.
LEMMA FreeKey ==
    ASSUME IdempotencyIndInv, record.id = 0
    PROVE  /\ answered = {}
           /\ \A d \in Call : /\ ~Executes(d)
                              /\ call[d].id # 0 => GivenBack(call[d])
                              /\ effects[d] = 1 => call[d].outcome = "unrecorded"
  <1>1. IdempotencyTypeOK /\ \A d \in Call : CallFits(d)
    BY DEF IdempotencyIndInv
  <1>2. answered = {}
    BY <1>1, KeyTypes
  <1> QED BY <1>1, <1>2, KeyTypes DEF CallFits

\* A request inserts the row of the key, or finds that another one has.
LEMMA ReserveHolds ==
    ASSUME IdempotencyIndInv, NEW c \in Call, Reserve(c) PROVE IdempotencyIndInv'
  <1>1. IdempotencyTypeOK /\ OneExecutes /\ RowsAreOwned /\ \A d \in Call : CallFits(d)
    BY DEF IdempotencyIndInv
  <1>2. CASE record.id # 0
    <2> DEFINE newRow == [at |-> "raced", digest |-> call[c].digest, id |-> call[c].id,
                       outcome |-> call[c].outcome]
    <2>1. newRow = [call[c] EXCEPT !.at = "raced"]
      BY <1>1, KeyTypes DEF Calls
    <2>2. /\ call[c].at = "looked" /\ call' = [call EXCEPT ![c] = newRow]
          /\ UNCHANGED <<record, inserts, effects, answered>>
      BY <1>2, <2>1 DEF Reserve
    <2>3. /\ newRow \in Calls /\ newRow.id = call[c].id /\ newRow.at = "raced"
          /\ newRow.outcome = call[c].outcome
      BY <1>1, KeyTypes DEF Calls
    <2> HIDE DEF newRow
    <2>4. call[c].id = 0 /\ effects[c] = 0 /\ effects' \in [Call -> 0 .. 1]
      BY <1>1, <2>2 DEF CallFits, IdempotencyTypeOK
    <2>5. effects'[c] = 0 /\ effects'[c] # 1 /\ \A d \in Call : effects'[d] = effects[d]
      BY <2>2, <2>4
    <2>6. /\ newRow.at \notin {"executing", "acted"} /\ newRow.id = 0
          /\ UNCHANGED <<record, inserts, answered>>
      BY <2>2, <2>3, <2>4
    <2> QED BY <2>2, <2>3, <2>4, <2>5, <2>6, QuietHolds
  <1>3. CASE record.id = 0
    <2> DEFINE newRow == [at |-> "executing", digest |-> call[c].digest, id |-> inserts + 1,
                       outcome |-> "none"]
               new == [id |-> inserts + 1, digest |-> call[c].digest,
                       completed |-> FALSE, age |-> 0]
    <2>1. /\ inserts < MaxInserts /\ inserts' = inserts + 1 /\ record' = new
          /\ call' = [call EXCEPT ![c] = newRow]
          /\ UNCHANGED <<effects, answered>>
      BY <1>3 DEF Reserve
    <2>2. inserts + 1 \in 0 .. MaxInserts /\ 0 \in 0 .. Patience
      BY <1>1, <2>1, KeyTypes
    <2>3. /\ newRow \in Calls /\ newRow.at = "executing" /\ newRow.id = inserts + 1
          /\ newRow.outcome = "none"
      BY <1>1, <2>2, KeyTypes DEF Calls, Outcomes
    <2>4. new \in Records /\ new.id = inserts + 1 /\ new.completed = FALSE
      BY <1>1, <2>2, KeyTypes DEF Records, Calls
    <2> HIDE DEF newRow, new
    <2>5. call'[c] = newRow /\ \A d \in Call : d # c => call'[d] = call[d]
      BY <1>1, <2>1, KeyTypes
    <2>6. answered = {} /\ \A d \in Call : /\ ~Executes(d)
                                           /\ call[d].id # 0 => GivenBack(call[d])
                                           /\ effects[d] = 1 => call[d].outcome = "unrecorded"
      BY <1>3, FreeKey
    <2>7. IdempotencyTypeOK'
      <3>1. call' \in [Call -> Calls]
        BY <1>1, <2>1, <2>3, KeyTypes
      <3> QED BY <1>1, <2>1, <2>2, <2>3, <2>4, <2>5, <2>6, <3>1
              DEF IdempotencyTypeOK, Calls, Records, Executes
    <2>8. OneExecutes'
      BY <2>5, <2>6 DEF OneExecutes, Executes
    <2>9. RowsAreOwned'
      <3>1. \A d \in Call : call[d].id \in Nat /\ call[d].id <= inserts /\ inserts \in Nat
        BY <1>1, KeyTypes DEF RowsAreOwned
      <3>2. \A d \in Call : d # c => call'[d].id # call'[c].id
        BY <2>3, <2>5, <3>1
      <3>3. record'.id <= inserts' /\ \A d \in Call : call'[d].id <= inserts'
        BY <2>1, <2>3, <2>4, <2>5, <3>1
      <3> QED BY <1>1, <2>5, <3>2, <3>3 DEF RowsAreOwned
    <2>10. ASSUME NEW d \in Call PROVE CallFits(d)'
      <3>1. CASE d = c
        <4>1. inserts + 1 # 0 /\ effects'[c] = 0
          BY <1>1, <1>3, <2>1, KeyTypes DEF Reserve, CallFits
        <4> QED BY <2>1, <2>3, <2>4, <2>5, <3>1, <4>1 DEF CallFits, Executes
      <3>2. CASE d # c
        BY <1>1, <2>1, <2>5, <2>6, <3>2 DEF CallFits, Executes, GivenBack
      <3> QED BY <3>1, <3>2
    <2> QED BY <2>7, <2>8, <2>9, <2>10 DEF IdempotencyIndInv
  <1> QED BY <1>2, <1>3

\* The end of a request that executed, and of its row's wait: nobody else executes.
LEMMA ConcludeHolds ==
    ASSUME IdempotencyIndInv, NEW c \in Call, Executes(c),
           NEW outcome \in Outcomes, Ends(c, outcome),
           inserts' = inserts, effects' = effects,
           record' \in Records, record'.id \in {0, record.id},
           record'.id = 0 => /\ outcome \in {"error", "unrecorded"}
                             /\ effects[c] = 1 => outcome = "unrecorded",
           answered' \subseteq 1 .. MaxInserts,
           answered' # {} => record'.completed /\ record'.id \in answered'
    PROVE  IdempotencyIndInv'
  <1> DEFINE newRow == [at |-> "over", digest |-> call[c].digest, id |-> call[c].id,
                     outcome |-> outcome]
  <1>1. IdempotencyTypeOK /\ OneExecutes /\ RowsAreOwned /\ \A d \in Call : CallFits(d)
    BY DEF IdempotencyIndInv
  <1>2. call' = [call EXCEPT ![c] = newRow]
    BY DEF Ends
  <1>3. /\ newRow \in Calls /\ newRow.id = call[c].id /\ newRow.at = "over"
        /\ newRow.outcome = outcome
    BY <1>1, KeyTypes DEF Calls
  <1> HIDE DEF newRow
  <1>4. call'[c] = newRow /\ \A d \in Call : d # c => call'[d] = call[d]
    BY <1>1, <1>2, KeyTypes
  <1>5. \A d \in Call : call'[d].at \notin {"executing", "acted"}
    BY <1>1, <1>3, <1>4 DEF OneExecutes, Executes
  <1>6. \A d \in Call : call'[d].id = call[d].id
    BY <1>3, <1>4
  <1>7. IdempotencyTypeOK'
    <2>1. call' \in [Call -> Calls]
      BY <1>1, <1>2, <1>3, KeyTypes
    <2> QED BY <1>1, <1>5, <2>1 DEF IdempotencyTypeOK, Calls, Records
  <1>8. OneExecutes'
    BY <1>5 DEF OneExecutes
  <1>9. RowsAreOwned'
    BY <1>1, <1>6, KeyTypes DEF RowsAreOwned
  <1>10. ASSUME NEW d \in Call PROVE CallFits(d)'
    <2>1. CASE d = c
      <3>1. call[c].id = record.id /\ call[c].id # 0
        BY <1>1, KeyTypes DEF CallFits
      <3> QED BY <1>3, <1>4, <2>1, <3>1 DEF CallFits, Executes, GivenBack
    <2>2. CASE d # c
      <3>1. call[c].id = record.id /\ call[c].id # 0
        BY <1>1, KeyTypes DEF CallFits
      <3>2. call[d].id # 0 => call[d].id # record.id
        BY <1>1, <2>2, <3>1 DEF RowsAreOwned
      <3> QED BY <1>1, <1>4, <1>5, <2>2, <3>2 DEF CallFits, Executes, GivenBack
    <2> QED BY <2>1, <2>2
  <1> QED BY <1>7, <1>8, <1>9, <1>10 DEF IdempotencyIndInv

\* A success completes the row.
LEMMA CompleteHolds ==
    ASSUME IdempotencyIndInv, NEW c \in Call, Complete(c) PROVE IdempotencyIndInv'
  <1> DEFINE new == [id |-> record.id, digest |-> record.digest, completed |-> TRUE,
                     age |-> 0]
  <1>1. IdempotencyTypeOK /\ RowsAreOwned /\ CallFits(c)
    BY DEF IdempotencyIndInv
  <1>2. /\ call[c].at = "acted" /\ record' = new
        /\ answered' = answered \cup {call[c].id} /\ Ends(c, "success")
        /\ UNCHANGED <<inserts, effects>>
    BY DEF Complete
  <1>3. Executes(c) /\ call[c].id = record.id /\ call[c].id # 0
    BY <1>1, <1>2, KeyTypes DEF Executes, CallFits
  <1>4. record.id \in 1 .. MaxInserts /\ 0 \in 0 .. Patience
    BY <1>1, <1>3, KeyTypes DEF RowsAreOwned
  <1>5. new \in Records /\ new.id = record.id /\ new.completed
    BY <1>1, <1>4, KeyTypes DEF Records
  <1> HIDE DEF new
  <1>6. answered' \subseteq 1 .. MaxInserts /\ record'.id \in answered'
    BY <1>1, <1>2, <1>3, <1>4, <1>5, KeyTypes
  <1>7. record'.id # 0 /\ record'.completed
    BY <1>2, <1>3, <1>5
  <1>8. "success" \in Outcomes
    BY DEF Outcomes
  <1> QED BY <1>2, <1>3, <1>5, <1>6, <1>7, <1>8, ConcludeHolds

\* A row that is given back, after a refusal or after a commit, is the request's own.
LEMMA DeletesItsOwn ==
    ASSUME IdempotencyIndInv, NEW c \in Call, Executes(c), DeleteReservation(c),
           NEW outcome \in {"error", "unrecorded"}, Ends(c, outcome),
           effects[c] = 1 => outcome = "unrecorded",
           UNCHANGED <<inserts, effects, answered>>
    PROVE  IdempotencyIndInv'
  <1>1. IdempotencyTypeOK /\ RowsAreOwned /\ CallFits(c)
    BY DEF IdempotencyIndInv
  <1>2. call[c].id = record.id /\ call[c].id # 0 /\ ~record.completed
    BY <1>1, KeyTypes DEF CallFits
  <1>3. record' = NoRecord
    BY <1>2 DEF DeleteReservation
  <1>4. NoRecord \in Records /\ NoRecord.id = 0
    <2>1. 0 \in 0 .. MaxInserts /\ 0 \in 0 .. Patience
      BY IdempotencyBounds
    <2> QED BY <2>1 DEF NoRecord, Records
  <1>5. answered = {}
    BY <1>1, <1>2, KeyTypes
  <1>6. outcome \in Outcomes
    BY DEF Outcomes
  <1> QED BY <1>3, <1>4, <1>5, <1>6, ConcludeHolds

\* Without a commit the row goes, and nothing has been done.
LEMMA RefuseHolds ==
    ASSUME IdempotencyIndInv, NEW c \in Call, Refuse(c) PROVE IdempotencyIndInv'
  <1>1. Executes(c) /\ effects[c] = 0
    BY DEF Refuse, Executes, IdempotencyIndInv, CallFits
  <1> QED BY <1>1, DeletesItsOwn DEF Refuse

\* After a commit that is not recorded the row goes, and the request says so.
LEMMA GiveBackHolds ==
    ASSUME IdempotencyIndInv, NEW c \in Call, GiveBack(c) PROVE IdempotencyIndInv'
  <1>1. Executes(c)
    BY DEF GiveBack, Executes
  <1> QED BY <1>1, DeletesItsOwn DEF GiveBack

\* Time passes.
LEMMA AgeHolds == ASSUME IdempotencyIndInv, AgeRecord PROVE IdempotencyIndInv'
  <1> DEFINE new == [id |-> record.id, digest |-> record.digest,
                     completed |-> record.completed, age |-> record.age + 1]
  <1>1. IdempotencyTypeOK /\ OneExecutes /\ RowsAreOwned /\ \A d \in Call : CallFits(d)
    BY DEF IdempotencyIndInv
  <1>2. new = [record EXCEPT !.age = record.age + 1]
    BY <1>1, KeyTypes DEF Records
  <1>3. /\ record.age < Patience /\ record' = new
        /\ UNCHANGED <<inserts, call, effects, answered>>
    BY <1>2 DEF AgeRecord
  <1>4. record.age \in Nat /\ Patience \in Nat
    BY <1>1, KeyTypes DEF Records
  <1>5. record.age + 1 \in 0 .. Patience
    BY <1>3, <1>4
  <1>6. /\ new \in Records /\ new.id = record.id
        /\ new.completed = record.completed
    BY <1>1, <1>5, KeyTypes DEF Records
  <1> HIDE DEF new
  <1>7. IdempotencyTypeOK'
    BY <1>1, <1>3, <1>6 DEF IdempotencyTypeOK, Records
  <1> QED BY <1>1, <1>3, <1>6, <1>7
          DEF IdempotencyIndInv, OneExecutes, RowsAreOwned, CallFits, Executes, GivenBack

\* Every step keeps rows and requests in agreement.
LEMMA IdempotencyStepHolds ==
    IdempotencyIndInv /\ [IdempotencyNext]_idempotencyVars => IdempotencyIndInv'
  <1> SUFFICES ASSUME IdempotencyIndInv, [IdempotencyNext]_idempotencyVars
               PROVE  IdempotencyIndInv'
    OBVIOUS
  <1>1. {"error", "conflict", "lost"} \subseteq Outcomes
    BY DEF Outcomes
  <1>2. ASSUME NEW c \in Call, LookAgain(c) \/ LoseCall(c) PROVE IdempotencyIndInv'
    <2>1. CASE LookAgain(c)
      <3> DEFINE outcome == IF record.id = 0 THEN "error" ELSE "conflict"
      <3>1. outcome \in Outcomes
        BY <1>1
      <3>2. /\ Ends(c, outcome) /\ UNCHANGED <<record, inserts, effects, answered>>
            /\ call[c].at \in {"looked", "raced"}
        BY <2>1 DEF LookAgain
      <3> HIDE DEF outcome
      <3> QED BY <3>1, <3>2, EndHolds
    <2>2. CASE LoseCall(c)
      BY <1>1, <2>2, EndHolds DEF LoseCall, Executes
    <2> QED BY <1>2, <2>1, <2>2
  <1>3. CASE UNCHANGED idempotencyVars
    BY <1>3 DEF idempotencyVars, IdempotencyIndInv, IdempotencyTypeOK, OneExecutes,
                RowsAreOwned, CallFits, Executes, GivenBack
  <1> QED BY <1>2, <1>3, LookUpHolds, ReserveHolds, ActHolds, CompleteHolds, RefuseHolds,
             GiveBackHolds, AgeHolds DEF IdempotencyNext

-------------------------------------------------------------------------------
(* The theorems. *)

\* The middleware's rows and its requests agree in every state.
THEOREM RowsAgree == IdempotencySpec => []IdempotencyIndInv
  BY IdempotencyInitHolds, IdempotencyStepHolds, PTL DEF IdempotencySpec

\* dispatch: requests with one key never execute at the same time, and of two that took
\* effect one was answered with a response that is not recorded.
THEOREM IdempotencyInvariant == IdempotencySpec => []IdempotencyInv
  <1>1. IdempotencyIndInv => DoneOnce
    <2> SUFFICES ASSUME IdempotencyIndInv, NEW c \in Call, NEW d \in Call, c # d,
                        effects[c] = 1, effects[d] = 1
                 PROVE  "unrecorded" \in {call[c].outcome, call[d].outcome}
      BY DEF DoneOnce
    <2>1. call[c].id # 0 => call[c].id # call[d].id
      BY DEF IdempotencyIndInv, RowsAreOwned
    <2> QED BY <2>1 DEF IdempotencyIndInv, CallFits
  <1>2. IdempotencyIndInv => IdempotencyInv
    BY <1>1 DEF IdempotencyIndInv, IdempotencyInv
  <1> QED BY <1>2, RowsAgree, PTL

\* dispatch: a request is executed only when all that reserved the key before it have
\* given it back; what was recorded or lost is not executed again.
THEOREM NothingIsDoneAgain == IdempotencySpec => NotDoneAgain
  <1>1. ASSUME IdempotencyIndInv, IdempotencyNext, NEW c \in Call,
               call[c].at # "executing", call'[c].at = "executing"
        PROVE  record.id = 0
    <2>1. IdempotencyTypeOK
      BY <1>1 DEF IdempotencyIndInv
    <2>2. ASSUME NEW d \in Call, NEW newRow, newRow.at # "executing",
                 call' = [call EXCEPT ![d] = newRow]
          PROVE  FALSE
      <3>1. call'[d] = newRow /\ \A e \in Call : e # d => call'[e] = call[e]
        BY <2>1, <2>2, KeyTypes
      <3> QED BY <1>1, <2>2, <3>1
    <2>3. ASSUME NEW d \in Call, NEW outcome, Ends(d, outcome) PROVE FALSE
      <3> DEFINE newRow == [at |-> "over", digest |-> call[d].digest, id |-> call[d].id,
                         outcome |-> outcome]
      <3>1. newRow.at # "executing" /\ call' = [call EXCEPT ![d] = newRow]
        BY <2>3 DEF Ends
      <3> HIDE DEF newRow
      <3> QED BY <2>2, <3>1
    <2>4. ASSUME NEW d \in Call, NEW digest \in Digest, LookUp(d, digest) PROVE FALSE
      <3> DEFINE at == IF MayGoOn THEN "looked" ELSE "over"
                 newRow == [at |-> at, digest |-> digest, id |-> 0,
                         outcome |-> IF MayGoOn THEN "none" ELSE "conflict"]
      <3>1. newRow.at # "executing"
        OBVIOUS
      <3>2. call' = [call EXCEPT ![d] = newRow]
        BY <2>4 DEF LookUp
      <3> HIDE DEF newRow
      <3> QED BY <2>2, <3>1, <3>2
    <2>5. ASSUME NEW d \in Call, Act(d) PROVE FALSE
      <3>1. \A e \in Call : e # d => call'[e] = call[e]
        BY <2>1, <2>5, KeyTypes DEF Act
      <3>2. call'[d] = [call[d] EXCEPT !.at = "acted"]
        BY <2>1, <2>5, KeyTypes DEF Act
      <3>3. call'[d].at = "acted"
        BY <2>1, <3>2, KeyTypes DEF Calls
      <3> QED BY <1>1, <3>1, <3>3
    <2>6. ASSUME NEW d \in Call, Reserve(d) PROVE record.id = 0
      <3> SUFFICES ASSUME record.id # 0 PROVE FALSE
        OBVIOUS
      <3>1. call' = [call EXCEPT ![d] = [call[d] EXCEPT !.at = "raced"]]
        BY <2>6 DEF Reserve
      <3>2. [call[d] EXCEPT !.at = "raced"].at = "raced"
        BY <2>1, KeyTypes DEF Calls
      <3> QED BY <2>2, <3>1, <3>2
    <2>7. ~AgeRecord
      BY <1>1 DEF AgeRecord
    <2> QED BY <1>1, <2>3, <2>4, <2>5, <2>6, <2>7
            DEF IdempotencyNext, LookAgain, Complete, Refuse, GiveBack, LoseCall
  <1>2. IdempotencyIndInv /\ [IdempotencyNext]_idempotencyVars =>
          [\A c \in Call :
              (call[c].at # "executing" /\ call'[c].at = "executing") =>
                  \A d \in Call :
                      call[d].id # 0 => call[d].outcome \in {"error", "unrecorded"}
          ]_idempotencyVars
    BY <1>1, FreeKey DEF GivenBack
  <1> QED BY <1>2, RowsAgree, PTL DEF IdempotencySpec, NotDoneAgain

-------------------------------------------------------------------------------
(***************************************************************************)
(* What an account may see, for any tree of units, any accounts and any    *)
(* assignments.  The search of the tree ends with the least set that is    *)
(* closed: what it finds is active and lies below something it finds, or   *)
(* the set without it would do as well.                                    *)
(***************************************************************************)

(* Access: the search of the tree, and that the two judgements agree. *)

UnitRows == [made : BOOLEAN, parent : Unit \cup {NoUnit}, active : BOOLEAN]
AccountRows == [unit : Unit, version : 1 .. MaxBumps + 1]
AssignmentRows == [user : User \cup {NoUser}, scope : ScopeType, units : SUBSET Unit,
                   active : BOOLEAN, window : Window]
Replies == [listed : BOOLEAN, opened : BOOLEAN, units : [Assignment -> SUBSET Unit]]

\* The tables; a reply is judged by the step that gives it.
TreeFits ==
    /\ unit \in [Unit -> UnitRows] /\ unit[Root].made
    /\ \A u \in Unit : unit[u].made /\ unit[u].parent # NoUnit => unit[unit[u].parent].made

AccountsFit ==
    /\ account \in [User -> AccountRows] /\ roleCounts \in BOOLEAN

AssignmentsFit ==
    /\ assignment \in [Assignment -> AssignmentRows]
    /\ \A a \in Assignment :
          assignment[a].units # {} => assignment[a].scope \in {"custom_orgs", "org_and_descendants"}

ReplyFits == (reply = NoReply \/ reply \in Replies) /\ ListShowsWhatOpens

AccessIndInv == TreeFits /\ AccountsFit /\ AssignmentsFit /\ ReplyFits

\* The search stays among the active units: they are themselves a set it could
\* have ended with.
LEMMA SearchIsActive ==
    ASSUME NEW roots
    PROVE  Descendants(roots) \subseteq ActiveUnits
  <1>1. ActiveUnits \in SUBSET Unit
    BY DEF ActiveUnits
  <1>2. roots \cap ActiveUnits \subseteq ActiveUnits /\ ActiveChildren(ActiveUnits) \subseteq ActiveUnits
    BY DEF ActiveChildren
  <1> QED BY <1>1, <1>2 DEF Descendants

\* What the search finds is a root, or lies below something that it finds: without
\* a unit that is neither, the set would do as well and be smaller.
LEMMA SearchFollowsTheTree ==
    ASSUME NEW roots, NEW u \in Descendants(roots), u \notin roots
    PROVE  unit[u].parent \in Descendants(roots)
  <1> SUFFICES ASSUME unit[u].parent \notin Descendants(roots) PROVE FALSE
    OBVIOUS
  <1> DEFINE found == Descendants(roots)
             others == found \ {u}
  <1>1. others \in SUBSET Unit /\ found \subseteq ActiveUnits
    BY SearchIsActive DEF Descendants
  <1>2. roots \cap ActiveUnits \subseteq others
    BY DEF Descendants, ActiveUnits
  <1>3. ASSUME NEW w \in ActiveChildren(others) PROVE w \in others
    <2>1. w \in ActiveUnits /\ unit[w].parent \in found
      BY <1>3 DEF ActiveChildren
    <2>2. w # u
      BY <2>1
    <2>3. ASSUME NEW us \in SUBSET Unit, roots \cap ActiveUnits \subseteq us,
                 ActiveChildren(us) \subseteq us
          PROVE  w \in us
      <3>1. unit[w].parent \in us
        BY <2>1, <2>3 DEF Descendants
      <3> QED BY <2>1, <2>3, <3>1 DEF ActiveChildren
    <2>4. w \in found
      BY <2>1, <2>3 DEF Descendants, ActiveUnits
    <2> QED BY <2>2, <2>4
  <1>4. u \in others
    BY <1>1, <1>2, <1>3 DEF Descendants
  <1> QED BY <1>4

\* can_access and data_scope_clause let the same resources in: the query joins the
\* units of all grants, the judgement of one resource looks at grant after grant.
LEMMA JudgementsAgree ==
    ASSUME NEW x, NEW resource
    PROVE  Listed(x, resource) <=> CanAccess(x, resource)
  BY DEF Listed, CanAccess, OrgScopes

\* What is let in by an assignment that counts.
LEMMA ScopesAreUnits ==
    ASSUME TreeFits, AccountsFit, AssignmentsFit, NEW a \in Assignment, NEW x \in User, Counts(a, x)
    PROVE  ScopeUnits(a) \in SUBSET Unit
  <1>1. /\ assignment[a].user = x /\ account[x].unit \in Unit
        /\ assignment[a].units \subseteq Unit
    BY DEF Counts, AccountsFit, AccountRows, AssignmentsFit, AssignmentRows
  <1>2. \A roots : Descendants(roots) \subseteq Unit
    BY DEF Descendants
  <1> QED BY <1>1, <1>2 DEF ScopeUnits

-------------------------------------------------------------------------------
(* Every step keeps every table. *)

\* One unit, accounts in it, nothing assigned.
LEMMA AccessBegins == AccessInit => AccessIndInv
  <1> SUFFICES ASSUME AccessInit PROVE AccessIndInv
    OBVIOUS
  <1>1. TreeFits
    BY RootIsUnit DEF AccessInit, TreeFits, UnitRows
  <1>2. AccountsFit
    BY RootIsUnit DEF AccessInit, AccountsFit, AccountRows
  <1>3. AssignmentsFit
    BY DEF AccessInit, AssignmentsFit, AssignmentRows, ScopeType, Window
  <1>4. ReplyFits
    BY DEF AccessInit, ReplyFits, ListShowsWhatOpens
  <1> QED BY <1>1, <1>2, <1>3, <1>4 DEF AccessIndInv

\* A unit is made below one that is there, and never goes.
LEMMA TreeStays ==
    ASSUME AccessIndInv, AccessNext
    PROVE  TreeFits'
  <1>1. TreeFits
    BY DEF AccessIndInv
  <1>2. ASSUME NEW u \in Unit, NEW parent \in Unit \cup {NoUnit}, CreateUnit(u, parent)
        PROVE  TreeFits'
    <2> DEFINE newRow == [made |-> TRUE, parent |-> parent, active |-> TRUE]
    <2>1. newRow \in UnitRows /\ newRow.made /\ newRow.parent = parent
      BY <1>2 DEF UnitRows
    <2>2. /\ unit' = [unit EXCEPT ![u] = newRow] /\ ~unit[u].made
          /\ parent # NoUnit => unit[parent].made
      BY <1>2 DEF CreateUnit, ActiveUnits
    <2> HIDE DEF newRow
    <2>3. unit'[u] = newRow /\ \A w \in Unit : w # u => unit'[w] = unit[w]
      BY <1>1, <2>2 DEF TreeFits
    <2>4. unit' \in [Unit -> UnitRows] /\ unit'[Root].made
      BY <1>1, <2>1, <2>2, <2>3, RootIsUnit DEF TreeFits
    <2>5. ASSUME NEW w \in Unit, unit'[w].made, unit'[w].parent # NoUnit
          PROVE  unit'[unit'[w].parent].made
      <3>1. unit'[w].parent \in Unit
        BY <2>4, <2>5 DEF UnitRows
      <3>2. unit[unit'[w].parent].made
        BY <1>1, <1>2, <2>1, <2>2, <2>3, <2>5 DEF TreeFits
      <3> QED BY <2>2, <2>3, <3>1, <3>2
    <2> QED BY <2>4, <2>5 DEF TreeFits
  <1>3. ASSUME NEW u \in Unit, SwitchUnit(u) PROVE TreeFits'
    <2> DEFINE newRow == [unit[u] EXCEPT !.active = ~@]
    <2>1. unit[u] \in UnitRows
      BY <1>1 DEF TreeFits
    <2>2. newRow \in UnitRows /\ newRow.made = unit[u].made /\ newRow.parent = unit[u].parent
      BY <2>1 DEF UnitRows
    <2>3. unit' = [unit EXCEPT ![u] = newRow]
      BY <1>3 DEF SwitchUnit
    <2> HIDE DEF newRow
    <2>4. unit' \in [Unit -> UnitRows]
      BY <1>1, <2>2, <2>3 DEF TreeFits
    <2>5. \A w \in Unit : unit'[w].made = unit[w].made /\ unit'[w].parent = unit[w].parent
      BY <1>1, <2>2, <2>3 DEF TreeFits
    <2>6. ASSUME NEW w \in Unit, unit'[w].made, unit'[w].parent # NoUnit
          PROVE  unit'[unit'[w].parent].made
      <3>1. unit'[w].parent \in Unit
        BY <2>4, <2>6 DEF UnitRows
      <3> QED BY <1>1, <2>5, <2>6, <3>1 DEF TreeFits
    <2> QED BY <1>1, <2>4, <2>5, <2>6, RootIsUnit DEF TreeFits
  <1>4. CASE UNCHANGED unit
    BY <1>1, <1>4 DEF TreeFits
  <1>5. ASSUME NEW a \in Assignment, Revoke(a) \/ PassWindow(a) PROVE UNCHANGED unit
    BY <1>5 DEF Revoke, PassWindow
  <1>6. ASSUME NEW a \in Assignment, NEW x \in User, NEW scope \in ScopeType,
               NEW units \in SUBSET Unit, NEW window \in Window, Grant(a, x, scope, units, window)
        PROVE  UNCHANGED unit
    BY <1>6 DEF Grant
  <1>7. ASSUME NEW x \in User, NEW u \in Unit, MoveUser(x, u) PROVE UNCHANGED unit
    BY <1>7 DEF MoveUser
  <1>8. CASE UpdateRole
    BY <1>4, <1>8 DEF UpdateRole
  <1>9. CASE Administer
    BY <1>2, <1>3, <1>4, <1>5, <1>6, <1>7, <1>8, <1>9 DEF Administer
  <1>10. ASSUME NEW x \in User, NEW resource \in Resource, AskFor(x, resource)
         PROVE  UNCHANGED unit
    BY <1>10 DEF AskFor, administration
  <1> QED BY <1>4, <1>9, <1>10 DEF AccessNext

\* Every change of what an account may do is counted.
LEMMA AccountsStay ==
    ASSUME AccessIndInv, AccessNext
    PROVE  AccountsFit'
  <1>1. AccountsFit /\ MaxBumps \in Nat
    BY RootIsUnit DEF AccessIndInv
  <1>2. ASSUME NEW newRow \in AccountRows, newRow.version <= MaxBumps
        PROVE  Bumped(newRow) \in AccountRows
    <2>1. newRow.version + 1 \in 1 .. MaxBumps + 1
      BY <1>1, <1>2 DEF AccountRows
    <2>2. Bumped(newRow) = [unit |-> newRow.unit, version |-> newRow.version + 1]
      BY DEF Bumped, AccountRows
    <2> QED BY <2>1, <2>2 DEF AccountRows
  <1>3. ASSUME NEW x \in User, NEW newRow \in AccountRows, newRow.version <= MaxBumps,
               account' = [account EXCEPT ![x] = Bumped(newRow)], UNCHANGED roleCounts
        PROVE  AccountsFit'
    BY <1>1, <1>2, <1>3 DEF AccountsFit
  <1>4. ASSUME NEW x \in User PROVE account[x] \in AccountRows
    BY <1>1 DEF AccountsFit
  <1>5. CASE UNCHANGED <<account, roleCounts>>
    BY <1>1, <1>5 DEF AccountsFit
  <1>6. ASSUME NEW a \in Assignment, NEW x \in User, NEW scope, NEW units, NEW window,
               Grant(a, x, scope, units, window)
        PROVE  AccountsFit'
    BY <1>3, <1>4, <1>6 DEF Grant
  <1>7. ASSUME NEW a \in Assignment, Revoke(a) PROVE AccountsFit'
    <2> DEFINE x == assignment[a].user
    <2>1. CASE x \in User
      BY <1>3, <1>4, <1>7, <2>1 DEF Revoke
    <2>2. CASE x \notin User
      BY <1>1, <1>5, <1>7, <2>2 DEF Revoke, AccountsFit
    <2> QED BY <2>1, <2>2
  <1>8. ASSUME NEW x \in User, NEW u \in Unit, MoveUser(x, u) PROVE AccountsFit'
    <2> DEFINE newRow == [account[x] EXCEPT !.unit = u]
    <2>1. newRow \in AccountRows /\ newRow.version = account[x].version
      BY <1>4, <1>8 DEF AccountRows
    <2>2. account' = [account EXCEPT ![x] = Bumped(newRow)] /\ account[x].version <= MaxBumps
      BY <1>8 DEF MoveUser
    <2>3. UNCHANGED roleCounts
      BY <1>8 DEF MoveUser
    <2> HIDE DEF newRow
    <2> QED BY <1>3, <2>1, <2>2, <2>3
  <1>9. CASE UpdateRole
    <2>1. ASSUME NEW x \in User
          PROVE  (IF x \in Holders THEN Bumped(account[x]) ELSE account[x]) \in AccountRows
      BY <1>2, <1>4, <1>9 DEF UpdateRole
    <2>2. account' \in [User -> AccountRows]
      BY <1>9, <2>1 DEF UpdateRole
    <2>3. roleCounts' \in BOOLEAN
      BY <1>9 DEF UpdateRole
    <2> QED BY <2>2, <2>3 DEF AccountsFit
  <1> QED
    BY <1>5, <1>6, <1>7, <1>8, <1>9
    DEF AccessNext, Administer, AskFor, administration, CreateUnit, SwitchUnit, PassWindow

\* Only a scope that takes units is given units.
LEMMA AssignmentsStay ==
    ASSUME AccessIndInv, AccessNext
    PROVE  AssignmentsFit'
  <1>1. AssignmentsFit
    BY DEF AccessIndInv
  <1>2. ASSUME NEW a \in Assignment, NEW newRow \in AssignmentRows,
               newRow.units # {} => newRow.scope \in {"custom_orgs", "org_and_descendants"},
               assignment' = [assignment EXCEPT ![a] = newRow]
        PROVE  AssignmentsFit'
    BY <1>1, <1>2 DEF AssignmentsFit
  <1>3. ASSUME NEW a \in Assignment, NEW x \in User, NEW scope \in ScopeType,
               NEW units \in SUBSET Unit, NEW window \in Window, Grant(a, x, scope, units, window)
        PROVE  AssignmentsFit'
    <2> DEFINE newRow == [user |-> x, scope |-> scope, units |-> units, active |-> TRUE,
                      window |-> window]
    <2>1. newRow \in AssignmentRows
      BY DEF AssignmentRows
    <2>2. newRow.units # {} => newRow.scope \in {"custom_orgs", "org_and_descendants"}
      BY <1>3 DEF Grant, WellFormed
    <2>3. assignment' = [assignment EXCEPT ![a] = newRow]
      BY <1>3 DEF Grant
    <2> HIDE DEF newRow
    <2> QED BY <1>2, <2>1, <2>2, <2>3
  <1>4. ASSUME NEW a \in Assignment, Revoke(a) PROVE AssignmentsFit'
    <2> DEFINE newRow == [assignment[a] EXCEPT !.active = FALSE]
    <2>1. assignment[a] \in AssignmentRows
      BY <1>1 DEF AssignmentsFit
    <2>2. newRow \in AssignmentRows /\ newRow.units = assignment[a].units /\ newRow.scope = assignment[a].scope
      BY <2>1 DEF AssignmentRows
    <2>3. assignment' = [assignment EXCEPT ![a] = newRow]
      BY <1>4 DEF Revoke
    <2> HIDE DEF newRow
    <2> QED BY <1>1, <1>2, <2>2, <2>3 DEF AssignmentsFit
  <1>5. CASE UNCHANGED assignment
    BY <1>1, <1>5 DEF AssignmentsFit
  <1>6. ASSUME NEW a \in Assignment, PassWindow(a) PROVE AssignmentsFit'
    <2> DEFINE window == IF assignment[a].window = "ahead" THEN "open" ELSE "over"
               newRow == [assignment[a] EXCEPT !.window = window]
    <2>1. assignment[a] \in AssignmentRows /\ window \in Window
      BY <1>1 DEF AssignmentsFit, Window
    <2>2. assignment' = [assignment EXCEPT ![a] = newRow]
      BY <1>6 DEF PassWindow
    <2> HIDE DEF window
    <2>3. newRow \in AssignmentRows /\ newRow.units = assignment[a].units /\ newRow.scope = assignment[a].scope
      BY <2>1 DEF AssignmentRows
    <2> HIDE DEF newRow
    <2> QED BY <1>1, <1>2, <2>2, <2>3 DEF AssignmentsFit
  <1> QED
    BY <1>3, <1>4, <1>5, <1>6
    DEF AccessNext, Administer, AskFor, administration, CreateUnit, SwitchUnit, MoveUser, UpdateRole

\* A reply says what the two judgements say, and they agree.
LEMMA RepliesStay ==
    ASSUME AccessIndInv, AccessNext
    PROVE  ReplyFits'
  <1>1. CASE reply' = NoReply
    BY <1>1 DEF ReplyFits, ListShowsWhatOpens
  <1>2. ASSUME NEW x \in User, NEW resource \in Resource, AskFor(x, resource) PROVE ReplyFits'
    <2> DEFINE listed == Listed(x, resource)
               opened == CanAccess(x, resource)
               units == [a \in Assignment |-> IF Counts(a, x) THEN ScopeUnits(a) ELSE {}]
    <2>1. units \in [Assignment -> SUBSET Unit]
      BY <1>2, ScopesAreUnits DEF AccessIndInv
    <2>2. (listed <=> opened) /\ listed \in BOOLEAN /\ opened \in BOOLEAN
      BY JudgementsAgree DEF Listed, CanAccess
    <2>3. reply' = [listed |-> listed, opened |-> opened, units |-> units]
      BY <1>2 DEF AskFor
    <2> HIDE DEF listed, opened, units
    <2>4. reply' \in Replies
      BY <2>1, <2>2, <2>3 DEF Replies
    <2>5. reply'.listed = listed /\ reply'.opened = opened
      BY <2>3
    <2> QED BY <2>2, <2>4, <2>5 DEF ReplyFits, ListShowsWhatOpens
  <1> QED BY <1>1, <1>2 DEF AccessNext

\* Every step of administrators and of requests keeps the tables and the agreement.
LEMMA AccessGoesOn == AccessIndInv /\ [AccessNext]_accessVars => AccessIndInv'
  <1> SUFFICES ASSUME AccessIndInv, [AccessNext]_accessVars PROVE AccessIndInv'
    OBVIOUS
  <1>1. CASE AccessNext
    BY <1>1, TreeStays, AccountsStay, AssignmentsStay, RepliesStay DEF AccessIndInv
  <1>2. CASE UNCHANGED accessVars
    BY <1>2 DEF AccessIndInv, TreeFits, AccountsFit, AssignmentsFit, ReplyFits, ListShowsWhatOpens,
                accessVars, administration
  <1> QED BY <1>1, <1>2

\* The invariant of the tables and of every answer.
THEOREM AccessInvariance == AccessSpec => []AccessIndInv
  BY AccessBegins, AccessGoesOn, PTL DEF AccessSpec

\* A unit that an answer lets in through the tree is active, and is one the assignment
\* names or lies below another that the answer lets in.
LEMMA AnswersFollowTheTree ==
    ASSUME AccessIndInv, AccessNext, reply' # NoReply, NEW a \in Assignment,
           assignment[a].scope = "org_and_descendants", NEW u \in reply'.units[a]
    PROVE  /\ unit[u].active
           /\ \/ u \in assignment[a].units
              \/ assignment[a].units = {} /\ u = account[assignment[a].user].unit
              \/ unit[u].parent \in reply'.units[a]
  <1>1. PICK x \in User, resource \in Resource : AskFor(x, resource)
    BY DEF AccessNext
  <1>2. reply'.units = [b \in Assignment |-> IF Counts(b, x) THEN ScopeUnits(b) ELSE {}]
    BY <1>1 DEF AskFor
  <1> DEFINE roots == IF assignment[a].units = {} THEN {account[assignment[a].user].unit}
                      ELSE assignment[a].units
  <1>3. reply'.units[a] = Descendants(roots)
    BY <1>2 DEF ScopeUnits
  <1>4. unit[u].active
    BY <1>3, SearchIsActive DEF ActiveUnits
  <1>5. CASE u \in roots
    BY <1>4, <1>5
  <1>6. CASE u \notin roots
    BY <1>3, <1>4, <1>6, SearchFollowsTheTree
  <1> QED BY <1>5, <1>6

\* What an account may do is judged alike for one resource and for lists, and reaches
\* down the tree through active units only.
THEOREM AccessIsConsistent == AccessSpec => AccessHolds
  <1>1. AccessIndInv => AccessTypeOK /\ ListShowsWhatOpens
    BY DEF AccessIndInv, TreeFits, UnitRows, AccountsFit, AccountRows, AssignmentsFit,
           AssignmentRows, ReplyFits, Replies, AccessTypeOK
  <1>2. AccessIndInv /\ [AccessNext]_accessVars =>
          [reply' # NoReply =>
              \A a \in Assignment : assignment[a].scope = "org_and_descendants" =>
                  \A u \in reply'.units[a] :
                      /\ unit[u].active
                      /\ \/ u \in assignment[a].units
                         \/ assignment[a].units = {} /\ u = account[assignment[a].user].unit
                         \/ unit[u].parent \in reply'.units[a]]_accessVars
    BY AnswersFollowTheTree
  <1> QED
    BY <1>1, <1>2, AccessInvariance, PTL DEF AccessSpec, AccessHolds, ReachedThroughActive
================================================================================
