------------------------------ MODULE Idempotency ------------------------------
(***************************************************************************)
(* The idempotency middleware, for one actor, operation and key.  A request *)
(* reserves the key by inserting a row, is executed, and completes the row  *)
(* or deletes it.  Nobody is told the stored response: whoever comes second *)
(* gets a conflict.                                                        *)
(***************************************************************************)
EXTENDS Naturals, FiniteSets

CONSTANTS
    Call,       \* HTTP requests with that key
    Digest,     \* what a request may ask for
    Patience,   \* five minutes, after which an outcome counts as unknown
    MaxInserts  \* bound: rows inserted

ASSUME IdempotencyBounds == Patience \in Nat /\ MaxInserts \in Nat

VARIABLES
    record,     \* the row of idempotency_records, if there is one
    inserts,    \* how many rows have been inserted; a row is known by that number
    call,       \* requests: where they are, what they ask for and the row they reserved
    effects,    \* business transactions committed, by request
    answered    \* rows that were completed

idempotencyVars == <<record, inserts, call, effects, answered>>

NoRecord == [id |-> 0, digest |-> "none", completed |-> FALSE, age |-> 0]
\* "unrecorded": done, and the row was deleted all the same.
Outcomes == {"none", "conflict", "error", "success", "unrecorded", "lost"}

IdempotencyTypeOK ==
    /\ record \in [id : 0 .. MaxInserts, digest : Digest \cup {"none"},
                   completed : BOOLEAN, age : 0 .. Patience]
    /\ inserts \in 0 .. MaxInserts
    /\ call \in [Call -> [at : {"new", "looked", "raced", "executing", "acted", "over"},
                          digest : Digest \cup {"none"}, id : 0 .. MaxInserts,
                          outcome : Outcomes]]
    /\ effects \in [Call -> 0 .. 1]
    /\ answered \subseteq 1 .. MaxInserts
    \* A row that is being executed, or was completed, is there.
    /\ \A c \in Call : call[c].at \in {"executing", "acted"} => call[c].id = record.id
    /\ answered # {} => record.completed /\ record.id \in answered

IdempotencyInit ==
    /\ record = NoRecord /\ inserts = 0 /\ answered = {}
    /\ call = [c \in Call |-> [at |-> "new", digest |-> "none", id |-> 0, outcome |-> "none"]]
    /\ effects = [c \in Call |-> 0]

\* _replay_or_conflict answers every row that is found with a conflict: the key was
\* used for something else, the request is in progress, its outcome is unknown, or it
\* has been completed.
MayGoOn == record.id = 0

\* Faulty: a reservation whose outcome is unknown is taken over.
LookUpOrTakeOver(c, digest) ==
    /\ call[c].at = "new"
    /\ call' = [call EXCEPT ![c] =
           IF ~MayGoOn /\ ~record.completed /\ record.age = Patience
           THEN [at |-> "executing", digest |-> digest, id |-> record.id, outcome |-> "none"]
           ELSE [at |-> IF MayGoOn THEN "looked" ELSE "over", digest |-> digest, id |-> 0,
                 outcome |-> IF MayGoOn THEN "none" ELSE "conflict"]]
    /\ UNCHANGED <<record, inserts, effects, answered>>

\* dispatch: the row is looked for.
LookUp(c, digest) ==
    /\ call[c].at = "new"
    /\ call' = [call EXCEPT ![c] =
           [at |-> IF MayGoOn THEN "looked" ELSE "over", digest |-> digest, id |-> 0,
            outcome |-> IF MayGoOn THEN "none" ELSE "conflict"]]
    /\ UNCHANGED <<record, inserts, effects, answered>>

\* The row is inserted and committed; if another request was first, the constraint
\* refuses it.
Reserve(c) ==
    /\ call[c].at = "looked" /\ inserts < MaxInserts
    /\ IF record.id = 0
       THEN /\ record' = [id |-> inserts + 1, digest |-> call[c].digest,
                          completed |-> FALSE, age |-> 0]
            /\ inserts' = inserts + 1
            /\ call' = [call EXCEPT ![c] = [at |-> "executing", digest |-> @.digest,
                                            id |-> inserts + 1, outcome |-> "none"]]
       ELSE /\ call' = [call EXCEPT ![c].at = "raced"]
            /\ UNCHANGED <<record, inserts>>
    /\ UNCHANGED <<effects, answered>>

\* The request is over; it still knows its row.
Ends(c, outcome) ==
    call' = [call EXCEPT ![c] =
        [at |-> "over", digest |-> @.digest, id |-> @.id, outcome |-> outcome]]

\* The row of the other is looked for; it may be gone again, and the assertion fails.
LookAgain(c) ==
    /\ call[c].at = "raced"
    /\ Ends(c, IF record.id = 0 THEN "error" ELSE "conflict")
    /\ UNCHANGED <<record, inserts, effects, answered>>

\* The endpoint commits.
Act(c) ==
    /\ call[c].at = "executing"
    /\ effects' = [effects EXCEPT ![c] = 1]
    /\ call' = [call EXCEPT ![c].at = "acted"]
    /\ UNCHANGED <<record, inserts, answered>>

\* A JSON response of success, not above the limit, completes the row.
Complete(c) ==
    /\ call[c].at = "acted"
    /\ record' = [id |-> record.id, digest |-> record.digest, completed |-> TRUE, age |-> 0]
    /\ answered' = answered \cup {call[c].id}
    /\ Ends(c, "success")
    /\ UNCHANGED <<inserts, effects>>

\* _delete_reservation: the row is deleted, if it is still the one this request inserted.
DeleteReservation(c) == record' = IF record.id = call[c].id THEN NoRecord ELSE record

\* The endpoint refuses or raises, and nothing is committed.
Refuse(c) ==
    /\ call[c].at = "executing"
    /\ DeleteReservation(c)
    /\ Ends(c, "error")
    /\ UNCHANGED <<inserts, effects, answered>>

\* Faulty: whatever row the key has is deleted, by a request that reserved none too.
RefuseAny(c) ==
    /\ call[c].at \in {"looked", "raced", "executing"}
    /\ record' = NoRecord
    /\ Ends(c, "error")
    /\ UNCHANGED <<inserts, effects, answered>>

\* The endpoint has committed, and the response is none that is recorded: a 204 of a
\* DELETE, a body that is not JSON or too large, an error raised after the commit.  The
\* reservation goes as if nothing had been done.
GiveBack(c) ==
    /\ call[c].at = "acted"
    /\ DeleteReservation(c)
    /\ Ends(c, "unrecorded")
    /\ UNCHANGED <<inserts, effects, answered>>

\* Faulty: the row goes with the process.
LoseCallAndRecord(c) ==
    /\ call[c].at \in {"looked", "raced", "executing", "acted"}
    /\ record' = IF record.id = call[c].id THEN NoRecord ELSE record
    /\ Ends(c, "lost")
    /\ UNCHANGED <<inserts, effects, answered>>

\* The process is lost: the row stays.
LoseCall(c) ==
    /\ call[c].at \in {"looked", "raced", "executing", "acted"}
    /\ Ends(c, "lost")
    /\ UNCHANGED <<record, inserts, effects, answered>>

AgeRecord ==
    /\ record.id # 0 /\ record.age < Patience
    /\ record' = [record EXCEPT !.age = @ + 1]
    /\ UNCHANGED <<inserts, call, effects, answered>>

IdempotencyNext ==
    \/ \E c \in Call : \/ \E digest \in Digest : LookUp(c, digest)
                       \/ Reserve(c) \/ LookAgain(c) \/ Act(c) \/ Complete(c) \/ Refuse(c)
                       \/ GiveBack(c) \/ LoseCall(c)
    \/ AgeRecord

IdempotencySpec == IdempotencyInit /\ [][IdempotencyNext]_idempotencyVars

-------------------------------------------------------------------------------
(* Properties. *)

\* Requests with one key never execute at the same time, however they are timed and
\* whatever became of those before.
OneExecutes ==
    \A c, d \in Call :
        call[c].at \in {"executing", "acted"} /\ call[d].at \in {"executing", "acted"} => c = d

\* What has been done is done again only where its row was given back: of two requests
\* that took effect, one was answered with a response the middleware does not record.
DoneOnce ==
    \A c, d \in Call :
        c # d /\ effects[c] = 1 /\ effects[d] = 1 =>
            "unrecorded" \in {call[c].outcome, call[d].outcome}

\* A request is executed only after all that reserved the key before it gave their rows
\* back: what was answered with a recorded success, or was lost on the way, whether it
\* took effect or not, is never executed again.
NotDoneAgain ==
    [][\A c \in Call :
          (call[c].at # "executing" /\ call'[c].at = "executing") =>
              \A d \in Call : call[d].id # 0 => call[d].outcome \in {"error", "unrecorded"}
      ]_idempotencyVars

\* One request with the key executes at a time, the row is the one it reserved, and
\* only a request whose row was given back is repeated.
IdempotencyInv == IdempotencyTypeOK /\ OneExecutes /\ DoneOnce
===============================================================================
