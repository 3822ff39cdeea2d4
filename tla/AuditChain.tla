------------------------------ MODULE AuditChain -------------------------------
(***************************************************************************)
(* The audit log, whose entries are chained by hashes.  Any handler may    *)
(* add an entry in its transaction: it takes one advisory lock, which it   *)
(* keeps until the transaction ends, reads the clock and the latest entry. *)
(* The latest is the one with the latest time, so the order of the chain   *)
(* depends on when the clock is read.                                      *)
(***************************************************************************)
EXTENDS Naturals, FiniteSets

CONSTANTS
    Writer,     \* transactions of handlers that add an entry
    MaxTime     \* bound: the clock

NoWriter == "no writer"
NoEntry == "no entry"      \* previous_hash IS NULL
Entry == Writer            \* an entry is known by the transaction that wrote it

ASSUME AuditBounds == MaxTime \in Nat /\ NoWriter \notin Writer

VARIABLES
    auditLog,   \* committed entries
    auditLock,  \* who holds pg_advisory_xact_lock("platform:audit-chain")
    writer,     \* transactions: where they are, the time and the entry they have read
    clock

auditVars == <<auditLog, auditLock, writer, clock>>

AuditTypeOK ==
    /\ auditLog \subseteq [entry : Entry, at : 1 .. MaxTime, previous : Entry \cup {NoEntry}]
    /\ auditLock \in Writer \cup {NoWriter}
    /\ writer \in [Writer -> [at : {"ready", "locked", "timed", "hashed", "done"},
                              time : 0 .. MaxTime, previous : Entry \cup {NoEntry}]]
    /\ \A w \in Writer : auditLock = w <=> writer[w].at \in {"locked", "timed", "hashed"}
    /\ clock \in 0 .. MaxTime

AuditInit ==
    /\ auditLog = {} /\ auditLock = NoWriter /\ clock = 0
    /\ writer = [w \in Writer |-> [at |-> "ready", time |-> 0, previous |-> NoEntry]]

\* add_audit waits for the lock.
LockChain(w) ==
    /\ writer[w].at = "ready" /\ auditLock = NoWriter
    /\ auditLock' = w
    /\ writer' = [writer EXCEPT ![w].at = "locked"]
    /\ UNCHANGED <<auditLog, clock>>

\* datetime.now(UTC); no two readings are the same.
ReadClock(w) ==
    /\ writer[w].at = "locked" /\ clock < MaxTime
    /\ clock' = clock + 1
    /\ writer' = [writer EXCEPT ![w] =
           [at |-> "timed", time |-> clock + 1, previous |-> NoEntry]]
    /\ UNCHANGED <<auditLog, auditLock>>

\* Faulty: the latest entry is the one with the greatest id.
LatestById == {e \in auditLog : e.entry = CHOOSE x \in {d.entry : d \in auditLog} : TRUE}

Latest == {e \in auditLog : \A f \in auditLog : f.at <= e.at}

\* The hash covers the hash of the latest entry.
HashEntry(w) ==
    /\ writer[w].at = "timed"
    /\ writer' = [writer EXCEPT ![w] =
           [at |-> "hashed", time |-> @.time, previous |->
               IF auditLog = {} THEN NoEntry ELSE (CHOOSE e \in Latest : TRUE).entry]]
    /\ UNCHANGED <<auditLog, auditLock, clock>>

\* The handler commits.  Faulty: the lock is released before the commit.
CommitUnlocked(w) ==
    /\ writer[w].at = "hashed"
    /\ \/ /\ auditLock = w /\ auditLock' = NoWriter
          /\ UNCHANGED <<auditLog, writer, clock>>
       \/ /\ auditLock # w
          /\ auditLog' = auditLog \cup
                 {[entry |-> w, at |-> writer[w].time, previous |-> writer[w].previous]}
          /\ writer' = [writer EXCEPT ![w].at = "done"]
          /\ UNCHANGED <<auditLock, clock>>

\* The handler commits.
CommitEntry(w) ==
    /\ writer[w].at = "hashed"
    /\ auditLog' = auditLog \cup
           {[entry |-> w, at |-> writer[w].time, previous |-> writer[w].previous]}
    /\ auditLock' = NoWriter
    /\ writer' = [writer EXCEPT ![w].at = "done"]
    /\ UNCHANGED clock

\* The handler raises after the entry was added: nothing of it is kept.
RollBack(w) ==
    /\ writer[w].at \in {"locked", "timed", "hashed"}
    /\ auditLock' = NoWriter
    /\ writer' = [writer EXCEPT ![w].at = "done"]
    /\ UNCHANGED <<auditLog, clock>>

AuditNext ==
    \E w \in Writer : LockChain(w) \/ ReadClock(w) \/ HashEntry(w) \/ CommitEntry(w) \/ RollBack(w)

AuditSpec == AuditInit /\ [][AuditNext]_auditVars

-------------------------------------------------------------------------------
(* Properties. *)

\* The entries form one chain in the order of their times, whatever transactions
\* overlap or are rolled back: one entry has no predecessor, and the predecessor of
\* each other entry is the one immediately before it.
OneChain ==
    \A e \in auditLog :
        LET earlier == {f \in auditLog : f.at < e.at} IN
        IF earlier = {} THEN e.previous = NoEntry
        ELSE \E f \in earlier : f.entry = e.previous /\ \A g \in earlier : g.at <= f.at

\* The log is one chain, extended by whoever holds the lock.
AuditInv == AuditTypeOK /\ OneChain
===============================================================================
