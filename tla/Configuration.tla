----------------------------- MODULE Configuration -----------------------------
(***************************************************************************)
(* The versions of one prompt or business configuration, of which one is   *)
(* in use.  Administrators add and activate versions under an advisory     *)
(* lock on the code; the row to be activated is loaded before the lock is  *)
(* taken.  Requests that create jobs take snapshots.                       *)
(***************************************************************************)
EXTENDS Naturals, FiniteSets

CONSTANTS
    Admin,        \* requests of administrators
    Snapshot,     \* jobs that are created
    MaxConfigs,   \* bound: versions of the configuration
    MaxTries      \* bound: attempts of a job

NoAdmin == "no admin"

ASSUME ConfigurationBounds ==
    MaxConfigs \in Nat /\ MaxTries \in Nat /\ NoAdmin \notin Admin

VARIABLES
    configs,    \* how many versions there are; they are numbered from one
    inUse,      \* versions whose row says active
    configLock, \* who holds pg_advisory_xact_lock of the code
    admin,      \* a request: where it is, its version and the copies it loaded
    activated,  \* has any activation been committed?
    snapshot    \* the version a job was asked for with, the one in the snapshot of
                \* its present attempt, and the one that attempt has used

configurationVars == <<configs, inUse, configLock, admin, activated, snapshot>>

ConfigNo == 1 .. MaxConfigs
NotTaken == MaxConfigs + 1

ConfigurationTypeOK ==
    /\ configs \in 0 .. MaxConfigs
    /\ inUse \subseteq 1 .. configs
    /\ configLock \in Admin \cup {NoAdmin}
    /\ admin \in [Admin -> [at : {"away", "adding", "loaded", "locked", "clearing"},
                            config : 0 .. MaxConfigs, wasActive : BOOLEAN,
                            cleared : SUBSET ConfigNo]]
    /\ \A a \in Admin : admin[a].at = "adding" => admin[a].config = configs + 1
    /\ activated \in BOOLEAN
    /\ snapshot \in [Snapshot -> [attempt : 0 .. MaxTries, asked : 0 .. NotTaken,
                                  config : 0 .. NotTaken, used : 0 .. NotTaken]]

AwayAdmin == [at |-> "away", config |-> 0, wasActive |-> FALSE, cleared |-> {}]

ConfigurationInit ==
    /\ configs = 0 /\ inUse = {} /\ configLock = NoAdmin
    /\ admin = [a \in Admin |-> AwayAdmin]
    /\ activated = FALSE
    /\ snapshot = [s \in Snapshot |->
           [attempt |-> 0, asked |-> NotTaken, config |-> NotTaken, used |-> NotTaken]]

\* Faulty: versions are counted without the lock.
CountUnlocked(a) ==
    /\ admin[a] = AwayAdmin /\ configs < MaxConfigs
    /\ admin' = [admin EXCEPT ![a].at = "adding", ![a].config = configs + 1]
    /\ UNCHANGED <<configs, inUse, configLock, activated, snapshot>>

\* create_prompt_template, create_business_config: the lock, the number ...
LockToAdd(a) ==
    /\ admin[a] = AwayAdmin /\ configLock = NoAdmin /\ configs < MaxConfigs
    /\ configLock' = a
    /\ admin' = [admin EXCEPT ![a] =
           [at |-> "adding", config |-> configs + 1, wasActive |-> FALSE, cleared |-> {}]]
    /\ UNCHANGED <<configs, inUse, activated, snapshot>>

\* ... and the insertion, if nobody has taken the number; a new version is not active.
AddConfig(a) ==
    /\ admin[a].at = "adding" /\ admin[a].config > configs
    /\ configs' = admin[a].config
    /\ configLock' = IF configLock = a THEN NoAdmin ELSE configLock
    /\ admin' = [admin EXCEPT ![a] = AwayAdmin]
    /\ UNCHANGED <<inUse, activated, snapshot>>

\* activate_...: the row is loaded ...
LoadConfig(a, c) ==
    /\ admin[a] = AwayAdmin /\ c \in 1 .. configs
    /\ admin' = [admin EXCEPT ![a] =
           [at |-> "loaded", config |-> c, wasActive |-> c \in inUse, cleared |-> {}]]
    /\ UNCHANGED <<configs, inUse, configLock, activated, snapshot>>

\* ... then the lock is awaited ...
LockToActivate(a) ==
    /\ admin[a].at = "loaded" /\ configLock = NoAdmin
    /\ configLock' = a
    /\ admin' = [admin EXCEPT ![a].at = "locked"]
    /\ UNCHANGED <<configs, inUse, activated, snapshot>>

\* ... the versions that are active are deactivated ...
Deactivate(a) ==
    /\ admin[a].at = "locked"
    /\ admin' = [admin EXCEPT ![a] =
           [at |-> "clearing", config |-> @.config, wasActive |-> @.wasActive,
            cleared |-> inUse]]
    /\ UNCHANGED <<configs, inUse, configLock, activated, snapshot>>

\* Faulty: the UPDATE leaves the loaded row as it is in the session; what it says
\* already is not written again.
WrittenIfChanged(a) == IF admin[a].wasActive THEN {} ELSE {admin[a].config}

\* The UPDATE sets the loaded row to inactive in the session, too, so the assignment
\* that follows it is always a change, and is written.
WrittenActive(a) == {admin[a].config}

\* ... and the one is activated and all of it committed, if the unique index on
\* active versions agrees.
Activate(a) ==
    /\ admin[a].at = "clearing"
    /\ inUse \ admin[a].cleared \subseteq {admin[a].config}
    /\ inUse' = (inUse \ admin[a].cleared) \cup WrittenActive(a)
    /\ activated' = TRUE
    /\ configLock' = IF configLock = a THEN NoAdmin ELSE configLock
    /\ admin' = [admin EXCEPT ![a] = AwayAdmin]
    /\ UNCHANGED <<configs, snapshot>>

\* The request breaks off: its transaction and its lock are gone.
AbandonConfig(a) ==
    /\ admin[a].at # "away"
    /\ configLock' = IF configLock = a THEN NoAdmin ELSE configLock
    /\ admin' = [admin EXCEPT ![a] = AwayAdmin]
    /\ UNCHANGED <<configs, inUse, activated, snapshot>>

Current == IF inUse = {} THEN 0 ELSE CHOOSE c \in inUse : TRUE

\* build_runtime_snapshot: the active version, or 0 for the defaults of the code.
TakeSnapshot(s) ==
    /\ snapshot[s].attempt = 0 /\ MaxTries > 0
    /\ snapshot' = [snapshot EXCEPT ![s] =
           [attempt |-> 1, asked |-> Current, config |-> Current, used |-> NotTaken]]
    /\ UNCHANGED <<configs, inUse, configLock, admin, activated>>

\* Faulty: a retry takes a snapshot of its own.
RetakeSnapshot(s) ==
    /\ snapshot[s].attempt \in 1 .. MaxTries - 1
    /\ snapshot' = [snapshot EXCEPT ![s] =
           [snapshot[s] EXCEPT !.attempt = @ + 1, !.config = Current, !.used = NotTaken]]
    /\ UNCHANGED <<configs, inUse, configLock, admin, activated>>

\* retry_job hands the snapshot of the attempt on.
KeepSnapshot(s) ==
    /\ snapshot[s].attempt \in 1 .. MaxTries - 1
    /\ snapshot' = [snapshot EXCEPT ![s] =
           [attempt |-> @.attempt + 1, asked |-> @.asked, config |-> @.config,
            used |-> NotTaken]]
    /\ UNCHANGED <<configs, inUse, configLock, admin, activated>>

\* provider_from_snapshot, render_user_prompt, business_payload: an execution looks
\* nothing up.
UseSnapshot(s) ==
    /\ snapshot[s].attempt > 0 /\ snapshot[s].used = NotTaken
    /\ snapshot' = [snapshot EXCEPT ![s].used = snapshot[s].config]
    /\ UNCHANGED <<configs, inUse, configLock, admin, activated>>

ConfigurationNext ==
    \/ \E a \in Admin : \/ LockToAdd(a) \/ AddConfig(a) \/ LockToActivate(a)
                        \/ Deactivate(a) \/ Activate(a) \/ AbandonConfig(a)
                        \/ \E c \in ConfigNo : LoadConfig(a, c)
    \/ \E s \in Snapshot : TakeSnapshot(s) \/ KeepSnapshot(s) \/ UseSnapshot(s)

ConfigurationSpec == ConfigurationInit /\ [][ConfigurationNext]_configurationVars

-------------------------------------------------------------------------------
(* Properties. *)

\* Once a version has been activated, exactly one is: requests that overlap neither
\* leave two versions active nor none, although each deactivates what it finds.
OneInUse == Cardinality(inUse) = IF activated THEN 1 ELSE 0

\* Every attempt of a job runs with the configuration that was in use when the job
\* was asked for, however many are activated before it is executed or retried.
RunsAsAsked ==
    \A s \in Snapshot : snapshot[s].used # NotTaken => snapshot[s].used = snapshot[s].asked

\* One version in use, and every attempt of a job runs as it was asked for.
ConfigurationInv == ConfigurationTypeOK /\ OneInUse /\ RunsAsAsked
===============================================================================
