--------------------------- MODULE VerificationJobs ---------------------------
(***************************************************************************)
(* The control plane of detached verification jobs of one managed project: *)
(* the durable job rows (workflow/jobs.py), the two advisory locks that    *)
(* tell whether somebody works on the project (incremental/locking.py),    *)
(* the client calls observe_verification, start_verification and           *)
(* request_verification_cancel, and the worker process                     *)
(* _run_verification_job with confirm_and_verify (workflow/service.py).    *)
(*                                                                         *)
(* Clients and workers are processes.  Every step below is one indivisible *)
(* effect of a process: an flock call, a committed SQLite statement, a     *)
(* file creation.  Between two steps any other process may run, and a      *)
(* process may die, which releases its locks and rolls back its open       *)
(* transaction.                                                            *)
(*                                                                         *)
(* Reading a lock's state is itself an acquisition: worker_lease_active    *)
(* and project_session_active take the lock and give it back.              *)
(***************************************************************************)
EXTENDS Naturals, FiniteSets

CONSTANTS
  Clients,     \* processes that call the service: TUIs, CLI commands
  Jobs,        \* identities available to job rows; each has at most one worker
  Versions,    \* the states the author's files can be in
  Settings,    \* the settings a request can carry
  None         \* "no value"

\* The identities are told apart by what they name.
ASSUME DistinctNames ==
  /\ Clients \cap Jobs = {}
  /\ None \notin Clients \cup Jobs \cup Versions \cup Settings

VARIABLES
  pc,          \* pc[c]: the next step of client c
  seen,        \* seen[c]: the job row client c holds a copy of
  want,        \* want[c]: the request client c submits
  dbLock,      \* the client inside BEGIN IMMEDIATE on control.sqlite3
  leaseFds,    \* processes with a descriptor of the locked worker.lock file
  sessionX,    \* the process with the exclusive lock on session.lock
  sessionS,    \* the clients with a shared lock on session.lock
  state,       \* state[j]: the row of job j, "ABSENT" before the insert
  request,     \* request[j]: what the row of job j asks for
  cancelFile,  \* jobs whose <job_id>.cancel file exists
  wpc,         \* wpc[j]: the next step of the worker process of job j
  expected,    \* expected[j]: the inventory the worker of j insists on
  result,      \* result[j]: the terminal state the worker of j is to record
  source,      \* the author's files
  base         \* the version of the project's current snapshot

clientVars == <<pc, seen, want, dbLock>>
lockVars == <<leaseFds, sessionX, sessionS>>
rowVars == <<state, request, cancelFile>>
workerVars == <<wpc, expected, result>>
sourceVars == <<source, base>>
vars == <<clientVars, lockVars, rowVars, workerVars, sourceVars>>

-----------------------------------------------------------------------------
(* Job rows.                                                               *)

ActiveStates == {"STARTING", "RUNNING", "CANCEL_REQUESTED"}
TerminalStates == {"SUCCEEDED", "FAILED", "INTERRUPTED"}
RowStates == {"ABSENT"} \cup ActiveStates \cup TerminalStates

ActiveJobs == {j \in Jobs : state[j] \in ActiveStates}

\* VerificationJobStore.active(): the open row, if there is one.
IsActiveRead(j) == IF ActiveJobs = {} THEN j = None ELSE j \in ActiveJobs

\* A mutant: finish() without its WHERE clause on the state.
Finish_Unguarded(j, terminal) ==
  /\ dbLock = None
  /\ state' = [state EXCEPT ![j] = terminal]

\* VerificationJobStore.finish(): closes an open row, leaves a closed one.
Finish(j, terminal) ==
  /\ dbLock = None
  /\ state' = IF state[j] \in ActiveStates
              THEN [state EXCEPT ![j] = terminal] ELSE state

\* plan_changes(): no plan when the author's files are the reviewed ones,
\* otherwise a plan identified by the snapshot and the files it compares.
PlanIds == {None} \cup (Versions \X Versions)
CurrentPlan == IF source = base THEN None ELSE <<base, source>>
Requests == [plan : PlanIds, settings : Settings]

-----------------------------------------------------------------------------
(* Locks.  A flock belongs to an open file description: the lease is held  *)
(* while any process has a descriptor of it, and LOCK_UN drops it for all. *)

LeaseFree == leaseFds = {}
SessionFree == sessionX = None /\ sessionS = {}

\* A mutant: `or` for `and` between the two probes of observe_verification.
LeaseProbes_EitherFree ==
  [ observe_lease |-> [busy |-> "observe_session", free |-> "observe_session"],
    absent_lease  |-> [busy |-> "idle",            free |-> "idle"],
    start_lease   |-> [busy |-> "idle",            free |-> "start_acquire"] ]

\* The steps of a client that probe a lock by acquiring it, with the step
\* that follows when the lock was busy and when it was free.
LeaseProbes ==
  [ observe_lease |-> [busy |-> "idle",          free |-> "observe_session"],
    absent_lease  |-> [busy |-> "idle",          free |-> "idle"],
    start_lease   |-> [busy |-> "idle",          free |-> "start_acquire"] ]

SessionProbes ==
  [ observe_session |-> [busy |-> "idle",          free |-> "observe_finish"],
    absent_session  |-> [busy |-> "idle",          free |-> "absent_lease"],
    poll_session    |-> [busy |-> "idle",          free |-> "poll_wait"],
    own_session     |-> [busy |-> "start_release", free |-> "own_finish"],
    fresh_session   |-> [busy |-> "start_release", free |-> "start_plan"] ]

\* start_verification between acquire_worker_lease and its release or transfer.
OwnerSteps == {"own_active", "own_session", "own_finish", "fresh_session",
               "start_plan", "start_create", "start_spawn", "start_close",
               "start_unlaunched", "start_release"}

ClientSteps == {"idle", "start_acquire", "poll_active", "poll_wait",
                "observe_finish", "cancel_begin", "cancel_commit",
                "reading", "mutating", "dead"}
               \cup OwnerSteps \cup DOMAIN LeaseProbes \cup DOMAIN SessionProbes

\* Client c goes to step s; a finished call forgets its local variables.
Goto(c, s) ==
  /\ pc' = [pc EXCEPT ![c] = s]
  /\ IF s = "idle"
     THEN seen' = [seen EXCEPT ![c] = None] /\ want' = [want EXCEPT ![c] = None]
     ELSE UNCHANGED <<seen, want>>

ProbeLeaseBusy(c) ==
  /\ pc[c] \in DOMAIN LeaseProbes
  /\ ~LeaseFree /\ c \notin leaseFds
  /\ Goto(c, LeaseProbes[pc[c]].busy)
  /\ UNCHANGED <<dbLock, lockVars, rowVars, workerVars, sourceVars>>

ProbeLeaseTake(c) ==
  /\ pc[c] \in DOMAIN LeaseProbes
  /\ LeaseFree
  /\ leaseFds' = {c}
  /\ UNCHANGED <<clientVars, sessionX, sessionS, rowVars, workerVars, sourceVars>>

ProbeLeaseGiveBack(c) ==
  /\ pc[c] \in DOMAIN LeaseProbes
  /\ c \in leaseFds
  /\ leaseFds' = {}
  /\ Goto(c, LeaseProbes[pc[c]].free)
  /\ UNCHANGED <<dbLock, sessionX, sessionS, rowVars, workerVars, sourceVars>>

ProbeSessionBusy(c) ==
  /\ pc[c] \in DOMAIN SessionProbes
  /\ ~SessionFree /\ sessionX # c
  /\ Goto(c, SessionProbes[pc[c]].busy)
  /\ UNCHANGED <<dbLock, lockVars, rowVars, workerVars, sourceVars>>

ProbeSessionTake(c) ==
  /\ pc[c] \in DOMAIN SessionProbes
  /\ SessionFree
  /\ sessionX' = c
  /\ UNCHANGED <<clientVars, leaseFds, sessionS, rowVars, workerVars, sourceVars>>

ProbeSessionGiveBack(c) ==
  /\ pc[c] \in DOMAIN SessionProbes
  /\ sessionX = c
  /\ sessionX' = None
  /\ Goto(c, SessionProbes[pc[c]].free)
  /\ UNCHANGED <<dbLock, leaseFds, sessionS, rowVars, workerVars, sourceVars>>

Probe(c) == \/ ProbeLeaseBusy(c) \/ ProbeLeaseTake(c) \/ ProbeLeaseGiveBack(c)
            \/ ProbeSessionBusy(c) \/ ProbeSessionTake(c) \/ ProbeSessionGiveBack(c)

-----------------------------------------------------------------------------
(* observe_verification.                                                   *)

ObserveBegin(c) ==
  /\ pc[c] = "idle"
  /\ \E j \in Jobs \cup {None} :
       /\ IsActiveRead(j)
       /\ pc' = [pc EXCEPT ![c] = IF j = None THEN "absent_session"
                                              ELSE "observe_lease"]
       /\ seen' = [seen EXCEPT ![c] = j]
  /\ UNCHANGED <<want, dbLock, lockVars, rowVars, workerVars, sourceVars>>

\* A mutant: the observer notices the dead worker and leaves the row open.
ObserveFinish_Skipped(c) ==
  /\ pc[c] = "observe_finish"
  /\ Goto(c, "idle")
  /\ UNCHANGED <<dbLock, lockVars, rowVars, workerVars, sourceVars>>

\* Both lifetime signals were free, one after the other.
ObserveFinish(c) ==
  /\ pc[c] = "observe_finish"
  /\ Finish(seen[c], "INTERRUPTED")
  /\ Goto(c, "idle")
  /\ UNCHANGED <<dbLock, lockVars, request, cancelFile, workerVars, sourceVars>>

-----------------------------------------------------------------------------
(* start_verification.  The client submits the plan it has reviewed.       *)

StartBegin(c) ==
  /\ pc[c] = "idle"
  /\ \E j \in Jobs \cup {None}, s \in Settings :
       /\ IsActiveRead(j)
       /\ pc' = [pc EXCEPT ![c] = IF j = None THEN "start_acquire"
                                              ELSE "start_lease"]
       /\ seen' = [seen EXCEPT ![c] = j]
       /\ want' = [want EXCEPT ![c] = [plan |-> CurrentPlan, settings |-> s]]
  /\ UNCHANGED <<dbLock, lockVars, rowVars, workerVars, sourceVars>>

AcquireLease(c) ==
  /\ pc[c] = "start_acquire"
  /\ IF LeaseFree
     THEN leaseFds' = {c} /\ Goto(c, "own_active")
     ELSE UNCHANGED leaseFds /\ Goto(c, "poll_active")
  /\ UNCHANGED <<dbLock, sessionX, sessionS, rowVars, workerVars, sourceVars>>

\* The lease is taken: wait for the row its holder is about to insert, attach
\* to it (or report the conflict), or give up after some attempts.
PollActive(c) ==
  /\ pc[c] = "poll_active"
  /\ Goto(c, IF ActiveJobs # {} THEN "idle" ELSE "poll_session")
  /\ UNCHANGED <<dbLock, lockVars, rowVars, workerVars, sourceVars>>

PollAgain(c) ==
  /\ pc[c] = "poll_wait"
  /\ Goto(c, "poll_active")
  /\ UNCHANGED <<dbLock, lockVars, rowVars, workerVars, sourceVars>>

\* The last attempt: the client is told that a verification is starting.
ReportStarting(c) ==
  /\ pc[c] = "poll_wait"
  /\ Goto(c, "idle")
  /\ UNCHANGED <<dbLock, lockVars, rowVars, workerVars, sourceVars>>

\* With the lease in hand the open row is read again.
OwnActive(c) ==
  /\ pc[c] = "own_active"
  /\ \E j \in Jobs \cup {None} :
       /\ IsActiveRead(j)
       /\ pc' = [pc EXCEPT ![c] = IF j = None THEN "fresh_session"
                                              ELSE "own_session"]
       /\ seen' = [seen EXCEPT ![c] = j]
  /\ UNCHANGED <<want, dbLock, lockVars, rowVars, workerVars, sourceVars>>

OwnFinish(c) ==
  /\ pc[c] = "own_finish"
  /\ Finish(seen[c], "INTERRUPTED")
  /\ Goto(c, "fresh_session")
  /\ UNCHANGED <<dbLock, lockVars, request, cancelFile, workerVars, sourceVars>>

\* A stale plan is refused; so is a request whose options do not validate.
StartPlan(c) ==
  /\ pc[c] = "start_plan"
  /\ \/ want[c].plan = CurrentPlan /\ Goto(c, "start_create")
     \/ Goto(c, "start_release")
  /\ UNCHANGED <<dbLock, lockVars, rowVars, workerVars, sourceVars>>

\* VerificationJobStore.create(): the unique index admits one open row, a
\* second insert raises and the lease is released.  The bound of the model:
\* when Jobs is used up no further insert succeeds.
CreateJob(c) ==
  /\ pc[c] = "start_create"
  /\ dbLock = None
  /\ IF ActiveJobs # {} \/ \A j \in Jobs : state[j] # "ABSENT"
     THEN Goto(c, "start_release") /\ UNCHANGED <<state, request>>
     ELSE \E j \in Jobs :
            /\ state[j] = "ABSENT"
            /\ state' = [state EXCEPT ![j] = "STARTING"]
            /\ request' = [request EXCEPT ![j] = want[c]]
            /\ pc' = [pc EXCEPT ![c] = "start_spawn"]
            /\ seen' = [seen EXCEPT ![c] = j]
            /\ UNCHANGED want
  /\ UNCHANGED <<dbLock, lockVars, cancelFile, workerVars, sourceVars>>

\* A mutant: Popen without pass_fds.
Spawn_NotInherited(c) ==
  /\ pc[c] = "start_spawn"
  /\ wpc' = [wpc EXCEPT ![seen[c]] = "spawned"]
  /\ Goto(c, "start_close")
  /\ UNCHANGED <<dbLock, lockVars, rowVars, expected, result, sourceVars>>

\* Popen with pass_fds: the child shares the launcher's open file description.
Spawn(c) ==
  /\ pc[c] = "start_spawn"
  /\ wpc' = [wpc EXCEPT ![seen[c]] = "spawned"]
  /\ leaseFds' = leaseFds \cup {seen[c]}
  /\ Goto(c, "start_close")
  /\ UNCHANGED <<dbLock, sessionX, sessionS, rowVars, expected, result, sourceVars>>

SpawnFails(c) ==
  /\ pc[c] = "start_spawn"
  /\ Finish(seen[c], "FAILED")
  /\ Goto(c, "start_unlaunched")
  /\ UNCHANGED <<dbLock, lockVars, request, cancelFile, workerVars, sourceVars>>

\* A mutant: release_worker_lease, which unlocks, in place of os.close.
CloseLease_Unlocks(c) ==
  /\ pc[c] = "start_close"
  /\ leaseFds' = {}
  /\ Goto(c, "idle")
  /\ UNCHANGED <<dbLock, sessionX, sessionS, rowVars, workerVars, sourceVars>>

\* os.close: the launcher drops its descriptor without unlocking the file.
CloseLease(c) ==
  /\ pc[c] = "start_close"
  /\ leaseFds' = leaseFds \ {c}
  /\ Goto(c, "idle")
  /\ UNCHANGED <<dbLock, sessionX, sessionS, rowVars, workerVars, sourceVars>>

\* release_worker_lease: LOCK_UN frees the lease whoever shares it.
ReleaseLease(c) ==
  /\ pc[c] \in {"start_release", "start_unlaunched"}
  /\ leaseFds' = {}
  /\ Goto(c, "idle")
  /\ UNCHANGED <<dbLock, sessionX, sessionS, rowVars, workerVars, sourceVars>>

Start(c) == \/ AcquireLease(c) \/ PollActive(c) \/ PollAgain(c) \/ ReportStarting(c)
            \/ OwnActive(c) \/ OwnFinish(c) \/ StartPlan(c) \/ CreateJob(c)
            \/ Spawn(c) \/ SpawnFails(c) \/ CloseLease(c) \/ ReleaseLease(c)

-----------------------------------------------------------------------------
(* request_verification_cancel: the file is written inside the transaction *)
(* that changes the row, before its commit.                                *)

CancelBegin(c) ==
  /\ pc[c] = "idle"
  /\ \E j \in ActiveJobs :
       /\ pc' = [pc EXCEPT ![c] = "cancel_begin"]
       /\ seen' = [seen EXCEPT ![c] = j]
  /\ UNCHANGED <<want, dbLock, lockVars, rowVars, workerVars, sourceVars>>

\* A mutant: the row is changed and the file forgotten.
CancelWrite_NoFile(c) ==
  /\ pc[c] = "cancel_begin"
  /\ dbLock = None
  /\ dbLock' = c
  /\ Goto(c, "cancel_commit")
  /\ UNCHANGED <<lockVars, rowVars, workerVars, sourceVars>>

CancelWrite(c) ==
  /\ pc[c] = "cancel_begin"
  /\ dbLock = None
  /\ IF state[seen[c]] \in ActiveStates
     THEN /\ dbLock' = c
          /\ cancelFile' = cancelFile \cup {seen[c]}
          /\ Goto(c, "cancel_commit")
     ELSE UNCHANGED <<dbLock, cancelFile>> /\ Goto(c, "idle")
  /\ UNCHANGED <<lockVars, state, request, workerVars, sourceVars>>

CancelCommit(c) ==
  /\ pc[c] = "cancel_commit"
  /\ state' = [state EXCEPT ![seen[c]] = "CANCEL_REQUESTED"]
  /\ dbLock' = None
  /\ Goto(c, "idle")
  /\ UNCHANGED <<lockVars, request, cancelFile, workerVars, sourceVars>>

Cancel(c) == CancelWrite(c) \/ CancelCommit(c)

-----------------------------------------------------------------------------
(* Other users of the session lock: `manuscript status` reads under a      *)
(* shared lock; reconcile_conjectural_policy, the clarification and        *)
(* correspondence commands and a verification run directly from the        *)
(* command line hold it exclusively.  Only the last imports the source.    *)

ReadBegin(c) ==
  /\ pc[c] = "idle"
  /\ sessionX = None
  /\ sessionS' = sessionS \cup {c}
  /\ Goto(c, "reading")
  /\ UNCHANGED <<dbLock, leaseFds, sessionX, rowVars, workerVars, sourceVars>>

ReadEnd(c) ==
  /\ pc[c] = "reading"
  /\ sessionS' = sessionS \ {c}
  /\ Goto(c, "idle")
  /\ UNCHANGED <<dbLock, leaseFds, sessionX, rowVars, workerVars, sourceVars>>

MutateBegin(c) ==
  /\ pc[c] = "idle"
  /\ SessionFree
  /\ sessionX' = c
  /\ Goto(c, "mutating")
  /\ UNCHANGED <<dbLock, leaseFds, sessionS, rowVars, workerVars, sourceVars>>

MutateEnd(c) ==
  /\ pc[c] = "mutating"
  /\ sessionX' = None
  /\ base' \in {base, source}
  /\ Goto(c, "idle")
  /\ UNCHANGED <<dbLock, leaseFds, sessionS, rowVars, workerVars, source>>

UseSession(c) == ReadEnd(c) \/ MutateEnd(c)

-----------------------------------------------------------------------------
(* _run_verification_job and, inside it, confirm_and_verify.               *)

LiveSteps == {"spawned", "planning", "checked", "entering", "locked",
              "imported", "verifying", "finishing", "closing"}
WorkerSteps == {"absent", "gone"} \cup LiveSteps
Live(j) == wpc[j] \in LiveSteps
SessionSteps == {"locked", "imported", "verifying"}

\* The worker of j goes to step s.
WorkerGoto(j, s) == wpc' = [wpc EXCEPT ![j] = s]

\* The process is gone, and its local variables with it.
Exit(j) == /\ WorkerGoto(j, "gone")
           /\ expected' = [expected EXCEPT ![j] = None]
           /\ result' = [result EXCEPT ![j] = None]

\* The worker's call ends with a terminal state to record; the session lock,
\* if it holds it, is released on the way.
Conclude(j, terminal) ==
  /\ WorkerGoto(j, "finishing")
  /\ result' = [result EXCEPT ![j] = terminal]
  /\ sessionX' = IF sessionX = j THEN None ELSE sessionX

\* The inherited descriptor still identifies the lock (the second flock on a
\* shared description always succeeds); mark_running keeps a cancellation.
MarkRunning(j) ==
  /\ wpc[j] = "spawned"
  /\ dbLock = None
  /\ state' = IF state[j] = "STARTING" THEN [state EXCEPT ![j] = "RUNNING"] ELSE state
  /\ WorkerGoto(j, "planning")
  /\ UNCHANGED <<clientVars, lockVars, request, cancelFile, expected, result,
                 sourceVars>>

\* A changed plan raises StaleChangePlanError, which ends the job FAILED.
CheckPlan(j) ==
  /\ wpc[j] = "planning"
  /\ IF request[j].plan = CurrentPlan
     THEN /\ expected' = [expected EXCEPT ![j] =
                            IF CurrentPlan = None THEN None ELSE source]
          /\ WorkerGoto(j, "checked")
          /\ UNCHANGED <<result, sessionX>>
     ELSE Conclude(j, "FAILED") /\ UNCHANGED expected
  /\ UNCHANGED <<clientVars, leaseFds, sessionS, rowVars, sourceVars>>

\* A mutant: the checkpoint after the import is missing.
Checkpoint_OnlyFirst(j) ==
  /\ wpc[j] \in {"checked", "imported"}
  /\ IF j \in cancelFile /\ wpc[j] = "checked"
     THEN Conclude(j, "INTERRUPTED")
     ELSE /\ WorkerGoto(j, IF wpc[j] = "checked" THEN "entering" ELSE "verifying")
          /\ UNCHANGED <<result, sessionX>>
  /\ UNCHANGED <<clientVars, leaseFds, sessionS, rowVars, expected, sourceVars>>

\* The cooperative checkpoints: before the run, and after the import.
Checkpoint(j) ==
  /\ wpc[j] \in {"checked", "imported"}
  /\ IF j \in cancelFile
     THEN Conclude(j, "INTERRUPTED")
     ELSE /\ WorkerGoto(j, IF wpc[j] = "checked" THEN "entering" ELSE "verifying")
          /\ UNCHANGED <<result, sessionX>>
  /\ UNCHANGED <<clientVars, leaseFds, sessionS, rowVars, expected, sourceVars>>

\* project_lock(exclusive=True) without waiting: a busy lock ends the job FAILED.
EnterSession(j) ==
  /\ wpc[j] = "entering"
  /\ IF SessionFree
     THEN sessionX' = j /\ WorkerGoto(j, "locked") /\ UNCHANGED result
     ELSE Conclude(j, "FAILED")
  /\ UNCHANGED <<clientVars, leaseFds, sessionS, rowVars, expected, sourceVars>>

\* A mutant: the expected inventory is not compared.
Import_Unchecked(j) ==
  /\ wpc[j] = "locked"
  /\ base' = source
  /\ WorkerGoto(j, "imported")
  /\ UNCHANGED <<clientVars, lockVars, rowVars, expected, result, source>>

\* prepare_pass imports the author's files when they are the expected ones.
Import(j) ==
  /\ wpc[j] = "locked"
  /\ IF expected[j] \in {None, source}
     THEN /\ base' = source
          /\ WorkerGoto(j, "imported")
          /\ UNCHANGED <<result, sessionX>>
     ELSE Conclude(j, "FAILED") /\ UNCHANGED base
  /\ UNCHANGED <<clientVars, leaseFds, sessionS, rowVars, expected, source>>

\* The verification runs to its end, or a later checkpoint stops it, or it
\* raises; an interrupt signal may end it anywhere.
VerifyEnds(j) ==
  /\ wpc[j] = "verifying"
  /\ \/ \E terminal \in {"SUCCEEDED", "FAILED"} : Conclude(j, terminal)
     \/ j \in cancelFile /\ Conclude(j, "INTERRUPTED")
  /\ UNCHANGED <<clientVars, leaseFds, sessionS, rowVars, expected, sourceVars>>

Interrupted(j) ==
  /\ wpc[j] \in {"planning", "checked", "entering"} \cup SessionSteps
  /\ Conclude(j, "INTERRUPTED")
  /\ UNCHANGED <<clientVars, leaseFds, sessionS, rowVars, expected, sourceVars>>

RecordResult(j) ==
  /\ wpc[j] = "finishing"
  /\ Finish(j, result[j])
  /\ WorkerGoto(j, "closing")
  /\ UNCHANGED <<clientVars, lockVars, request, cancelFile, expected, result,
                 sourceVars>>

\* A mutant: a leaked descriptor keeps the lease.
CloseInherited_Leaks(j) ==
  /\ wpc[j] = "closing"
  /\ Exit(j)
  /\ UNCHANGED <<clientVars, lockVars, rowVars, sourceVars>>

CloseInherited(j) ==
  /\ wpc[j] = "closing"
  /\ leaseFds' = leaseFds \ {j}
  /\ Exit(j)
  /\ UNCHANGED <<clientVars, sessionX, sessionS, rowVars, sourceVars>>

Work(j) == \/ MarkRunning(j) \/ CheckPlan(j) \/ Checkpoint(j) \/ EnterSession(j)
           \/ Import(j) \/ VerifyEnds(j) \/ RecordResult(j) \/ CloseInherited(j)

-----------------------------------------------------------------------------
(* The environment: deaths of processes, and the author.                   *)

WorkerDies(j) ==
  /\ Live(j)
  /\ Exit(j)
  /\ leaseFds' = leaseFds \ {j}
  /\ sessionX' = IF sessionX = j THEN None ELSE sessionX
  /\ UNCHANGED <<clientVars, sessionS, rowVars, sourceVars>>

\* The operating system closes the client's descriptors and SQLite rolls its
\* transaction back.
ClientDies(c) ==
  /\ pc[c] \notin {"idle", "dead"}
  /\ pc' = [pc EXCEPT ![c] = "dead"]
  /\ seen' = [seen EXCEPT ![c] = None]
  /\ want' = [want EXCEPT ![c] = None]
  /\ leaseFds' = leaseFds \ {c}
  /\ sessionX' = IF sessionX = c THEN None ELSE sessionX
  /\ sessionS' = sessionS \ {c}
  /\ dbLock' = IF dbLock = c THEN None ELSE dbLock
  /\ UNCHANGED <<rowVars, workerVars, sourceVars>>

\* A replacement client is started.
ClientReturns(c) ==
  /\ pc[c] = "dead"
  /\ Goto(c, "idle")
  /\ UNCHANGED <<dbLock, lockVars, rowVars, workerVars, sourceVars>>

AuthorEdits ==
  /\ source' \in Versions \ {source}
  /\ UNCHANGED <<clientVars, lockVars, rowVars, workerVars, base>>

-----------------------------------------------------------------------------

Init ==
  /\ pc = [c \in Clients |-> "idle"]
  /\ seen = [c \in Clients |-> None]
  /\ want = [c \in Clients |-> None]
  /\ dbLock = None
  /\ leaseFds = {} /\ sessionX = None /\ sessionS = {}
  /\ state = [j \in Jobs |-> "ABSENT"]
  /\ request = [j \in Jobs |-> None]
  /\ cancelFile = {}
  /\ wpc = [j \in Jobs |-> "absent"]
  /\ expected = [j \in Jobs |-> None]
  /\ result = [j \in Jobs |-> None]
  /\ source \in Versions /\ base \in Versions

Begin(c) == \/ ObserveBegin(c) \/ StartBegin(c) \/ CancelBegin(c)
            \/ ReadBegin(c) \/ MutateBegin(c)
Continue(c) == \/ Probe(c) \/ ObserveFinish(c) \/ Start(c) \/ Cancel(c) \/ UseSession(c)

Next == \/ \E c \in Clients : Begin(c) \/ Continue(c) \/ ClientDies(c) \/ ClientReturns(c)
        \/ \E j \in Jobs : Work(j) \/ Interrupted(j) \/ WorkerDies(j)
        \/ AuthorEdits

Spec == Init /\ [][Next]_vars

\* Processes that run are scheduled; strong fairness because a statement that
\* finds the database busy is retried for 30 seconds while every transaction
\* lasts for one statement.  Every client keeps polling: the terminal interface
\* calls observe_verification on a timer, whatever its user does in between, and
\* is opened again when it was closed.
Fairness == /\ \A c \in Clients : /\ SF_vars(Continue(c)) /\ SF_vars(ObserveBegin(c))
                                 /\ WF_vars(ClientReturns(c))
            /\ \A j \in Jobs : SF_vars(Work(j))
FairSpec == Spec /\ Fairness

-----------------------------------------------------------------------------
(* What the control plane must guarantee.                                  *)

TypeOK ==
  /\ pc \in [Clients -> ClientSteps]
  /\ seen \in [Clients -> Jobs \cup {None}]
  /\ want \in [Clients -> Requests \cup {None}]
  /\ dbLock \in Clients \cup {None}
  /\ leaseFds \subseteq Clients \cup Jobs
  /\ sessionX \in Clients \cup Jobs \cup {None}
  /\ sessionS \subseteq Clients
  /\ state \in [Jobs -> RowStates]
  /\ request \in [Jobs -> Requests \cup {None}]
  /\ cancelFile \subseteq Jobs
  /\ wpc \in [Jobs -> WorkerSteps]
  /\ expected \in [Jobs -> Versions \cup {None}]
  /\ result \in [Jobs -> TerminalStates \cup {None}]
  /\ source \in Versions
  /\ base \in Versions

\* At most one worker process is alive, however many clients start, observe
\* and die: the lease's descriptor is passed from launcher to worker without
\* ever being free in between (service.py, pass_fds and os.close).
AtMostOneWorker == \A j, k \in Jobs : Live(j) /\ Live(k) => j = k

\* Nobody but the worker closes the row of a job whose worker is alive, and
\* nobody closes a row between its insert and the Popen: an observer that read
\* the row long ago still finds one of the two locks taken.
NoFalseInterruption ==
  /\ \A j \in Jobs : Live(j) /\ wpc[j] # "closing" => state[j] \in ActiveStates
  /\ \A c \in Clients : pc[c] = "start_spawn" => state[seen[c]] \in ActiveStates

\* A worker that mutates the project holds the lease for as long as it does, so
\* that no client can come to own the project meanwhile.
MutatingWorkerOwnsProject ==
  \A j \in Jobs : sessionX = j =>
    /\ j \in leaseFds
    /\ \A c \in Clients : pc[c] \notin OwnerSteps \ {"start_close"}

\* The insert of create() never meets the unique index: the launcher has the
\* lease and has closed or refused every open row before it inserts.
InsertNeverConflicts ==
  \A c \in Clients : pc[c] = "start_create" => ActiveJobs = {}

\* A row never says CANCEL_REQUESTED without the file the worker looks at, also
\* when the client dies inside request_cancel.
CancelRequestReachesWorker ==
  \A j \in Jobs : state[j] = "CANCEL_REQUESTED" => j \in cancelFile

\* A request that is on disk before the worker has imported the source is
\* honoured: the job never ends SUCCEEDED.
EarlyCancelNeverSucceeds ==
  \A j \in Jobs :
    [](/\ j \in cancelFile
       /\ wpc[j] \in {"absent", "spawned", "planning", "checked", "entering",
                      "locked", "imported"}
       => [](state[j] # "SUCCEEDED"))

\* A job that was confirmed with a plan imports exactly the files of that plan,
\* whatever the author and other runs do after the confirmation.
PlannedImport ==
  [][\A j \in Jobs :
       wpc[j] = "locked" /\ wpc'[j] = "imported" /\ request[j].plan # None
         => base' = request[j].plan[2]]_vars

\* "Only explicit confirmation permits the next iteration": a job confirmed
\* without a plan, when there was nothing to review, imports nothing new.
ReviewedImport ==
  [][\A j \in Jobs :
       wpc[j] = "locked" /\ wpc'[j] = "imported" /\ request[j].plan = None
         => base' = base]_vars

\* ProjectLockedError is "Raised when a persistent verification project is
\* already mutating": a worker is turned away only by somebody who mutates.
LockedMeansMutating ==
  [][\A j \in Jobs :
       wpc[j] = "entering" /\ wpc'[j] = "finishing" /\ result'[j] = "FAILED"
         => sessionX \in Clients /\ pc[sessionX] = "mutating"]_vars

\* A job is eventually closed, by its worker or, when that died, by a polling
\* client, once clients do no more than observe and cancel and stop dying.
JobsEnd ==
  <>[][\A c \in Clients :
         /\ pc[c] = "idle" => pc'[c] \in {"idle", "observe_lease", "absent_session",
                                         "cancel_begin"}
         /\ pc[c] # "dead" => pc'[c] # "dead"]_vars
    => \A j \in Jobs : state[j] \in ActiveStates ~> state[j] \in TerminalStates

\* The lease is never kept for good: every owner hands it on or gives it back.
LeaseReturns == []<>LeaseFree

\* Who is responsible for job j, for the abstract specification.
Owner(j) == IF Live(j) THEN "worker"
            ELSE IF \E c \in Clients : /\ pc[c] \in {"start_spawn", "start_unlaunched"}
                                       /\ seen[c] = j
            THEN "launcher" ELSE "none"

\* The control plane keeps what JobLifecycle promises: rows move forward only,
\* one job is open at a time, and an owner is never declared dead.
Lifecycle == INSTANCE JobLifecycle WITH row <- state, owner <- [j \in Jobs |-> Owner(j)]
ImplementsLifecycle == Lifecycle!Spec
=============================================================================
