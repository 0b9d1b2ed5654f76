------------------------ MODULE VerificationJobsProofs ------------------------
(***************************************************************************)
(* Proofs about VerificationJobs for any number of clients, jobs, versions *)
(* and settings: its type invariant and its safety invariants.             *)
(*                                                                         *)
(* The argument.  A process with a descriptor of the lease is at a step    *)
(* that says so, and at most one client has one; a worker has one as long  *)
(* as it lives, and shares it with a client only while that client is      *)
(* about to close its own (LeaseInv).  So whoever finds the lease free, or *)
(* owns it without a worker, knows that no worker lives and that no row is *)
(* between its insert and its Popen; for the row an observer has read this *)
(* stays true, because a row is inserted only once (AbandonedInv).         *)
(***************************************************************************)
EXTENDS VerificationJobs, TLAPS

\* The steps at which a client holds a copy of a row.
SeenSteps == {"observe_lease", "observe_session", "observe_finish", "start_lease",
              "own_session", "own_finish", "start_spawn", "start_unlaunched",
              "start_close", "cancel_begin", "cancel_commit"}

\* The steps of an owner that has found no other open row.
FreshSteps == {"fresh_session", "start_plan", "start_create"}

\* A copied row exists.
SeenInv ==
  \A c \in Clients : pc[c] \in SeenSteps => seen[c] \in Jobs /\ state[seen[c]] # "ABSENT"

\* Who has a descriptor of the lease.
LeaseInv ==
  /\ \A c \in Clients : /\ c \in leaseFds => pc[c] \in OwnerSteps \cup DOMAIN LeaseProbes
                        /\ pc[c] \in OwnerSteps => c \in leaseFds
  /\ \A j \in Jobs : j \in leaseFds <=> Live(j)
  /\ \A c, d \in Clients : c \in leaseFds /\ d \in leaseFds => c = d
  /\ \A j, k \in Jobs : j \in leaseFds /\ k \in leaseFds => j = k
  /\ \A c \in Clients, j \in Jobs :
       c \in leaseFds /\ j \in leaseFds => pc[c] = "start_close"

\* Who holds the session lock for a worker, and the write lock of the database.
SessionInv == \A j \in Jobs : sessionX = j => wpc[j] \in SessionSteps
DatabaseInv ==
  /\ \A c \in Clients : dbLock = c <=> pc[c] = "cancel_commit"
  /\ \A c \in Clients : pc[c] = "cancel_commit" =>
       state[seen[c]] \in ActiveStates /\ seen[c] \in cancelFile

\* A worker that has finished has a terminal state to record.
ResultInv == \A j \in Jobs : wpc[j] = "finishing" => result[j] \in TerminalStates

\* The row an observer has found without an owner stays without one.
AbandonedInv ==
  \A c \in Clients : pc[c] \in {"observe_session", "observe_finish"} =>
    /\ ~Live(seen[c])
    /\ \A d \in Clients : pc[d] = "start_spawn" => seen[d] # seen[c]

\* A launcher that could not start a worker has closed its row.
UnlaunchedInv ==
  \A c \in Clients : pc[c] = "start_unlaunched" => state[seen[c]] \notin ActiveStates

\* Open rows: one at most, and the owner of the lease knows it.
OpenRowsInv ==
  /\ \A j, k \in Jobs : state[j] \in ActiveStates /\ state[k] \in ActiveStates => j = k
  /\ \A c \in Clients, j \in Jobs :
       /\ pc[c] \in FreshSteps => state[j] \notin ActiveStates
       /\ pc[c] \in {"own_session", "own_finish"} /\ state[j] \in ActiveStates => j = seen[c]

\* The invariant in three layers, each inductive over the ones before it.
Data == TypeOK /\ SeenInv /\ ResultInv
Locks == LeaseInv /\ SessionInv
Rows == DatabaseInv /\ AbandonedInv /\ UnlaunchedInv /\ OpenRowsInv
        /\ NoFalseInterruption /\ CancelRequestReachesWorker
IInv == Data /\ Locks /\ Rows

-----------------------------------------------------------------------------
(* Where a client goes after a probe.                                      *)

\* The outcomes of the lease probes: only an observer that found the lease free
\* goes on to the session lock, only a start goes on to acquire the lease.
LEMMA LeaseProbeTargets ==
  /\ DOMAIN LeaseProbes = {"observe_lease", "absent_lease", "start_lease"}
  /\ \A s \in DOMAIN LeaseProbes : LeaseProbes[s].busy = "idle"
  /\ LeaseProbes["observe_lease"].free = "observe_session"
  /\ LeaseProbes["absent_lease"].free = "idle"
  /\ LeaseProbes["start_lease"].free = "start_acquire"
<1>1. DOMAIN LeaseProbes = {"observe_lease", "absent_lease", "start_lease"}
  BY DEF LeaseProbes
<1>2. \A s \in {"observe_lease", "absent_lease", "start_lease"} :
        LeaseProbes[s].busy = "idle"
  BY DEF LeaseProbes
<1>3. /\ LeaseProbes["observe_lease"].free = "observe_session"
      /\ LeaseProbes["absent_lease"].free = "idle"
      /\ LeaseProbes["start_lease"].free = "start_acquire"
  BY DEF LeaseProbes
<1> QED BY <1>1, <1>2, <1>3

\* The outcomes of the session probes: an owner of the lease gives it back when
\* the session lock is busy.
LEMMA SessionProbeTargets ==
  /\ DOMAIN SessionProbes = {"observe_session", "absent_session", "poll_session",
                             "own_session", "fresh_session"}
  /\ \A s \in DOMAIN SessionProbes :
       SessionProbes[s].busy = IF s \in OwnerSteps THEN "start_release" ELSE "idle"
  /\ SessionProbes["observe_session"].free = "observe_finish"
  /\ SessionProbes["absent_session"].free = "absent_lease"
  /\ SessionProbes["poll_session"].free = "poll_wait"
  /\ SessionProbes["own_session"].free = "own_finish"
  /\ SessionProbes["fresh_session"].free = "start_plan"
<1>1. DOMAIN SessionProbes = {"observe_session", "absent_session", "poll_session",
                              "own_session", "fresh_session"}
  BY DEF SessionProbes
<1>2. \A s \in {"observe_session", "absent_session", "poll_session",
                "own_session", "fresh_session"} :
        SessionProbes[s].busy = IF s \in OwnerSteps THEN "start_release" ELSE "idle"
  BY DEF SessionProbes, OwnerSteps
<1>3. /\ SessionProbes["observe_session"].free = "observe_finish"
      /\ SessionProbes["absent_session"].free = "absent_lease"
      /\ SessionProbes["poll_session"].free = "poll_wait"
      /\ SessionProbes["own_session"].free = "own_finish"
      /\ SessionProbes["fresh_session"].free = "start_plan"
  BY DEF SessionProbes
<1> QED BY <1>1, <1>2, <1>3

-----------------------------------------------------------------------------
(* Every step keeps the three layers.                                      *)

\* Types, the rows clients have copied, and the result a worker is to record:
\* a copied row exists, because rows are never deleted.
LEMMA DataStep == Data /\ [Next]_vars => Data'
<1> SUFFICES ASSUME Data, [Next]_vars PROVE Data'
  OBVIOUS
<1> USE DistinctNames, LeaseProbeTargets, SessionProbeTargets DEF Data, TypeOK,
          SeenInv, SeenSteps, ResultInv, ActiveStates, TerminalStates,
          RowStates, ClientSteps, OwnerSteps, WorkerSteps, LiveSteps, Requests,
          PlanIds
<1>1. ASSUME NEW c \in Clients, ProbeLeaseBusy(c) PROVE Data'
  BY <1>1 DEF ProbeLeaseBusy, Goto, LeaseFree, lockVars, rowVars, workerVars,
     sourceVars
<1>2. ASSUME NEW c \in Clients, ProbeLeaseTake(c) PROVE Data'
  BY <1>2 DEF ProbeLeaseTake, LeaseFree, clientVars, rowVars, workerVars,
     sourceVars
<1>3. ASSUME NEW c \in Clients, ProbeLeaseGiveBack(c) PROVE Data'
  BY <1>3 DEF ProbeLeaseGiveBack, Goto, rowVars, workerVars, sourceVars
<1>4. ASSUME NEW c \in Clients, ProbeSessionBusy(c) PROVE Data'
  BY <1>4 DEF ProbeSessionBusy, Goto, SessionFree, lockVars, rowVars,
     workerVars, sourceVars
<1>5. ASSUME NEW c \in Clients, ProbeSessionTake(c) PROVE Data'
  BY <1>5 DEF ProbeSessionTake, SessionFree, clientVars, rowVars, workerVars,
     sourceVars
<1>6. ASSUME NEW c \in Clients, ProbeSessionGiveBack(c) PROVE Data'
  BY <1>6 DEF ProbeSessionGiveBack, Goto, rowVars, workerVars, sourceVars
<1>7. ASSUME NEW c \in Clients, ObserveBegin(c) PROVE Data'
  BY <1>7 DEF ObserveBegin, IsActiveRead, ActiveJobs, lockVars, rowVars,
     workerVars, sourceVars
<1>8. ASSUME NEW c \in Clients, ObserveFinish(c) PROVE Data'
  BY <1>8 DEF ObserveFinish, Goto, Finish, lockVars, workerVars, sourceVars
<1>9. ASSUME NEW c \in Clients, StartBegin(c) PROVE Data'
  BY <1>9 DEF StartBegin, IsActiveRead, CurrentPlan, ActiveJobs, lockVars,
     rowVars, workerVars, sourceVars
<1>10. ASSUME NEW c \in Clients, AcquireLease(c) PROVE Data'
  BY <1>10 DEF AcquireLease, Goto, LeaseFree, rowVars, workerVars, sourceVars
<1>11. ASSUME NEW c \in Clients, PollActive(c) PROVE Data'
  BY <1>11 DEF PollActive, Goto, ActiveJobs, lockVars, rowVars, workerVars,
     sourceVars
<1>12. ASSUME NEW c \in Clients, PollAgain(c) PROVE Data'
  BY <1>12 DEF PollAgain, Goto, lockVars, rowVars, workerVars, sourceVars
<1>13. ASSUME NEW c \in Clients, ReportStarting(c) PROVE Data'
  BY <1>13 DEF ReportStarting, Goto, lockVars, rowVars, workerVars, sourceVars
<1>14. ASSUME NEW c \in Clients, OwnActive(c) PROVE Data'
  BY <1>14 DEF OwnActive, IsActiveRead, ActiveJobs, lockVars, rowVars,
     workerVars, sourceVars
<1>15. ASSUME NEW c \in Clients, OwnFinish(c) PROVE Data'
  BY <1>15 DEF OwnFinish, Goto, Finish, lockVars, workerVars, sourceVars
<1>16. ASSUME NEW c \in Clients, StartPlan(c) PROVE Data'
  BY <1>16 DEF StartPlan, Goto, CurrentPlan, lockVars, rowVars, workerVars,
     sourceVars
<1>17. ASSUME NEW c \in Clients, CreateJob(c) PROVE Data'
  BY <1>17 DEF CreateJob, Goto, ActiveJobs, lockVars, workerVars, sourceVars
<1>18. ASSUME NEW c \in Clients, Spawn(c) PROVE Data'
  BY <1>18 DEF Spawn, Goto, rowVars, sourceVars
<1>19. ASSUME NEW c \in Clients, SpawnFails(c) PROVE Data'
  BY <1>19 DEF SpawnFails, Goto, Finish, lockVars, workerVars, sourceVars
<1>20. ASSUME NEW c \in Clients, CloseLease(c) PROVE Data'
  BY <1>20 DEF CloseLease, Goto, rowVars, workerVars, sourceVars
<1>21. ASSUME NEW c \in Clients, ReleaseLease(c) PROVE Data'
  BY <1>21 DEF ReleaseLease, Goto, rowVars, workerVars, sourceVars
<1>22. ASSUME NEW c \in Clients, CancelBegin(c) PROVE Data'
  BY <1>22 DEF CancelBegin, ActiveJobs, lockVars, rowVars, workerVars,
     sourceVars
<1>23. ASSUME NEW c \in Clients, CancelWrite(c) PROVE Data'
  BY <1>23 DEF CancelWrite, Goto, lockVars, workerVars, sourceVars
<1>24. ASSUME NEW c \in Clients, CancelCommit(c) PROVE Data'
  BY <1>24 DEF CancelCommit, Goto, lockVars, workerVars, sourceVars
<1>25. ASSUME NEW c \in Clients, ReadBegin(c) PROVE Data'
  BY <1>25 DEF ReadBegin, Goto, rowVars, workerVars, sourceVars
<1>26. ASSUME NEW c \in Clients, ReadEnd(c) PROVE Data'
  BY <1>26 DEF ReadEnd, Goto, rowVars, workerVars, sourceVars
<1>27. ASSUME NEW c \in Clients, MutateBegin(c) PROVE Data'
  BY <1>27 DEF MutateBegin, Goto, SessionFree, rowVars, workerVars, sourceVars
<1>28. ASSUME NEW c \in Clients, MutateEnd(c) PROVE Data'
  BY <1>28 DEF MutateEnd, Goto, rowVars, workerVars
<1>29. ASSUME NEW c \in Clients, ClientDies(c) PROVE Data'
  BY <1>29 DEF ClientDies, rowVars, workerVars, sourceVars
<1>30. ASSUME NEW c \in Clients, ClientReturns(c) PROVE Data'
  BY <1>30 DEF ClientReturns, Goto, lockVars, rowVars, workerVars, sourceVars
<1>31. ASSUME NEW j \in Jobs, MarkRunning(j) PROVE Data'
  BY <1>31 DEF MarkRunning, WorkerGoto, clientVars, lockVars, sourceVars
<1>32. ASSUME NEW j \in Jobs, CheckPlan(j) PROVE Data'
  BY <1>32 DEF CheckPlan, WorkerGoto, Conclude, CurrentPlan, clientVars,
     rowVars, sourceVars
<1>33. ASSUME NEW j \in Jobs, Checkpoint(j) PROVE Data'
  BY <1>33 DEF Checkpoint, WorkerGoto, Conclude, clientVars, rowVars,
     sourceVars
<1>34. ASSUME NEW j \in Jobs, EnterSession(j) PROVE Data'
  BY <1>34 DEF EnterSession, WorkerGoto, Conclude, SessionFree, clientVars,
     rowVars, sourceVars
<1>35. ASSUME NEW j \in Jobs, Import(j) PROVE Data'
  BY <1>35 DEF Import, WorkerGoto, Conclude, clientVars, rowVars
<1>36. ASSUME NEW j \in Jobs, VerifyEnds(j) PROVE Data'
  BY <1>36 DEF VerifyEnds, WorkerGoto, Conclude, clientVars, rowVars,
     sourceVars
<1>37. ASSUME NEW j \in Jobs, Interrupted(j) PROVE Data'
  BY <1>37 DEF Interrupted, WorkerGoto, Conclude, clientVars, rowVars,
     sourceVars
<1>38. ASSUME NEW j \in Jobs, RecordResult(j) PROVE Data'
  BY <1>38 DEF RecordResult, Finish, WorkerGoto, clientVars, lockVars,
     sourceVars
<1>39. ASSUME NEW j \in Jobs, CloseInherited(j) PROVE Data'
  BY <1>39 DEF CloseInherited, WorkerGoto, Exit, clientVars, rowVars,
     sourceVars
<1>40. ASSUME NEW j \in Jobs, WorkerDies(j) PROVE Data'
  BY <1>40 DEF WorkerDies, WorkerGoto, Exit, clientVars, rowVars, sourceVars
<1>41. CASE AuthorEdits
  BY <1>41 DEF AuthorEdits, clientVars, lockVars, rowVars, workerVars
<1>42. CASE UNCHANGED vars
  BY <1>42 DEF vars, clientVars, lockVars, rowVars, workerVars, sourceVars
<1> QED BY <1>1, <1>2, <1>3, <1>4, <1>5, <1>6, <1>7, <1>8, <1>9, <1>10, <1>11,
          <1>12, <1>13, <1>14, <1>15, <1>16, <1>17, <1>18, <1>19, <1>20, <1>21,
          <1>22, <1>23, <1>24, <1>25, <1>26, <1>27, <1>28, <1>29, <1>30, <1>31,
          <1>32, <1>33, <1>34, <1>35, <1>36, <1>37, <1>38, <1>39, <1>40, <1>41,
          <1>42
  DEF Next, Begin, Continue, Probe, Start, Cancel, UseSession, Work

\* Who has which lock.  Unlocking the lease for everybody (a probe, or
\* release_worker_lease) happens only when no worker shares it; os.close after
\* the Popen leaves the worker its descriptor.
LEMMA LocksStep == Data /\ Locks /\ [Next]_vars => Locks'
<1> SUFFICES ASSUME Data, Locks, [Next]_vars PROVE Locks'
  OBVIOUS
<1> USE DistinctNames, LeaseProbeTargets, SessionProbeTargets DEF Data, TypeOK,
          SeenInv, SeenSteps, Locks, LeaseInv, SessionInv, OwnerSteps, Live,
          LiveSteps, SessionSteps
<1>1. ASSUME NEW c \in Clients, ProbeLeaseBusy(c) PROVE Locks'
  BY <1>1 DEF ProbeLeaseBusy, Goto, LeaseFree, lockVars, rowVars, workerVars,
     sourceVars
<1>2. ASSUME NEW c \in Clients, ProbeLeaseTake(c) PROVE Locks'
  BY <1>2 DEF ProbeLeaseTake, LeaseFree, clientVars, rowVars, workerVars,
     sourceVars
<1>3. ASSUME NEW c \in Clients, ProbeLeaseGiveBack(c) PROVE Locks'
  BY <1>3 DEF ProbeLeaseGiveBack, Goto, rowVars, workerVars, sourceVars
<1>4. ASSUME NEW c \in Clients, ProbeSessionBusy(c) PROVE Locks'
  BY <1>4 DEF ProbeSessionBusy, Goto, SessionFree, lockVars, rowVars,
     workerVars, sourceVars
<1>5. ASSUME NEW c \in Clients, ProbeSessionTake(c) PROVE Locks'
  BY <1>5 DEF ProbeSessionTake, SessionFree, clientVars, rowVars, workerVars,
     sourceVars
<1>6. ASSUME NEW c \in Clients, ProbeSessionGiveBack(c) PROVE Locks'
  BY <1>6 DEF ProbeSessionGiveBack, Goto, rowVars, workerVars, sourceVars
<1>7. ASSUME NEW c \in Clients, ObserveBegin(c) PROVE Locks'
  BY <1>7 DEF ObserveBegin, IsActiveRead, ActiveJobs, lockVars, rowVars,
     workerVars, sourceVars
<1>8. ASSUME NEW c \in Clients, ObserveFinish(c) PROVE Locks'
  BY <1>8 DEF ObserveFinish, Goto, Finish, lockVars, workerVars, sourceVars
<1>9. ASSUME NEW c \in Clients, StartBegin(c) PROVE Locks'
  BY <1>9 DEF StartBegin, IsActiveRead, CurrentPlan, ActiveJobs, lockVars,
     rowVars, workerVars, sourceVars
<1>10. ASSUME NEW c \in Clients, AcquireLease(c) PROVE Locks'
  BY <1>10 DEF AcquireLease, Goto, LeaseFree, rowVars, workerVars, sourceVars
<1>11. ASSUME NEW c \in Clients, PollActive(c) PROVE Locks'
  BY <1>11 DEF PollActive, Goto, ActiveJobs, lockVars, rowVars, workerVars,
     sourceVars
<1>12. ASSUME NEW c \in Clients, PollAgain(c) PROVE Locks'
  BY <1>12 DEF PollAgain, Goto, lockVars, rowVars, workerVars, sourceVars
<1>13. ASSUME NEW c \in Clients, ReportStarting(c) PROVE Locks'
  BY <1>13 DEF ReportStarting, Goto, lockVars, rowVars, workerVars, sourceVars
<1>14. ASSUME NEW c \in Clients, OwnActive(c) PROVE Locks'
  BY <1>14 DEF OwnActive, IsActiveRead, ActiveJobs, lockVars, rowVars,
     workerVars, sourceVars
<1>15. ASSUME NEW c \in Clients, OwnFinish(c) PROVE Locks'
  BY <1>15 DEF OwnFinish, Goto, Finish, lockVars, workerVars, sourceVars
<1>16. ASSUME NEW c \in Clients, StartPlan(c) PROVE Locks'
  BY <1>16 DEF StartPlan, Goto, CurrentPlan, lockVars, rowVars, workerVars,
     sourceVars
<1>17. ASSUME NEW c \in Clients, CreateJob(c) PROVE Locks'
  BY <1>17 DEF CreateJob, Goto, ActiveJobs, lockVars, workerVars, sourceVars
<1>18. ASSUME NEW c \in Clients, Spawn(c) PROVE Locks'
  BY <1>18 DEF Spawn, Goto, rowVars, sourceVars
<1>19. ASSUME NEW c \in Clients, SpawnFails(c) PROVE Locks'
  BY <1>19 DEF SpawnFails, Goto, Finish, lockVars, workerVars, sourceVars
<1>20. ASSUME NEW c \in Clients, CloseLease(c) PROVE Locks'
  BY <1>20 DEF CloseLease, Goto, rowVars, workerVars, sourceVars
<1>21. ASSUME NEW c \in Clients, ReleaseLease(c) PROVE Locks'
  BY <1>21 DEF ReleaseLease, Goto, rowVars, workerVars, sourceVars
<1>22. ASSUME NEW c \in Clients, CancelBegin(c) PROVE Locks'
  BY <1>22 DEF CancelBegin, ActiveJobs, lockVars, rowVars, workerVars,
     sourceVars
<1>23. ASSUME NEW c \in Clients, CancelWrite(c) PROVE Locks'
  BY <1>23 DEF CancelWrite, Goto, lockVars, workerVars, sourceVars
<1>24. ASSUME NEW c \in Clients, CancelCommit(c) PROVE Locks'
  BY <1>24 DEF CancelCommit, Goto, lockVars, workerVars, sourceVars
<1>25. ASSUME NEW c \in Clients, ReadBegin(c) PROVE Locks'
  BY <1>25 DEF ReadBegin, Goto, rowVars, workerVars, sourceVars
<1>26. ASSUME NEW c \in Clients, ReadEnd(c) PROVE Locks'
  BY <1>26 DEF ReadEnd, Goto, rowVars, workerVars, sourceVars
<1>27. ASSUME NEW c \in Clients, MutateBegin(c) PROVE Locks'
  BY <1>27 DEF MutateBegin, Goto, SessionFree, rowVars, workerVars, sourceVars
<1>28. ASSUME NEW c \in Clients, MutateEnd(c) PROVE Locks'
  BY <1>28 DEF MutateEnd, Goto, rowVars, workerVars
<1>29. ASSUME NEW c \in Clients, ClientDies(c) PROVE Locks'
  BY <1>29 DEF ClientDies, rowVars, workerVars, sourceVars
<1>30. ASSUME NEW c \in Clients, ClientReturns(c) PROVE Locks'
  BY <1>30 DEF ClientReturns, Goto, lockVars, rowVars, workerVars, sourceVars
<1>31. ASSUME NEW j \in Jobs, MarkRunning(j) PROVE Locks'
  BY <1>31 DEF MarkRunning, WorkerGoto, clientVars, lockVars, sourceVars
<1>32. ASSUME NEW j \in Jobs, CheckPlan(j) PROVE Locks'
  BY <1>32 DEF CheckPlan, WorkerGoto, Conclude, CurrentPlan, clientVars,
     rowVars, sourceVars
<1>33. ASSUME NEW j \in Jobs, Checkpoint(j) PROVE Locks'
  BY <1>33 DEF Checkpoint, WorkerGoto, Conclude, clientVars, rowVars,
     sourceVars
<1>34. ASSUME NEW j \in Jobs, EnterSession(j) PROVE Locks'
  BY <1>34 DEF EnterSession, WorkerGoto, Conclude, SessionFree, clientVars,
     rowVars, sourceVars
<1>35. ASSUME NEW j \in Jobs, Import(j) PROVE Locks'
  BY <1>35 DEF Import, WorkerGoto, Conclude, clientVars, rowVars
<1>36. ASSUME NEW j \in Jobs, VerifyEnds(j) PROVE Locks'
  BY <1>36 DEF VerifyEnds, WorkerGoto, Conclude, clientVars, rowVars,
     sourceVars
<1>37. ASSUME NEW j \in Jobs, Interrupted(j) PROVE Locks'
  BY <1>37 DEF Interrupted, WorkerGoto, Conclude, clientVars, rowVars,
     sourceVars
<1>38. ASSUME NEW j \in Jobs, RecordResult(j) PROVE Locks'
  BY <1>38 DEF RecordResult, Finish, WorkerGoto, clientVars, lockVars,
     sourceVars
<1>39. ASSUME NEW j \in Jobs, CloseInherited(j) PROVE Locks'
  BY <1>39 DEF CloseInherited, WorkerGoto, Exit, clientVars, rowVars,
     sourceVars
<1>40. ASSUME NEW j \in Jobs, WorkerDies(j) PROVE Locks'
  BY <1>40 DEF WorkerDies, WorkerGoto, Exit, clientVars, rowVars, sourceVars
<1>41. CASE AuthorEdits
  BY <1>41 DEF AuthorEdits, clientVars, lockVars, rowVars, workerVars
<1>42. CASE UNCHANGED vars
  BY <1>42 DEF vars, clientVars, lockVars, rowVars, workerVars, sourceVars
<1> QED BY <1>1, <1>2, <1>3, <1>4, <1>5, <1>6, <1>7, <1>8, <1>9, <1>10, <1>11,
          <1>12, <1>13, <1>14, <1>15, <1>16, <1>17, <1>18, <1>19, <1>20, <1>21,
          <1>22, <1>23, <1>24, <1>25, <1>26, <1>27, <1>28, <1>29, <1>30, <1>31,
          <1>32, <1>33, <1>34, <1>35, <1>36, <1>37, <1>38, <1>39, <1>40, <1>41,
          <1>42
  DEF Next, Begin, Continue, Probe, Start, Cancel, UseSession, Work

\* What the rows say.  A row that was found without an owner keeps none, since
\* CreateJob inserts a row that was absent and every copied row exists; a row is
\* closed only by its worker, its launcher, or somebody who found it abandoned.
LEMMA RowsStep == Data /\ Locks /\ Rows /\ [Next]_vars => Rows'
<1> SUFFICES ASSUME Data, Locks, Rows, [Next]_vars PROVE Rows'
  OBVIOUS
<1> USE DistinctNames, LeaseProbeTargets, SessionProbeTargets DEF Data, TypeOK,
          SeenInv, SeenSteps, ResultInv, ActiveStates, TerminalStates, Locks,
          LeaseInv, OwnerSteps, Live, LiveSteps, SessionInv, SessionSteps,
          Rows, DatabaseInv, AbandonedInv, UnlaunchedInv, OpenRowsInv,
          FreshSteps, NoFalseInterruption, CancelRequestReachesWorker
<1>1. ASSUME NEW c \in Clients, ProbeLeaseBusy(c) PROVE Rows'
  BY <1>1 DEF ProbeLeaseBusy, Goto, LeaseFree, lockVars, rowVars, workerVars,
     sourceVars
<1>2. ASSUME NEW c \in Clients, ProbeLeaseTake(c) PROVE Rows'
  BY <1>2 DEF ProbeLeaseTake, LeaseFree, clientVars, rowVars, workerVars,
     sourceVars
<1>3. ASSUME NEW c \in Clients, ProbeLeaseGiveBack(c) PROVE Rows'
  BY <1>3 DEF ProbeLeaseGiveBack, Goto, rowVars, workerVars, sourceVars
<1>4. ASSUME NEW c \in Clients, ProbeSessionBusy(c) PROVE Rows'
  BY <1>4 DEF ProbeSessionBusy, Goto, SessionFree, lockVars, rowVars,
     workerVars, sourceVars
<1>5. ASSUME NEW c \in Clients, ProbeSessionTake(c) PROVE Rows'
  BY <1>5 DEF ProbeSessionTake, SessionFree, clientVars, rowVars, workerVars,
     sourceVars
<1>6. ASSUME NEW c \in Clients, ProbeSessionGiveBack(c) PROVE Rows'
  BY <1>6 DEF ProbeSessionGiveBack, Goto, rowVars, workerVars, sourceVars
<1>7. ASSUME NEW c \in Clients, ObserveBegin(c) PROVE Rows'
  BY <1>7 DEF ObserveBegin, IsActiveRead, ActiveJobs, lockVars, rowVars,
     workerVars, sourceVars
<1>8. ASSUME NEW c \in Clients, ObserveFinish(c) PROVE Rows'
  BY <1>8 DEF ObserveFinish, Goto, Finish, lockVars, workerVars, sourceVars
<1>9. ASSUME NEW c \in Clients, StartBegin(c) PROVE Rows'
  BY <1>9 DEF StartBegin, IsActiveRead, CurrentPlan, ActiveJobs, lockVars,
     rowVars, workerVars, sourceVars
<1>10. ASSUME NEW c \in Clients, AcquireLease(c) PROVE Rows'
  BY <1>10 DEF AcquireLease, Goto, LeaseFree, rowVars, workerVars, sourceVars
<1>11. ASSUME NEW c \in Clients, PollActive(c) PROVE Rows'
  BY <1>11 DEF PollActive, Goto, ActiveJobs, lockVars, rowVars, workerVars,
     sourceVars
<1>12. ASSUME NEW c \in Clients, PollAgain(c) PROVE Rows'
  BY <1>12 DEF PollAgain, Goto, lockVars, rowVars, workerVars, sourceVars
<1>13. ASSUME NEW c \in Clients, ReportStarting(c) PROVE Rows'
  BY <1>13 DEF ReportStarting, Goto, lockVars, rowVars, workerVars, sourceVars
<1>14. ASSUME NEW c \in Clients, OwnActive(c) PROVE Rows'
  BY <1>14 DEF OwnActive, IsActiveRead, ActiveJobs, lockVars, rowVars,
     workerVars, sourceVars
<1>15. ASSUME NEW c \in Clients, OwnFinish(c) PROVE Rows'
  BY <1>15 DEF OwnFinish, Goto, Finish, lockVars, workerVars, sourceVars
<1>16. ASSUME NEW c \in Clients, StartPlan(c) PROVE Rows'
  BY <1>16 DEF StartPlan, Goto, CurrentPlan, lockVars, rowVars, workerVars,
     sourceVars
<1>17. ASSUME NEW c \in Clients, CreateJob(c) PROVE Rows'
  BY <1>17 DEF CreateJob, Goto, ActiveJobs, lockVars, workerVars, sourceVars
<1>18. ASSUME NEW c \in Clients, Spawn(c) PROVE Rows'
  BY <1>18 DEF Spawn, Goto, rowVars, sourceVars
<1>19. ASSUME NEW c \in Clients, SpawnFails(c) PROVE Rows'
  BY <1>19 DEF SpawnFails, Goto, Finish, lockVars, workerVars, sourceVars
<1>20. ASSUME NEW c \in Clients, CloseLease(c) PROVE Rows'
  BY <1>20 DEF CloseLease, Goto, rowVars, workerVars, sourceVars
<1>21. ASSUME NEW c \in Clients, ReleaseLease(c) PROVE Rows'
  BY <1>21 DEF ReleaseLease, Goto, rowVars, workerVars, sourceVars
<1>22. ASSUME NEW c \in Clients, CancelBegin(c) PROVE Rows'
  BY <1>22 DEF CancelBegin, ActiveJobs, lockVars, rowVars, workerVars,
     sourceVars
<1>23. ASSUME NEW c \in Clients, CancelWrite(c) PROVE Rows'
  BY <1>23 DEF CancelWrite, Goto, lockVars, workerVars, sourceVars
<1>24. ASSUME NEW c \in Clients, CancelCommit(c) PROVE Rows'
  BY <1>24 DEF CancelCommit, Goto, lockVars, workerVars, sourceVars
<1>25. ASSUME NEW c \in Clients, ReadBegin(c) PROVE Rows'
  BY <1>25 DEF ReadBegin, Goto, rowVars, workerVars, sourceVars
<1>26. ASSUME NEW c \in Clients, ReadEnd(c) PROVE Rows'
  BY <1>26 DEF ReadEnd, Goto, rowVars, workerVars, sourceVars
<1>27. ASSUME NEW c \in Clients, MutateBegin(c) PROVE Rows'
  BY <1>27 DEF MutateBegin, Goto, SessionFree, rowVars, workerVars, sourceVars
<1>28. ASSUME NEW c \in Clients, MutateEnd(c) PROVE Rows'
  BY <1>28 DEF MutateEnd, Goto, rowVars, workerVars
<1>29. ASSUME NEW c \in Clients, ClientDies(c) PROVE Rows'
  BY <1>29 DEF ClientDies, rowVars, workerVars, sourceVars
<1>30. ASSUME NEW c \in Clients, ClientReturns(c) PROVE Rows'
  BY <1>30 DEF ClientReturns, Goto, lockVars, rowVars, workerVars, sourceVars
<1>31. ASSUME NEW j \in Jobs, MarkRunning(j) PROVE Rows'
  BY <1>31 DEF MarkRunning, WorkerGoto, clientVars, lockVars, sourceVars
<1>32. ASSUME NEW j \in Jobs, CheckPlan(j) PROVE Rows'
  BY <1>32 DEF CheckPlan, WorkerGoto, Conclude, CurrentPlan, clientVars,
     rowVars, sourceVars
<1>33. ASSUME NEW j \in Jobs, Checkpoint(j) PROVE Rows'
  BY <1>33 DEF Checkpoint, WorkerGoto, Conclude, clientVars, rowVars,
     sourceVars
<1>34. ASSUME NEW j \in Jobs, EnterSession(j) PROVE Rows'
  BY <1>34 DEF EnterSession, WorkerGoto, Conclude, SessionFree, clientVars,
     rowVars, sourceVars
<1>35. ASSUME NEW j \in Jobs, Import(j) PROVE Rows'
  BY <1>35 DEF Import, WorkerGoto, Conclude, clientVars, rowVars
<1>36. ASSUME NEW j \in Jobs, VerifyEnds(j) PROVE Rows'
  BY <1>36 DEF VerifyEnds, WorkerGoto, Conclude, clientVars, rowVars,
     sourceVars
<1>37. ASSUME NEW j \in Jobs, Interrupted(j) PROVE Rows'
  BY <1>37 DEF Interrupted, WorkerGoto, Conclude, clientVars, rowVars,
     sourceVars
<1>38. ASSUME NEW j \in Jobs, RecordResult(j) PROVE Rows'
  BY <1>38 DEF RecordResult, Finish, WorkerGoto, clientVars, lockVars,
     sourceVars
<1>39. ASSUME NEW j \in Jobs, CloseInherited(j) PROVE Rows'
  BY <1>39 DEF CloseInherited, WorkerGoto, Exit, clientVars, rowVars,
     sourceVars
<1>40. ASSUME NEW j \in Jobs, WorkerDies(j) PROVE Rows'
  BY <1>40 DEF WorkerDies, WorkerGoto, Exit, clientVars, rowVars, sourceVars
<1>41. CASE AuthorEdits
  BY <1>41 DEF AuthorEdits, clientVars, lockVars, rowVars, workerVars
<1>42. CASE UNCHANGED vars
  BY <1>42 DEF vars, clientVars, lockVars, rowVars, workerVars, sourceVars
<1> QED BY <1>1, <1>2, <1>3, <1>4, <1>5, <1>6, <1>7, <1>8, <1>9, <1>10, <1>11,
          <1>12, <1>13, <1>14, <1>15, <1>16, <1>17, <1>18, <1>19, <1>20, <1>21,
          <1>22, <1>23, <1>24, <1>25, <1>26, <1>27, <1>28, <1>29, <1>30, <1>31,
          <1>32, <1>33, <1>34, <1>35, <1>36, <1>37, <1>38, <1>39, <1>40, <1>41,
          <1>42, ZenonT(60)
  DEF Next, Begin, Continue, Probe, Start, Cancel, UseSession, Work

-----------------------------------------------------------------------------
(* The theorems.                                                           *)

\* The three layers hold initially, and every step keeps them.
THEOREM Invariance == Spec => []IInv
<1>1. Init => IInv
  BY DistinctNames DEF Init, IInv, Data, TypeOK, SeenInv, SeenSteps, ResultInv, Locks,
     LeaseInv, SessionInv, SessionSteps, Rows, DatabaseInv, AbandonedInv, UnlaunchedInv,
     OpenRowsInv, FreshSteps, NoFalseInterruption, CancelRequestReachesWorker,
     ClientSteps, OwnerSteps, WorkerSteps, Live, LiveSteps, RowStates, ActiveStates
<1>2. IInv /\ [Next]_vars => IInv'
  BY DataStep, LocksStep, RowsStep DEF IInv
<1> QED BY <1>1, <1>2, PTL DEF Spec

\* Every variable keeps its type (jobs.py, locking.py, service.py).
THEOREM TypeCorrect == Spec => []TypeOK
<1>1. IInv => TypeOK
  BY DEF IInv, Data
<1> QED BY <1>1, Invariance, PTL

\* No schedule of clients and deaths gives the project two living workers
\* (locking.py, worker.lock; service.py, pass_fds).
THEOREM OneWorker == Spec => []AtMostOneWorker
<1>1. IInv => AtMostOneWorker
  BY DEF IInv, Locks, LeaseInv, AtMostOneWorker
<1> QED BY <1>1, Invariance, PTL

\* Nobody declares a living worker, or a launcher before its Popen, dead
\* (service.py, observe_verification and start_verification).
THEOREM NoJobIsLost == Spec => []NoFalseInterruption
<1>1. IInv => NoFalseInterruption
  BY DEF IInv, Rows
<1> QED BY <1>1, Invariance, PTL

\* A worker inside project_lock has the lease, and has it alone.
THEOREM MutationIsOwned == Spec => []MutatingWorkerOwnsProject
<1>1. IInv => MutatingWorkerOwnsProject
  BY DEF IInv, Locks, LeaseInv, SessionInv, Live, LiveSteps, SessionSteps, OwnerSteps,
         MutatingWorkerOwnsProject
<1> QED BY <1>1, Invariance, PTL

\* VerificationJobStore.create() never meets the index one_active_verification.
THEOREM InsertIsFree == Spec => []InsertNeverConflicts
<1>1. IInv => InsertNeverConflicts
  BY DEF IInv, Rows, OpenRowsInv, FreshSteps, ActiveJobs, InsertNeverConflicts
<1> QED BY <1>1, Invariance, PTL

\* VerificationJobStore.request_cancel() leaves no request without its file.
THEOREM CancelIsSeen == Spec => []CancelRequestReachesWorker
<1>1. IInv => CancelRequestReachesWorker
  BY DEF IInv, Rows
<1> QED BY <1>1, Invariance, PTL
-----------------------------------------------------------------------------
(* The confirmed plan.                                                     *)

\* A worker past its check of the plan insists on the files of that plan.
PlanInv ==
  \A j \in Jobs :
    wpc[j] \in {"checked", "entering", "locked"} /\ request[j].plan # None
      => expected[j] \in Versions /\ expected[j] = request[j].plan[2]

\* The row of a living worker is not inserted again, so its request stays; only
\* CheckPlan sets what the worker expects.
LEMMA PlanStep == IInv /\ PlanInv /\ [Next]_vars => PlanInv'
<1> SUFFICES ASSUME IInv, PlanInv, [Next]_vars PROVE PlanInv'
  OBVIOUS
<1> USE DEF IInv, Data, TypeOK, PlanInv
<1>1. ASSUME UNCHANGED <<request, workerVars>> PROVE PlanInv'
  BY <1>1 DEF workerVars
<1>2. ASSUME NEW c \in Clients, CreateJob(c) PROVE PlanInv'
  <2>1. \A j \in Jobs : wpc[j] \in {"checked", "entering", "locked"} => state[j] # "ABSENT"
    BY DEF Rows, NoFalseInterruption, Live, LiveSteps, ActiveStates
  <2> QED BY <1>2, <2>1 DEF CreateJob, workerVars
<1>3. ASSUME NEW c \in Clients, Spawn(c) PROVE PlanInv'
  BY <1>3 DEF Spawn, rowVars
<1>4. ASSUME NEW j \in Jobs, CheckPlan(j) PROVE PlanInv'
  BY <1>4, DistinctNames DEF CheckPlan, CurrentPlan, WorkerGoto, Conclude, rowVars
<1>5. ASSUME NEW j \in Jobs, MarkRunning(j) \/ RecordResult(j) PROVE PlanInv'
  BY <1>5 DEF MarkRunning, RecordResult, WorkerGoto
<1>6. ASSUME NEW j \in Jobs, Checkpoint(j) \/ EnterSession(j) \/ Import(j) PROVE PlanInv'
  BY <1>6 DEF Checkpoint, EnterSession, Import, WorkerGoto, Conclude, rowVars
<1>7. ASSUME NEW j \in Jobs, VerifyEnds(j) \/ Interrupted(j) PROVE PlanInv'
  BY <1>7 DEF VerifyEnds, Interrupted, WorkerGoto, Conclude, rowVars
<1>8. ASSUME NEW j \in Jobs, CloseInherited(j) \/ WorkerDies(j) PROVE PlanInv'
  BY <1>8 DEF CloseInherited, WorkerDies, Exit, WorkerGoto, rowVars
<1>9. ASSUME NEW c \in Clients, Begin(c) \/ Probe(c) \/ Cancel(c) \/ UseSession(c)
                                \/ ClientDies(c) \/ ClientReturns(c)
      PROVE  PlanInv'
  BY <1>1, <1>9 DEF Begin, Probe, Cancel, UseSession, ObserveBegin, StartBegin,
     CancelBegin, ReadBegin, MutateBegin, ProbeLeaseBusy, ProbeLeaseTake,
     ProbeLeaseGiveBack, ProbeSessionBusy, ProbeSessionTake, ProbeSessionGiveBack,
     CancelWrite, CancelCommit, ReadEnd, MutateEnd, ClientDies, ClientReturns,
     rowVars
<1>10. ASSUME NEW c \in Clients, Start(c) \/ ObserveFinish(c) PROVE PlanInv'
  BY <1>1, <1>2, <1>3, <1>10 DEF Start, ObserveFinish, AcquireLease, PollActive,
     PollAgain, ReportStarting, OwnActive, OwnFinish, StartPlan, SpawnFails,
     CloseLease, ReleaseLease, rowVars
<1>11. CASE AuthorEdits \/ UNCHANGED vars
  BY <1>1, <1>11 DEF AuthorEdits, vars, rowVars
<1> QED BY <1>2, <1>3, <1>4, <1>5, <1>6, <1>7, <1>8, <1>9, <1>10, <1>11
  DEF Next, Continue, Work

\* What prepare_pass imports is what the user has confirmed, whoever edits or
\* imports meanwhile (service.py, expected_inventory).
THEOREM ConfirmedPlanIsImported == Spec => PlannedImport
<1>1. Init => PlanInv
  BY DEF Init, PlanInv
<1>2. IInv /\ PlanInv /\ [Next]_vars => PlanInv'
  BY PlanStep
<1>3. IInv /\ PlanInv /\ [Next]_vars =>
        [\A j \in Jobs : wpc[j] = "locked" /\ wpc'[j] = "imported" /\ request[j].plan # None
           => base' = request[j].plan[2]]_vars
  <2> SUFFICES ASSUME IInv, PlanInv, Next, NEW j \in Jobs, wpc[j] = "locked",
                      wpc'[j] = "imported", request[j].plan # None
               PROVE  base' = request[j].plan[2]
    OBVIOUS
  <2>1. ASSUME NEW c \in Clients,
               Begin(c) \/ Continue(c) \/ ClientDies(c) \/ ClientReturns(c)
        PROVE  wpc' = wpc \/ Spawn(c)
    BY <2>1 DEF Begin, ObserveBegin, StartBegin, CancelBegin, ReadBegin,
       MutateBegin, Continue, Probe, ProbeLeaseBusy, ProbeLeaseTake,
       ProbeLeaseGiveBack, ProbeSessionBusy, ProbeSessionTake, ProbeSessionGiveBack,
       Cancel, CancelWrite, CancelCommit, UseSession, ReadEnd, MutateEnd,
       ClientDies, ClientReturns, ObserveFinish, Start, AcquireLease, PollActive,
       PollAgain, ReportStarting, OwnActive, OwnFinish, StartPlan, CreateJob,
       SpawnFails, CloseLease, ReleaseLease, workerVars
  <2>2. ASSUME NEW c \in Clients, Spawn(c) PROVE wpc'[j] # "imported" \/ wpc' = wpc
    BY <2>2 DEF Spawn, IInv, Data, TypeOK
  <2>3. ASSUME NEW k \in Jobs, Work(k) \/ Interrupted(k) \/ WorkerDies(k)
        PROVE  Import(j)
    <3>1. ASSUME NEW step \in WorkerSteps \ {"imported"}, WorkerGoto(k, step)
          PROVE  FALSE
      BY <3>1 DEF WorkerGoto, IInv, Data, TypeOK
    <3>2. CASE Import(k)
      BY <3>2 DEF Import, WorkerGoto, Conclude, IInv, Data, TypeOK
    <3>3. CASE MarkRunning(k) \/ CheckPlan(k) \/ Checkpoint(k)
      BY <3>1, <3>3 DEF MarkRunning, CheckPlan, Checkpoint, Conclude, WorkerSteps, LiveSteps
    <3>4. CASE EnterSession(k) \/ VerifyEnds(k) \/ Interrupted(k) \/ RecordResult(k)
      BY <3>1, <3>4 DEF EnterSession, VerifyEnds, Interrupted, RecordResult, Conclude,
         WorkerSteps, LiveSteps
    <3>5. CASE CloseInherited(k) \/ WorkerDies(k)
      BY <3>1, <3>5 DEF CloseInherited, WorkerDies, Exit, WorkerSteps, LiveSteps
    <3> QED BY <2>3, <3>2, <3>3, <3>4, <3>5 DEF Work
  <2>4. Import(j)
    <3>1. CASE \E c \in Clients :
                 Begin(c) \/ Continue(c) \/ ClientDies(c) \/ ClientReturns(c)
      BY <2>1, <2>2, <3>1
    <3>2. CASE AuthorEdits
      BY <3>2 DEF AuthorEdits, workerVars
    <3>3. CASE \E k \in Jobs : Work(k) \/ Interrupted(k) \/ WorkerDies(k)
      BY <2>3, <3>3
    <3> QED BY <3>1, <3>2, <3>3 DEF Next
  <2>5. expected[j] \in {None, source} /\ base' = source
    BY <2>4 DEF Import, WorkerGoto, Conclude, IInv, Data, TypeOK
  <2>6. expected[j] # None /\ expected[j] = request[j].plan[2]
    BY DistinctNames DEF PlanInv
  <2> QED BY <2>5, <2>6
<1> QED BY <1>1, <1>2, <1>3, Invariance, PTL DEF Spec, PlannedImport

-----------------------------------------------------------------------------
(* A cancellation that comes early.                                        *)

\* The steps of a job before its source is verified: the request is on disk
\* before the last checkpoint that is sure to look at it.
EarlySteps == {"absent", "spawned", "planning", "checked", "entering",
               "locked", "imported"}

\* A job whose worker has not begun its verification has not succeeded.
NoEarlySuccess == \A j \in Jobs : wpc[j] \in EarlySteps => state[j] # "SUCCEEDED"

\* What an early request makes of job j, for good: its worker never gets to the
\* verification, and has no success to record.
Doomed(j) ==
  /\ j \in cancelFile
  /\ wpc[j] # "verifying"
  /\ wpc[j] = "finishing" => result[j] # "SUCCEEDED"
  /\ state[j] # "SUCCEEDED"

\* Only RecordResult, long past the early steps, writes a success.
LEMMA SuccessIsRecorded ==
  ASSUME IInv, [Next]_vars, NEW j \in Jobs, state[j] # "SUCCEEDED"
  PROVE  \/ state'[j] # "SUCCEEDED"
         \/ wpc[j] = "finishing" /\ wpc'[j] = "closing" /\ result[j] = "SUCCEEDED"
<1> USE DEF IInv, Data, TypeOK
<1>1. ASSUME UNCHANGED state PROVE state'[j] # "SUCCEEDED"
  BY <1>1
<1>2. ASSUME NEW c \in Clients, CreateJob(c) \/ CancelCommit(c)
      PROVE  state'[j] # "SUCCEEDED"
  BY <1>2 DEF CreateJob, CancelCommit
<1>3. ASSUME NEW c \in Clients, ObserveFinish(c) \/ OwnFinish(c) \/ SpawnFails(c)
      PROVE  state'[j] # "SUCCEEDED"
  BY <1>3 DEF ObserveFinish, OwnFinish, SpawnFails, Finish
<1>4. ASSUME NEW k \in Jobs, MarkRunning(k)  PROVE state'[j] # "SUCCEEDED"
  BY <1>4 DEF MarkRunning
<1>5. ASSUME NEW k \in Jobs, RecordResult(k)
      PROVE  \/ state'[j] # "SUCCEEDED"
             \/ wpc[j] = "finishing" /\ wpc'[j] = "closing" /\ result[j] = "SUCCEEDED"
  BY <1>5 DEF RecordResult, Finish, WorkerGoto
<1>6. ASSUME NEW c \in Clients, Begin(c) \/ Probe(c) \/ UseSession(c)
                                \/ ClientDies(c) \/ ClientReturns(c)
      PROVE  state'[j] # "SUCCEEDED"
  BY <1>1, <1>6 DEF Begin, Probe, UseSession, ObserveBegin, StartBegin,
     CancelBegin, ReadBegin, MutateBegin, ProbeLeaseBusy, ProbeLeaseTake,
     ProbeLeaseGiveBack, ProbeSessionBusy, ProbeSessionTake, ProbeSessionGiveBack,
     ReadEnd, MutateEnd, ClientDies, ClientReturns, rowVars
<1>7. ASSUME NEW c \in Clients, Start(c) \/ Cancel(c)
      PROVE  state'[j] # "SUCCEEDED"
  BY <1>1, <1>2, <1>3, <1>7 DEF Start, Cancel, CancelWrite, AcquireLease, PollActive,
     PollAgain, ReportStarting, OwnActive, StartPlan, Spawn, CloseLease, ReleaseLease,
     rowVars
<1>8. ASSUME NEW k \in Jobs, Work(k) \/ Interrupted(k) \/ WorkerDies(k)
      PROVE  \/ state'[j] # "SUCCEEDED"
             \/ wpc[j] = "finishing" /\ wpc'[j] = "closing" /\ result[j] = "SUCCEEDED"
  BY <1>1, <1>4, <1>5, <1>8 DEF Work, CheckPlan, Checkpoint, EnterSession, Import,
     VerifyEnds, CloseInherited, Interrupted, WorkerDies, rowVars
<1>9. CASE AuthorEdits \/ UNCHANGED vars
  BY <1>1, <1>9 DEF AuthorEdits, vars, rowVars
<1> QED BY <1>3, <1>6, <1>7, <1>8, <1>9 DEF Next, Continue

\* Where a worker can go: into the early steps only from early ones, to the
\* verification only without a request, to the end of a call with its result.
LEMMA WorkerMoves ==
  ASSUME IInv, [Next]_vars, NEW j \in Jobs
  PROVE  /\ j \in cancelFile => j \in cancelFile'
         /\ wpc'[j] \in EarlySteps \ {"spawned"} => wpc[j] \in EarlySteps
         /\ wpc'[j] = "spawned" => state'[j] \in ActiveStates
         /\ wpc'[j] = "verifying" => wpc[j] = "verifying" \/ j \notin cancelFile
         /\ wpc'[j] = "finishing" =>
              \/ wpc[j] = "finishing" /\ result'[j] = result[j]
              \/ result'[j] # "SUCCEEDED" \/ wpc[j] = "verifying"
<1> USE DEF IInv, Data, TypeOK, EarlySteps
<1>1. NoFalseInterruption'
  BY DataStep, LocksStep, RowsStep DEF Rows
<1>2. wpc'[j] = "spawned" => state'[j] \in ActiveStates
  BY <1>1 DEF NoFalseInterruption, Live, LiveSteps
<1>3. CASE UNCHANGED workerVars /\ cancelFile \subseteq cancelFile'
  BY <1>2, <1>3 DEF workerVars
<1>4. ASSUME NEW c \in Clients, Spawn(c)
      PROVE  /\ j \in cancelFile => j \in cancelFile'
             /\ wpc'[j] \in EarlySteps \ {"spawned"} => wpc[j] \in EarlySteps
             /\ wpc'[j] = "verifying" => wpc[j] = "verifying"
             /\ wpc'[j] = "finishing" => wpc[j] = "finishing" /\ result'[j] = result[j]
  BY <1>4 DEF Spawn, rowVars
<1>5. ASSUME NEW c \in Clients,
             \/ Begin(c) \/ Continue(c) \/ ClientDies(c) \/ ClientReturns(c)
      PROVE  Spawn(c) \/ (UNCHANGED workerVars /\ cancelFile \subseteq cancelFile')
  BY <1>5 DEF Begin, ObserveBegin, StartBegin, CancelBegin, ReadBegin,
     MutateBegin, Continue, Probe, ProbeLeaseBusy, ProbeLeaseTake,
     ProbeLeaseGiveBack, ProbeSessionBusy, ProbeSessionTake, ProbeSessionGiveBack,
     Cancel, CancelWrite, CancelCommit, UseSession, ReadEnd, MutateEnd,
     ClientDies, ClientReturns, ObserveFinish, Start, AcquireLease, PollActive,
     PollAgain, ReportStarting, OwnActive, OwnFinish, StartPlan, CreateJob,
     SpawnFails, CloseLease, ReleaseLease, rowVars
<1>6. ASSUME NEW k \in Jobs, Work(k) \/ Interrupted(k) \/ WorkerDies(k)
      PROVE  /\ j \in cancelFile => j \in cancelFile'
             /\ wpc'[j] \in EarlySteps \ {"spawned"} => wpc[j] \in EarlySteps
             /\ wpc'[j] = "verifying" => wpc[j] = "verifying" \/ j \notin cancelFile
             /\ wpc'[j] = "finishing" =>
                  \/ wpc[j] = "finishing" /\ result'[j] = result[j]
                  \/ result'[j] # "SUCCEEDED" \/ wpc[j] = "verifying"
  <2>1. CASE MarkRunning(k) \/ CheckPlan(k) \/ Checkpoint(k)
    BY <2>1 DEF MarkRunning, CheckPlan, Checkpoint, WorkerGoto, Conclude, rowVars
  <2>2. CASE EnterSession(k) \/ Import(k) \/ VerifyEnds(k) \/ Interrupted(k)
    BY <2>2 DEF EnterSession, Import, VerifyEnds, Interrupted, WorkerGoto, Conclude, rowVars
  <2>3. CASE RecordResult(k) \/ CloseInherited(k) \/ WorkerDies(k)
    BY <2>3 DEF RecordResult, CloseInherited, WorkerDies, Exit, WorkerGoto, rowVars
  <2> QED BY <1>6, <2>1, <2>2, <2>3 DEF Work
<1>7. CASE AuthorEdits \/ UNCHANGED vars
  BY <1>3, <1>7 DEF AuthorEdits, vars, rowVars
<1> QED BY <1>2, <1>3, <1>4, <1>5, <1>6, <1>7 DEF Next

LEMMA NoEarlySuccessStep == IInv /\ NoEarlySuccess /\ [Next]_vars => NoEarlySuccess'
<1> SUFFICES ASSUME IInv, NoEarlySuccess, [Next]_vars, NEW j \in Jobs,
                    wpc'[j] \in EarlySteps
             PROVE  state'[j] # "SUCCEEDED"
  BY DEF NoEarlySuccess
<1>1. CASE wpc'[j] = "spawned"
  BY <1>1, WorkerMoves DEF ActiveStates
<1>2. CASE wpc'[j] # "spawned"
  <2>1. wpc[j] \in EarlySteps
    BY <1>2, WorkerMoves
  <2>2. state[j] # "SUCCEEDED" /\ wpc[j] # "finishing"
    BY <2>1 DEF NoEarlySuccess, EarlySteps
  <2> QED BY <2>2, SuccessIsRecorded
<1> QED BY <1>1, <1>2

\* request_cancel before the last checkpoint (service.py, before and after the
\* import): the request outlives the client that made it, and the job is never
\* recorded as a success.
THEOREM EarlyCancelWins == Spec => EarlyCancelNeverSucceeds
<1>1. Init => NoEarlySuccess
  BY DEF Init, NoEarlySuccess
<1>2. IInv /\ NoEarlySuccess /\ [Next]_vars => NoEarlySuccess'
  BY NoEarlySuccessStep
<1>3. ASSUME NEW j \in Jobs
      PROVE  Spec => [](/\ j \in cancelFile
                        /\ wpc[j] \in {"absent", "spawned", "planning", "checked",
                                       "entering", "locked", "imported"}
                        => [](state[j] # "SUCCEEDED"))
  <2>1. NoEarlySuccess => (/\ j \in cancelFile
                           /\ wpc[j] \in {"absent", "spawned", "planning", "checked",
                                          "entering", "locked", "imported"}
                           => Doomed(j))
    BY DEF NoEarlySuccess, EarlySteps, Doomed
  <2>2. IInv /\ Doomed(j) /\ [Next]_vars => Doomed(j)'
    <3> SUFFICES ASSUME IInv, Doomed(j), [Next]_vars PROVE Doomed(j)'
      OBVIOUS
    <3>1. j \in cancelFile' /\ wpc'[j] # "verifying"
      BY WorkerMoves DEF Doomed
    <3>2. wpc'[j] = "finishing" => result'[j] # "SUCCEEDED"
      BY WorkerMoves DEF Doomed
    <3>3. state'[j] # "SUCCEEDED"
      BY SuccessIsRecorded DEF Doomed
    <3> QED BY <3>1, <3>2, <3>3 DEF Doomed
  <2>3. Doomed(j) => state[j] # "SUCCEEDED"
    BY DEF Doomed
  <2> QED BY <1>1, <1>2, <2>1, <2>2, <2>3, Invariance, PTL DEF Spec
<1> QED BY <1>3 DEF EarlyCancelNeverSucceeds

-----------------------------------------------------------------------------
(* VerificationJobs implements JobLifecycle, for any number of clients and *)
(* jobs.  Most steps (probes, plans, the verification itself) are stutters *)
(* of the abstract specification: they change no row and leave everybody's *)
(* responsibility where it is.  Each of the others is one abstract action; *)
(* the inductive invariant says whose.                                     *)

\* Client c is responsible for a row it has inserted.
Launching(c) == pc[c] \in {"start_spawn", "start_unlaunched"}

\* A step that changes no row and nobody's responsibility is a stutter.
LEMMA Quiet ==
  ASSUME state' = state,
         \A j \in Jobs : Live(j)' <=> Live(j),
         \A c \in Clients : /\ Launching(c)' <=> Launching(c)
                            /\ Launching(c) => seen'[c] = seen[c]
  PROVE  UNCHANGED Lifecycle!vars
<1>1. \A j \in Jobs : Owner(j)' = Owner(j)
  BY DEF Owner, Launching
<1> QED BY <1>1 DEF Lifecycle!vars

\* A launcher is alone: no other client launches and no worker lives.
LEMMA LauncherIsAlone ==
  ASSUME IInv, NEW c \in Clients, Launching(c)
  PROVE  /\ seen[c] \in Jobs /\ Owner(seen[c]) = "launcher"
         /\ \A d \in Clients : Launching(d) => d = c
         /\ \A j \in Jobs : ~Live(j) /\ (j # seen[c] => Owner(j) = "none")
<1>1. /\ \A d \in Clients : Launching(d) => d = c
      /\ \A j \in Jobs : ~Live(j)
  BY DEF IInv, Locks, LeaseInv, Launching, OwnerSteps
<1> QED BY <1>1 DEF Owner, Launching, IInv, Data, SeenInv, SeenSteps

\* A step that changes no row and ends one responsibility maps to Leave.
LEMMA OwnerLeaves ==
  ASSUME NEW j \in Jobs, Owner(j) # "none", Owner(j)' = "none", state' = state,
         \A k \in Jobs \ {j} : Owner(k)' = Owner(k)
  PROVE  Lifecycle!Next
<1>1. Lifecycle!Leave(j)
  BY DEF Lifecycle!Leave
<1> QED BY <1>1 DEF Lifecycle!Next

-----------------------------------------------------------------------------
(* The steps that change no row and nobody's responsibility.               *)

QuietClientStep(c) ==
  \/ Begin(c) \/ Probe(c) \/ AcquireLease(c) \/ PollActive(c) \/ PollAgain(c)
  \/ ReportStarting(c) \/ OwnActive(c) \/ StartPlan(c) \/ CloseLease(c)
  \/ CancelWrite(c) \/ UseSession(c) \/ ClientReturns(c)
QuietWorkerStep(j) ==
  \/ CheckPlan(j) \/ Checkpoint(j) \/ EnterSession(j) \/ Import(j) \/ VerifyEnds(j)
  \/ Interrupted(j)

\* A client's probe, read or refused call, and a worker's progress up to its
\* result, are invisible in the abstract specification.
LEMMA QuietSteps ==
  ASSUME IInv,
         \/ \E c \in Clients : QuietClientStep(c)
         \/ \E j \in Jobs : QuietWorkerStep(j)
  PROVE  UNCHANGED Lifecycle!vars
<1> USE DistinctNames, LeaseProbeTargets, SessionProbeTargets, Quiet
    DEF IInv, Data, TypeOK, SeenInv, SeenSteps, Launching, Live, LiveSteps
<1>1. ASSUME NEW c \in Clients, ProbeLeaseBusy(c) PROVE UNCHANGED Lifecycle!vars
  BY <1>1 DEF ProbeLeaseBusy, Goto, LeaseFree, lockVars, rowVars, workerVars,
     sourceVars
<1>2. ASSUME NEW c \in Clients, ProbeLeaseTake(c) PROVE UNCHANGED Lifecycle!vars
  BY <1>2 DEF ProbeLeaseTake, LeaseFree, clientVars, rowVars, workerVars, sourceVars
<1>3. ASSUME NEW c \in Clients, ProbeLeaseGiveBack(c) PROVE UNCHANGED Lifecycle!vars
  BY <1>3 DEF ProbeLeaseGiveBack, Goto, rowVars, workerVars, sourceVars
<1>4. ASSUME NEW c \in Clients, ProbeSessionBusy(c) PROVE UNCHANGED Lifecycle!vars
  BY <1>4 DEF ProbeSessionBusy, Goto, SessionFree, lockVars, rowVars, workerVars,
     sourceVars
<1>5. ASSUME NEW c \in Clients, ProbeSessionTake(c) PROVE UNCHANGED Lifecycle!vars
  BY <1>5 DEF ProbeSessionTake, SessionFree, clientVars, rowVars, workerVars,
     sourceVars
<1>6. ASSUME NEW c \in Clients, ProbeSessionGiveBack(c) PROVE UNCHANGED Lifecycle!vars
  BY <1>6 DEF ProbeSessionGiveBack, Goto, rowVars, workerVars, sourceVars
<1>7. ASSUME NEW c \in Clients, ObserveBegin(c) PROVE UNCHANGED Lifecycle!vars
  BY <1>7 DEF ObserveBegin, IsActiveRead, ActiveJobs, lockVars, rowVars, workerVars,
     sourceVars
<1>8. ASSUME NEW c \in Clients, StartBegin(c) PROVE UNCHANGED Lifecycle!vars
  BY <1>8 DEF StartBegin, IsActiveRead, CurrentPlan, ActiveJobs, lockVars, rowVars,
     workerVars, sourceVars
<1>9. ASSUME NEW c \in Clients, AcquireLease(c) PROVE UNCHANGED Lifecycle!vars
  BY <1>9 DEF AcquireLease, Goto, LeaseFree, rowVars, workerVars, sourceVars
<1>10. ASSUME NEW c \in Clients, PollActive(c) PROVE UNCHANGED Lifecycle!vars
  BY <1>10 DEF PollActive, Goto, ActiveJobs, lockVars, rowVars, workerVars,
     sourceVars
<1>11. ASSUME NEW c \in Clients, PollAgain(c) PROVE UNCHANGED Lifecycle!vars
  BY <1>11 DEF PollAgain, Goto, lockVars, rowVars, workerVars, sourceVars
<1>12. ASSUME NEW c \in Clients, ReportStarting(c) PROVE UNCHANGED Lifecycle!vars
  BY <1>12 DEF ReportStarting, Goto, lockVars, rowVars, workerVars, sourceVars
<1>13. ASSUME NEW c \in Clients, OwnActive(c) PROVE UNCHANGED Lifecycle!vars
  BY <1>13 DEF OwnActive, IsActiveRead, ActiveJobs, lockVars, rowVars, workerVars,
     sourceVars
<1>14. ASSUME NEW c \in Clients, StartPlan(c) PROVE UNCHANGED Lifecycle!vars
  BY <1>14 DEF StartPlan, Goto, CurrentPlan, lockVars, rowVars, workerVars,
     sourceVars
<1>15. ASSUME NEW c \in Clients, CloseLease(c) PROVE UNCHANGED Lifecycle!vars
  BY <1>15 DEF CloseLease, Goto, rowVars, workerVars, sourceVars
<1>16. ASSUME NEW c \in Clients, CancelBegin(c) PROVE UNCHANGED Lifecycle!vars
  BY <1>16 DEF CancelBegin, ActiveJobs, lockVars, rowVars, workerVars, sourceVars
<1>17. ASSUME NEW c \in Clients, CancelWrite(c) PROVE UNCHANGED Lifecycle!vars
  BY <1>17 DEF CancelWrite, Goto, lockVars, workerVars, sourceVars
<1>18. ASSUME NEW c \in Clients, ReadBegin(c) PROVE UNCHANGED Lifecycle!vars
  BY <1>18 DEF ReadBegin, Goto, rowVars, workerVars, sourceVars
<1>19. ASSUME NEW c \in Clients, ReadEnd(c) PROVE UNCHANGED Lifecycle!vars
  BY <1>19 DEF ReadEnd, Goto, rowVars, workerVars, sourceVars
<1>20. ASSUME NEW c \in Clients, MutateBegin(c) PROVE UNCHANGED Lifecycle!vars
  BY <1>20 DEF MutateBegin, Goto, SessionFree, rowVars, workerVars, sourceVars
<1>21. ASSUME NEW c \in Clients, MutateEnd(c) PROVE UNCHANGED Lifecycle!vars
  BY <1>21 DEF MutateEnd, Goto, rowVars, workerVars
<1>22. ASSUME NEW c \in Clients, ClientReturns(c) PROVE UNCHANGED Lifecycle!vars
  BY <1>22 DEF ClientReturns, Goto, lockVars, rowVars, workerVars, sourceVars
<1>23. ASSUME NEW j \in Jobs, CheckPlan(j) PROVE UNCHANGED Lifecycle!vars
  BY <1>23 DEF CheckPlan, WorkerGoto, Conclude, CurrentPlan, clientVars, rowVars,
     sourceVars
<1>24. ASSUME NEW j \in Jobs, Checkpoint(j) PROVE UNCHANGED Lifecycle!vars
  BY <1>24 DEF Checkpoint, WorkerGoto, Conclude, clientVars, rowVars, sourceVars
<1>25. ASSUME NEW j \in Jobs, EnterSession(j) PROVE UNCHANGED Lifecycle!vars
  BY <1>25 DEF EnterSession, WorkerGoto, Conclude, SessionFree, clientVars, rowVars,
     sourceVars
<1>26. ASSUME NEW j \in Jobs, Import(j) PROVE UNCHANGED Lifecycle!vars
  BY <1>26 DEF Import, WorkerGoto, Conclude, clientVars, rowVars
<1>27. ASSUME NEW j \in Jobs, VerifyEnds(j) PROVE UNCHANGED Lifecycle!vars
  BY <1>27 DEF VerifyEnds, WorkerGoto, Conclude, clientVars, rowVars, sourceVars
<1>28. ASSUME NEW j \in Jobs, Interrupted(j) PROVE UNCHANGED Lifecycle!vars
  BY <1>28 DEF Interrupted, SessionSteps, WorkerGoto, Conclude, clientVars, rowVars,
     sourceVars
<1> QED BY <1>1, <1>2, <1>3, <1>4, <1>5, <1>6, <1>7, <1>8, <1>9, <1>10, <1>11,
          <1>12, <1>13, <1>14, <1>15, <1>16, <1>17, <1>18, <1>19, <1>20, <1>21,
          <1>22, <1>23, <1>24, <1>25, <1>26, <1>27, <1>28
  DEF QuietClientStep, QuietWorkerStep, Begin, Probe, UseSession

-----------------------------------------------------------------------------
(* Every step is an abstract step or a stutter.                            *)

\* Inserting, launching, closing and cancelling a row, and the end of whoever was
\* responsible for it, are the abstract actions.
LEMMA StepMaps == IInv /\ [Next]_vars => [Lifecycle!Next]_(Lifecycle!vars)
<1> SUFFICES ASSUME IInv, [Next]_vars PROVE [Lifecycle!Next]_(Lifecycle!vars)
  OBVIOUS
<1> USE DistinctNames
<1>1. CASE \/ \E c \in Clients : QuietClientStep(c)
           \/ \E j \in Jobs : QuietWorkerStep(j)
  BY <1>1, QuietSteps
<1>2. ASSUME NEW c \in Clients, ObserveFinish(c) PROVE [Lifecycle!Next]_(Lifecycle!vars)
  <2>1. /\ seen[c] \in Jobs
        /\ state' = IF state[seen[c]] \in ActiveStates
                    THEN [state EXCEPT ![seen[c]] = "INTERRUPTED"] ELSE state
        /\ \A j \in Jobs : Owner(j)' = Owner(j)
    BY <1>2 DEF ObserveFinish, Goto, Finish, lockVars, workerVars, sourceVars,
       Owner, Live, LiveSteps, IInv, Data, TypeOK, SeenInv, SeenSteps
  <2>2. CASE state[seen[c]] \in ActiveStates
    <3>1. Owner(seen[c]) = "none"
      BY <1>2, <2>1, <2>2 DEF ObserveFinish, Owner, IInv, Rows, AbandonedInv,
         UnlaunchedInv, OwnerSteps, Locks, LeaseInv
    <3>2. Lifecycle!Recover(seen[c])
      BY <2>1, <2>2, <3>1 DEF Lifecycle!Recover, Lifecycle!ActiveStates,
         ActiveStates
    <3> QED BY <2>1, <3>2 DEF Lifecycle!Next
  <2>3. CASE state[seen[c]] \notin ActiveStates
    BY <2>1, <2>3 DEF Lifecycle!vars
  <2> QED BY <2>2, <2>3
<1>3. ASSUME NEW c \in Clients, OwnFinish(c) PROVE [Lifecycle!Next]_(Lifecycle!vars)
  <2>1. /\ seen[c] \in Jobs
        /\ state' = IF state[seen[c]] \in ActiveStates
                    THEN [state EXCEPT ![seen[c]] = "INTERRUPTED"] ELSE state
        /\ \A j \in Jobs : Owner(j)' = Owner(j)
    BY <1>3 DEF OwnFinish, Goto, Finish, lockVars, workerVars, sourceVars, Owner,
       Live, LiveSteps, IInv, Data, TypeOK, SeenInv, SeenSteps
  <2>2. CASE state[seen[c]] \in ActiveStates
    <3>1. Owner(seen[c]) = "none"
      BY <1>3, <2>1, <2>2 DEF OwnFinish, Owner, IInv, Rows, AbandonedInv,
         UnlaunchedInv, OwnerSteps, Locks, LeaseInv
    <3>2. Lifecycle!Recover(seen[c])
      BY <2>1, <2>2, <3>1 DEF Lifecycle!Recover, Lifecycle!ActiveStates,
         ActiveStates
    <3> QED BY <2>1, <3>2 DEF Lifecycle!Next
  <2>3. CASE state[seen[c]] \notin ActiveStates
    BY <2>1, <2>3 DEF Lifecycle!vars
  <2> QED BY <2>2, <2>3
<1>4. ASSUME NEW c \in Clients, CreateJob(c) PROVE [Lifecycle!Next]_(Lifecycle!vars)
  <2>1. CASE state' = state
    BY <1>4, <2>1, Quiet DEF CreateJob, Goto, lockVars, workerVars, sourceVars,
       Launching, Live, LiveSteps, IInv, Data, TypeOK
  <2>2. CASE state' # state
    <3>1. PICK j \in Jobs : /\ state[j] = "ABSENT"
                            /\ state' = [state EXCEPT ![j] = "STARTING"]
                            /\ pc' = [pc EXCEPT ![c] = "start_spawn"]
                            /\ seen' = [seen EXCEPT ![c] = j]
      BY <1>4, <2>2 DEF CreateJob
    <3>2. pc[c] = "start_create" /\ wpc' = wpc
      BY <1>4 DEF CreateJob, workerVars
    <3>3. \A k \in Jobs : /\ state[k] \notin ActiveStates
                          /\ Owner(k) = "none" /\ ~Live(k)
      BY <3>2 DEF IInv, Locks, LeaseInv, Rows, OpenRowsInv, FreshSteps, OwnerSteps,
         Owner
    <3>4. \A d \in Clients : Launching(d) => FALSE
      BY <3>2 DEF IInv, Locks, LeaseInv, OwnerSteps, Launching
    <3>5. \A k \in Jobs : Owner(k)' = IF k = j THEN "launcher" ELSE "none"
      BY <3>1, <3>2, <3>3, <3>4 DEF Owner, Live, Launching, IInv, Data, TypeOK
    <3>6. Lifecycle!Open(j)
      BY <3>1, <3>3, <3>5 DEF Lifecycle!Open, Lifecycle!ActiveStates, ActiveStates
    <3> QED BY <3>6 DEF Lifecycle!Next
  <2> QED BY <2>1, <2>2
<1>5. ASSUME NEW c \in Clients, Spawn(c) PROVE Lifecycle!Next
  <2>1. Launching(c) /\ state' = state
    BY <1>5 DEF Spawn, Launching, rowVars
  <2>2. \A j \in Jobs : Owner(j)' = IF j = seen[c] THEN "worker" ELSE "none"
    BY <1>5, <2>1, LauncherIsAlone DEF Spawn, Goto, Owner, Live, LiveSteps,
       Launching, IInv, Data, TypeOK
  <2>3. Lifecycle!HandOver(seen[c])
    BY <2>1, <2>2, LauncherIsAlone DEF Lifecycle!HandOver
  <2> QED BY <2>1, <2>3, LauncherIsAlone DEF Lifecycle!Next
<1>6. ASSUME NEW c \in Clients, SpawnFails(c) PROVE Lifecycle!Next
  <2>1. Launching(c) /\ state[seen[c]] \in ActiveStates
    BY <1>6 DEF SpawnFails, Launching, IInv, Rows, NoFalseInterruption
  <2>2. /\ state' = [state EXCEPT ![seen[c]] = "FAILED"]
        /\ \A j \in Jobs : Owner(j)' = Owner(j)
    BY <1>6, <2>1 DEF SpawnFails, Finish, Goto, workerVars, Owner, Live, LiveSteps,
       IInv, Data, TypeOK
  <2>3. Lifecycle!Conclude(seen[c])
    BY <2>1, <2>2, LauncherIsAlone DEF Lifecycle!Conclude, Lifecycle!ActiveStates,
       ActiveStates
  <2> QED BY <2>1, <2>3, LauncherIsAlone DEF Lifecycle!Next
<1>7. ASSUME NEW c \in Clients, ReleaseLease(c) PROVE [Lifecycle!Next]_(Lifecycle!vars)
  <2>1. CASE Launching(c)
    <3>1. state' = state /\ \A j \in Jobs : Owner(j)' = "none"
      BY <1>7, <2>1, LauncherIsAlone DEF ReleaseLease, Goto, rowVars, workerVars,
         sourceVars, Owner, Live, LiveSteps, Launching, IInv, Data, TypeOK
    <3> QED BY <2>1, <3>1, LauncherIsAlone, OwnerLeaves
  <2>2. CASE ~Launching(c)
    BY <1>7, <2>2, Quiet DEF ReleaseLease, Goto, rowVars, workerVars, sourceVars,
       Launching, Live, LiveSteps, IInv, Data, TypeOK
  <2> QED BY <2>1, <2>2
<1>8. ASSUME NEW c \in Clients, CancelCommit(c) PROVE Lifecycle!Next
  <2>1. seen[c] \in Jobs /\ state[seen[c]] \in ActiveStates
    BY <1>8 DEF CancelCommit, IInv, Data, SeenInv, SeenSteps, Rows, DatabaseInv
  <2>2. /\ state' = [state EXCEPT ![seen[c]] = "CANCEL_REQUESTED"]
        /\ \A j \in Jobs : Owner(j)' = Owner(j)
    BY <1>8 DEF CancelCommit, Goto, workerVars, Owner, Live, LiveSteps, IInv, Data,
       TypeOK
  <2>3. Lifecycle!RequestCancel(seen[c])
    BY <2>1, <2>2 DEF Lifecycle!RequestCancel, Lifecycle!ActiveStates, ActiveStates
  <2> QED BY <2>1, <2>3 DEF Lifecycle!Next
<1>9. ASSUME NEW c \in Clients, ClientDies(c) PROVE [Lifecycle!Next]_(Lifecycle!vars)
  <2>1. CASE Launching(c)
    <3>1. state' = state /\ \A j \in Jobs : Owner(j)' = "none"
      BY <1>9, <2>1, LauncherIsAlone DEF ClientDies, rowVars, workerVars, Owner,
         Live, LiveSteps, Launching, IInv, Data, TypeOK
    <3> QED BY <2>1, <3>1, LauncherIsAlone, OwnerLeaves
  <2>2. CASE ~Launching(c)
    BY <1>9, <2>2, Quiet DEF ClientDies, rowVars, workerVars, Launching, Live,
       LiveSteps, IInv, Data, TypeOK
  <2> QED BY <2>1, <2>2
<1>10. ASSUME NEW j \in Jobs, MarkRunning(j) PROVE [Lifecycle!Next]_(Lifecycle!vars)
  <2>1. Owner(j) = "worker" /\ \A k \in Jobs : Owner(k)' = Owner(k)
    BY <1>10 DEF MarkRunning, WorkerGoto, clientVars, Owner, Live, LiveSteps, IInv,
       Data, TypeOK
  <2>2. CASE state[j] = "STARTING"
    <3>1. Lifecycle!Run(j)
      BY <1>10, <2>1, <2>2 DEF MarkRunning, Lifecycle!Run
    <3> QED BY <3>1 DEF Lifecycle!Next
  <2>3. CASE state[j] # "STARTING"
    BY <1>10, <2>1, <2>3 DEF MarkRunning, Lifecycle!vars
  <2> QED BY <2>2, <2>3
<1>11. ASSUME NEW j \in Jobs, RecordResult(j) PROVE Lifecycle!Next
  <2>1. Owner(j) = "worker" /\ \A k \in Jobs : Owner(k)' = Owner(k)
    BY <1>11 DEF RecordResult, WorkerGoto, clientVars, Owner, Live, LiveSteps, IInv,
       Data, TypeOK
  <2>2. state[j] \in ActiveStates /\ result[j] \in TerminalStates
    BY <1>11 DEF RecordResult, Live, LiveSteps, IInv, Data, ResultInv, Rows,
       NoFalseInterruption
  <2>3. Lifecycle!Conclude(j)
    BY <1>11, <2>1, <2>2 DEF RecordResult, Finish, Lifecycle!Conclude,
       Lifecycle!ActiveStates, Lifecycle!TerminalStates, ActiveStates,
       TerminalStates
  <2> QED BY <2>3 DEF Lifecycle!Next
<1>12. ASSUME NEW j \in Jobs, CloseInherited(j) PROVE Lifecycle!Next
  <2>1. Live(j) /\ state' = state
    BY <1>12 DEF CloseInherited, Live, LiveSteps, rowVars
  <2>2. \A c \in Clients : ~Launching(c)
    BY <2>1, LauncherIsAlone
  <2>3. Owner(j)' = "none" /\ \A k \in Jobs \ {j} : Owner(k)' = Owner(k)
    BY <1>12, <2>2 DEF CloseInherited, Exit, WorkerGoto, clientVars, Owner, Live,
       LiveSteps, Launching, IInv, Data, TypeOK
  <2> QED BY <2>1, <2>3, OwnerLeaves DEF Owner
<1>13. ASSUME NEW j \in Jobs, WorkerDies(j) PROVE Lifecycle!Next
  <2>1. Live(j) /\ state' = state
    BY <1>13 DEF WorkerDies, Live, LiveSteps, rowVars
  <2>2. \A c \in Clients : ~Launching(c)
    BY <2>1, LauncherIsAlone
  <2>3. Owner(j)' = "none" /\ \A k \in Jobs \ {j} : Owner(k)' = Owner(k)
    BY <1>13, <2>2 DEF WorkerDies, Exit, WorkerGoto, clientVars, Owner, Live,
       LiveSteps, Launching, IInv, Data, TypeOK
  <2> QED BY <2>1, <2>3, OwnerLeaves DEF Owner
<1>14. ASSUME AuthorEdits \/ UNCHANGED vars PROVE UNCHANGED Lifecycle!vars
  BY <1>14, Quiet DEF AuthorEdits, vars, clientVars, lockVars, rowVars, workerVars,
     Launching, Live
<1> QED BY <1>1, <1>2, <1>3, <1>4, <1>5, <1>6, <1>7, <1>8, <1>9, <1>10, <1>11,
          <1>12, <1>13, <1>14
  DEF Next, Continue, Start, Cancel, Work, QuietClientStep, QuietWorkerStep

\* The control plane implements the abstract life cycle of a job.
THEOREM Refinement == Spec => ImplementsLifecycle
<1>1. Init => Lifecycle!Init
  BY DEF Init, Lifecycle!Init, Owner, Live, LiveSteps
<1>2. IInv /\ [Next]_vars => [Lifecycle!Next]_(Lifecycle!vars)
  BY StepMaps
<1> QED BY <1>1, <1>2, Invariance, PTL DEF Spec, Lifecycle!Spec, ImplementsLifecycle
=============================================================================
