------------------------------ MODULE AgentProofs ------------------------------
(***************************************************************************)
(* Theorems about the two things a proof worker goes through: the turn of  *)
(* its agent (AgentTurn) and the machine-wide admission its builds and     *)
(* checks wait for (Admission).  The two share no state; each part is      *)
(* about one of the two modules.                                           *)
(*                                                                         *)
(* Admission, for any tasks, calibrators, request ids, limits, priorities, *)
(* deaths and late heartbeats, from AdmissionAssumptions alone: types, that *)
(* no request is counted twice, and the budget that the rows of reliable   *)
(* users keep whatever the others do.                                      *)
(*                                                                         *)
(* AgentTurn, for any drivers, calls and number of rounds: types, the rest *)
(* of a worktree whose turn has returned, that a merged commit is the one  *)
(* that was built, and that a batch has boundedly many steps.              *)
(***************************************************************************)
EXTENDS Admission, AgentTurn, FiniteSetTheorems, TLAPS

-----------------------------------------------------------------------------
(* Admission.                                                              *)

\* Only calibrators are at the steps of a calibration.
CalibratorSteps == \A u \in Users : pc[u] \in Calibrating => u \in Calibrators

\* The table of leases is finite, so that its rows can be counted.
FiniteLeases == IsFiniteSet(leases)

\* The row a user works under is in the table, and has the request id of its user.
RowOfUser == \A u \in Users : holds[u] # Nobody =>
  pc[u] = "working" /\ holds[u] \in leases /\ Key[holds[u]] = Key[u]

-----------------------------------------------------------------------------
(* The rows.                                                               *)

LEMMA TypeStep == TypeOK /\ CalibratorSteps /\ [Next]_vars => TypeOK' /\ CalibratorSteps'
<1> SUFFICES ASSUME TypeOK, CalibratorSteps, [Next]_vars PROVE TypeOK' /\ CalibratorSteps'
  OBVIOUS
<1> USE AdmissionAssumptions DEF TypeOK, CalibratorSteps, Users, Steps, Polling, Calibrating,
      Goto, Done, Drop, Working, userVars, rowVars, gateVars
<1>1. ASSUME NEW u \in Users, Attempt(u) PROVE TypeOK' /\ CalibratorSteps'
  <2>1. CASE ReadPauses(u)
    BY <2>1 DEF ReadPauses
  <2>2. CASE TryExisting(u)
    BY <2>2 DEF TryExisting, Existing
  <2>3. CASE TryQueue(u)
    <3>1. before' \subseteq waiting' \X waiting'
      BY <2>3 DEF TryQueue, Tickets
    <3> QED BY <2>3, <3>1 DEF TryQueue
  <2>4. CASE TryAdmit(u)
    BY <2>4 DEF TryAdmit
  <2> QED BY <1>1, <2>1, <2>2, <2>3, <2>4 DEF Attempt
<1>2. ASSUME NEW u \in Users, Calibrate(u) \/ CalibrateBegin(u)
      PROVE TypeOK' /\ CalibratorSteps'
  <2>1. CASE CheckIdle(u)
    BY <2>1 DEF CheckIdle
  <2>2. CASE Announce(u) \/ Restore(u) \/ CalibrateBegin(u)
    BY <2>2 DEF Announce, Restore, CalibrateBegin
  <2> QED BY <1>2, <2>1, <2>2 DEF Calibrate
<1>3. ASSUME NEW u \in Users, Finish(u) \/ Heartbeat(u) \/ GiveUp(u)
      PROVE TypeOK' /\ CalibratorSteps'
  BY <1>3 DEF Finish, Heartbeat, GiveUp
<1>4. ASSUME NEW u \in Users, Request(u) \/ Die(u) PROVE TypeOK' /\ CalibratorSteps'
  BY <1>4 DEF Request, Die
<1>5. CASE SetLimit \/ PressureChanges
  BY <1>5 DEF SetLimit, PressureChanges
<1>6. CASE Lapse
  BY <1>6 DEF Lapse, LeaseLapses, WaiterLapses, CalibrationLapses
<1>7. CASE UNCHANGED vars
  BY <1>7 DEF vars
<1> QED
  BY <1>1, <1>2, <1>3, <1>4, <1>5, <1>6, <1>7 DEF Next, Use

LEMMA TypeInit == Init => TypeOK /\ CalibratorSteps
  BY AdmissionAssumptions DEF Init, TypeOK, CalibratorSteps, Users, Steps, Polling, Calibrating

\* Every variable keeps its type, whatever the tasks, limits and priorities are.
THEOREM TypeCorrect == Spec => []TypeOK
<1>1. Spec => [](TypeOK /\ CalibratorSteps)
  BY TypeInit, TypeStep, PTL DEF Spec
<1> QED BY <1>1, PTL

\* A step keeps waiters and leases apart: try_acquire inserts a waiter only when
\* the request has no lease, and takes it away when it inserts the lease.
LEMMA CountStep == NeverCountedTwice /\ [Next]_vars => NeverCountedTwice'
<1> SUFFICES ASSUME NeverCountedTwice, [Next]_vars PROVE NeverCountedTwice'
  OBVIOUS
<1> USE DEF NeverCountedTwice, Drop, userVars, rowVars, gateVars
<1>1. ASSUME leases' \subseteq leases, waiting' \subseteq waiting PROVE NeverCountedTwice'
  BY <1>1
<1>2. ASSUME NEW u \in Users, Attempt(u) PROVE NeverCountedTwice'
  <2>1. CASE ReadPauses(u) \/ TryExisting(u)
    BY <1>1, <2>1 DEF ReadPauses, TryExisting
  <2>2. CASE TryQueue(u)
    <3>1. \A v \in leases : Key[v] # Key[u]
      BY <2>2 DEF TryQueue, Existing
    <3> QED BY <2>2, <3>1 DEF TryQueue
  <2>3. CASE TryAdmit(u)
    BY <2>3 DEF TryAdmit
  <2> QED BY <1>2, <2>1, <2>2, <2>3 DEF Attempt
<1>3. ASSUME NEW u \in Users,
             \/ Calibrate(u) \/ Finish(u) \/ Request(u) \/ CalibrateBegin(u)
             \/ Heartbeat(u) \/ GiveUp(u) \/ Die(u)
      PROVE leases' \subseteq leases /\ waiting' \subseteq waiting
  BY <1>3 DEF Calibrate, CheckIdle, Announce, Restore, Finish, Request, CalibrateBegin,
              Heartbeat, GiveUp, Die
<1>4. CASE SetLimit \/ PressureChanges \/ Lapse \/ UNCHANGED vars
  BY <1>1, <1>4 DEF SetLimit, PressureChanges, Lapse, LeaseLapses, WaiterLapses,
                    CalibrationLapses, vars
<1> QED BY <1>1, <1>2, <1>3, <1>4 DEF Next, Use

\* No request is counted both as a waiter and as a lease, even when several users
\* share it, heartbeats fail and processes die: a row that stayed in the queue
\* would keep a slot from everybody behind it.
THEOREM CountedOnce == Spec => []NeverCountedTwice
<1>1. Init => NeverCountedTwice
  BY DEF Init, NeverCountedTwice
<1> QED BY <1>1, CountStep, PTL DEF Spec

-----------------------------------------------------------------------------
(* The rows and the work.                                                  *)

\* A step keeps the table of leases finite: it adds one row at most.
LEMMA FiniteStep == FiniteLeases /\ [Next]_vars => FiniteLeases'
<1> SUFFICES ASSUME FiniteLeases, [Next]_vars PROVE FiniteLeases'
  OBVIOUS
<1> USE DEF FiniteLeases, Drop, userVars, rowVars, gateVars
<1>1. ASSUME NEW u, leases' \subseteq leases \cup {u} PROVE FiniteLeases'
  BY <1>1, FS_AddElement, FS_Subset
<1>2. ASSUME NEW u \in Users, Use(u) \/ Heartbeat(u)
      PROVE leases' \subseteq leases \cup {u}
  BY <1>2 DEF Use, Attempt, Calibrate, ReadPauses, TryExisting, TryQueue, TryAdmit,
              CheckIdle, Announce, Restore, Finish, Heartbeat
<1>3. ASSUME NEW u \in Users, Request(u) \/ CalibrateBegin(u) \/ GiveUp(u) \/ Die(u)
      PROVE leases' \subseteq leases
  BY <1>3 DEF Request, CalibrateBegin, GiveUp, Die
<1>4. CASE SetLimit \/ PressureChanges \/ Lapse \/ UNCHANGED vars
  BY <1>1, <1>4 DEF SetLimit, PressureChanges, Lapse, LeaseLapses, WaiterLapses,
                    CalibrationLapses, vars
<1> QED BY <1>1, <1>2, <1>3, <1>4 DEF Next

\* A step keeps the rows under which work is done, and those of whoever can rely on
\* its own: a found lease can be relied on from its first renewal.
LEMMA RowStep ==
  TypeOK /\ RowOfUser /\ RenewedLeaseStays /\ [Next]_vars => RowOfUser' /\ RenewedLeaseStays'
<1> SUFFICES ASSUME TypeOK, RowOfUser, RenewedLeaseStays, [Next]_vars
             PROVE  RowOfUser' /\ RenewedLeaseStays'
  OBVIOUS
<1> USE AdmissionAssumptions DEF TypeOK, RowOfUser, RenewedLeaseStays, Reliable, Users,
      Working, Goto, userVars, rowVars, gateVars
<1>1. ASSUME NEW u \in Users, Attempt(u) PROVE RowOfUser' /\ RenewedLeaseStays'
  <2>1. CASE ReadPauses(u)
    BY <2>1 DEF ReadPauses
  <2>2. CASE TryExisting(u)
    BY <2>2 DEF TryExisting, Existing
  <2>3. CASE TryQueue(u)
    BY <2>3 DEF TryQueue
  <2>4. CASE TryAdmit(u)
    BY <2>4 DEF TryAdmit
  <2> QED BY <1>1, <2>1, <2>2, <2>3, <2>4 DEF Attempt
<1>2. ASSUME NEW u \in Users, Calibrate(u) \/ CalibrateBegin(u)
      PROVE RowOfUser' /\ RenewedLeaseStays'
  BY <1>2 DEF Calibrate, CheckIdle, Announce, Restore, CalibrateBegin
<1>3. ASSUME NEW u \in Users, Finish(u) PROVE RowOfUser' /\ RenewedLeaseStays'
  BY <1>3 DEF Finish, Done, Drop
<1>4. ASSUME NEW u \in Users, Heartbeat(u) PROVE RowOfUser' /\ RenewedLeaseStays'
  BY <1>4 DEF Heartbeat
<1>5. ASSUME NEW u \in Users, GiveUp(u) \/ Request(u) \/ Die(u)
      PROVE RowOfUser' /\ RenewedLeaseStays'
  BY <1>5 DEF GiveUp, Request, Die, Done
<1>6. CASE SetLimit \/ PressureChanges \/ UNCHANGED vars
  BY <1>6 DEF SetLimit, PressureChanges, vars
<1>7. CASE Lapse
  BY <1>7 DEF Lapse, LeaseLapses, WaiterLapses, CalibrationLapses, Drop
<1> QED BY <1>1, <1>2, <1>3, <1>4, <1>5, <1>6, <1>7 DEF Next, Use

\* The inductive invariant in every reachable state.
LEMMA Invariance == Spec => [](TypeOK /\ FiniteLeases /\ RowOfUser /\ RenewedLeaseStays)
<1>1. Init => FiniteLeases /\ RowOfUser /\ RenewedLeaseStays
  BY FS_EmptySet DEF Init, FiniteLeases, RowOfUser, RenewedLeaseStays, Working
<1> QED BY <1>1, TypeCorrect, FiniteStep, RowStep, PTL DEF Spec

\* Work begins only within the limit: those who can rely on their rows have one
\* each, and a row is added only while there are fewer than the limit.
LEMMA BudgetStep ==
  ASSUME TypeOK, FiniteLeases, RenewedLeaseStays, [Next]_vars,
         NEW u \in Users, pc[u] # "working", pc'[u] = "working"
  PROVE  \/ Cardinality({w \in Working \ adopted : Reliable(w)}) < limit
         \/ Existing(Key[u]) # {}
<1> USE AdmissionAssumptions
<1> DEFINE Counted == {w \in Working \ adopted : Reliable(w)}
<1>1. TryExisting(u) \/ TryAdmit(u)
  BY DEF Next, Use, Attempt, Calibrate, ReadPauses, TryExisting, TryQueue, TryAdmit,
         CheckIdle, Announce, Restore, Finish, Drop, Request, CalibrateBegin, Heartbeat,
         GiveUp, Die, SetLimit, PressureChanges, Lapse, LeaseLapses, WaiterLapses,
         CalibrationLapses, vars, userVars, rowVars, gateVars, Goto, Done, TypeOK
<1>2. CASE TryExisting(u)
  BY <1>2 DEF TryExisting
<1>3. CASE TryAdmit(u)
  <2>1. IsFiniteSet(leases) /\ Counted \subseteq leases
    BY DEF FiniteLeases, RenewedLeaseStays
  <2>2. Cardinality(Counted) <= Cardinality(leases)
    BY <2>1, FS_Subset
  <2>3. Cardinality(Counted) \in Nat /\ Cardinality(leases) \in Nat /\ limit \in Nat
    BY <2>1, FS_Subset, FS_CardinalityType DEF TypeOK
  <2>4. Cardinality(leases) < limit
    BY <1>3 DEF TryAdmit, Admissible
  <2> QED BY <2>2, <2>3, <2>4
<1> QED BY <1>1, <1>2, <1>3

\* All processes of the machine share one budget, as far as rows can be relied on:
\* whoever is alone with its request id and renews in time is counted until it is
\* done, whatever dies, expires, shares a row or comes late besides.
THEOREM BudgetIsOne == Spec => OneBudget
<1> DEFINE Begun == \A u \in Users : pc[u] # "working" /\ pc'[u] = "working"
                      => \/ Cardinality({w \in Working \ adopted : Reliable(w)}) < limit
                         \/ Existing(Key[u]) # {}
<1>1. TypeOK /\ FiniteLeases /\ RenewedLeaseStays /\ [Next]_vars => [Begun]_vars
  BY BudgetStep
<1> QED BY <1>1, Invariance, PTL DEF Spec, OneBudget

-----------------------------------------------------------------------------
(* The turn of an agent.                                                 *)

After == {"build", "head", "status", "merge", "done"}

\* The steps of each driver, and where its turn can be over.
Shape ==
  /\ driver = "codex" => step \in Requests \cup {"listen", "close", "join"} \cup After
  /\ driver = "cli" => step \in {"spawn", "wait", "close"} \cup After
  /\ driver = "api" => step \in {"ask", "serve"} \cup After
  /\ ending = "returned" => step \in {"close", "join"} \cup After
  /\ step = "ask" => rounds < MaxRounds

\* After the provider's last message of a Codex turn there are no calls; and an
\* API driver asks when it has served every call of the last answer.
Quiet ==
  /\ driver = "codex" =>
       /\ step \in Requests \ {"turn/start"} => agent \in {"up", "gone"}
       /\ over # None => agent \in {"over", "gone"}
       /\ inbox = "completed" => agent \in {"over", "gone"} /\ unread = {} /\ running = None
       /\ ending = "returned" => agent \in {"over", "gone"}
  /\ driver = "api" =>
       /\ agent = "up"
       /\ step = "ask" => unread = {} /\ running = None
  /\ ReturnedTurnIsQuiet

\* What the end of a batch has read is still what the worktree holds.
AtRest ==
  /\ ending = "returned" /\ driver # "cli" =>
       /\ step \in {"head", "status", "merge", "done"} /\ built # None =>
            built = [head |-> head, loose |-> loose]
       /\ step \in {"status", "merge", "done"} => final = head
       /\ step \in {"merge", "done"} => clean = (loose = {})
  /\ merged # None =>
       /\ step = "done" /\ ending = "returned"
       /\ built # None /\ clean /\ merged = final

USE DriversAssumption, RoundsAssumption, NoneAssumption

-----------------------------------------------------------------------------
Types == TurnTypeOK /\ Shape

\* Types and steps are kept by every action.
LEMMA StepTypes == Types /\ [TurnNext]_allTurnVars => Types'
<1> SUFFICES ASSUME Types, [TurnNext]_allTurnVars  PROVE Types'
  OBVIOUS
<1> USE DEF Types, TurnTypeOK, Shape, TurnSteps, Requests, After, Recorded, Unused, turnVars, agentVars, hostVars, treeVars, batchVars
<1>1. CASE Answered
  BY <1>1 DEF Answered, AfterRequest
<1>2. CASE RequestFails
  BY <1>2 DEF RequestFails, EndTurn
<1>3. CASE Notified
  BY <1>3 DEF Notified, EndTurn
<1>4. CASE ListenTimesOut
  BY <1>4 DEF ListenTimesOut, EndTurn
<1>5. CASE Terminate
  BY <1>5 DEF Terminate
<1>6. CASE Joined
  BY <1>6 DEF Joined
<1>7. CASE JoinTimesOut
  BY <1>7 DEF JoinTimesOut
<1>8. CASE Spawn
  BY <1>8 DEF Spawn, EndTurn
<1>9. CASE Exited
  BY <1>9 DEF Exited, EndTurn
<1>10. CASE WaitTimesOut
  BY <1>10 DEF WaitTimesOut, EndTurn
<1>11. CASE CloseServer
  BY <1>11 DEF CloseServer
<1>12. CASE AskTools
  BY <1>12 DEF AskTools
<1>28. CASE AskEnds
  BY <1>28 DEF AskEnds, EndTurn
<1>29. CASE AskFails
  BY <1>29 DEF AskFails, EndTurn
<1>13. CASE ServedAll
  BY <1>13 DEF ServedAll, EndTurn
<1>14. CASE FinalBuild
  BY <1>14 DEF FinalBuild
<1>15. CASE ReadHead
  BY <1>15 DEF ReadHead
<1>16. CASE ReadStatus
  BY <1>16 DEF ReadStatus
<1>17. CASE BatchFails
  BY <1>17 DEF BatchFails, EndTurn
<1>18. CASE Merge
  <2>1. merged' = merged \/ merged' = final
    BY <1>18 DEF Merge
  <2>2. merged' \in (SUBSET Calls) \cup {None}
    BY <2>1
  <2> QED  BY <1>18, <2>2 DEF Merge
<1>19. CASE Deliver
  BY <1>19 DEF Deliver
<1>20. CASE ReaderEnds
  <2>1. inbox' \in {None, "completed", "failed"} /\ reader' = FALSE
    BY <1>20 DEF ReaderEnds
  <2>2. UNCHANGED <<turnVars, agent, over, unread, running, bridge, result, heard, counted,
                    treeVars, batchVars>>
    BY <1>20 DEF ReaderEnds
  <2>3. reader' \in BOOLEAN
    BY ONLY <2>1
  <2>4. Shape'
    BY <2>2
  <2>5. inbox' \in {None, "completed", "failed"}
    BY ONLY <2>1
  <2> QED  BY <2>2, <2>3, <2>4, <2>5
<1>21. CASE AgentEnds
  BY <1>21 DEF AgentEnds
<1>22. CASE AgentDies
  BY <1>22 DEF AgentDies
<1>23. ASSUME NEW k \in Calls, Take(k)  PROVE Types'
  BY <1>23 DEF Take
<1>24. ASSUME NEW k \in Calls, Call(k)  PROVE Types'
  BY <1>24 DEF Call
<1>25. ASSUME NEW k \in Calls, HandlerEnds(k)  PROVE Types'
  <2> PICK r \in {"success", "error"} :
        /\ result' = [result EXCEPT ![k] = r]
        /\ heard' = [heard EXCEPT ![k] = IF /\ driver # "api" /\ agent # "gone"
                                           /\ bridge = "whole" THEN r ELSE @]
    BY <1>25 DEF HandlerEnds
  <2>1. /\ result' \in [Calls -> {None, "success", "error"}]
        /\ heard' \in [Calls -> {None, "success", "error"}]
    OBVIOUS
  <2>2. head' \subseteq Calls /\ loose' \subseteq Calls
    BY <1>25 DEF HandlerEnds, Work
  <2>3. reader' \in BOOLEAN /\ inbox' \in {None, "completed", "failed"}
    BY <1>25 DEF HandlerEnds
  <2> QED  BY <1>25, <2>1, <2>2, <2>3 DEF HandlerEnds
<1>26. ASSUME NEW k \in Calls, BridgeTimesOut(k)  PROVE Types'
  BY <1>26 DEF BridgeTimesOut
<1>27. CASE UNCHANGED allTurnVars
  BY <1>27 DEF allTurnVars
<1> HIDE DEF Types, TurnTypeOK, Shape, TurnSteps, Requests, After, Recorded, Unused, turnVars, agentVars, hostVars, treeVars, batchVars
<1> QED  BY <1>1, <1>2, <1>3, <1>4, <1>5, <1>6, <1>7, <1>8, <1>9, <1>10,
          <1>11, <1>12, <1>13, <1>14, <1>15, <1>16, <1>17, <1>18, <1>19, <1>20, <1>21, <1>22, <1>23, <1>24, <1>25, <1>26, <1>28, <1>29, <1>27 DEF TurnNext, Worker, Codex, Cli, Api, Batch, Reader

\* So is what is known of the provider's last message.
LEMMA StepQuiet == Types /\ Quiet /\ [TurnNext]_allTurnVars => Quiet'
<1> SUFFICES ASSUME Types /\ Quiet, [TurnNext]_allTurnVars  PROVE Quiet'
  OBVIOUS
<1> USE DEF Quiet, ReturnedTurnIsQuiet, Types, TurnTypeOK, Shape, TurnSteps, Requests, After, Recorded, Unused, turnVars, agentVars, hostVars, treeVars, batchVars
<1>1. CASE Answered
  BY <1>1 DEF Answered, AfterRequest
<1>2. CASE RequestFails
  BY <1>2 DEF RequestFails, EndTurn
<1>3. CASE Notified
  BY <1>3 DEF Notified, EndTurn
<1>4. CASE ListenTimesOut
  BY <1>4 DEF ListenTimesOut, EndTurn
<1>5. CASE Terminate
  BY <1>5 DEF Terminate
<1>6. CASE Joined
  BY <1>6 DEF Joined
<1>7. CASE JoinTimesOut
  BY <1>7 DEF JoinTimesOut
<1>8. CASE Spawn
  BY <1>8 DEF Spawn, EndTurn
<1>9. CASE Exited
  BY <1>9 DEF Exited, EndTurn
<1>10. CASE WaitTimesOut
  BY <1>10 DEF WaitTimesOut, EndTurn
<1>11. CASE CloseServer
  BY <1>11 DEF CloseServer
<1>12. CASE AskTools
  BY <1>12 DEF AskTools
<1>28. CASE AskEnds
  BY <1>28 DEF AskEnds, EndTurn
<1>29. CASE AskFails
  BY <1>29 DEF AskFails, EndTurn
<1>13. CASE ServedAll
  BY <1>13 DEF ServedAll, EndTurn
<1>14. CASE FinalBuild
  BY <1>14 DEF FinalBuild
<1>15. CASE ReadHead
  BY <1>15 DEF ReadHead
<1>16. CASE ReadStatus
  BY <1>16 DEF ReadStatus
<1>17. CASE BatchFails
  BY <1>17 DEF BatchFails, EndTurn
<1>18. CASE Merge
  BY <1>18 DEF Merge
<1>19. CASE Deliver
  BY <1>19 DEF Deliver
<1>20. CASE ReaderEnds
  BY <1>20 DEF ReaderEnds
<1>21. CASE AgentEnds
  BY <1>21 DEF AgentEnds
<1>22. CASE AgentDies
  BY <1>22 DEF AgentDies
<1>23. ASSUME NEW k \in Calls, Take(k)  PROVE Quiet'
  BY <1>23 DEF Take
<1>24. ASSUME NEW k \in Calls, Call(k)  PROVE Quiet'
  BY <1>24 DEF Call
<1>25. ASSUME NEW k \in Calls, HandlerEnds(k)  PROVE Quiet'
  BY <1>25 DEF HandlerEnds, Work
<1>26. ASSUME NEW k \in Calls, BridgeTimesOut(k)  PROVE Quiet'
  BY <1>26 DEF BridgeTimesOut
<1>27. CASE UNCHANGED allTurnVars
  BY <1>27 DEF allTurnVars
<1> HIDE DEF Quiet, ReturnedTurnIsQuiet, Types, TurnTypeOK, Shape, TurnSteps, Requests, After, Recorded, Unused, turnVars, agentVars, hostVars, treeVars, batchVars
<1> QED  BY <1>1, <1>2, <1>3, <1>4, <1>5, <1>6, <1>7, <1>8, <1>9, <1>10,
          <1>11, <1>12, <1>13, <1>14, <1>15, <1>16, <1>17, <1>18, <1>19, <1>20, <1>21, <1>22, <1>23, <1>24, <1>25, <1>26, <1>28, <1>29, <1>27 DEF TurnNext, Worker, Codex, Cli, Api, Batch, Reader

\* And what the end of the batch has read.
LEMMA StepAtRest == Types /\ Quiet /\ AtRest /\ [TurnNext]_allTurnVars => AtRest'
<1> SUFFICES ASSUME Types /\ Quiet /\ AtRest, [TurnNext]_allTurnVars  PROVE AtRest'
  OBVIOUS
<1> USE DEF AtRest, Quiet, ReturnedTurnIsQuiet, Types, TurnTypeOK, Shape, TurnSteps, Requests, After, turnVars, agentVars, hostVars, treeVars, batchVars
<1>1. CASE Answered
  BY <1>1 DEF Answered, AfterRequest
<1>2. CASE RequestFails
  BY <1>2 DEF RequestFails, EndTurn
<1>3. CASE Notified
  BY <1>3 DEF Notified, EndTurn
<1>4. CASE ListenTimesOut
  BY <1>4 DEF ListenTimesOut, EndTurn
<1>5. CASE Terminate
  BY <1>5 DEF Terminate
<1>6. CASE Joined
  BY <1>6 DEF Joined
<1>7. CASE JoinTimesOut
  BY <1>7 DEF JoinTimesOut
<1>8. CASE Spawn
  BY <1>8 DEF Spawn, EndTurn
<1>9. CASE Exited
  BY <1>9 DEF Exited, EndTurn
<1>10. CASE WaitTimesOut
  BY <1>10 DEF WaitTimesOut, EndTurn
<1>11. CASE CloseServer
  BY <1>11 DEF CloseServer
<1>12. CASE AskTools
  BY <1>12 DEF AskTools
<1>28. CASE AskEnds
  BY <1>28 DEF AskEnds, EndTurn
<1>29. CASE AskFails
  BY <1>29 DEF AskFails, EndTurn
<1>13. CASE ServedAll
  BY <1>13 DEF ServedAll, EndTurn
<1>14. CASE FinalBuild
  BY <1>14 DEF FinalBuild
<1>15. CASE ReadHead
  BY <1>15 DEF ReadHead
<1>16. CASE ReadStatus
  BY <1>16 DEF ReadStatus
<1>17. CASE BatchFails
  BY <1>17 DEF BatchFails, EndTurn
<1>18. CASE Merge
  BY <1>18 DEF Merge
<1>19. CASE Deliver
  BY <1>19 DEF Deliver
<1>20. CASE ReaderEnds
  BY <1>20 DEF ReaderEnds
<1>21. CASE AgentEnds
  BY <1>21 DEF AgentEnds
<1>22. CASE AgentDies
  BY <1>22 DEF AgentDies
<1>23. ASSUME NEW k \in Calls, Take(k)  PROVE AtRest'
  BY <1>23 DEF Take
<1>24. ASSUME NEW k \in Calls, Call(k)  PROVE AtRest'
  BY <1>24 DEF Call
<1>25. ASSUME NEW k \in Calls, HandlerEnds(k)  PROVE AtRest'
  BY <1>25 DEF HandlerEnds, Work
<1>26. ASSUME NEW k \in Calls, BridgeTimesOut(k)  PROVE AtRest'
  BY <1>26 DEF BridgeTimesOut
<1>27. CASE UNCHANGED allTurnVars
  BY <1>27 DEF allTurnVars
<1> HIDE DEF AtRest, Quiet, ReturnedTurnIsQuiet, Types, TurnTypeOK, Shape, TurnSteps, Requests, After, turnVars, agentVars, hostVars, treeVars, batchVars
<1> QED  BY <1>1, <1>2, <1>3, <1>4, <1>5, <1>6, <1>7, <1>8, <1>9, <1>10,
          <1>11, <1>12, <1>13, <1>14, <1>15, <1>16, <1>17, <1>18, <1>19, <1>20, <1>21, <1>22, <1>23, <1>24, <1>25, <1>26, <1>28, <1>29, <1>27 DEF TurnNext, Worker, Codex, Cli, Api, Batch, Reader

-----------------------------------------------------------------------------
LEMMA Start == TurnInit => Types /\ Quiet /\ AtRest
<1> SUFFICES ASSUME TurnInit  PROVE Types /\ Quiet /\ AtRest
  OBVIOUS
<1>1. /\ driver \in {"codex", "cli", "api"} /\ step \in {"initialize", "spawn", "ask"}
      /\ driver = "codex" => step = "initialize"
      /\ driver = "cli" => step = "spawn"
      /\ driver = "api" => step = "ask"
  BY DEF TurnInit, FirstStep
<1>2. Types
  <2>1. driver \in Drivers /\ step \in TurnSteps /\ Shape
    BY <1>1 DEF TurnInit, Shape, TurnSteps, Requests, After
  <2>2. rounds \in 0..MaxRounds
    BY DEF TurnInit
  <2>3. /\ result \in [Calls -> {None, "success", "error"}]
        /\ heard \in [Calls -> {None, "success", "error"}]
    BY DEF TurnInit
  <2>4. /\ reader \in BOOLEAN /\ clean \in BOOLEAN
        /\ built \in [head : SUBSET Calls, loose : SUBSET Calls] \cup {None}
        /\ merged \in (SUBSET Calls) \cup {None}
        /\ running \in Calls \cup {None}
    BY Zenon DEF TurnInit
  <2>5. /\ ending \in {None, "returned", "failed"}
        /\ agent \in {"up", "thinking", "over", "gone"}
        /\ over \in {None, "completed", "failed"} /\ inbox \in {None, "completed", "failed"}
        /\ bridge \in {"whole", "broken"}
        /\ unread \subseteq Calls /\ counted \subseteq Calls
        /\ head \subseteq Calls /\ loose \subseteq Calls /\ final \subseteq Calls
    BY DEF TurnInit
  <2> QED  BY <2>1, <2>2, <2>3, <2>4, <2>5 DEF Types, TurnTypeOK
<1>3. Quiet
  BY DEF TurnInit, Quiet, ReturnedTurnIsQuiet
<1>4. AtRest
  BY DEF TurnInit, AtRest
<1> QED  BY <1>2, <1>3, <1>4

LEMMA TurnInvariance == TurnSpec => [](Types /\ Quiet /\ AtRest)
<1>1. Types /\ Quiet /\ AtRest /\ [TurnNext]_allTurnVars => (Types /\ Quiet /\ AtRest)'
  BY StepTypes, StepQuiet, StepAtRest
<1> QED  BY Start, <1>1, PTL DEF TurnSpec

\* Every variable of a batch keeps its type, whatever the provider does and
\* whichever timeout of client, bridge or command runner expires, and no API
\* turn makes more requests than max_tool_rounds.
THEOREM TurnTypeCorrect == TurnSpec => []TurnTypeOK
<1>1. Types => TurnTypeOK
  BY DEF Types
<1> QED  BY TurnInvariance, <1>1, PTL

\* A Codex or API turn that returns leaves no tool call behind, and its result
\* lists every call the host has run.
THEOREM TurnsReturnQuiet == TurnSpec => []ReturnedTurnIsQuiet
<1>1. Quiet => ReturnedTurnIsQuiet
  BY DEF Quiet
<1> QED  BY TurnInvariance, <1>1, PTL

\* Nothing changes the worktree of such a batch between its final build and the
\* merge, so the commit that _merge_batch takes over is the one that was built.
THEOREM MergedIsBuilt == TurnSpec => []MergedWasBuilt
<1>1. AtRest => MergedWasBuilt
  <2> SUFFICES ASSUME AtRest, merged # None, driver # "cli"
               PROVE  built = [head |-> merged, loose |-> {}]
    BY DEF MergedWasBuilt
  <2>1. step = "done" /\ ending = "returned" /\ built # None /\ clean /\ merged = final
    BY DEF AtRest
  <2>2. built = [head |-> head, loose |-> loose] /\ final = head /\ clean = (loose = {})
    BY <2>1 DEF AtRest
  <2> QED  BY <2>1, <2>2
<1> QED  BY TurnInvariance, <1>1, PTL

-----------------------------------------------------------------------------
(* A batch is finite.                                                      *)

\* At most so many steps of the worker are left; a round of an API driver has two.
Remaining ==
  CASE step = "initialize" -> 13 [] step = "mcpServerStatus/list" -> 12
    [] step = "skills/list" -> 11 [] step = "thread/start" -> 10 [] step = "turn/start" -> 9
    [] step = "spawn" -> 8 [] step \in {"listen", "wait"} -> 7
    [] step = "ask" -> 5 + 2 * (MaxRounds - rounds)
    [] step = "serve" -> 6 + 2 * (MaxRounds - rounds)
    [] step = "close" -> 6 [] step = "join" -> 5
    [] step = "build" -> 4 [] step = "head" -> 3 [] step = "status" -> 2 [] step = "merge" -> 1
    [] step = "done" -> 0

LEMMA RemainingType == Types => Remaining \in Nat
BY DEF Types, TurnTypeOK, TurnSteps, Requests, Remaining

LEMMA WorkerProceeds ==
  ASSUME Types, Types', Worker
  PROVE  Remaining' < Remaining
<1> USE DEF Types, TurnTypeOK, Shape, Remaining
<1>1. CASE AskTools
  <2>1. step = "ask" /\ step' = "serve" /\ rounds' = rounds + 1
    BY <1>1 DEF AskTools
  <2> QED BY <2>1
<1>2. CASE AskEnds \/ AskFails
  <2>1. step = "ask" /\ step' = "build" /\ rounds \in 0..MaxRounds
    BY <1>2 DEF AskEnds, AskFails, EndTurn
  <2> QED BY <2>1
<1>3. CASE ServedAll
  <2>1. step = "serve" /\ rounds' = rounds /\ rounds \in 0..MaxRounds /\ step' \in {"ask", "build"}
    BY <1>3 DEF ServedAll, EndTurn
  <2> QED BY <2>1
<1>4. CASE Codex
  <2>1. CASE Answered
    BY <2>1 DEF Answered, AfterRequest, Requests
  <2>2. CASE RequestFails
    BY <2>2 DEF RequestFails, EndTurn, Requests
  <2>3. CASE Notified \/ ListenTimesOut \/ Terminate \/ Joined \/ JoinTimesOut
    <3>1. \/ step = "listen" /\ step' = "close"
          \/ step = "close" /\ step' = "join"
          \/ step = "join" /\ step' = "build"
      BY <2>3 DEF Notified, ListenTimesOut, Terminate, Joined, JoinTimesOut, EndTurn
    <3> QED BY <3>1
  <2> QED BY <1>4, <2>1, <2>2, <2>3 DEF Codex
<1>5. CASE Cli
  <2>1. \/ step = "spawn" /\ step' \in {"wait", "close"}
        \/ step = "wait" /\ step' = "close"
        \/ step = "close" /\ step' = "build"
    BY <1>5 DEF Cli, Spawn, Exited, WaitTimesOut, CloseServer, EndTurn
  <2> QED BY <2>1
<1>6. CASE Batch
  <2>1. \/ step = "build" /\ step' \in {"head", "merge"}
        \/ step = "head" /\ step' \in {"status", "merge"}
        \/ step = "status" /\ step' = "merge"
        \/ step = "merge" /\ step' = "done"
    BY <1>6 DEF Batch, FinalBuild, ReadHead, ReadStatus, BatchFails, Merge, EndTurn
  <2> QED BY <2>1
<1> QED BY <1>1, <1>2, <1>3, <1>4, <1>5, <1>6 DEF Worker, Api

\* The provider, the threads that serve it and its tools leave the worker where
\* it is.
LEMMA OthersWait ==
  ASSUME [TurnNext]_allTurnVars, ~Worker
  PROVE  Remaining' = Remaining
<1>1. UNCHANGED turnVars
  BY DEF TurnNext, Reader, Deliver, ReaderEnds, Take, AgentEnds, AgentDies, Call, HandlerEnds,
         BridgeTimesOut, allTurnVars
<1> QED BY <1>1 DEF turnVars, Remaining

\* A batch has boundedly many steps (proof worker, tool loop, close and merge):
\* each step of its worker leaves fewer, and nothing the provider, a tool or a
\* thread does adds one, however often the provider calls tools.
THEOREM BatchIsFinite ==
  TurnSpec => /\ [](Remaining \in Nat)
              /\ [][IF Worker THEN Remaining' < Remaining ELSE Remaining' = Remaining]_allTurnVars
<1> DEFINE Bounded == IF Worker THEN Remaining' < Remaining ELSE Remaining' = Remaining
<1>1. Types /\ [TurnNext]_allTurnVars => [Bounded]_allTurnVars
  BY StepTypes, WorkerProceeds, OthersWait
<1> QED BY <1>1, RemainingType, TurnInvariance, PTL DEF TurnSpec

================================================================================
