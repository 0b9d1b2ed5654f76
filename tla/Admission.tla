------------------------------- MODULE Admission -------------------------------
(***************************************************************************)
(* Machine-wide admission to one resource: the leases, waiters and limit   *)
(* in admission.sqlite3 (concurrency/admission.py), the callers of         *)
(* AdmissionController.lease in any number of processes, the pauses of the *)
(* Lean controller, and its exclusive calibration (concurrency/lean.py).   *)
(*                                                                         *)
(* Every action is one transaction, one read of controller_state, or the   *)
(* passing of time.  A user is one caller of lease(); the uuid of a lease  *)
(* is the user that created it, and its request_id is Key[user].           *)
(*                                                                         *)
(* Every transaction that reads rows deletes the expired ones first        *)
(* (_prune), so that an expired row is as good as gone: it leaves its      *)
(* table here when its expires_at passes.                                  *)
(*                                                                         *)
(* The pauses of the AI and build controllers, a back-off and red memory   *)
(* pressure, act where paused does.                                        *)
(***************************************************************************)
EXTENDS Naturals, FiniteSets

CONSTANTS
  Tasks,        \* callers of lease(): builds, checks, extractions
  Calibrators,  \* callers of exclusive_calibration_lease()
  Keys,         \* request ids: the owner strings of requests
  Key,          \* Key[u]: the request id user u submits
  Priority,     \* Priority[k]: smaller values run first
  Limits,       \* the limits that settings and adaptation publish
  Late,         \* users whose heartbeats and attempts may come too late: the
                \* machine sleeps, or a heartbeat thread ends in an error
  Mortal,       \* users whose processes may die: all of them, but for a bound
  Nobody        \* no user

Users == Tasks \cup Calibrators

ASSUME AdmissionAssumptions ==
  /\ Tasks \cap Calibrators = {} /\ Nobody \notin Users
  /\ Key \in [Users -> Keys]
  /\ Priority \in [Keys -> Nat]
  /\ Limits \subseteq Nat /\ Limits # {}
  /\ Late \subseteq Users /\ Mortal \subseteq Users

\* "owner must identify a logical unit of work": nobody shares u's request id,
\* and its heartbeats come in time.
Reliable(u) == u \notin Late /\ \A v \in Users : Key[v] = Key[u] => v = u

VARIABLES
  pc,          \* pc[u]: the next step of user u
  holds,       \* holds[u]: the row user u works under, Nobody when it is gone
  adopted,     \* users that found their lease, and have not renewed it yet
  leases,      \* rows of leases, by the user that created them
  waiting,     \* rows of waiters, by request id
  before,      \* <<j, k>>: j and k are waiters of one priority, and the ticket of j
               \* is the smaller one
  limit,       \* the published limit
  paused,      \* red or emergency pressure, observed in the last 20 seconds
  calibration, \* the owner in the calibration state while it pauses, or Nobody
  calibLock    \* the holder of lean-calibration.lock

rowVars == <<leases, waiting, before>>
gateVars == <<limit, paused, calibration, calibLock>>
userVars == <<pc, holds, adopted>>
vars == <<userVars, rowVars, gateVars>>

Polling == {"gate", "wait", "try"}
Calibrating == {"before", "announce", "after", "restore"}
Steps == {"idle", "working"} \cup Polling \cup Calibrating
Working == {u \in Users : pc[u] = "working"}

Goto(u, s) == pc' = [pc EXCEPT ![u] = s]

\* A mutant: a TimeoutError skips the finally.
Done_NoFinally(u) == "idle"

\* Where a user goes when lease() returns or raises: the calibrator's finally.
Done(u) == IF u \in Calibrators THEN "restore" ELSE "idle"

-----------------------------------------------------------------------------
(* The transactions of SQLiteAdmissionStore.                               *)

\* A mutant: every poll draws a new ticket.
Tickets_Renewed(k) == (before \cap ((waiting \ {k}) \X (waiting \ {k})))
                      \cup ({j \in waiting \ {k} : Priority[j] = Priority[k]} \X {k})

\* The tickets once k is a waiter: it keeps the one it has.
Tickets(k) == before \cup (IF k \in waiting THEN {} ELSE {j \in waiting : Priority[j] = Priority[k]} \X {k})

\* The waiters in front of k.
Ahead(k) == {j \in waiting : \/ Priority[j] < Priority[k]
                             \/ <<j, k>> \in Tickets(k)}

\* A mutant: off by one.
Admissible_AtLimit(k) == /\ Cardinality(leases) <= limit
                         /\ Cardinality(leases) + Cardinality(Ahead(k)) <= limit

\* A free slot is left after those in front have theirs.
Admissible(k) == /\ Cardinality(leases) < limit
                 /\ Cardinality(leases) + Cardinality(Ahead(k)) < limit

Existing(k) == {v \in leases : Key[v] = k}

\* try_acquire: the request already has a lease, which is returned as it is: it
\* expires when it would have, unless a heartbeat comes before.
TryExisting(u) ==
  /\ pc[u] = "try"
  /\ \E v \in Existing(Key[u]) : holds' = [holds EXCEPT ![u] = v]
  /\ adopted' = adopted \cup {u}
  /\ Goto(u, "working")
  /\ UNCHANGED <<rowVars, gateVars>>

\* try_acquire: no slot for this request yet; it waits, or goes on waiting.
TryQueue(u) ==
  /\ pc[u] = "try"
  /\ Existing(Key[u]) = {} /\ ~Admissible(Key[u])
  /\ waiting' = waiting \cup {Key[u]}
  /\ before' = Tickets(Key[u])
  /\ Goto(u, "wait")
  /\ UNCHANGED <<holds, adopted, leases, gateVars>>

\* try_acquire: the waiter becomes a lease.
TryAdmit(u) ==
  /\ pc[u] = "try"
  /\ Existing(Key[u]) = {} /\ Admissible(Key[u])
  /\ leases' = leases \cup {u}
  /\ waiting' = waiting \ {Key[u]}
  /\ before' = before \cap (waiting' \X waiting')
  /\ holds' = [holds EXCEPT ![u] = u]
  /\ Goto(u, "working")
  /\ UNCHANGED <<adopted, gateVars>>

\* The heartbeat thread of lease(): a lease that has not expired lives on.
Heartbeat(u) ==
  /\ pc[u] = "working"
  /\ adopted' = IF holds[u] = Nobody THEN adopted ELSE adopted \ {u}
  /\ UNCHANGED <<pc, holds, rowVars, gateVars>>

\* The row v goes, whoever works under it: its uuid never returns.
Drop(v) == /\ leases' = leases \ {v}
           /\ holds' = [u \in Users |-> IF holds[u] = v THEN Nobody ELSE holds[u]]

\* The work is done, or raises: release.
Finish(u) ==
  /\ pc[u] = "working"
  /\ Drop(holds[u])
  /\ adopted' = adopted \ {u}
  /\ Goto(u, Done(u))
  /\ UNCHANGED <<waiting, before, gateVars>>

\* The deadline of acquire passes after an attempt: cancel, and TimeoutError.
GiveUp(u) ==
  /\ pc[u] = "wait"
  /\ waiting' = waiting \ {Key[u]}
  /\ before' = before \cap (waiting' \X waiting')
  /\ Goto(u, Done(u))
  /\ UNCHANGED <<holds, adopted, leases, gateVars>>

\* set_limit: settings, adaptation, resets; no lease is disturbed.
SetLimit == /\ limit' \in Limits \ {limit}
            /\ UNCHANGED <<userVars, rowVars, paused, calibration, calibLock>>

-----------------------------------------------------------------------------
(* The pauses of LeanAdmissionController.try_acquire, read one after the   *)
(* other and before the transaction.                                       *)

Request(u) ==
  /\ u \in Tasks /\ pc[u] = "idle"
  /\ Goto(u, "gate")
  /\ UNCHANGED <<holds, adopted, rowVars, gateVars>>

\* The calibration's own request passes.
Barred(u) == calibration # Nobody /\ Key[calibration] # Key[u]

\* The two states are read one after the other.  One step does it: the pressure may
\* change at any time, so that what is read of it after the calibration could have
\* been so before.
ReadPauses(u) ==
  /\ pc[u] \in {"gate", "wait"}
  /\ Goto(u, IF Barred(u) \/ paused THEN "wait" ELSE "try")
  /\ UNCHANGED <<holds, adopted, rowVars, gateVars>>

\* A monitor observes red or emergency, observes another state, or has not
\* observed anything for 20 seconds.
PressureChanges ==
  /\ paused' = ~paused
  /\ UNCHANGED <<userVars, rowVars, limit, calibration, calibLock>>

-----------------------------------------------------------------------------
(* exclusive_calibration_lease.                                            *)

\* The file lock is taken without waiting; when it is busy the call raises.
CalibrateBegin(u) ==
  /\ u \in Calibrators /\ pc[u] = "idle"
  /\ calibLock = Nobody
  /\ calibLock' = u
  /\ Goto(u, "before")
  /\ UNCHANGED <<holds, adopted, rowVars, limit, paused, calibration>>

\* The two snapshots: refused when work is active or queued.
CheckIdle(u) ==
  /\ pc[u] \in {"before", "after"}
  /\ Goto(u, IF leases # {} \/ waiting # {} THEN "restore"
             ELSE IF pc[u] = "before" THEN "announce" ELSE "gate")
  /\ UNCHANGED <<holds, adopted, rowVars, gateVars>>

Announce(u) ==
  /\ pc[u] = "announce"
  /\ calibration' = u
  /\ Goto(u, "after")
  /\ UNCHANGED <<holds, adopted, rowVars, limit, paused, calibLock>>

\* The finally: the state is reset, and the file lock given back.
Restore(u) ==
  /\ pc[u] = "restore"
  /\ calibration' = Nobody
  /\ calibLock' = Nobody
  /\ Goto(u, "idle")
  /\ UNCHANGED <<holds, adopted, rowVars, limit, paused>>

-----------------------------------------------------------------------------
(* Deaths, and the passing of time.                                        *)

\* A process dies, and its rows stay.  The work may be tried again, by a new
\* process and under the same owner string.
Die(u) ==
  /\ u \in Mortal
  /\ pc[u] # "idle"
  /\ Goto(u, "idle")
  /\ holds' = [holds EXCEPT ![u] = Nobody] /\ adopted' = adopted \ {u}
  /\ calibLock' = IF calibLock = u THEN Nobody ELSE calibLock
  /\ UNCHANGED <<rowVars, limit, paused, calibration>>

\* Heartbeats come every quarter of the time to live, and the first one a quarter
\* after the lease is returned: it may be too late for a lease that was found.
LeaseLapses(v) ==
  /\ v \in leases
  /\ \A u \in Users \ (Late \cup adopted) : holds[u] # v
  /\ Drop(v)
  /\ UNCHANGED <<pc, adopted, waiting, before, gateVars>>

\* Nobody asks for k: a paused controller does not reach the waiters.
Unasked(k) == \A u \in Users : Key[u] = k /\ pc[u] \in Polling => paused \/ Barred(u)

\* A waiter lives for a minute or four times to live after its last attempt, and
\* attempts come ten times a second.
WaiterLapses(k) ==
  /\ k \in waiting
  /\ Unasked(k) \/ \E u \in Late : Key[u] = k
  /\ waiting' = waiting \ {k}
  /\ before' = before \cap (waiting' \X waiting')
  /\ UNCHANGED <<userVars, leases, gateVars>>

\* The calibration state has a time to live of an hour, which nothing renews:
\* a calibration that works longer outlives it; its idle checks and its wait of
\* a minute do not.
CalibrationLapses ==
  /\ calibration # Nobody
  /\ calibration \in Late \/ pc[calibration] \notin {"after"} \cup Polling
  /\ calibration' = Nobody
  /\ UNCHANGED <<userVars, rowVars, limit, paused, calibLock>>

-----------------------------------------------------------------------------

Init ==
  /\ pc = [u \in Users |-> "idle"]
  /\ holds = [u \in Users |-> Nobody] /\ adopted = {}
  /\ leases = {} /\ waiting = {} /\ before = {}
  /\ limit \in Limits
  /\ paused = FALSE
  /\ calibration = Nobody /\ calibLock = Nobody

\* What a running user does of its own accord.
Attempt(u) == ReadPauses(u) \/ TryExisting(u) \/ TryQueue(u) \/ TryAdmit(u)
Calibrate(u) == CheckIdle(u) \/ Announce(u) \/ Restore(u)
Use(u) == Attempt(u) \/ Calibrate(u) \/ Finish(u)

Lapse == \/ \E u \in Users : LeaseLapses(u)
         \/ \E k \in Keys : WaiterLapses(k)
         \/ CalibrationLapses

Next == \/ \E u \in Users : \/ Request(u) \/ CalibrateBegin(u) \/ Use(u) \/ Heartbeat(u)
                            \/ GiveUp(u) \/ Die(u)
        \/ SetLimit \/ PressureChanges \/ Lapse

Spec == Init /\ [][Next]_vars

\* Threads that run are scheduled, work ends (every command has a timeout), a
\* calibration waits for a minute, and what nobody renews expires.
Fairness == /\ \A u \in Users : SF_vars(Attempt(u)) /\ WF_vars(Calibrate(u) \/ Finish(u))
            /\ \A u \in Calibrators : SF_vars(GiveUp(u))
            /\ \A v \in Users : WF_vars((\A u \in Users : holds[u] # v) /\ LeaseLapses(v))
            /\ \A k \in Keys : WF_vars(Unasked(k) /\ WaiterLapses(k))
            /\ WF_vars((calibration \in Users /\ pc[calibration] = "idle") /\ CalibrationLapses)
FairSpec == Spec /\ Fairness

-----------------------------------------------------------------------------
(* What admission must guarantee.                                          *)

TypeOK ==
  /\ pc \in [Users -> Steps]
  /\ holds \in [Users -> Users \cup {Nobody}] /\ adopted \subseteq Working
  /\ leases \subseteq Users
  /\ waiting \subseteq Keys
  /\ before \subseteq waiting \X waiting
  /\ limit \in Limits
  /\ paused \in BOOLEAN
  /\ calibration \in Calibrators \cup {Nobody}
  /\ calibLock \in Calibrators \cup {Nobody}

\* What _prune and release leave to whoever works reliably and has renewed its
\* lease, or created it: the lease is its own, and lives.
RenewedLeaseStays ==
  \A u \in Working \ adopted : Reliable(u) => holds[u] = u /\ u \in leases

\* "One machine-wide budget": work begins only while less work than the limit is
\* in progress, or under a lease its request has already.  The work counted is
\* what processes really do and not their rows, as far as the rows can be relied
\* on: not the work of users that share a request id or come late, nor the work
\* under a found lease before its first renewal.
OneBudget ==
  [][\A u \in Users : pc[u] # "working" /\ pc'[u] = "working"
       => \/ Cardinality({w \in Working \ adopted : Reliable(w)}) < limit
          \/ Existing(Key[u]) # {}]_vars

\* What the documentation says: all the work in progress is counted.
StrictBudget ==
  [][\A u \in Users : pc[u] # "working" /\ pc'[u] = "working"
       => Cardinality(Working) < limit \/ Existing(Key[u]) # {}]_vars

\* A request is a waiter or has a lease, never both: a row left in the queue
\* would take a slot from everybody behind it.
NeverCountedTwice == \A v \in leases : Key[v] \notin waiting

\* Processes stop dying.
DeathsStop == <>[][\A u \in Users : ~Die(u)]_vars

\* A waiting task that is alone with its request id and polls in time is served,
\* unless it gives up, once the pauses are over, the limit is settled and
\* processes have stopped dying: later tickets do not overtake it, and the rows of
\* the dead expire.
Served ==
  /\ <>[](calibration = Nobody /\ ~paused)
  /\ <>[][limit' = limit]_vars /\ DeathsStop
  => \A u \in Tasks : Reliable(u) => (pc[u] = "wait" ~> pc[u] \in {"working", "idle"})

\* A calibration never keeps the others out for ever, whether its lease is
\* admitted or refused, its queue is never empty, or it dies: the state and the
\* file lock are given back again and again, once processes have stopped dying.
CalibrationEnds == DeathsStop => []<>(calibration = Nobody /\ calibLock = Nobody)
===============================================================================
