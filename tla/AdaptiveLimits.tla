--------------------------- MODULE AdaptiveLimits ---------------------------
(***************************************************************************)
(* The machine-wide AI limit and the settings it follows                   *)
(* (concurrency/ai.py, admission.py, runtime.py and config.py).            *)
(*                                                                         *)
(* The settings live in a file with a revision, which interfaces replace   *)
(* by compare-and-swap on the revision they have shown.  The limit and the *)
(* evidence for changing it live in the admission database.  Every client  *)
(* that builds a runtime publishes the settings it has read: if the marker *)
(* stored with the limit names other settings, the limit restarts at their *)
(* initial value.  A turn of a worker builds a runtime of its own, waits   *)
(* for a slot, and afterwards records its outcome, which may move the      *)
(* limit: a transaction on the evidence decides, and separate connections  *)
(* then read the limit and write it.                                       *)
(*                                                                         *)
(* Deadlines are counted down: backoff and rest are what is left of        *)
(* backoff_until and of the cooldown after last_increase_at.               *)
(***************************************************************************)
EXTENDS Integers, FiniteSets, FiniteSetsExt

CONSTANTS
  Interfaces,   \* processes that show and edit the machine settings
  Workers,      \* processes that run AI turns one after the other
  Policies,     \* the AI settings a file may hold, as resolved by a runtime
  Factory,      \* the settings of a machine without a file
  Threshold,    \* increase_after_successes
  Cooldown,     \* increase_cooldown_seconds
  MaxDelay,     \* longest backoff or Retry-After
  MaxRevision,  \* bound on the edits of the settings
  MaxFaults,    \* bound on throttles, failures, resets and deaths
  None

ASSUME LimitsAssumption ==
  /\ Policies \subseteq [minimum : Nat \ {0}, initial : Nat, ceiling : Nat,
                         fixed : BOOLEAN]
  /\ \A p \in Policies : p.minimum <= p.initial /\ p.initial <= p.ceiling
  /\ Factory \in Policies /\ None \notin Policies /\ None \notin Nat
  /\ Threshold \in Nat \ {0} /\ Cooldown \in Nat /\ MaxDelay \in Nat \ {0}
  /\ MaxRevision \in Nat /\ MaxFaults \in Nat

VARIABLES
  file,      \* the settings file: its revision and policy
  marker,    \* the policy whose initial limit was published last
  limit,     \* resource_limits of the AI resource
  evidence,  \* the adaptive state shared by all controllers
  runtime,   \* the settings each interface's runtime follows
  form,      \* the settings an interface shows for editing
  stage,     \* where the interface's call is
  policy,    \* the settings the runtime of a worker's turn follows
  read,      \* the limit a worker or interface has read and not yet used
  pc,        \* where each worker is
  faults

vars == <<file, marker, limit, evidence, runtime, form, stage, policy, read,
          pc, faults>>

store == <<marker, limit, evidence>>
interface == <<runtime, form, stage>>
worker == <<policy, read, pc>>

Settings == [revision : 0..MaxRevision, policy : Policies]

TypeOK ==
  /\ file \in Settings
  /\ marker \in Policies \cup {None}
  /\ limit \in Nat \ {0}
  /\ evidence \in [stable : Nat, failures : Nat, backoff : 0..MaxDelay,
                   rest : 0..Cooldown]
  /\ runtime \in [Interfaces -> Settings \cup {None}]
  /\ form \in [Interfaces -> Settings \cup {None}]
  /\ stage \in [Interfaces -> {"idle", "load", "publish", "look", "sync",
                               "clear", "restart"}]
  /\ policy \in [Workers -> Policies \cup {None}]
  /\ read \in [Workers -> Nat]
  /\ pc \in [Workers -> {"idle", "publish", "wait", "turn",
                         "success", "throttle", "transient",
                         "check", "grow", "halve", "lower",
                         "grown", "halved", "lowered"}]
  /\ faults \in 0..MaxFaults

\* No evidence: every count and every deadline is zero.
NoEvidence == [stable |-> 0, failures |-> 0, backoff |-> 0, rest |-> 0]

Init ==
  /\ file = [revision |-> 0, policy |-> Factory]
  /\ marker = None
  /\ limit = Factory.initial
  /\ evidence = NoEvidence
  /\ runtime = [i \in Interfaces |-> None]
  /\ form = [i \in Interfaces |-> None]
  /\ stage = [i \in Interfaces |-> "idle"]
  /\ policy = [w \in Workers |-> None]
  /\ read = [w \in Workers |-> 0]
  /\ pc = [w \in Workers |-> "idle"]
  /\ faults = 0

-----------------------------------------------------------------------------
(* Publishing settings.                                                    *)

\* A mutant: whoever publishes takes the marker only if there is none.
Sync_First(p) ==
  /\ marker' = IF marker = None THEN p ELSE marker
  /\ limit' = IF marker = None THEN p.initial ELSE limit
  /\ UNCHANGED evidence

\* sync_limits_if_state_changed: one transaction compares the marker and, if
\* it names other settings, restarts the limit.
Sync(p) ==
  /\ marker' = p
  /\ limit' = IF marker = p THEN limit ELSE p.initial
  /\ UNCHANGED evidence

-----------------------------------------------------------------------------
(* Interfaces.  One call at a time per process: _settings_lock.            *)

\* _runtime: the file is read again; a runtime that follows other settings, or
\* a new one, publishes them.  Also the monitor's _refresh_runtime.
Look(i) ==
  /\ stage[i] = "idle" /\ runtime[i] # file
  /\ runtime' = [runtime EXCEPT ![i] = file]
  /\ stage' = [stage EXCEPT ![i] = "publish"]
  /\ UNCHANGED <<file, store, form, worker, faults>>

Publish(i) ==
  /\ stage[i] \in {"publish", "sync"}
  /\ Sync(runtime[i].policy)
  /\ stage' = [stage EXCEPT ![i] = IF stage[i] = "sync" THEN "clear" ELSE "idle"]
  /\ UNCHANGED <<file, runtime, form, worker, faults>>

\* get_machine_settings: the settings of the runtime are shown for editing.
Show(i) ==
  /\ stage[i] = "idle" /\ runtime[i] # None /\ form[i] # runtime[i]
  /\ form' = [form EXCEPT ![i] = runtime[i]]
  /\ UNCHANGED <<file, store, runtime, stage, worker, faults>>

\* apply_machine_settings, reset_machine_settings: under the exclusive lock of
\* the file, its revision must still be the one that was shown.
Apply(i) ==
  /\ stage[i] = "idle" /\ form[i] # None
  /\ file.revision = form[i].revision /\ file.revision < MaxRevision
  /\ \E p \in Policies :
       file' = [revision |-> file.revision + 1, policy |-> p]
  /\ stage' = [stage EXCEPT ![i] = "load"]
  /\ UNCHANGED <<store, runtime, form, worker, faults>>

\* The saved file is read once more, outside that lock, and published.
Reload(i) ==
  /\ stage[i] = "load"
  /\ runtime' = [runtime EXCEPT ![i] = file]
  /\ stage' = [stage EXCEPT ![i] = "publish"]
  /\ UNCHANGED <<file, store, form, worker, faults>>

\* reset_adaptive_history: look, clear the evidence, and restart the limit.
ResetHistory(i) ==
  /\ stage[i] = "idle" /\ faults < MaxFaults
  /\ faults' = faults + 1
  /\ runtime' = [runtime EXCEPT ![i] = file]
  /\ stage' = [stage EXCEPT ![i] = IF runtime[i] = file THEN "clear" ELSE "sync"]
  /\ UNCHANGED <<file, store, form, worker>>

ClearHistory(i) ==
  /\ stage[i] = "clear"
  /\ evidence' = NoEvidence
  /\ stage' = [stage EXCEPT ![i] =
                 IF runtime[i].policy.fixed THEN "idle" ELSE "restart"]
  /\ UNCHANGED <<file, marker, limit, runtime, form, worker, faults>>

RestartLimit(i) ==
  /\ stage[i] = "restart"
  /\ limit' = runtime[i].policy.initial
  /\ stage' = [stage EXCEPT ![i] = "idle"]
  /\ UNCHANGED <<file, marker, evidence, runtime, form, worker, faults>>

InterfaceDies(i) ==
  /\ stage[i] # "idle" /\ faults < MaxFaults
  /\ faults' = faults + 1
  /\ runtime' = [runtime EXCEPT ![i] = None]
  /\ form' = [form EXCEPT ![i] = None]
  /\ stage' = [stage EXCEPT ![i] = "idle"]
  /\ UNCHANGED <<file, store, worker>>

-----------------------------------------------------------------------------
(* Turns of the workers.                                                   *)

\* The turn of w goes on with a value kept in a local variable, or ends.
Goto(w, there, value) ==
  /\ pc' = [pc EXCEPT ![w] = there]
  /\ read' = [read EXCEPT ![w] = IF there = "idle" THEN 0 ELSE value]
  /\ policy' = [policy EXCEPT ![w] = IF there = "idle" THEN None ELSE @]

\* ConcurrencyRuntimeSpec.create: the settings of this turn are read ...
BeginTurn(w) ==
  /\ pc[w] = "idle"
  /\ policy' = [policy EXCEPT ![w] = file.policy]
  /\ pc' = [pc EXCEPT ![w] = "publish"]
  /\ UNCHANGED <<file, store, interface, read, faults>>

\* ... and published.
PublishTurn(w) ==
  /\ pc[w] = "publish"
  /\ Sync(policy[w])
  /\ Goto(w, "wait", 0)
  /\ UNCHANGED <<file, interface, faults>>

\* AIAdmissionController.try_acquire: nobody is admitted during the backoff.
\* read keeps whether the turn had to queue, as the code's local variable does.
Admit(w, queued) ==
  /\ pc[w] = "wait"
  /\ evidence.backoff = 0
  /\ Cardinality({v \in Workers : pc[v] = "turn"}) < limit
  /\ Goto(w, "turn", IF queued THEN 1 ELSE 0)
  /\ UNCHANGED <<file, store, interface, faults>>

\* The lease is given back, and what happened decides what is recorded.  A
\* failure that is neither a throttle nor transient is not recorded.
Succeed(w) ==
  /\ pc[w] = "turn"
  /\ Goto(w, "success", read[w])
  /\ UNCHANGED <<file, store, interface, faults>>

\* The provider throttles or fails, the wait for a slot times out, or the
\* process dies.
Fail(w) ==
  /\ faults < MaxFaults
  /\ faults' = faults + 1
  /\ \/ pc[w] = "turn" /\ \E end \in {"throttle", "transient"} : Goto(w, end, 0)
     \/ pc[w] = "wait" /\ Goto(w, "transient", 0)
     \/ pc[w] # "idle" /\ Goto(w, "idle", 0)
  /\ UNCHANGED <<file, store, interface>>

\* A mutant: the limit stops one short of the ceiling.
Due_BelowCeiling(w) ==
  /\ ~policy[w].fixed
  /\ evidence.backoff = 0
  /\ read[w] = 1
  /\ evidence.stable + 1 >= Threshold
  /\ limit + 1 < policy[w].ceiling
  /\ evidence.rest = 0

\* The condition under which a success raises the limit.
Due(w) ==
  /\ ~policy[w].fixed
  /\ evidence.backoff = 0
  /\ read[w] = 1
  /\ evidence.stable + 1 >= Threshold
  /\ limit < policy[w].ceiling
  /\ evidence.rest = 0

\* record_success, its transaction: a backoff that has passed clears the
\* failures, and a due increase consumes the evidence.
RecordSuccess(w) ==
  /\ pc[w] = "success"
  /\ evidence' = [evidence EXCEPT
       !.failures = IF evidence.backoff = 0 THEN 0 ELSE @,
       !.stable = IF Due(w) THEN 0 ELSE Min({@ + 1, Threshold}),
       !.rest = IF Due(w) THEN Cooldown ELSE @]
  /\ Goto(w, IF Due(w) THEN "check" ELSE "idle", 0)
  /\ UNCHANGED <<file, marker, limit, interface, faults>>

\* record_success, after it: the limit is compared once more ...
CheckCeiling(w) ==
  /\ pc[w] = "check"
  /\ Goto(w, IF limit < policy[w].ceiling THEN "grow" ELSE "idle", 0)
  /\ UNCHANGED <<file, store, interface, faults>>

\* record_throttle, its transaction.
RecordThrottle(w) ==
  /\ pc[w] = "throttle"
  /\ \E delay \in 0..MaxDelay :
       evidence' = [evidence EXCEPT !.stable = 0,
                                    !.backoff = Max({@, delay})]
  /\ Goto(w, IF policy[w].fixed THEN "idle" ELSE "halve", 0)
  /\ UNCHANGED <<file, marker, limit, interface, faults>>

\* record_transient_failure, its transaction: the second failure in a row
\* lowers the limit.
RecordTransient(w) ==
  /\ pc[w] = "transient"
  /\ \E delay \in 1..MaxDelay :
       evidence' = [evidence EXCEPT !.stable = 0,
                                    !.failures = @ + 1,
                                    !.backoff = Max({@, delay})]
  /\ Goto(w, IF policy[w].fixed \/ evidence.failures = 0 THEN "idle" ELSE "lower", 0)
  /\ UNCHANGED <<file, marker, limit, interface, faults>>

\* ... read again in a connection of its own ...
ReadLimit(w) ==
  /\ pc[w] \in {"grow", "halve", "lower"}
  /\ Goto(w, CASE pc[w] = "grow" -> "grown"
               [] pc[w] = "halve" -> "halved"
               [] pc[w] = "lower" -> "lowered", limit)
  /\ UNCHANGED <<file, store, interface, faults>>

\* ... and written in another, whatever it is by then.
WriteLimit(w) ==
  /\ \/ pc[w] = "grown" /\ limit' = read[w] + 1
     \/ pc[w] = "halved" /\ limit' = Max({policy[w].minimum, read[w] \div 2})
     \/ pc[w] = "lowered" /\ limit' = Max({policy[w].minimum, read[w] - 1})
  /\ Goto(w, "idle", 0)
  /\ UNCHANGED <<file, marker, evidence, interface, faults>>

\* Time passes for the backoff and for the cooldown.
Tick ==
  /\ evidence.backoff > 0 \/ evidence.rest > 0
  /\ evidence' = [evidence EXCEPT !.backoff = Max({@ - 1, 0}),
                                  !.rest = Max({@ - 1, 0})]
  /\ UNCHANGED <<file, marker, limit, interface, worker, faults>>

Interface(i) ==
  \/ Look(i) \/ Publish(i) \/ Show(i) \/ Apply(i) \/ Reload(i)
  \/ ResetHistory(i) \/ ClearHistory(i) \/ RestartLimit(i) \/ InterfaceDies(i)

Record(w) ==
  \/ RecordSuccess(w) \/ CheckCeiling(w) \/ RecordThrottle(w)
  \/ RecordTransient(w) \/ ReadLimit(w) \/ WriteLimit(w)

Worker(w) ==
  \/ BeginTurn(w) \/ PublishTurn(w) \/ \E queued \in BOOLEAN : Admit(w, queued)
  \/ Succeed(w) \/ Fail(w) \/ Record(w)

Next ==
  \/ \E i \in Interfaces : Interface(i)
  \/ \E w \in Workers : Worker(w)
  \/ Tick

Spec == Init /\ [][Next]_vars

\* A call of an interface goes on, time passes, and workers have turns to run,
\* more of them than there are slots.  Edits, resets and faults are not fair.
Fairness ==
  /\ WF_vars(Tick)
  /\ \A i \in Interfaces :
       WF_vars(Publish(i) \/ Reload(i) \/ ClearHistory(i) \/ RestartLimit(i))
  /\ \A w \in Workers :
       /\ WF_vars(BeginTurn(w) \/ PublishTurn(w) \/ Succeed(w) \/ Record(w))
       /\ SF_vars(Admit(w, TRUE))

FairSpec == Spec /\ Fairness
-----------------------------------------------------------------------------
(* What the settings and the adaptation promise.                           *)

\* MachineConfigStore.save: settings are replaced only by an interface that was
\* showing exactly the settings it replaces. (Proved for any number of interfaces;
\* the runs have one.)
SettingsNotOverwritten ==
  [][file' # file => \E i \in Interfaces : stage'[i] = "load" /\ form[i] = file]_vars

\* sync_limits_if_state_changed: once the settings are left alone, the limit
\* follows them for good; no turn begun under older ones takes them back.
SettingsTakeEffect == <>[](marker = file.policy)

\* record_success: whatever throttles, failures, lost updates and resets have
\* done to the limit, it returns to the ceiling of the settings.
LimitRecovers == <>[](file.policy.fixed \/ limit >= file.policy.ceiling)

\* docs/CONCURRENCY.md: the limit grows up to the configured ceiling.
CeilingKept == marker # None => limit <= marker.ceiling
=============================================================================
