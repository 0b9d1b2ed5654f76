-------------------------- MODULE IncrementalVerifier --------------------------
(***************************************************************************)
(* The persistent verification project: what one pass of verify_project    *)
(* (incremental/orchestration.py) and prepare_pass (incremental/           *)
(* session.py) do to the SQLite state, the Lean modules and the manuscript *)
(* graph, together with the tools of the proof workers                     *)
(* (incremental/agent.py), the certification rules (certification.py) and  *)
(* the author's commands between passes (cli.py).                          *)
(*                                                                         *)
(* The store commits every statement by itself (isolation_level=None), so  *)
(* a crash may fall between any two of them.  An action is one commit, or  *)
(* commits the next pass repeats whatever a crash left of them.            *)
(*                                                                         *)
(* A proof batch holds one claim.  Workers are idealised: a worker that     *)
(* reports a formalization or a counterexample has one in its worktree, of *)
(* the statement the claim has in the snapshot it works on, unless it leans *)
(* on a forbidden axiom.                                                   *)
(***************************************************************************)
EXTENDS Naturals, FiniteSets

CONSTANTS
  Claims,            \* manuscript objects, by their stable identity
  Statements,        \* normalized statements
  Proofs,            \* proof texts
  Absent,            \* "not in the manuscript", "no value"
  Unsound,           \* a Lean declaration that uses a forbidden axiom
  Manuscripts,       \* the versions of the manuscript the author may save
  ArgumentAudit,     \* task mode: argument-audit rather than theorem
  PreserveCertified, \* task policy preserve_certified
  RequireReview,     \* task policy require_statement_correspondence_review
  Commands,          \* the author's commands: "approve", "reject", "resolve"
  Tools,             \* the tools of the workers: "formalize", "refute",
                     \* "clarify", "report", "depend"
  WorkerFaults       \* what goes wrong: "provider", "technical", "unsound"

\* An object of the manuscript; without a proof it is conjectural.
Objects == [stmt : Statements, proof : Proofs \cup {Absent}, refs : SUBSET Claims]

ASSUME VerifierAssumptions ==
  /\ IsFiniteSet(Claims)
  /\ Absent \notin Statements \cup Proofs \cup Objects \cup Claims
  /\ Unsound \notin Statements \cup {Absent}
  /\ Manuscripts \subseteq [Claims -> Objects \cup {Absent}]
  /\ {ArgumentAudit, PreserveCertified, RequireReview} \subseteq BOOLEAN
  /\ WorkerFaults \subseteq {"provider", "technical", "unsound"}

VARIABLES
  snapshot,   \* the current snapshot; a claim absent from it is retired
  status,     \* status[c]: the claim's ClaimState, Absent before its first pass
  edges,      \* the manuscript graph: <<dependent, dependency, kind>>
  corr,       \* corr[c]: the correspondence row of c, or Absent
  cert,       \* cert[c]: the certificate of c, or Absent
  question,   \* question[c]: origin of the open clarification of c, or Absent
  lean,       \* lean[c]: what the declaration in the merged Lean module of c
              \* proves: a statement or its negation; Unsound or Absent
  run,        \* the latest run: RUNNING, INTERRUPTED, FAILED, or the outcome
              \* of a complete one
  selected,   \* the run's SELECTED scope
  targets,    \* the run's TARGET scope
  pc,         \* the pass, or the command, in progress
  todo,       \* the claims its current loop still visits
  changed,    \* claims the import found changed or deleted
  newEdges,   \* the graph the import is about to store
  issued,     \* claims whose certificate the current certification wrote
  fresh,      \* claims certified by an earlier sweep of the initial loop
  batch,      \* batch[c]: the proof batch of c in this round, or Absent
  errors,     \* kinds of errors the pass has collected
  round       \* rounds scheduled so far

store == <<snapshot, status, edges, corr, cert, question, run>>
claimVars == <<status, corr, cert, question>>
graphVars == <<snapshot, edges>>
loopVars == <<todo, changed, newEdges, issued, fresh>>
roundVars == <<selected, targets, batch, errors, round>>
vars == <<store, lean, pc, loopVars, roundVars>>

States == {"DISCOVERED", "STATEMENT_DRAFTED", "STATEMENT_APPROVED", "PROVING",
           "CERTIFIED", "DIRTY_SOURCE", "INVALIDATED", "NEEDS_CLARIFICATION",
           "BLOCKED_DEPENDENCY", "FAILED_TECHNICAL", "FAILED_FORMALIZATION",
           "UNRESOLVED", "SUSPECT_FALSE", "COUNTEREXAMPLE_FOUND", "SKIPPED_UNPROVED"}

-----------------------------------------------------------------------------
(* The manuscript and its dependency graph (incremental/graph.py).         *)

In(m) == {c \in Claims : m[c] # Absent}
Conjectural(m) == {c \in In(m) : m[c].proof = Absent}
Current == In(snapshot)

\* explicit_reference_graph: one edge per reference to another indexed object.
EdgeKinds == {"explicit_ref", "semantic"}
Edges == Claims \X Claims \X EdgeKinds
References(m) == {e \in In(m) \X In(m) \X {"explicit_ref"} :
                    e[2] \in m[e[1]].refs \ {e[1]}}

Closed(S, graph) == \A e \in graph : e[1] \in S => e[2] \in S
Reversed(graph) == {<<e[2], e[1], e[3]>> : e \in graph}

\* The nodes reachable from S, S included: dependency_closure.
Closure(S, graph) ==
  {c \in Claims : \A T \in SUBSET Claims : S \subseteq T /\ Closed(T, graph) => c \in T}
Below(c, graph) == Closure({e[2] : e \in {f \in graph : f[1] = c}}, graph)
Acyclic(graph) == \A c \in Claims : c \notin Below(c, graph)

\* A mutant: invalidation stops at the changed claims.
Affected_ChangedOnly(S, graph) == S

\* A mutant: the graph is followed from dependents to dependencies.
Affected_Forward(S, graph) == Closure(S, graph)

\* affected_claims: the changed claims and all that depend on them.
Affected(S, graph) == Closure(S, Reversed(graph))

\* blocked_descendants: the selected claims that depend on a blocker.
BlockedBy(blockers, graph) ==
  {c \in selected : \E b \in (blockers \cap selected) \ {c} :
     b \in Below(c, {e \in graph : e[1] \in selected /\ e[2] \in selected})}

Dependencies(c) == {e[2] : e \in {f \in edges : f[1] = c}}
\* unsatisfied_dependencies, and the guard of ready_frontier.
Unsatisfied(c) == {d \in Dependencies(c) : status[d] # "CERTIFIED"}

ReadyStates == {"DISCOVERED", "STATEMENT_APPROVED", "DIRTY_SOURCE", "INVALIDATED",
                "FAILED_FORMALIZATION", "UNRESOLVED"}
Ready(st) == {c \in selected : /\ st[c] \in ReadyStates
                               /\ \A d \in Dependencies(c) \cap selected :
                                    st[d] = "CERTIFIED"}

\* source_changes, and the sources of semantic edges to be rediscovered.
Changed(old, new) ==
  {c \in In(new) : \/ old[c] = Absent
                   \/ old[c].stmt # new[c].stmt
                   \/ (old[c].proof = Absent) # (new[c].proof = Absent)
                   \/ ArgumentAudit /\ old[c].proof # new[c].proof}

Deleted(old, new) == In(old) \ In(new)
Rediscover(old, new) ==
  {c \in In(old) \cap In(new) : \/ old[c].stmt # new[c].stmt
                                \/ old[c].proof # new[c].proof}

-----------------------------------------------------------------------------
(* prepare_pass: recovery, the new run and the import of the snapshot.     *)

Reset(st) == [c \in Claims |-> IF st[c] = "PROVING" /\ c \in Current
                               THEN "INVALIDATED" ELSE st[c]]
ForgetLoops == /\ todo' = {} /\ changed' = {} /\ newEdges' = {}
               /\ issued' = {} /\ fresh' = {}
ForgetRound == /\ selected' = {} /\ targets' = {}
               /\ batch' = [c \in Claims |-> Absent] /\ errors' = {} /\ round' = 0

\* recover_interrupted_runs, one transaction, once the project lock is taken.
Recover ==
  /\ pc = "idle"
  /\ status' = Reset(status)
  /\ run' = IF run = "RUNNING" THEN "INTERRUPTED" ELSE run
  /\ pc' = "begin"
  /\ UNCHANGED <<graphVars, corr, cert, question, lean, loopVars, roundVars>>

\* A mutant: correspondences of earlier runs count as this run's.
BeginRun_KeepsCorrespondences ==
  /\ pc = "begin"
  /\ run' = "RUNNING"
  /\ pc' = "import"
  /\ UNCHANGED <<graphVars, status, corr, cert, question, lean, loopVars, roundVars>>

\* begin_run: a new run id, so no correspondence belongs to this run yet.
BeginRun ==
  /\ pc = "begin"
  /\ run' = "RUNNING"
  /\ corr' = [c \in Claims |-> IF corr[c] = Absent THEN Absent
                               ELSE [corr[c] EXCEPT !.thisRun = FALSE]]
  /\ pc' = "import"
  /\ UNCHANGED <<graphVars, status, cert, question, lean, loopVars, roundVars>>

\* The files the author has saved by now are copied, indexed and compared with
\* the last snapshot; then replace_current_claims stores states and snapshot in
\* one transaction.
ImportAs(new) ==
  LET old == snapshot
      rediscovered == {e[1] : e \in {f \in edges : f[3] = "semantic"}}
                      \cap Rediscover(old, new)
      direct == Changed(old, new) \cup rediscovered
      kept == {e \in edges : /\ e[3] = "semantic" /\ e[1] \notin rediscovered
                             /\ e[1] \in In(new) /\ e[2] \in In(new)}
      affected == Affected(direct \cup Deleted(old, new), edges \cup kept \cup References(new))
  IN
  /\ pc = "import"
  /\ snapshot' = new
  /\ newEdges' = kept \cup References(new)
  /\ changed' = direct \cup Deleted(old, new)
  /\ status' = [c \in Claims |->
                  IF c \notin In(new) THEN status[c]
                  ELSE IF c \in direct THEN "DIRTY_SOURCE"
                  ELSE IF c \in affected THEN "INVALIDATED"
                  ELSE status[c]]
  /\ pc' = "edges"
  /\ UNCHANGED <<edges, corr, cert, question, lean, run,
                 todo, issued, fresh, roundVars>>

Import == \E new \in Manuscripts : ImportAs(new)

\* A mutant: every open question is superseded by an import.
ReplaceEdges_AllQuestions ==
  /\ pc = "edges"
  /\ edges' = newEdges
  /\ todo' = {c \in Claims : question[c] # Absent}
  /\ pc' = "supersede"
  /\ UNCHANGED <<snapshot, claimVars, lean, run,
                 changed, newEdges, issued, fresh, roundVars>>

ReplaceEdges ==
  /\ pc = "edges"
  /\ edges' = newEdges
  /\ todo' = {c \in changed : question[c] # Absent}
  /\ pc' = "supersede"
  /\ UNCHANGED <<snapshot, claimVars, lean, run,
                 changed, newEdges, issued, fresh, roundVars>>

\* resolve_question(SUPERSEDED) for each question of a changed source object.
Supersede(c) ==
  /\ pc = "supersede" /\ c \in todo
  /\ question' = [question EXCEPT ![c] = Absent]
  /\ todo' = todo \ {c}
  /\ UNCHANGED <<graphVars, status, corr, cert, lean, run, pc,
                 changed, newEdges, issued, fresh, roundVars>>

\* proof_target_ids without explicit targets: every claim with a proof.
TargetSet == Current \ Conjectural(snapshot)

\* conjectural_dependency_blockers: conjectures that selected proofs rely on.
Relied(sel, graph) ==
  {c \in Conjectural(snapshot) : \E d \in sel \ Conjectural(snapshot) : c \in Below(d, graph)}

\* _reconcile_conjectural_policy visits the conjectures one by one and writes each
\* claim's question first and its state in a later commit: those that selected
\* proofs rely on get a question of the host and wait for the author, all others
\* are skipped and their questions superseded.
ApplyPolicy(asked, decided, sel, graph) ==
  /\ question' = [c \in Claims |-> IF c \notin asked THEN question[c]
                    ELSE IF c \in Relied(sel, graph) THEN "HOST_POLICY" ELSE Absent]
  /\ status' = [c \in Claims |-> IF c \notin decided THEN status[c]
                    ELSE IF c \in Relied(sel, graph) THEN "NEEDS_CLARIFICATION"
                    ELSE "SKIPPED_UNPROVED"]

\* It raises when the question it would refresh was asked by a proof worker: a
\* clarification's origin is immutable.
Refusing(sel, graph) == {c \in Relied(sel, graph) : question[c] = "PROOF_WORKER"}

\* The whole loop, or what it had visited when it raised, ...
PolicyApplied(sel, graph) ==
  LET refusing == Refusing(sel, graph) IN
  \E visited \in SUBSET (Conjectural(snapshot) \ refusing) :
    /\ refusing = {} => visited = Conjectural(snapshot)
    /\ ApplyPolicy(visited, visited, sel, graph)

\* ... or when its process died, perhaps between the two commits of a claim.
PolicyCutShort(sel, graph) ==
  \E visited \in SUBSET (Conjectural(snapshot) \ Refusing(sel, graph)) :
  \E last \in {{}} \cup {{c} : c \in Conjectural(snapshot) \ Refusing(sel, graph)} :
    ApplyPolicy(visited \cup last, visited, sel, graph)

\* The exception handlers of the pass close the run; once it is prepared, in
\* one transaction with making PROVING claims retryable.
Abort(ending) ==
  /\ run' = ending
  /\ pc' = "idle"
  /\ ForgetLoops /\ ForgetRound

PassScope == Closure(TargetSet, edges)

PolicyBegins ==
  /\ pc = "supersede" /\ todo = {}
  /\ todo' = Conjectural(snapshot)
  /\ pc' = "policy"
  /\ UNCHANGED <<store, lean, changed, newEdges, issued, fresh, roundVars>>

Policy(c) ==
  /\ pc = "policy" /\ c \in todo \ Refusing(PassScope, edges)
  /\ ApplyPolicy({c}, {c}, PassScope, edges)
  /\ todo' = todo \ {c}
  /\ UNCHANGED <<graphVars, corr, cert, lean, run, pc,
                 changed, newEdges, issued, fresh, roundVars>>

PolicyFails(c) ==
  /\ pc = "policy" /\ c \in todo \cap Refusing(PassScope, edges)
  /\ Abort("FAILED")
  /\ UNCHANGED <<graphVars, claimVars, lean>>

\* The process dies between the two commits of a claim.
PolicyDies(c) ==
  /\ pc = "policy" /\ c \in todo \ Refusing(PassScope, edges)
  /\ ApplyPolicy({c}, {}, PassScope, edges)
  /\ pc' = "idle"
  /\ ForgetLoops /\ ForgetRound
  /\ UNCHANGED <<graphVars, corr, cert, lean, run>>

\* record_run_scope.
Scope ==
  /\ pc = "policy" /\ todo = {}
  /\ selected' = PassScope /\ targets' = TargetSet
  /\ todo' = IF PreserveCertified THEN {} ELSE {c \in PassScope : cert[c] # Absent}
  /\ pc' = "reproof"
  /\ UNCHANGED <<store, lean, changed, newEdges, issued, fresh, batch, errors, round>>

\* preserve_certified=false: the certificate is deleted and its correspondence
\* withdrawn (a correspondence of an earlier run certifies nothing either), and
\* then, in a commit of its own, the claim is invalidated.
DiscardCertificate(c) ==
  /\ pc = "reproof" /\ c \in todo
  /\ \A d \in todo : cert[d] # Absent
  /\ cert' = [cert EXCEPT ![c] = Absent]
  /\ corr' = [corr EXCEPT ![c] = IF @ = Absent THEN Absent
                ELSE [status |-> "stale_reproof_requested", thisRun |-> TRUE]]
  /\ UNCHANGED <<graphVars, status, question, lean, run, pc, loopVars, roundVars>>

InvalidateDiscarded(c) ==
  /\ pc = "reproof" /\ c \in todo /\ cert[c] = Absent
  /\ status' = [status EXCEPT ![c] = "INVALIDATED"]
  /\ todo' = todo \ {c}
  /\ UNCHANGED <<graphVars, corr, cert, question, lean, run, pc,
                 changed, newEdges, issued, fresh, roundVars>>

-----------------------------------------------------------------------------
(* Certification (incremental/certification.py).                           *)

\* The correspondences this run may certify: the column approved is 1.
ApprovedStates == {"proposed", "counterexample", "approved_pending", "approved"}
Approved(rows) == {c \in Claims : /\ rows[c] # Absent /\ rows[c].thisRun
                                  /\ rows[c].status \in ApprovedStates}

\* The certificates of unchanged claims are issued again for this snapshot.
Revalidated ==
  [c \in Claims |->
     IF /\ cert[c] # Absent /\ c \in Current /\ status[c] = "CERTIFIED"
        /\ lean[c] \notin {Absent, Unsound} /\ lean[c] = cert[c].type
     THEN [cert[c] EXCEPT !.stmt = snapshot[c].stmt] ELSE cert[c]]

\* The workspace is set up and the baseline extracted (Raise where that fails);
\* certificates are revalidated; approvals of the author join this run.
Baseline ==
  /\ pc = "reproof" /\ todo = {}
  /\ cert' = Revalidated
  /\ corr' = [c \in Claims |->
       IF corr[c] # Absent /\ corr[c].status = "approved_pending"
       THEN [status |-> "approved", thisRun |-> TRUE] ELSE corr[c]]
  /\ todo' = Approved(corr')
  /\ pc' = "certify_baseline"
  /\ UNCHANGED <<graphVars, status, question, lean, run,
                 changed, newEdges, issued, fresh, roundVars>>

\* The loop finishes one correspondence before it visits the next.
Visits(c) == /\ pc \in {"certify_baseline", "certify_round"}
             /\ c \in todo /\ todo \cap issued = {}

\* The declaration that states, or refutes, the current statement of c.
Formalization(c, refutes) == [stmt |-> snapshot[c].stmt, refutes |-> refutes]
IsCounterexample(c) == corr[c] # Absent /\ corr[c].status = "counterexample"

\* A mutant: axioms are not looked at.
Rejected_AnyAxioms(c) == c \notin Current \/ lean[c] = Absent

\* No source object, no declaration with a body, or a forbidden axiom.
Rejected(c) == \/ c \notin Current
               \/ lean[c] = Absent
               \/ /\ lean[c] = Unsound
                  /\ Unsatisfied(c) = {} \/ IsCounterexample(c)

\* certify_current_correspondence writes the certificate first.
IssueCertificate(c) ==
  /\ Visits(c) /\ ~Rejected(c)
  /\ Unsatisfied(c) = {} \/ IsCounterexample(c)
  /\ cert' = [cert EXCEPT ![c] =
       [status |-> IF IsCounterexample(c) THEN "COUNTEREXAMPLE" ELSE "CERTIFIED",
        stmt |-> snapshot[c].stmt, type |-> lean[c]]]
  /\ issued' = issued \cup {c}
  /\ UNCHANGED <<graphVars, status, corr, question, lean, run, pc, todo,
                 changed, newEdges, fresh, roundVars>>

\* ... and the claim's state next, whatever that state was.
MarkCertified(c) ==
  /\ pc \in {"certify_baseline", "certify_round"} /\ c \in todo \cap issued
  /\ status' = [status EXCEPT ![c] = IF IsCounterexample(c)
                                     THEN "COUNTEREXAMPLE_FOUND" ELSE "CERTIFIED"]
  /\ todo' = todo \ {c}
  /\ UNCHANGED <<graphVars, corr, cert, question, lean, run, pc,
                 changed, newEdges, issued, fresh, roundVars>>

\* A dependency is not certified yet: the correspondence stays pending.
Postpone(c) ==
  /\ Visits(c) /\ ~Rejected(c)
  /\ Unsatisfied(c) # {} /\ ~IsCounterexample(c)
  /\ todo' = todo \ {c}
  /\ UNCHANGED <<store, lean, pc, changed, newEdges, issued, fresh, roundVars>>

\* Rejections are written after the loop over the correspondences.
RejectCertificate(c) ==
  /\ Visits(c)
  /\ \A d \in todo : Rejected(d)
  /\ status' = [status EXCEPT ![c] = "FAILED_FORMALIZATION"]
  /\ todo' = todo \ {c}
  /\ UNCHANGED <<graphVars, corr, cert, question, lean, run, pc,
                 changed, newEdges, issued, fresh, roundVars>>

\* The baseline is swept until a sweep certifies nothing new; then RepoProver
\* is probed, and prior technical failures are made retryable or it fails.
NewlyIssued == {c \in issued : cert[c].status = "CERTIFIED"} \ fresh
NeedsAgent == Ready(status) # {} \/ \E c \in selected : status[c] = "FAILED_TECHNICAL"

SweepAgain ==
  /\ pc = "certify_baseline" /\ todo = {} /\ NewlyIssued # {}
  /\ fresh' = fresh \cup issued
  /\ issued' = {}
  /\ todo' = Approved(corr)
  /\ UNCHANGED <<store, lean, pc, changed, newEdges, roundVars>>

Preflight ==
  /\ pc = "certify_baseline" /\ todo = {} /\ NewlyIssued = {}
  /\ issued' = {} /\ fresh' = {}
  /\ \/ /\ NeedsAgent /\ "technical" \in WorkerFaults
        /\ errors' = {"technical"}
        /\ UNCHANGED status
     \/ /\ status' = [c \in Claims |-> IF c \in selected /\ status[c] = "FAILED_TECHNICAL"
                                       THEN "INVALIDATED" ELSE status[c]]
        /\ UNCHANGED errors
  /\ pc' = "round"
  /\ UNCHANGED <<graphVars, corr, cert, question, lean, run, todo, changed,
                 newEdges, selected, targets, batch, round>>

-----------------------------------------------------------------------------
(* Proof rounds (incremental/orchestration.py).                            *)

MaxRounds == Cardinality(Current) + 2

\* The states after the host has blocked the dependents of the given claims.
Blocked(blockers) ==
  [c \in Claims |-> IF c \in BlockedBy(blockers, edges) /\ status[c] # "CERTIFIED"
                    THEN "BLOCKED_DEPENDENCY" ELSE status[c]]
ScheduleAfter(st) ==
  /\ pc = "round" /\ errors = {} /\ round < MaxRounds
  /\ IF Ready(st) = {}
     THEN /\ status' = st
          /\ pc' = "final"
          /\ UNCHANGED batch
     ELSE /\ status' = [c \in Claims |-> IF c \in Ready(st) THEN "PROVING" ELSE st[c]]
          /\ batch' = [c \in Claims |-> IF c \in Ready(st) THEN "running" ELSE Absent]
          /\ pc' = "prove"
  /\ UNCHANGED <<graphVars, corr, cert, question, lean, run, loopVars,
                 selected, targets, errors>>

\* A mutant: rounds are not counted.
Schedule_Uncounted ==
  /\ ScheduleAfter(Blocked({c \in selected : status[c] = "NEEDS_CLARIFICATION"}))
  /\ UNCHANGED round

\* Descendants of a clarification are blocked, the ready frontier is scheduled.
Schedule ==
  /\ ScheduleAfter(Blocked({c \in selected : status[c] = "NEEDS_CLARIFICATION"}))
  /\ round' = round + 1

EndRounds ==
  /\ pc = "round" /\ (errors # {} \/ round >= MaxRounds)
  /\ pc' = "final"
  /\ UNCHANGED <<store, lean, loopVars, roundVars>>

\* The tools a proof worker may call for the claim of its batch, in any order.
Working(c) == pc = "prove" /\ batch[c] \in {"running", "reported"}

\* claim_mark_formalized.
MarkFormalized(c) ==
  /\ Working(c)
  /\ batch' = [batch EXCEPT ![c] = "reported"]
  /\ \/ /\ "formalize" \in Tools
        /\ corr' = [corr EXCEPT ![c] =
             [status |-> IF RequireReview THEN "proposed_review" ELSE "proposed",
              thisRun |-> TRUE]]
        /\ status' = IF RequireReview THEN [status EXCEPT ![c] = "STATEMENT_DRAFTED"]
                                      ELSE status
     \/ /\ "refute" \in Tools
        /\ corr' = [corr EXCEPT ![c] =
             [status |-> "counterexample", thisRun |-> TRUE]]
        /\ UNCHANGED status
  /\ UNCHANGED <<graphVars, cert, question, lean, run, pc, loopVars, selected, targets,
                 errors, round>>

\* clarification_request: at most one question per claim is open.
RequestClarification(c) ==
  /\ Working(c) /\ "clarify" \in Tools
  /\ question' = [question EXCEPT ![c] = IF @ = Absent THEN "PROOF_WORKER" ELSE @]
  /\ status' = [status EXCEPT ![c] = "NEEDS_CLARIFICATION"]
  /\ UNCHANGED <<graphVars, corr, cert, lean, run, pc, loopVars, roundVars>>

\* claim_report_unresolved: the state depends on the diagnosis.
ReportUnresolved(c) ==
  /\ Working(c) /\ "report" \in Tools
  /\ \E st \in {"FAILED_TECHNICAL", "SUSPECT_FALSE", "UNRESOLVED"} :
       status' = [status EXCEPT ![c] = st]
  /\ UNCHANGED <<graphVars, corr, cert, question, lean, run, pc, loopVars,
                 roundVars>>

\* claim_propose_dependency: refused when it closes a cycle; it extends the
\* run's scope and applies the policy.
Proposed(c, d) == edges \cup {<<c, d, "semantic">>}
Proposing(c, d) ==
  /\ Working(c) /\ "depend" \in Tools
  /\ d \in Current \ {c}
  /\ Acyclic(Proposed(c, d))
  /\ edges' = Proposed(c, d)
  /\ UNCHANGED <<snapshot, corr, cert, lean, run>>

ProposeDependency(c, d) ==
  /\ Proposing(c, d)
  /\ selected' = Closure(selected, Proposed(c, d))
  /\ PolicyApplied(Closure(selected, Proposed(c, d)), Proposed(c, d))
  /\ UNCHANGED <<pc, loopVars, targets, batch, errors, round>>

\* The process dies while the tool applies the policy.
ProposalDies(c, d) ==
  /\ Proposing(c, d)
  /\ PolicyCutShort(Closure(selected, Proposed(c, d)), Proposed(c, d))
  /\ pc' = "idle"
  /\ ForgetLoops /\ ForgetRound

\* The batch ends: with a commit that builds, without a new commit, or with a
\* failure of the provider or of the batch itself.
BatchEnds(c) ==
  /\ Working(c)
  /\ \E end \in {"sound", "empty"} \cup WorkerFaults :
       /\ end = "empty" => batch[c] # "reported"
       /\ batch' = [batch EXCEPT ![c] = end]
  /\ UNCHANGED <<store, lean, pc, loopVars, selected, targets,
                 errors, round>>

\* All workers have stopped; after a checkpoint the merges begin.
RoundStopped == pc = "prove" /\ \A c \in Claims : ~Working(c)

MergeBegins ==
  /\ RoundStopped
  /\ pc' = "merge"
  /\ todo' = {c \in Claims : batch[c] # Absent}
  /\ UNCHANGED <<store, lean, changed, newEdges, issued, fresh, roundVars>>

\* _merge_batch: a failed batch contributes no commit.
Merge(c) ==
  /\ pc = "merge" /\ c \in todo
  /\ lean' = [lean EXCEPT ![c] =
       CASE batch[c] = "sound" -> Formalization(c, IsCounterexample(c))
         [] batch[c] = "unsound" -> Unsound
         [] OTHER -> @]
  /\ todo' = todo \ {c}
  /\ UNCHANGED <<store, pc, changed, newEdges, issued, fresh, roundVars>>

\* Claims of failed batches are made retryable, or FAILED_TECHNICAL.
RecordFailures ==
  /\ pc = "merge" /\ todo = {}
  /\ errors' = {batch[c] : c \in Claims} \cap {"provider", "technical"}
  /\ status' = [c \in Claims |->
       IF status[c] # "PROVING" THEN status[c]
       ELSE CASE batch[c] = "provider" -> "INVALIDATED"
              [] batch[c] = "technical" -> "FAILED_TECHNICAL"
              [] OTHER -> "PROVING"]
  /\ pc' = "build"
  /\ UNCHANGED <<graphVars, corr, cert, question, lean, run, loopVars,
                 selected, targets, batch, round>>

\* The independent build of the merged project, whatever the batches did; a
\* failed build, or a batch that has touched the manuscript, ends the rounds, a
\* successful one leads to certification.
MergedBuild ==
  /\ pc = "build"
  /\ \/ /\ pc' = "certify_round"
        /\ todo' = Approved(corr)
        /\ UNCHANGED errors
     \/ /\ "technical" \in WorkerFaults
        /\ errors' = errors \cup {"technical"}
        /\ pc' = "final"
        /\ UNCHANGED todo
  /\ UNCHANGED <<store, lean, changed, newEdges, issued, fresh, selected, targets,
                 batch, round>>

\* A scheduled claim the round has not decided is UNRESOLVED.
RoundEnds ==
  /\ pc = "certify_round" /\ todo = {}
  /\ status' = [c \in Claims |-> IF batch[c] # Absent /\ status[c] = "PROVING"
                                 THEN "UNRESOLVED" ELSE status[c]]
  /\ issued' = {}
  /\ batch' = [c \in Claims |-> Absent]
  /\ pc' = "round"
  /\ UNCHANGED <<graphVars, corr, cert, question, lean, run, todo, changed,
                 newEdges, fresh, selected, targets, errors, round>>

\* The outcome of a run without errors.
Outcome == CASE \E c \in targets : status[c] = "COUNTEREXAMPLE_FOUND" -> "counterexample_found"
             [] \E c \in Claims : question[c] # Absent -> "clarification_required"
             [] targets = {} -> "no_proof_obligations"
             [] \A c \in targets : status[c] = "CERTIFIED" -> "verified"
             [] OTHER -> "partial_unresolved"

\* A mutant: the run is closed and its claims left as they are.
FinishRun_NoReset ==
  /\ pc = "final"
  /\ \E buildFails \in {FALSE, "technical" \in WorkerFaults} :
       run' = IF errors # {} \/ buildFails THEN "FAILED" ELSE Outcome
  /\ pc' = "idle"
  /\ ForgetLoops /\ ForgetRound
  /\ UNCHANGED <<graphVars, status, corr, cert, question, lean>>

\* The final build and extraction, the outcome, and the end of the run.
FinishRun ==
  /\ pc = "final"
  /\ \E buildFails \in {FALSE, "technical" \in WorkerFaults} :
       LET failed == errors # {} \/ buildFails IN
       /\ status' = IF failed THEN Reset(status) ELSE status
       /\ run' = IF failed THEN "FAILED" ELSE Outcome
  /\ pc' = "idle"
  /\ ForgetLoops /\ ForgetRound
  /\ UNCHANGED <<graphVars, corr, cert, question, lean>>

\* Where a cancellation is observed, and where the pass may raise.
Checkpoints == {"round", "final"}
Cancel ==
  /\ \/ pc \in Checkpoints
     \/ pc = "reproof" /\ todo = {}
     \/ RoundStopped
  /\ Abort("INTERRUPTED")
  /\ status' = Reset(status)
  /\ UNCHANGED <<graphVars, corr, cert, question, lean>>

Raise ==
  /\ "technical" \in WorkerFaults
  /\ \/ pc \in {"import", "build", "final"}
     \/ pc = "reproof" /\ todo = {}
  /\ Abort("FAILED")
  /\ status' = Reset(status)
  /\ UNCHANGED <<graphVars, corr, cert, question, lean>>

-----------------------------------------------------------------------------
(* Between passes: the author's commands, which take the project lock too. *)
(* They write the correspondence first and the claim's state second; the   *)
(* next pass certifies an approved correspondence whatever that state is.  *)

ApproveCorrespondence(c) ==
  /\ pc = "idle" /\ "approve" \in Commands
  /\ corr[c] # Absent
  /\ corr' = [corr EXCEPT ![c].status = "approved_pending"]
  /\ status' = [status EXCEPT ![c] = "STATEMENT_APPROVED"]
  /\ UNCHANGED <<graphVars, cert, question, lean, run, pc, loopVars, roundVars>>

RejectCorrespondence(c) ==
  /\ pc = "idle" /\ "reject" \in Commands
  /\ corr[c] # Absent
  /\ corr' = [corr EXCEPT ![c].status = "rejected"]
  /\ status' = [status EXCEPT ![c] = "FAILED_FORMALIZATION"]
  /\ UNCHANGED <<graphVars, cert, question, lean, run, pc, loopVars, roundVars>>

\* questions --resolve or --dismiss: the question is closed, and then the claim
\* made retryable.
ResolveQuestion(c) ==
  /\ pc = "idle" /\ "resolve" \in Commands
  /\ question[c] # Absent
  /\ question' = [question EXCEPT ![c] = Absent]
  /\ todo' = {c}
  /\ pc' = "resolving"
  /\ UNCHANGED <<graphVars, status, corr, cert, lean, run,
                 changed, newEdges, issued, fresh, roundVars>>

RetryResolved ==
  /\ pc = "resolving"
  /\ status' = [c \in Claims |-> IF c \in todo THEN "INVALIDATED" ELSE status[c]]
  /\ todo' = {}
  /\ pc' = "idle"
  /\ UNCHANGED <<graphVars, corr, cert, question, lean, run,
                 changed, newEdges, issued, fresh, roundVars>>

\* Whoever observes the project applies the policy to what the last import has
\* stored (session.reconcile_conjectural_policy), or dies on the way.
StoredEdges == edges \cap (Current \X Current \X EdgeKinds)
StoredScope == Closure(TargetSet, StoredEdges)
Reconcile ==
  /\ pc = "idle"
  /\ PolicyApplied(StoredScope, StoredEdges) \/ PolicyCutShort(StoredScope, StoredEdges)
  /\ UNCHANGED <<graphVars, corr, cert, lean, run, pc, loopVars, roundVars>>

\* The process dies: the store and the Lean modules stay as they are.
Crash ==
  /\ pc # "idle"
  /\ pc' = "idle"
  /\ ForgetLoops /\ ForgetRound
  /\ UNCHANGED <<store, lean>>

-----------------------------------------------------------------------------

Init ==
  /\ snapshot = [c \in Claims |-> Absent]
  /\ status = [c \in Claims |-> Absent]
  /\ edges = {}
  /\ corr = [c \in Claims |-> Absent]
  /\ cert = [c \in Claims |-> Absent]
  /\ question = [c \in Claims |-> Absent]
  /\ lean = [c \in Claims |-> Absent]
  /\ run = "none"
  /\ selected = {} /\ targets = {}
  /\ pc = "idle"
  /\ todo = {} /\ changed = {} /\ newEdges = {} /\ issued = {} /\ fresh = {}
  /\ batch = [c \in Claims |-> Absent] /\ errors = {} /\ round = 0

Worker(c) == \/ MarkFormalized(c) \/ RequestClarification(c) \/ ReportUnresolved(c)
             \/ \E d \in Claims : ProposeDependency(c, d)

Prepare == \/ BeginRun \/ Import \/ ReplaceEdges \/ PolicyBegins \/ Scope \/ Baseline
           \/ \E c \in Claims : \/ Supersede(c) \/ Policy(c) \/ PolicyFails(c)
                                \/ DiscardCertificate(c) \/ InvalidateDiscarded(c)

Certify == \/ SweepAgain \/ Preflight
           \/ \E c \in Claims : \/ IssueCertificate(c) \/ MarkCertified(c)
                                \/ Postpone(c) \/ RejectCertificate(c)

Prove == \/ Schedule \/ EndRounds \/ MergeBegins \/ RecordFailures \/ MergedBuild
         \/ RoundEnds \/ FinishRun \/ \E c \in Claims : BatchEnds(c) \/ Merge(c)

Command == \E c \in Claims : \/ ApproveCorrespondence(c) \/ RejectCorrespondence(c)
                             \/ ResolveQuestion(c)

Pass == Prepare \/ Certify \/ Prove \/ RetryResolved

Dies == \/ Crash
        \/ \E c \in Claims : PolicyDies(c) \/ \E d \in Claims : ProposalDies(c, d)

Next == \/ Recover \/ Pass \/ Cancel \/ Raise \/ Command \/ Reconcile \/ Dies
        \/ \E c \in Claims : Worker(c)

Spec == Init /\ [][Next]_vars

\* A pass that has begun goes on: workers have a turn timeout.
FairSpec == Spec /\ WF_vars(Pass)

-----------------------------------------------------------------------------
(* What a verification project must guarantee.                             *)

Formalizations == [stmt : Statements, refutes : BOOLEAN]
Correspondences ==
  [status : {"proposed", "proposed_review", "counterexample", "approved_pending",
             "approved", "rejected", "stale_reproof_requested"}, thisRun : BOOLEAN]
Certificates == [status : {"CERTIFIED", "COUNTEREXAMPLE"}, stmt : Statements,
                 type : Formalizations]
BatchStates == {"running", "reported", "sound", "empty"} \cup WorkerFaults
Outcomes == {"counterexample_found", "clarification_required", "no_proof_obligations",
             "verified", "partial_unresolved"}
Steps == {"idle", "begin", "import", "edges", "supersede", "policy",
          "reproof", "certify_baseline", "round", "prove", "merge", "build", "certify_round",
          "final", "resolving"}

ASSUME DistinctValues ==
  /\ Absent \notin States \cup BatchStates \cup {"PROOF_WORKER", "HOST_POLICY", "unsound"}
  /\ Absent \notin Correspondences \cup Certificates \cup Formalizations
  /\ Unsound \notin Formalizations

TypeOK ==
  /\ snapshot \in [Claims -> Objects \cup {Absent}]
  /\ status \in [Claims -> States \cup {Absent}]
  /\ edges \subseteq Edges
  /\ corr \in [Claims -> Correspondences \cup {Absent}]
  /\ cert \in [Claims -> Certificates \cup {Absent}]
  /\ question \in [Claims -> {"PROOF_WORKER", "HOST_POLICY", Absent}]
  /\ lean \in [Claims -> Formalizations \cup {Unsound, Absent}]
  /\ run \in {"none", "RUNNING", "INTERRUPTED", "FAILED"} \cup Outcomes
  /\ selected \subseteq Claims /\ targets \subseteq Claims
  /\ pc \in Steps
  /\ todo \subseteq Claims /\ changed \subseteq Claims
  /\ newEdges \subseteq Edges
  /\ issued \subseteq Claims /\ fresh \subseteq Claims
  /\ batch \in [Claims -> BatchStates \cup {Absent}]
  /\ errors \subseteq {"provider", "technical"}
  /\ round \in 0 .. Cardinality(Claims) + 2

\* Whenever nobody holds the project, as readers find it: a claim shown as
\* CERTIFIED has a certificate, and the certificate is of the statement the claim
\* has now, wherever the last pass crashed.
CertifiedHasCertificate ==
  pc = "idle" => \A c \in Current : status[c] = "CERTIFIED" =>
    /\ cert[c] # Absent
    /\ cert[c].status = "CERTIFIED" /\ cert[c].stmt = snapshot[c].stmt

\* The Lean declaration of a CERTIFIED claim proves the statement the claim has
\* now: an older formalization never passes for a new statement.
CertifiedMeansProved ==
  \A c \in Current : status[c] = "CERTIFIED" => lean[c] = Formalization(c, FALSE)

\* "Only Lean can create a certificate": behind a certified claim, or a certified
\* counterexample, is a merged declaration without forbidden axioms, whatever
\* fails, crashes or is approved on the way.
EvidenceIsSound ==
  \A c \in Current : status[c] \in {"CERTIFIED", "COUNTEREXAMPLE_FOUND"} =>
    lean[c] \notin {Absent, Unsound}

\* A CERTIFIED claim depends on CERTIFIED claims only, while edits and workers
\* change the graph under it.
CertifiedRestsOnCertified ==
  \A c \in Current : status[c] = "CERTIFIED" => Unsatisfied(c) = {}

\* What the code keeps of it: a CERTIFIED claim comes to depend on an uncertified
\* one in one way only, by a reference that the manuscript has gained since.
OnlyNewReferencesUncertified ==
  [][\A c \in Current' : status'[c] = "CERTIFIED" =>
       Unsatisfied(c)' \subseteq (IF status[c] = "CERTIFIED" THEN Unsatisfied(c) ELSE {})
                               \cup {d \in Claims : <<c, d, "explicit_ref">> \in edges' \ edges}]_vars

\* A claim that waits for the author has an open question the author can answer,
\* wherever processes have died.
EveryClarificationIsAsked ==
  \A c \in Current : status[c] = "NEEDS_CLARIFICATION" => question[c] # Absent

\* What the code keeps of it: a claim with a proof that waits for the author always
\* has an open question; a conjecture has one from the policy of a pass on to the
\* end of the pass, and, once the pass has an outcome, as long as proofs rely on it.
ClarificationIsAsked ==
  \A c \in Current : status[c] = "NEEDS_CLARIFICATION" /\ question[c] = Absent =>
    /\ c \in Conjectural(snapshot)
    /\ pc \in {"idle", "resolving", "begin", "import", "edges", "supersede", "policy"}
    /\ pc = "idle" /\ run \in Outcomes => c \notin Relied(StoredScope, StoredEdges)

\* A claim is PROVING only while a run is open, also after cancellation and
\* failure at any point; after a crash the next pass recovers it.
NoProvingWithoutRun ==
  run # "RUNNING" => \A c \in Current : status[c] # "PROVING"

\* "Unaffected branches remain certified": a claim loses its certificate only
\* when the author changed it or something it depends on. (What it refers to after
\* the edit counts: a reference may have had no object before.)
UnaffectedStayCertified ==
  [][\A c \in Current : status[c] = "CERTIFIED" /\ status'[c] # "CERTIFIED" =>
       \E d \in {c} \cup Below(c, edges \cup References(snapshot')) :
         snapshot'[d] # snapshot[d]]_vars

\* Every pass ends: the rounds are bounded however often workers fail.
PassEnds == pc # "idle" ~> pc = "idle"
=============================================================================
