----------------------- MODULE IncrementalVerifierProofs -----------------------
(***************************************************************************)
(* Proofs about IncrementalVerifier for any finite set of claims, any      *)
(* manuscripts, tools, faults and commands of the author, except where a   *)
(* theorem names the ones it excludes.                                     *)
(*                                                                         *)
(* The argument.  Only the certification loop makes a claim CERTIFIED, and *)
(* it looks at the declaration and the dependencies of that claim in the   *)
(* step before; nothing a worker does reaches a certified claim, since no  *)
(* certified claim has a batch (EvidenceInv).  A correspondence counts in  *)
(* the run that wrote it only, and the claim's declaration is merged       *)
(* before it is looked at (MeansInv).  An import invalidates what can      *)
(* reach a changed claim in the old or the new graph, so what stays        *)
(* certified rests on claims that stay certified (ImportLeaves, LoopInv).  *)
(***************************************************************************)
EXTENDS IncrementalVerifier, FiniteSetTheorems, TLAPS

Decided == {"CERTIFIED", "COUNTEREXAMPLE_FOUND"}
Certifying == {"certify_baseline", "certify_round"}
Outside == {"idle", "begin", "resolving"}           \* no run is in progress
BeforeBaseline == {"import", "edges", "supersede", "policy", "reproof"}
ProveSteps == {"prove", "merge", "build", "certify_round"}

AfterScope == {"reproof", "certify_baseline", "round", "final"} \cup ProveSteps

\* The graph of a pass is one of the claims of its snapshot, and its batches are
\* of these claims.
Known(graph) == /\ graph \subseteq Current \X Current \X EdgeKinds
                /\ References(snapshot) \subseteq graph

GraphInv ==
  /\ pc = "edges" => Known(newEdges) /\ newEdges \subseteq edges \cup References(snapshot)
  /\ pc \in {"supersede", "policy"} \cup AfterScope => Known(edges)
  /\ pc = "policy" => todo \subseteq Conjectural(snapshot)
  /\ pc \in AfterScope => selected \subseteq Current
  /\ pc \in ProveSteps => \A c \in Claims : batch[c] # Absent => c \in Current
  /\ pc = "merge" => \A c \in todo : batch[c] # Absent

\* The states of the claims and the run: what is PROVING is in a batch of this
\* round, or the run ends badly, or has crashed and is still open.
ProvingInv ==
  /\ pc \notin Outside => run = "RUNNING"
  /\ \A c \in Current : status[c] = "PROVING" =>
       \/ pc \in ProveSteps /\ batch[c] # Absent
       \/ pc = "final" /\ errors # {}
       \/ pc \in {"idle", "resolving"} /\ run = "RUNNING"

\* No decided claim has a batch, and what the loop has issued it has looked at.
EvidenceInv ==
  /\ EvidenceIsSound
  /\ pc \in {"prove", "merge"} => \A c \in Claims : batch[c] # Absent => status[c] \notin Decided
  /\ pc \notin Certifying => issued = {}
  /\ pc \in Certifying => \A c \in todo \cap issued : c \in Current /\ lean[c] \notin {Absent, Unsound}

\* The correspondences a run may certify are its own.
ApprovedInv ==
  /\ pc \in BeforeBaseline => Approved(corr) = {}
  /\ pc \in Certifying => todo \subseteq Approved(corr)
  /\ pc \notin Outside => \A c \in Approved(corr) : status[c] = "CERTIFIED" => ~IsCounterexample(c)

Data == TypeOK /\ GraphInv
IInv == Data /\ ProvingInv /\ EvidenceInv /\ ApprovedInv

\* The conjectures that stored proofs rely on.
Held == Relied(StoredScope, StoredEdges)

\* Questions of changed claims are superseded; these claims are dirty by then.  The
\* policy visits every conjecture.
AskedInv ==
  /\ \A c \in Current : status[c] = "NEEDS_CLARIFICATION" /\ question[c] = Absent =>
       /\ c \in Conjectural(snapshot) /\ pc \notin AfterScope
       /\ pc \in Outside /\ run \in Outcomes => c \notin Held
       /\ pc = "policy" => c \in todo
  /\ pc \in {"edges", "supersede"} =>
       \A c \in changed \cap Current : status[c] # "NEEDS_CLARIFICATION"
  /\ pc = "supersede" => todo \subseteq changed

\* A reported formalization whose declaration is not merged yet.
Unmerged(c) ==
  \/ pc = "prove" /\ batch[c] \in {"reported", "sound", "unsound"}
  \/ pc = "merge" /\ c \in todo /\ batch[c] \in {"sound", "unsound"}

NeverApproved == \A c \in Claims : corr[c] # Absent =>
                   corr[c].status \notin {"approved_pending", "approved"}

MeansInv ==
  /\ CertifiedMeansProved
  /\ pc = "merge" => \A c \in todo : batch[c] \in {"empty", "sound", "unsound"}
  /\ pc \notin Outside => \A c \in Approved(corr) :
       Unmerged(c) \/ lean[c] \in {Unsound, Formalization(c, IsCounterexample(c))}

HasCertificate(c) == /\ cert[c] # Absent /\ cert[c].status = "CERTIFIED"
                     /\ cert[c].stmt = snapshot[c].stmt

CertificateInv ==
  /\ \A c \in Current : status[c] = "CERTIFIED" => HasCertificate(c)
  /\ pc = "reproof" => todo = {}
  /\ pc \in Certifying => \A c \in todo \cap issued : HasCertificate(c) \/ IsCounterexample(c)

\* The author only edits the manuscript, and the project keeps its certificates.
Undisturbed == Commands = {} /\ PreserveCertified

\* Conjectures are parked, and what is proved or certified is no conjecture.
Parked == {"NEEDS_CLARIFICATION", "SKIPPED_UNPROVED", "BLOCKED_DEPENDENCY"}

ParkedInv ==
  /\ pc # "resolving"
  /\ pc = "reproof" => todo = {}
  /\ pc = "policy" => \A c \in Conjectural(snapshot) \ todo : status[c] \in Parked
  /\ pc \in AfterScope =>
       /\ \A c \in Conjectural(snapshot) : status[c] \in Parked
       /\ Approved(corr) \subseteq TargetSet
  /\ pc \in ProveSteps => \A c \in Claims : batch[c] # Absent => c \in TargetSet
  /\ \A c \in Current : status[c] = "CERTIFIED" => c \notin Conjectural(snapshot)

\* What the certification loop has issued rests on certified claims, or refutes.
LoopInv == pc \in Certifying => \A c \in todo \cap issued : Unsatisfied(c) = {} \/ IsCounterexample(c)

-----------------------------------------------------------------------------
(* Lemmas about the graph.                                                 *)

\* What is reachable contains its sources ...
LEMMA ClosureContains ==
  ASSUME NEW S \in SUBSET Claims, NEW graph
  PROVE  S \subseteq Closure(S, graph)
BY DEF Closure

\* ... and everything an edge from it leads to, ...
LEMMA ClosureClosed ==
  ASSUME NEW S, NEW graph, NEW e \in graph, e[2] \in Claims, e[1] \in Closure(S, graph)
  PROVE  e[2] \in Closure(S, graph)
BY DEF Closure, Closed

\* ... and lies in each closed set that contains the sources.
LEMMA ClosureLeast ==
  ASSUME NEW S, NEW graph, NEW T \in SUBSET Claims, S \subseteq T, Closed(T, graph)
  PROVE  Closure(S, graph) \subseteq T
BY DEF Closure

LEMMA ClosureType ==
  ASSUME NEW S, NEW graph
  PROVE  Closure(S, graph) \subseteq Claims
BY DEF Closure

\* A claim whose dependencies lead to no changed claim is not affected.
LEMMA AffectedReaches ==
  ASSUME NEW S \in SUBSET Claims, NEW graph, graph \subseteq Edges,
         NEW c \in Affected(S, graph)
  PROVE  ({c} \cup Below(c, graph)) \cap S # {}
<1> DEFINE B == Below(c, graph)
           U == {c} \cup B
           T == Claims \ U
<1>1. \A e \in graph : /\ e[1] \in Claims /\ e[2] \in Claims
                       /\ e = <<e[1], e[2], e[3]>>
  BY DEF Edges
<1>2. c \in Claims
  BY ClosureType DEF Affected
<1>3. B \subseteq Claims
  BY ClosureType DEF Below
<1>4. \A e \in graph : e[1] \in U => e[2] \in U
  <2> SUFFICES ASSUME NEW e \in graph, e[1] \in U PROVE e[2] \in B
    OBVIOUS
  <2> DEFINE D == {f[2] : f \in {g \in graph : g[1] = c}}
  <2>1. D \subseteq B
    BY <1>1, ClosureContains DEF Below
  <2>2. CASE e[1] = c
    BY <2>1, <2>2
  <2>3. CASE e[1] \in B
    BY <2>3, <1>1, ClosureClosed DEF Below
  <2> QED BY <2>2, <2>3
<1>5. SUFFICES ASSUME U \cap S = {} PROVE FALSE
  OBVIOUS
<1>6. S \subseteq T
  BY <1>5
<1>7. Closed(T, Reversed(graph))
  <2> SUFFICES ASSUME NEW r \in Reversed(graph), r[1] \in T PROVE r[2] \in T
    BY DEF Closed
  <2>1. PICK e \in graph : r = <<e[2], e[1], e[3]>>
    BY DEF Reversed
  <2> QED BY <1>1, <1>4, <2>1
<1> QED BY <1>2, <1>6, <1>7, ClosureLeast DEF Affected

-----------------------------------------------------------------------------
(* Types.                                                                  *)

LEMMA FewClaims == Cardinality(Current) \in Nat /\ Cardinality(Current) <= Cardinality(Claims)
                   /\ Cardinality(Claims) \in Nat
BY VerifierAssumptions, FS_Subset, FS_CardinalityType DEF Current, In

LEMMA InitTypes == Init => TypeOK
BY VerifierAssumptions, FewClaims DEF Init, TypeOK, Steps

\* The steps in which the policy writes the questions and states of conjectures.
PolicySteps ==
  \/ Reconcile
  \/ \E c \in Claims : \/ Policy(c) \/ PolicyDies(c)
                       \/ \E d \in Claims : ProposeDependency(c, d) \/ ProposalDies(c, d)

LEMMA PolicyWrites ==
  ASSUME TypeOK, GraphInv, PolicySteps
  PROVE  \E asked, decided, relied \in SUBSET Claims :
           /\ decided \subseteq asked /\ asked \subseteq Conjectural(snapshot)
           /\ question' = [c \in Claims |-> IF c \notin asked THEN question[c]
                             ELSE IF c \in relied THEN "HOST_POLICY" ELSE Absent]
           /\ status' = [c \in Claims |-> IF c \notin decided THEN status[c]
                           ELSE IF c \in relied THEN "NEEDS_CLARIFICATION" ELSE "SKIPPED_UNPROVED"]
<1> DEFINE Writes(asked, decided, relied) ==
             /\ question' = [c \in Claims |-> IF c \notin asked THEN question[c]
                               ELSE IF c \in relied THEN "HOST_POLICY" ELSE Absent]
             /\ status' = [c \in Claims |-> IF c \notin decided THEN status[c]
                             ELSE IF c \in relied THEN "NEEDS_CLARIFICATION" ELSE "SKIPPED_UNPROVED"]
<1>1. Conjectural(snapshot) \subseteq Claims
  BY DEF Conjectural, In
<1>2. \A sel, graph : Relied(sel, graph) \subseteq Conjectural(snapshot)
  BY DEF Relied
<1>3. \A sel, graph, asked, decided :
        ApplyPolicy(asked, decided, sel, graph) => Writes(asked, decided, Relied(sel, graph))
  BY DEF ApplyPolicy
<1> DEFINE Written == \E asked, decided, relied \in SUBSET Claims :
                        /\ decided \subseteq asked /\ asked \subseteq Conjectural(snapshot)
                        /\ Writes(asked, decided, relied)
<1> HIDE DEF Writes
<1>4. ASSUME NEW sel, NEW graph, NEW asked \in SUBSET Conjectural(snapshot),
             NEW decided \in SUBSET asked, ApplyPolicy(asked, decided, sel, graph)
      PROVE  Written
  <2>1. Relied(sel, graph) \in SUBSET Claims /\ asked \in SUBSET Claims /\ decided \in SUBSET Claims
    BY <1>1, <1>2
  <2>2. Writes(asked, decided, Relied(sel, graph))
    BY <1>3, <1>4
  <2> QED BY <2>1, <2>2
<1> HIDE DEF Written
<1>5. ASSUME NEW sel, NEW graph, PolicyApplied(sel, graph) \/ PolicyCutShort(sel, graph)
      PROVE  Written
  <2>1. CASE PolicyApplied(sel, graph)
    <3>1. PICK visited \in SUBSET Conjectural(snapshot) : ApplyPolicy(visited, visited, sel, graph)
      BY <2>1 DEF PolicyApplied
    <3> QED BY <1>4, <3>1
  <2>2. CASE PolicyCutShort(sel, graph)
    <3>1. PICK visited \in SUBSET Conjectural(snapshot), last \in SUBSET Conjectural(snapshot) :
            ApplyPolicy(visited \cup last, visited, sel, graph)
      BY <2>2 DEF PolicyCutShort
    <3> DEFINE asked == visited \cup last
    <3>2. asked \in SUBSET Conjectural(snapshot) /\ visited \in SUBSET asked
      OBVIOUS
    <3>3. ApplyPolicy(asked, visited, sel, graph)
      BY <3>1
    <3> HIDE DEF asked
    <3> QED BY <1>4, <3>2, <3>3
  <2> QED BY <1>5, <2>1, <2>2
<1>6. ASSUME Reconcile PROVE Written
  <2>1. PolicyApplied(StoredScope, StoredEdges) \/ PolicyCutShort(StoredScope, StoredEdges)
    BY <1>6 DEF Reconcile
  <2> QED BY <1>5, <2>1
<1>7. ASSUME NEW c \in Claims, Policy(c) \/ PolicyDies(c) PROVE Written
  <2>1. {c} \in SUBSET Conjectural(snapshot) /\ {c} \in SUBSET {c} /\ {} \in SUBSET {c}
    BY <1>7 DEF Policy, PolicyDies, GraphInv
  <2>2. \/ ApplyPolicy({c}, {c}, PassScope, edges)
        \/ ApplyPolicy({c}, {}, PassScope, edges)
    BY <1>7 DEF Policy, PolicyDies
  <2> QED BY <1>4, <2>1, <2>2
<1>8. ASSUME NEW c \in Claims, NEW d \in Claims, ProposeDependency(c, d) \/ ProposalDies(c, d)
      PROVE  Written
  <2> DEFINE sel == Closure(selected, Proposed(c, d))
  <2>1. PolicyApplied(sel, Proposed(c, d)) \/ PolicyCutShort(sel, Proposed(c, d))
    BY <1>8 DEF ProposeDependency, ProposalDies
  <2> HIDE DEF sel
  <2> QED BY <1>5, <2>1
<1>9. Written
  BY <1>6, <1>7, <1>8 DEF PolicySteps
<1> QED BY <1>9 DEF Written, Writes

\* The policy only parks conjectures, and never certifies.
LEMMA PolicyParks ==
  ASSUME TypeOK, GraphInv, PolicySteps
  PROVE  /\ question' \in [Claims -> {"PROOF_WORKER", "HOST_POLICY", Absent}]
         /\ status' \in [Claims -> States \cup {Absent}]
         /\ \A c \in Claims : \/ status'[c] = status[c]
                              \/ /\ status'[c] \in {"NEEDS_CLARIFICATION", "SKIPPED_UNPROVED"}
                                 /\ c \in Conjectural(snapshot)
BY PolicyWrites DEF TypeOK, States

LEMMA TypeStep == Data /\ [Next]_vars => TypeOK'
<1> SUFFICES ASSUME TypeOK, GraphInv, [Next]_vars PROVE TypeOK'
  BY DEF Data
<1> USE VerifierAssumptions, DistinctValues
    DEF TypeOK, store, claimVars, graphVars, loopVars, roundVars
<1>1. CASE Recover
  BY <1>1 DEF Recover, Reset, States, Steps
<1>2. CASE BeginRun
  <2>1. corr' \in [Claims -> Correspondences \cup {Absent}]
    <3>1. \A r \in Correspondences : [r EXCEPT !.thisRun = FALSE] \in Correspondences
      BY DEF Correspondences
    <3> QED BY <1>2, <3>1 DEF BeginRun
  <2> QED BY <1>2, <2>1 DEF BeginRun, Steps
<1>3. CASE Import
  <2> PICK new \in Manuscripts : ImportAs(new)
    BY <1>3 DEF Import
  <2>1. newEdges' \subseteq Edges /\ changed' \subseteq Claims
    BY DEF ImportAs, References, In, Edges, EdgeKinds, Changed, Deleted, Rediscover
  <2>2. status' \in [Claims -> States \cup {Absent}]
    BY DEF ImportAs, States
  <2> QED BY <2>1, <2>2 DEF ImportAs, Steps
<1>4. CASE ReplaceEdges
  BY <1>4 DEF ReplaceEdges, Steps
<1>5. ASSUME NEW c \in Claims, Supersede(c) PROVE TypeOK'
  BY <1>5 DEF Supersede
<1>6. CASE PolicyBegins \/ Scope
  <2>1. PassScope \subseteq Claims /\ TargetSet \subseteq Claims /\ Conjectural(snapshot) \subseteq Claims
    BY ClosureType DEF PassScope, TargetSet, Conjectural, Current, In
  <2> QED BY <1>6, <2>1 DEF PolicyBegins, Scope, Steps
<1>7. ASSUME NEW c \in Claims, DiscardCertificate(c) PROVE TypeOK'
  BY <1>7 DEF DiscardCertificate, Correspondences
<1>8. ASSUME NEW c \in Claims, InvalidateDiscarded(c) PROVE TypeOK'
  BY <1>8 DEF InvalidateDiscarded, States
<1>9. CASE Baseline
  <2>1. cert' \in [Claims -> Certificates \cup {Absent}]
    <3>1. \A c \in Current : snapshot[c].stmt \in Statements
      BY DEF Current, In, Objects
    <3> QED BY <1>9, <3>1 DEF Baseline, Revalidated, Certificates
  <2> QED BY <1>9, <2>1 DEF Baseline, Correspondences, Approved, Steps
<1>10. ASSUME NEW c \in Claims, IssueCertificate(c) PROVE TypeOK'
  <2>1. snapshot[c].stmt \in Statements
    BY <1>10 DEF IssueCertificate, Rejected, Current, In, Objects
  <2>2. lean[c] \in Formalizations
    BY <1>10 DEF IssueCertificate, Rejected
  <2> QED BY <1>10, <2>1, <2>2 DEF IssueCertificate, Certificates
<1>11. ASSUME NEW c \in Claims, MarkCertified(c) PROVE TypeOK'
  BY <1>11 DEF MarkCertified, States
<1>12. ASSUME NEW c \in Claims, Postpone(c) PROVE TypeOK'
  BY <1>12 DEF Postpone
<1>13. ASSUME NEW c \in Claims, RejectCertificate(c) PROVE TypeOK'
  BY <1>13 DEF RejectCertificate, States
<1>14. CASE SweepAgain
  BY <1>14 DEF SweepAgain, Approved
<1>15. CASE Preflight
  BY <1>15 DEF Preflight, States, Steps
<1>16. CASE Schedule
  <2> DEFINE st == Blocked({c \in selected : status[c] = "NEEDS_CLARIFICATION"})
  <2>1. st \in [Claims -> States \cup {Absent}]
    BY DEF Blocked, States
  <2>2. round' \in 0 .. Cardinality(Claims) + 2
    BY <1>16, FewClaims DEF Schedule, ScheduleAfter, MaxRounds
  <2> HIDE DEF st
  <2>3. status' \in [Claims -> States \cup {Absent}]
    BY <1>16, <2>1 DEF Schedule, ScheduleAfter, States, st
  <2>4. batch' \in [Claims -> BatchStates \cup {Absent}]
    BY ZenonT(30), <1>16 DEF Schedule, ScheduleAfter, BatchStates
  <2>5. pc' \in Steps
    BY <1>16 DEF Schedule, ScheduleAfter, Steps
  <2> QED BY <1>16, <2>2, <2>3, <2>4, <2>5 DEF Schedule, ScheduleAfter
<1>17. CASE EndRounds
  BY <1>17 DEF EndRounds, Steps
<1>18. ASSUME NEW c \in Claims, MarkFormalized(c) PROVE TypeOK'
  <2>1. corr' \in [Claims -> Correspondences \cup {Absent}]
    <3> DEFINE row(st) == [status |-> st, thisRun |-> TRUE]
    <3>1. \A st \in {"proposed", "proposed_review", "counterexample"} : row(st) \in Correspondences
      BY DEF Correspondences
    <3>2. PICK st \in {"proposed", "proposed_review", "counterexample"} :
            corr' = [corr EXCEPT ![c] = row(st)]
      BY <1>18 DEF MarkFormalized
    <3> QED BY <3>1, <3>2
  <2> QED BY <1>18, <2>1 DEF MarkFormalized, BatchStates, States
<1>19. ASSUME NEW c \in Claims, RequestClarification(c) PROVE TypeOK'
  BY <1>19 DEF RequestClarification, States
<1>20. ASSUME NEW c \in Claims, ReportUnresolved(c) PROVE TypeOK'
  BY <1>20 DEF ReportUnresolved, States
<1>21. CASE PolicySteps
  <2>1. /\ question' \in [Claims -> {"PROOF_WORKER", "HOST_POLICY", Absent}]
        /\ status' \in [Claims -> States \cup {Absent}]
    BY <1>21, PolicyParks
  <2>2. CASE Reconcile
    BY <2>1, <2>2 DEF Reconcile
  <2>3. ASSUME NEW c \in Claims, Policy(c) \/ PolicyDies(c) PROVE TypeOK'
    <3>1. CASE Policy(c)
      BY <2>1, <3>1 DEF Policy
    <3>2. CASE PolicyDies(c)
      BY <2>1, <3>2, FewClaims DEF PolicyDies, ForgetLoops, ForgetRound, Steps
    <3> QED BY <2>3, <3>1, <3>2
  <2>4. ASSUME NEW c \in Claims, NEW d \in Claims, ProposeDependency(c, d) \/ ProposalDies(c, d)
        PROVE  TypeOK'
    <3>1. edges' \subseteq Edges
      BY <2>4 DEF ProposeDependency, ProposalDies, Proposing, Proposed, Edges, EdgeKinds
    <3>2. Closure(selected, Proposed(c, d)) \subseteq Claims
      BY ClosureType
    <3>3. CASE ProposeDependency(c, d)
      BY <2>1, <3>1, <3>2, <3>3 DEF ProposeDependency, Proposing
    <3>4. CASE ProposalDies(c, d)
      BY <2>1, <3>1, <3>4, FewClaims DEF ProposalDies, Proposing, ForgetLoops, ForgetRound, Steps
    <3> QED BY <2>4, <3>3, <3>4
  <2> QED BY <1>21, <2>2, <2>3, <2>4 DEF PolicySteps
<1>22. ASSUME NEW c \in Claims, BatchEnds(c) PROVE TypeOK'
  BY <1>22 DEF BatchEnds, BatchStates
<1>23. CASE MergeBegins
  BY <1>23 DEF MergeBegins, Steps
<1>24. ASSUME NEW c \in Claims, Merge(c) PROVE TypeOK'
  <2>1. c \in Current
    BY <1>24 DEF Merge, GraphInv, ProveSteps
  <2>2. Formalization(c, IsCounterexample(c)) \in Formalizations
    BY <2>1 DEF Current, In, Objects, Formalization, Formalizations, IsCounterexample
  <2> QED BY <1>24, <2>2 DEF Merge
<1>25. CASE RecordFailures
  BY <1>25 DEF RecordFailures, States, Steps
<1>26. CASE MergedBuild
  BY <1>26 DEF MergedBuild, Approved, Steps
<1>27. CASE RoundEnds
  BY <1>27 DEF RoundEnds, States, Steps
<1>28. CASE FinishRun
  BY <1>28, FewClaims DEF FinishRun, Reset, Outcome, Outcomes, ForgetLoops, ForgetRound,
                          States, Steps
<1>29. CASE Cancel \/ Raise
  BY <1>29, FewClaims DEF Cancel, Raise, Abort, Reset, ForgetLoops, ForgetRound, States, Steps
<1>30. ASSUME NEW c \in Claims,
              ApproveCorrespondence(c) \/ RejectCorrespondence(c) \/ ResolveQuestion(c)
       PROVE  TypeOK'
  BY <1>30 DEF ApproveCorrespondence, RejectCorrespondence, ResolveQuestion, Correspondences,
               States, Steps
<1>31. CASE RetryResolved
  BY <1>31 DEF RetryResolved, States, Steps
<1>32. ASSUME Crash \/ \E c \in Claims : PolicyFails(c) PROVE TypeOK'
  BY <1>32, FewClaims DEF Crash, PolicyFails, Abort, ForgetLoops, ForgetRound, Steps
<1>33. CASE UNCHANGED vars
  BY <1>33 DEF vars
<1> QED
  BY <1>1, <1>2, <1>3, <1>4, <1>5, <1>6, <1>7, <1>8, <1>9, <1>10, <1>11, <1>12, <1>13, <1>14,
     <1>15, <1>16, <1>17, <1>18, <1>19, <1>20, <1>21, <1>22, <1>23, <1>24, <1>25, <1>26, <1>27,
     <1>28, <1>29, <1>30, <1>31, <1>32, <1>33
  DEF PolicySteps, Next, Dies, Pass, Prepare, Certify, Prove, Command, Worker

LEMMA GraphStep == Data /\ [Next]_vars => GraphInv'
<1> SUFFICES ASSUME TypeOK, GraphInv, [Next]_vars PROVE GraphInv'
  BY DEF Data
<1> USE DistinctValues
    DEF GraphInv, AfterScope, ProveSteps, Known, Current,
        store, claimVars, graphVars, loopVars, roundVars
<1>1. CASE Recover \/ BeginRun \/ RetryResolved \/ Crash \/ Cancel \/ Raise \/ FinishRun \/ Command
           \/ Reconcile
  BY <1>1 DEF Reconcile, Recover, BeginRun, RetryResolved, Crash, Cancel, Raise, FinishRun, Command, Abort,
     ForgetRound, ForgetLoops, ApproveCorrespondence, RejectCorrespondence, ResolveQuestion
<1>2. CASE Import
  <2> PICK new \in Manuscripts : ImportAs(new)
    BY <1>2 DEF Import
  <2> DEFINE kept == newEdges' \ References(new)
  <2>1. kept \subseteq edges \cap (In(new) \X In(new) \X EdgeKinds)
    BY DEF ImportAs, TypeOK, Edges
  <2>2. References(new) \subseteq newEdges' /\ References(new) \subseteq In(new) \X In(new) \X EdgeKinds
    BY DEF ImportAs, References, EdgeKinds
  <2> QED BY <2>1, <2>2 DEF ImportAs
<1>3. CASE ReplaceEdges
  BY <1>3 DEF ReplaceEdges
<1>4. CASE PolicyBegins \/ Scope
  <2>1. Known(edges)
    BY <1>4 DEF PolicyBegins, Scope
  <2>2. Closed(Current, edges) /\ TargetSet \subseteq Current /\ Current \subseteq Claims
    BY <2>1 DEF Closed, TargetSet, In
  <2>3. PassScope \subseteq Current
    BY <2>2, ClosureLeast DEF PassScope
  <2> QED BY <1>4, <2>1, <2>3 DEF PolicyBegins, Scope
<1>5. ASSUME NEW c \in Claims,
             \/ Supersede(c) \/ Policy(c) \/ PolicyFails(c) \/ PolicyDies(c)
             \/ DiscardCertificate(c) \/ InvalidateDiscarded(c)
      PROVE  GraphInv'
  BY <1>5 DEF Policy, PolicyFails, PolicyDies, Abort, ForgetLoops, ForgetRound, Supersede, DiscardCertificate, InvalidateDiscarded
<1>6. CASE Baseline \/ SweepAgain \/ Preflight
  BY <1>6 DEF Baseline, SweepAgain, Preflight
<1>7. ASSUME NEW c \in Claims,
             IssueCertificate(c) \/ MarkCertified(c) \/ Postpone(c) \/ RejectCertificate(c)
      PROVE  GraphInv'
  BY <1>7 DEF IssueCertificate, MarkCertified, Postpone, RejectCertificate, Visits
<1>8. CASE Schedule
  BY <1>8 DEF Schedule, ScheduleAfter, Ready
<1>9. ASSUME NEW c \in Claims,
             MarkFormalized(c) \/ RequestClarification(c) \/ ReportUnresolved(c) \/ BatchEnds(c)
      PROVE  GraphInv'
  BY <1>9 DEF MarkFormalized, RequestClarification, ReportUnresolved, BatchEnds, Working, BatchStates,
            TypeOK
<1>10. ASSUME NEW c \in Claims, NEW d \in Claims, ProposeDependency(c, d) \/ ProposalDies(c, d)
       PROVE  GraphInv'
  <2>1. c \in Current /\ d \in Current /\ pc = "prove"
    BY <1>10 DEF ProposeDependency, ProposalDies, Proposing, Working, BatchStates
  <2>2. Proposed(c, d) \subseteq Current \X Current \X EdgeKinds /\ edges \subseteq Proposed(c, d)
    BY <2>1 DEF EdgeKinds, Proposed
  <2>3. Closed(Current, Proposed(c, d))
    BY <2>2 DEF Closed
  <2>4. Closure(selected, Proposed(c, d)) \subseteq Current
    BY <2>1, <2>3, ClosureLeast DEF In
  <2> QED BY <1>10, <2>1, <2>2, <2>4 DEF ProposeDependency, ProposalDies, Proposing, ForgetLoops,
                                       ForgetRound
<1>11. ASSUME NEW c \in Claims, Merge(c) PROVE GraphInv'
  BY <1>11 DEF Merge
<1>12. CASE EndRounds \/ MergeBegins \/ RecordFailures \/ MergedBuild \/ RoundEnds
  BY <1>12 DEF EndRounds, MergeBegins, RecordFailures, MergedBuild, RoundEnds, RoundStopped
<1>13. CASE UNCHANGED vars
  BY <1>13 DEF vars
<1> QED
  BY <1>1, <1>2, <1>3, <1>4, <1>5, <1>6, <1>7, <1>8, <1>9, <1>10, <1>11, <1>12, <1>13
  DEF Next, Dies, Pass, Prepare, Certify, Prove, Command, Worker

-----------------------------------------------------------------------------
(* What is PROVING, and what has been decided.                             *)

LEMMA ProvingStep == Data /\ ProvingInv /\ [Next]_vars => ProvingInv'
<1> SUFFICES ASSUME TypeOK, GraphInv, ProvingInv, [Next]_vars PROVE ProvingInv'
  BY DEF Data
<1> USE DistinctValues
    DEF ProvingInv, Outside, ProveSteps, Current, In, store, claimVars, graphVars, loopVars, roundVars
<1>1. CASE Recover
  BY <1>1 DEF Recover, Reset, TypeOK
<1>2. CASE BeginRun \/ ReplaceEdges \/ PolicyBegins \/ Scope \/ RetryResolved \/ Crash
  BY <1>2 DEF BeginRun, PolicyBegins, Scope, ReplaceEdges, RetryResolved, Crash
<1>3. CASE Import
  <2> PICK new \in Manuscripts : ImportAs(new)
    BY <1>3 DEF Import
  <2>1. ASSUME NEW c \in Current' PROVE status'[c] # "PROVING"
    <3>1. c \in Claims /\ c \in In(new) /\ pc = "import"
      BY <2>1 DEF ImportAs, In
    <3>2. CASE c \in In(snapshot)
      BY <3>1, <3>2 DEF ImportAs
    <3>3. CASE c \notin In(snapshot)
      <4>1. c \in Changed(snapshot, new)
        BY <3>1, <3>3 DEF Changed, In
      <4> QED BY <3>1, <4>1 DEF ImportAs
    <3> QED BY <3>2, <3>3
  <2> QED BY <2>1 DEF ImportAs
<1>4. CASE PolicySteps
  <2>1. \A c \in Claims : status'[c] = "PROVING" => status[c] = "PROVING"
    BY <1>4, PolicyParks
  <2>2. CASE Reconcile
    BY <2>1, <2>2 DEF Reconcile, In
  <2>3. ASSUME NEW c \in Claims, Policy(c) \/ PolicyDies(c) PROVE ProvingInv'
    BY <2>1, <2>3 DEF Policy, PolicyDies, In
  <2>4. ASSUME NEW c \in Claims, NEW d \in Claims, ProposeDependency(c, d) \/ ProposalDies(c, d)
        PROVE  ProvingInv'
    BY <2>1, <2>4 DEF ProposeDependency, ProposalDies, Proposing, In, Working
  <2> QED BY <1>4, <2>2, <2>3, <2>4 DEF PolicySteps
<1>5. ASSUME NEW c \in Claims,
             Supersede(c) \/ DiscardCertificate(c) \/ InvalidateDiscarded(c)
      PROVE  ProvingInv'
  BY <1>5 DEF Supersede, DiscardCertificate, InvalidateDiscarded, TypeOK
<1>6. CASE Baseline \/ SweepAgain \/ Preflight
  BY <1>6 DEF Baseline, SweepAgain, Preflight, In
<1>7. ASSUME NEW c \in Claims,
             IssueCertificate(c) \/ MarkCertified(c) \/ Postpone(c) \/ RejectCertificate(c)
      PROVE  ProvingInv'
  BY <1>7 DEF IssueCertificate, MarkCertified, Postpone, RejectCertificate, Visits, TypeOK
<1>8. CASE Schedule
  BY <1>8 DEF Schedule, ScheduleAfter, Blocked, BatchStates, In
<1>9. ASSUME NEW c \in Claims,
             MarkFormalized(c) \/ RequestClarification(c) \/ ReportUnresolved(c) \/ BatchEnds(c)
      PROVE  ProvingInv'
  BY <1>9 DEF MarkFormalized, RequestClarification, ReportUnresolved, BatchEnds, Working,
              BatchStates, TypeOK
<1>10. ASSUME NEW c \in Claims, PolicyFails(c) PROVE ProvingInv'
  BY <1>10 DEF PolicyFails, Abort
<1>11. ASSUME NEW c \in Claims, Merge(c) PROVE ProvingInv'
  BY <1>11 DEF Merge
<1>12. CASE RecordFailures
  <2>1. \A c \in Claims : status'[c] = "PROVING" => status[c] = "PROVING"
    BY <1>12 DEF RecordFailures
  <2> QED BY <1>12, <2>1 DEF RecordFailures, In
<1>13. CASE EndRounds \/ MergeBegins \/ MergedBuild \/ RoundEnds
  BY <1>13 DEF EndRounds, MergeBegins, MergedBuild, RoundEnds, RoundStopped, In
<1>14. CASE FinishRun \/ Cancel \/ Raise
  BY <1>14 DEF FinishRun, Cancel, Raise, Abort, Reset, In, Outcome
<1>15. CASE Command
  BY <1>15 DEF Command, ApproveCorrespondence, RejectCorrespondence, ResolveQuestion, TypeOK
<1>16. CASE UNCHANGED vars
  BY <1>16 DEF vars
<1> QED
  BY <1>1, <1>2, <1>3, <1>4, <1>5, <1>6, <1>7, <1>8, <1>9, <1>10, <1>11, <1>12, <1>13, <1>14,
     <1>15, <1>16
  DEF PolicySteps, Next, Dies, Pass, Prepare, Certify, Prove, Command, Worker

\* An import leaves the state of a claim alone, or makes the claim retryable; it
\* leaves none alone that is new.
LEMMA ImportKeeps ==
  ASSUME TypeOK, NEW new, ImportAs(new), NEW c \in In(new),
         status'[c] \notin {"DIRTY_SOURCE", "INVALIDATED"}
  PROVE  c \in Current /\ status'[c] = status[c] /\ pc = "import"
<1>1. c \in Claims /\ c \notin Changed(snapshot, new) /\ pc = "import"
  BY DEF ImportAs, In
<1>2. c \in In(snapshot)
  BY <1>1 DEF Changed, In
<1> QED BY <1>1, <1>2 DEF ImportAs, Current

LEMMA EvidenceStep == Data /\ EvidenceInv /\ [Next]_vars => EvidenceInv'
<1> SUFFICES ASSUME TypeOK, GraphInv, EvidenceInv, [Next]_vars PROVE EvidenceInv'
  BY DEF Data
<1> USE DistinctValues
    DEF EvidenceInv, EvidenceIsSound, Decided, Certifying, Current, In,
        store, claimVars, graphVars, loopVars, roundVars
<1>1. CASE Recover
  BY <1>1 DEF Recover, Reset
<1>2. CASE BeginRun \/ ReplaceEdges \/ PolicyBegins \/ Scope \/ RetryResolved \/ Crash
  BY <1>2 DEF BeginRun, PolicyBegins, Scope, ReplaceEdges, RetryResolved, Crash, ForgetLoops
<1>3. CASE Import
  <2> PICK new \in Manuscripts : ImportAs(new)
    BY <1>3 DEF Import
  <2>1. \A c \in Current' : status'[c] \in Decided => c \in Current /\ status'[c] = status[c]
    BY ImportKeeps DEF ImportAs
  <2> QED BY <2>1 DEF ImportAs
<1>4. CASE PolicySteps
  <2>1. \A c \in Claims : status'[c] \in Decided => status[c] \in Decided
    BY <1>4, PolicyParks
  <2>2. CASE Reconcile
    BY <2>1, <2>2 DEF Reconcile
  <2>3. ASSUME NEW c \in Claims, Policy(c) \/ PolicyDies(c) PROVE EvidenceInv'
    BY <2>1, <2>3 DEF Policy, PolicyDies, ForgetLoops
  <2>4. ASSUME NEW c \in Claims, NEW d \in Claims, ProposeDependency(c, d) \/ ProposalDies(c, d)
        PROVE  EvidenceInv'
    BY <2>1, <2>4 DEF ProposeDependency, ProposalDies, Proposing, Working, ForgetLoops
  <2> QED BY <1>4, <2>2, <2>3, <2>4 DEF PolicySteps
<1>5. ASSUME NEW c \in Claims,
             Supersede(c) \/ DiscardCertificate(c) \/ InvalidateDiscarded(c)
      PROVE  EvidenceInv'
  BY <1>5 DEF Supersede, DiscardCertificate, InvalidateDiscarded, TypeOK
<1>6. CASE Baseline \/ SweepAgain \/ Preflight
  BY <1>6 DEF Baseline, SweepAgain, Preflight
<1>7. ASSUME NEW c \in Claims, IssueCertificate(c) PROVE EvidenceInv'
  BY <1>7 DEF IssueCertificate, Visits, Rejected
<1>8. ASSUME NEW c \in Claims, MarkCertified(c) \/ Postpone(c) \/ RejectCertificate(c)
      PROVE  EvidenceInv'
  BY <1>8 DEF MarkCertified, Postpone, RejectCertificate, Visits, TypeOK
<1>9. CASE Schedule
  <2>1. \A c \in Claims : status'[c] \in Decided => status'[c] = status[c]
    BY <1>9 DEF Schedule, ScheduleAfter, Blocked
  <2>2. \A c \in Claims : pc' = "prove" /\ batch'[c] # Absent => status'[c] = "PROVING"
    BY <1>9 DEF Schedule, ScheduleAfter
  <2> QED BY <1>9, <2>1, <2>2 DEF Schedule, ScheduleAfter
<1>10. ASSUME NEW c \in Claims,
              MarkFormalized(c) \/ RequestClarification(c) \/ ReportUnresolved(c) \/ BatchEnds(c)
       PROVE  EvidenceInv'
  BY <1>10 DEF MarkFormalized, RequestClarification, ReportUnresolved, BatchEnds, Working,
               BatchStates, TypeOK
<1>11. ASSUME NEW c \in Claims, PolicyFails(c) PROVE EvidenceInv'
  BY <1>11 DEF PolicyFails, Abort, ForgetLoops
<1>12. ASSUME NEW c \in Claims, Merge(c) PROVE EvidenceInv'
  <2>1. c \in Claims /\ status[c] \notin Decided
    BY <1>12 DEF Merge, GraphInv
  <2>2. \A b \in Claims \ {c} : lean'[b] = lean[b]
    BY <1>12 DEF Merge, TypeOK
  <2> QED BY <1>12, <2>1, <2>2 DEF Merge
<1>13. CASE RecordFailures
  <2>1. \A c \in Claims : status'[c] \in Decided => status[c] \in Decided
    BY <1>13 DEF RecordFailures
  <2> QED BY <1>13, <2>1 DEF RecordFailures
<1>14. CASE EndRounds \/ MergeBegins \/ MergedBuild \/ RoundEnds
  BY <1>14 DEF EndRounds, MergeBegins, MergedBuild, RoundEnds, RoundStopped
<1>15. CASE FinishRun \/ Cancel \/ Raise
  BY <1>15 DEF FinishRun, Cancel, Raise, Abort, ForgetLoops, Reset
<1>16. CASE Command
  BY <1>16 DEF Command, ApproveCorrespondence, RejectCorrespondence, ResolveQuestion, TypeOK
<1>17. CASE UNCHANGED vars
  BY <1>17 DEF vars
<1> QED
  BY <1>1, <1>2, <1>3, <1>4, <1>5, <1>6, <1>7, <1>8, <1>9, <1>10, <1>11, <1>12, <1>13, <1>14,
     <1>15, <1>16, <1>17
  DEF PolicySteps, Next, Dies, Pass, Prepare, Certify, Prove, Command, Worker

LEMMA ApprovedStep == Data /\ EvidenceInv /\ ApprovedInv /\ [Next]_vars => ApprovedInv'
<1> SUFFICES ASSUME TypeOK, GraphInv, EvidenceInv, ApprovedInv, [Next]_vars PROVE ApprovedInv'
  BY DEF Data
<1> USE DistinctValues
    DEF ApprovedInv, BeforeBaseline, Outside, Certifying, Approved, IsCounterexample,
        store, claimVars, graphVars, loopVars, roundVars
<1>1. CASE Recover \/ Crash \/ FinishRun \/ Cancel \/ Raise \/ Command \/ RetryResolved
  BY <1>1 DEF Recover, Crash, FinishRun, Cancel, Raise, Abort, Command, RetryResolved,
              ApproveCorrespondence, RejectCorrespondence, ResolveQuestion
<1>2. CASE BeginRun
  <2>1. \A r \in Correspondences : ~[r EXCEPT !.thisRun = FALSE].thisRun
    BY DEF Correspondences
  <2>2. ASSUME NEW c \in Claims PROVE corr'[c] = Absent \/ ~corr'[c].thisRun
    BY <1>2, <2>1 DEF BeginRun, TypeOK
  <2>3. Approved(corr)' = {}
    BY <2>2
  <2> QED BY <1>2, <2>3 DEF BeginRun
<1>3. CASE Import
  BY <1>3 DEF Import, ImportAs
<1>4. CASE ReplaceEdges \/ PolicyBegins \/ Scope
  BY <1>4 DEF ReplaceEdges, PolicyBegins, Scope
<1>5. ASSUME NEW c \in Claims, Supersede(c) \/ PolicyFails(c) \/ InvalidateDiscarded(c)
      PROVE  ApprovedInv'
  BY <1>5 DEF PolicyFails, Abort, Supersede, InvalidateDiscarded
<1>6. ASSUME NEW c \in Claims, DiscardCertificate(c) PROVE ApprovedInv'
  BY <1>6 DEF DiscardCertificate, ApprovedStates, TypeOK
<1>7. CASE Baseline
  BY <1>7 DEF Baseline
<1>8. CASE SweepAgain \/ Preflight
  BY <1>8 DEF SweepAgain, Preflight
<1>9. ASSUME NEW c \in Claims,
             IssueCertificate(c) \/ MarkCertified(c) \/ Postpone(c) \/ RejectCertificate(c)
      PROVE  ApprovedInv'
  BY <1>9 DEF IssueCertificate, MarkCertified, Postpone, RejectCertificate, Visits, TypeOK
<1>10. CASE Schedule
  <2>1. \A c \in Claims : status'[c] = "CERTIFIED" => status[c] = "CERTIFIED"
    BY <1>10 DEF Schedule, ScheduleAfter, Blocked
  <2> QED BY <1>10, <2>1 DEF Schedule, ScheduleAfter
<1>11. ASSUME NEW c \in Claims, MarkFormalized(c) PROVE ApprovedInv'
  <2>1. pc = "prove" /\ status[c] # "CERTIFIED" /\ status'[c] # "CERTIFIED"
    BY <1>11 DEF MarkFormalized, Working, EvidenceInv, Decided, BatchStates, TypeOK
  <2>2. \A b \in Claims \ {c} : status'[b] = status[b] /\ corr'[b] = corr[b]
    BY <1>11 DEF MarkFormalized, TypeOK
  <2> QED BY <1>11, <2>1, <2>2 DEF MarkFormalized
<1>12. ASSUME NEW c \in Claims,
              RequestClarification(c) \/ ReportUnresolved(c) \/ BatchEnds(c)
       PROVE  ApprovedInv'
  BY <1>12 DEF RequestClarification, ReportUnresolved, BatchEnds, Working, TypeOK
<1>13. CASE PolicySteps
  <2>1. \A b \in Claims : status'[b] = "CERTIFIED" => status[b] = "CERTIFIED"
    BY <1>13, PolicyParks
  <2>2. CASE Reconcile
    BY <2>1, <2>2 DEF Reconcile
  <2>3. ASSUME NEW c \in Claims, Policy(c) \/ PolicyDies(c) PROVE ApprovedInv'
    BY <2>1, <2>3 DEF Policy, PolicyDies
  <2>4. ASSUME NEW c \in Claims, NEW d \in Claims, ProposeDependency(c, d) \/ ProposalDies(c, d)
        PROVE  ApprovedInv'
    BY <2>1, <2>4 DEF ProposeDependency, ProposalDies, Proposing, Working
  <2> QED BY <1>13, <2>2, <2>3, <2>4 DEF PolicySteps
<1>14. ASSUME NEW c \in Claims, Merge(c) PROVE ApprovedInv'
  BY <1>14 DEF Merge
<1>15. CASE RecordFailures
  <2>1. \A c \in Claims : status'[c] = "CERTIFIED" => status[c] = "CERTIFIED"
    BY <1>15 DEF RecordFailures
  <2> QED BY <1>15, <2>1 DEF RecordFailures
<1>16. CASE EndRounds \/ MergeBegins \/ MergedBuild \/ RoundEnds
  BY <1>16 DEF EndRounds, MergeBegins, MergedBuild, RoundEnds, RoundStopped
<1>17. CASE UNCHANGED vars
  BY <1>17 DEF vars
<1> QED
  BY <1>1, <1>2, <1>3, <1>4, <1>5, <1>6, <1>7, <1>8, <1>9, <1>10, <1>11, <1>12, <1>13, <1>14,
     <1>15, <1>16, <1>17
  DEF PolicySteps, Next, Dies, Pass, Prepare, Certify, Prove, Command, Worker

LEMMA InitIInv == Init => IInv
<1> SUFFICES ASSUME Init PROVE IInv
  OBVIOUS
<1>1. TypeOK
  BY InitTypes
<1>2. Current = {}
  BY DEF Init, Current, In
<1>3. GraphInv /\ ProvingInv /\ EvidenceInv /\ ApprovedInv
  BY <1>2 DEF Init, GraphInv, AfterScope, ProveSteps, ProvingInv, Outside, EvidenceInv,
     EvidenceIsSound, Certifying, ApprovedInv, BeforeBaseline
<1> QED BY <1>1, <1>3 DEF IInv, Data

\* The inductive invariant.  It needs no assumption on what workers, the author
\* or faults do.
THEOREM Inductive == Spec => []IInv
<1>1. IInv /\ [Next]_vars => IInv'
  BY TypeStep, GraphStep, ProvingStep, EvidenceStep, ApprovedStep DEF IInv, Data
<1> QED BY <1>1, InitIInv, PTL DEF Spec

\* Every variable has its type; the rounds are bounded by the claims.
THEOREM TypeCorrect == Spec => []TypeOK
<1>1. IInv => TypeOK
  BY DEF IInv, Data
<1> QED BY <1>1, Inductive, PTL

\* A claim is PROVING only while a run is open (recover_interrupted_runs, the
\* exception handlers of the pass and the end of a run): whatever fails, crashes
\* or is cancelled, nobody finds a claim in proof that no run will decide.
THEOREM ProvingHasRun == Spec => []NoProvingWithoutRun
<1>1. IInv => NoProvingWithoutRun
  BY DEF IInv, ProvingInv, NoProvingWithoutRun, Outside, ProveSteps
<1> QED BY <1>1, Inductive, PTL

\* Behind every certified claim, and every certified counterexample, is a merged
\* declaration without forbidden axioms (certify_current_correspondence), also
\* under the author's approvals and after crashes between any two commits.
THEOREM DecidedHasEvidence == Spec => []EvidenceIsSound
<1>1. IInv => EvidenceIsSound
  BY DEF IInv, EvidenceInv
<1> QED BY <1>1, Inductive, PTL

-----------------------------------------------------------------------------
(* What waits for the author is asked.                                     *)

LEMMA HeldStays ==
  ASSUME UNCHANGED <<snapshot, edges>>
  PROVE  Held' = Held /\ Conjectural(snapshot)' = Conjectural(snapshot) /\ Current' = Current
BY DEF Held, Relied, StoredScope, StoredEdges, TargetSet, Conjectural, Current, In, Closure, Closed, Below

\* A step that keeps the manuscript and the questions, and makes no claim wait, ...
LEMMA AskedStays ==
  ASSUME AskedInv, UNCHANGED <<snapshot, edges, question>>,
         \A c \in Claims : status'[c] = "NEEDS_CLARIFICATION" => status[c] = "NEEDS_CLARIFICATION",
         \/ UNCHANGED <<pc, todo, changed, run>>
         \/ pc \in AfterScope /\ pc' \in AfterScope
         \/ pc' \in Outside /\ run' \notin Outcomes
         \/ pc' \in Outside /\ pc \in AfterScope
         \/ pc \in Outside /\ pc' \in Outside /\ run' = run
  PROVE  AskedInv'
<1>1. /\ Held' = Held /\ Conjectural(snapshot)' = Conjectural(snapshot) /\ Current' = Current
      /\ Current \subseteq Claims
  BY HeldStays DEF Current, In
<1>2. ASSUME NEW c \in Current, status'[c] = "NEEDS_CLARIFICATION", question'[c] = Absent
      PROVE  status[c] = "NEEDS_CLARIFICATION" /\ question[c] = Absent
  BY <1>1, <1>2
<1> QED BY <1>1, <1>2 DEF AskedInv, Outside, AfterScope, ProveSteps

LEMMA AskedStep ==
  ASSUME "resolve" \notin Commands
  PROVE  IInv /\ AskedInv /\ [Next]_vars => AskedInv'
<1> SUFFICES ASSUME TypeOK, GraphInv, ProvingInv, AskedInv, [Next]_vars PROVE AskedInv'
  BY DEF IInv, Data
<1> USE DistinctValues DEF store, claimVars, graphVars, loopVars, roundVars
<1>1. CASE Recover
  <2>1. /\ UNCHANGED <<snapshot, edges, question>>
        /\ \A c \in Claims : status'[c] = "NEEDS_CLARIFICATION" => status[c] = "NEEDS_CLARIFICATION"
        /\ pc \in Outside /\ pc' \in Outside /\ (run' = run \/ run' \notin Outcomes)
    BY <1>1 DEF Recover, Reset, Outside, Outcomes
  <2> QED BY <2>1, AskedStays
<1>2. CASE Crash \/ FinishRun \/ Cancel \/ Raise \/ \E c \in Claims : PolicyFails(c)
  <2>1. /\ UNCHANGED <<snapshot, edges, question>>
        /\ \A c \in Claims : status'[c] = "NEEDS_CLARIFICATION" => status[c] = "NEEDS_CLARIFICATION"
        /\ pc' = "idle"
    BY <1>2 DEF Crash, FinishRun, Cancel, Raise, PolicyFails, Abort, Reset
  <2>2. \/ run' \notin Outcomes
        \/ pc \in AfterScope
        \/ pc \in Outside /\ run' = run
    BY <1>2 DEF Crash, FinishRun, Cancel, Raise, PolicyFails, Abort, ProvingInv, AfterScope, Outside,
                Outcomes
  <2> QED BY <2>1, <2>2, AskedStays DEF Outside
<1>3. CASE BeginRun \/ ReplaceEdges \/ PolicyBegins \/ Scope
  BY <1>3 DEF BeginRun, ReplaceEdges, PolicyBegins, Scope, AskedInv, AfterScope, ProveSteps, Outside,
              Current, Conjectural, In
<1>4. CASE Import
  <2> PICK new \in Manuscripts : ImportAs(new)
    BY <1>4 DEF Import
  <2>1. \A c \in Current' : status'[c] = "NEEDS_CLARIFICATION" =>
                              /\ c \in Current /\ status'[c] = status[c]
                              /\ c \in Conjectural(snapshot) => c \in Conjectural(snapshot')
    <3> SUFFICES ASSUME NEW c \in Current', status'[c] = "NEEDS_CLARIFICATION"
                 PROVE  /\ c \in Current /\ status'[c] = status[c]
                        /\ c \in Conjectural(snapshot) => c \in Conjectural(snapshot')
      OBVIOUS
    <3>1. c \in In(new) /\ c \notin Changed(snapshot, new)
      BY DEF ImportAs, Current, In
    <3>2. c \in Current /\ status'[c] = status[c]
      BY <3>1, ImportKeeps
    <3> QED BY <3>1, <3>2 DEF Changed, Conjectural, Current, In, ImportAs
  <2>2. \A c \in changed' \cap Current' : status'[c] = "DIRTY_SOURCE"
    BY DEF ImportAs, Deleted, Changed, Rediscover, Current, In
  <2> QED BY <2>1, <2>2 DEF ImportAs, AskedInv, AfterScope, ProveSteps, Outside
<1>5. ASSUME NEW c \in Claims, Supersede(c) PROVE AskedInv'
  BY <1>5 DEF Supersede, TypeOK, AskedInv, AfterScope, ProveSteps, Outside, Current, In
<1>6. ASSUME NEW c \in Claims, Policy(c) PROVE AskedInv'
  <2>1. status'[c] = "NEEDS_CLARIFICATION" => question'[c] # Absent
    BY <1>6 DEF Policy, ApplyPolicy
  <2>2. \A b \in Claims \ {c} : status'[b] = status[b] /\ question'[b] = question[b]
    BY <1>6 DEF Policy, ApplyPolicy
  <2>3. pc = "policy" /\ pc' = "policy" /\ UNCHANGED <<snapshot, run>> /\ todo' = todo \ {c}
    BY <1>6 DEF Policy
  <2> QED BY <2>1, <2>2, <2>3 DEF AskedInv, AfterScope, ProveSteps, Outside, Current, In
<1>7. ASSUME NEW c \in Claims,
             PolicyDies(c) \/ \E d \in Claims : ProposalDies(c, d)
      PROVE  AskedInv'
  <2>1. PICK asked \in SUBSET Conjectural(snapshot) :
          \A b \in Claims \ asked : status'[b] = status[b] /\ question'[b] = question[b]
    BY <1>7, PolicyWrites DEF PolicySteps
  <2>2. pc' = "idle" /\ run' = "RUNNING" /\ UNCHANGED snapshot
    BY <1>7 DEF PolicyDies, ProposalDies, Proposing, Working, ProvingInv, Outside
  <2> QED BY <2>1, <2>2 DEF AskedInv, AfterScope, ProveSteps, Outside, Outcomes, Current, In
<1>8. CASE Reconcile
  <2>1. PICK asked \in SUBSET Conjectural(snapshot), decided \in SUBSET Conjectural(snapshot) :
          decided \subseteq asked /\ ApplyPolicy(asked, decided, StoredScope, StoredEdges)
    <3>1. PICK visited \in SUBSET Conjectural(snapshot), last \in SUBSET Conjectural(snapshot) :
            ApplyPolicy(visited \cup last, visited, StoredScope, StoredEdges)
      <4>1. CASE PolicyApplied(StoredScope, StoredEdges)
        <5>1. PICK visited \in SUBSET Conjectural(snapshot) :
                ApplyPolicy(visited, visited, StoredScope, StoredEdges)
          BY <4>1 DEF PolicyApplied
        <5>2. visited \cup {} = visited
          OBVIOUS
        <5> QED BY <5>1, <5>2
      <4>2. CASE PolicyCutShort(StoredScope, StoredEdges)
        BY <4>2 DEF PolicyCutShort
      <4> QED BY <1>8, <4>1, <4>2 DEF Reconcile
    <3> QED BY <3>1
  <2>2. UNCHANGED <<snapshot, edges, pc, run, todo, changed>> /\ pc = "idle"
    BY <1>8 DEF Reconcile
  <2>3. ASSUME NEW c \in Current, status'[c] = "NEEDS_CLARIFICATION", question'[c] = Absent
        PROVE  c \in Conjectural(snapshot) /\ (run \in Outcomes => c \notin Held)
    <3>1. c \in Claims
      BY DEF Current, In
    <3>2. CASE c \notin asked
      BY <2>1, <2>2, <2>3, <3>1, <3>2 DEF ApplyPolicy, AskedInv, Outside
    <3>3. CASE c \in asked
      BY <2>1, <2>3, <3>1, <3>3 DEF ApplyPolicy, Held
    <3> QED BY <3>2, <3>3
  <2> QED BY <2>2, <2>3, HeldStays DEF AskedInv, AfterScope, ProveSteps, Outside
<1>9. ASSUME NEW c \in Claims, NEW d \in Claims, ProposeDependency(c, d) PROVE AskedInv'
  <2> DEFINE graph == Proposed(c, d)
             sel == Closure(selected, graph)
  <2>1. PICK visited \in SUBSET Conjectural(snapshot) : ApplyPolicy(visited, visited, sel, graph)
    BY <1>9 DEF ProposeDependency, PolicyApplied
  <2>2. pc = "prove" /\ pc' = "prove" /\ UNCHANGED snapshot
    BY <1>9 DEF ProposeDependency, Proposing, Working
  <2>3. \A b \in Claims : status'[b] = "NEEDS_CLARIFICATION" =>
          \/ question'[b] # Absent
          \/ status[b] = "NEEDS_CLARIFICATION" /\ question'[b] = question[b]
    BY <2>1 DEF ApplyPolicy
  <2> QED BY <2>2, <2>3 DEF AskedInv, AfterScope, ProveSteps, Outside, Current, In
<1>10. ASSUME NEW c \in Claims, DiscardCertificate(c) \/ InvalidateDiscarded(c) PROVE AskedInv'
  BY <1>10, AskedStays DEF DiscardCertificate, InvalidateDiscarded, AfterScope, TypeOK
<1>11. CASE Baseline \/ SweepAgain \/ Preflight
  BY <1>11, AskedStays DEF Baseline, SweepAgain, Preflight, AfterScope
<1>12. ASSUME NEW c \in Claims,
             IssueCertificate(c) \/ MarkCertified(c) \/ Postpone(c) \/ RejectCertificate(c)
      PROVE  AskedInv'
  BY <1>12, AskedStays DEF IssueCertificate, MarkCertified, Postpone, RejectCertificate, Visits,
                          AfterScope, ProveSteps, TypeOK
<1>13. CASE Schedule
  BY <1>13, AskedStays DEF Schedule, ScheduleAfter, Blocked, AfterScope, ProveSteps
<1>14. ASSUME NEW c \in Claims, MarkFormalized(c) \/ ReportUnresolved(c) \/ BatchEnds(c)
      PROVE  AskedInv'
  BY <1>14, AskedStays DEF MarkFormalized, ReportUnresolved, BatchEnds, Working, AfterScope,
                          ProveSteps, TypeOK
<1>15. ASSUME NEW c \in Claims, RequestClarification(c) PROVE AskedInv'
  BY <1>15 DEF RequestClarification, Working, TypeOK, AskedInv, AfterScope, ProveSteps, Outside,
               Current, In
<1>16. ASSUME NEW c \in Claims, Merge(c) PROVE AskedInv'
  BY <1>16, AskedStays DEF Merge, AfterScope, ProveSteps
<1>17. CASE RecordFailures
  <2>1. \A c \in Claims : status'[c] = "NEEDS_CLARIFICATION" => status[c] = "NEEDS_CLARIFICATION"
    BY <1>17 DEF RecordFailures
  <2> QED BY <1>17, <2>1, AskedStays DEF RecordFailures, AfterScope, ProveSteps
<1>18. CASE EndRounds \/ MergeBegins \/ MergedBuild \/ RoundEnds
  BY <1>18, AskedStays DEF EndRounds, MergeBegins, MergedBuild, RoundEnds, RoundStopped, AfterScope,
                           ProveSteps
<1>19. CASE Command \/ RetryResolved
  BY <1>19, AskedStays DEF Command, ApproveCorrespondence, RejectCorrespondence, ResolveQuestion,
                           RetryResolved, Outside, TypeOK
<1>20. CASE UNCHANGED vars
  BY <1>20, AskedStays DEF vars
<1> QED
  BY <1>1, <1>2, <1>3, <1>4, <1>5, <1>6, <1>7, <1>8, <1>9, <1>10, <1>11, <1>12, <1>13, <1>14,
     <1>15, <1>16, <1>17, <1>18, <1>19, <1>20
  DEF Next, Dies, Pass, Prepare, Certify, Prove, Command, Worker

\* As long as the author resolves no question by hand (questions --resolve closes
\* the question in one commit and makes the claim retryable in the next, and the
\* process may die between them), a claim with a proof that waits for the author has
\* an open question, also after an edit, a worker's second question or a crash
\* anywhere.  A conjecture that waits has one from the policy of a pass on
\* (_reconcile_conjectural_policy) to the end of the pass, and after it as long as
\* proofs rely on the conjecture: a process that dies between the two commits of a
\* claim leaves only conjectures unasked that nothing relies on, or that the next
\* pass visits again.
THEOREM WaitingIsAsked ==
  ASSUME "resolve" \notin Commands
  PROVE  Spec => []ClarificationIsAsked
<1>1. Init => AskedInv
  BY DEF Init, AskedInv, Current, In
<1>2. IInv /\ AskedInv => ClarificationIsAsked
  BY DEF IInv, Data, TypeOK, Steps, AskedInv, ClarificationIsAsked, Held, Outside, AfterScope, ProveSteps
<1> QED BY <1>1, <1>2, AskedStep, Inductive, PTL DEF Spec

-----------------------------------------------------------------------------
(* A certified claim is proved as it is stated now.                        *)

LEMMA MergeLean ==
  ASSUME NEW c \in Claims, Merge(c), TypeOK
  PROVE  /\ \A b \in Claims \ {c} : lean'[b] = lean[b]
         /\ batch[c] = "sound" => lean'[c] = Formalization(c, IsCounterexample(c))
         /\ batch[c] = "unsound" => lean'[c] = Unsound
         /\ batch[c] = "empty" => lean'[c] = lean[c]
<1> DEFINE f == CASE batch[c] = "sound" -> Formalization(c, IsCounterexample(c))
                  [] batch[c] = "unsound" -> Unsound
                  [] OTHER -> lean[c]
<1>1. lean' = [lean EXCEPT ![c] = f]
  BY DEF Merge
<1>2. /\ batch[c] = "sound" => f = Formalization(c, IsCounterexample(c))
      /\ batch[c] = "unsound" => f = Unsound
      /\ batch[c] = "empty" => f = lean[c]
  OBVIOUS
<1> HIDE DEF f
<1> QED BY <1>1, <1>2 DEF TypeOK

\* The steps that write correspondences.
LEMMA CorrespondenceWriters ==
  ASSUME [Next]_vars
  PROVE  \/ UNCHANGED corr
         \/ BeginRun \/ Baseline
         \/ \E c \in Claims : DiscardCertificate(c) \/ MarkFormalized(c) \/ RejectCorrespondence(c)
                                \/ "approve" \in Commands
BY DEF Next, Dies, Pass, Prepare, Certify, Prove, Command, Worker, vars, store, claimVars,
   Recover, Import, ImportAs, ReplaceEdges, PolicyBegins, Policy, PolicyFails, PolicyDies, Reconcile, Scope, Supersede, InvalidateDiscarded, SweepAgain,
   Preflight, IssueCertificate, MarkCertified, Postpone, RejectCertificate, Schedule, ScheduleAfter,
   EndRounds, RequestClarification, ReportUnresolved, ProposeDependency, ProposalDies, Proposing, Dies, BatchEnds, MergeBegins,
   Merge, RecordFailures, MergedBuild, RoundEnds, FinishRun, Cancel, Raise, ApproveCorrespondence,
   ResolveQuestion, RetryResolved, Crash

\* Nobody approves but the author.
LEMMA NeverApprovedStep ==
  ASSUME "approve" \notin Commands
  PROVE  Data /\ NeverApproved /\ [Next]_vars => NeverApproved'
<1> SUFFICES ASSUME TypeOK, NeverApproved, [Next]_vars PROVE NeverApproved'
  BY DEF Data
<1> USE DEF NeverApproved, store, claimVars, graphVars
<1>1. CASE UNCHANGED corr
  BY <1>1
<1>2. CASE BeginRun
  <2>1. \A r \in Correspondences : [r EXCEPT !.thisRun = FALSE].status = r.status
    BY DEF Correspondences
  <2> QED BY <1>2, <2>1 DEF BeginRun, TypeOK
<1>3. CASE Baseline
  BY <1>3 DEF Baseline
<1>4. ASSUME NEW c \in Claims, DiscardCertificate(c) \/ MarkFormalized(c) PROVE NeverApproved'
  BY <1>4 DEF DiscardCertificate, MarkFormalized, TypeOK
<1>5. ASSUME NEW c \in Claims, RejectCorrespondence(c) PROVE NeverApproved'
  <2>1. \A r \in Correspondences : [r EXCEPT !.status = "rejected"].status = "rejected"
    BY DEF Correspondences
  <2> QED BY <1>5, <2>1 DEF RejectCorrespondence, TypeOK
<1> QED
  BY <1>1, <1>2, <1>3, <1>4, <1>5, CorrespondenceWriters

\* What an import leaves certified is stated as before.
LEMMA ImportCertified ==
  ASSUME TypeOK, NEW new, ImportAs(new), NEW c \in Current', status'[c] = "CERTIFIED"
  PROVE  c \in Current /\ status[c] = "CERTIFIED" /\ snapshot'[c].stmt = snapshot[c].stmt
<1>1. c \in In(new)
  BY DEF ImportAs, Current, In
<1>2. c \notin Changed(snapshot, new)
  BY <1>1 DEF ImportAs, In
<1> QED BY <1>1, <1>2, ImportKeeps DEF Changed, ImportAs, Current, In

LEMMA MeansStep ==
  ASSUME "approve" \notin Commands, WorkerFaults \subseteq {"unsound"}
  PROVE  IInv /\ IInv' /\ NeverApproved /\ MeansInv /\ [Next]_vars => MeansInv'
<1> SUFFICES ASSUME TypeOK, GraphInv, EvidenceInv, ApprovedInv, ApprovedInv', NeverApproved, MeansInv,
                    [Next]_vars
             PROVE  MeansInv'
  BY DEF IInv, Data
<1> USE DistinctValues
    DEF MeansInv, CertifiedMeansProved, NeverApproved, Unmerged, Outside, Current, In, Formalization,
        Approved, IsCounterexample, store, claimVars, graphVars, loopVars, roundVars
<1>1. CASE Recover \/ RetryResolved \/ Crash \/ FinishRun \/ Cancel \/ Raise
  BY <1>1 DEF Recover, Reset, RetryResolved, Crash, FinishRun, Cancel, Raise, Abort
<1>2. CASE Command
  BY <1>2, ZenonT(60) DEF Command, ApproveCorrespondence, RejectCorrespondence, ResolveQuestion, TypeOK
<1>3. CASE BeginRun
  BY <1>3 DEF BeginRun, ApprovedInv, BeforeBaseline
<1>4. CASE Import
  <2> PICK new \in Manuscripts : ImportAs(new)
    BY <1>4 DEF Import
  <2> QED BY ImportCertified DEF ImportAs, ApprovedInv, BeforeBaseline
<1>5. CASE ReplaceEdges \/ PolicyBegins \/ Scope \/ \E c \in Claims : PolicyFails(c)
  BY <1>5 DEF PolicyBegins, Scope, PolicyFails, Abort, ReplaceEdges
<1>6. CASE PolicySteps
  <2>1. \A c \in Claims : status'[c] = "CERTIFIED" => status[c] = "CERTIFIED"
    BY <1>6, PolicyParks
  <2>2. CASE Reconcile
    BY <2>1, <2>2 DEF Reconcile
  <2>3. ASSUME NEW c \in Claims, Policy(c) \/ PolicyDies(c) PROVE MeansInv'
    BY <2>1, <2>3 DEF Policy, PolicyDies
  <2>4. ASSUME NEW c \in Claims, NEW d \in Claims, ProposeDependency(c, d) \/ ProposalDies(c, d)
        PROVE  MeansInv'
    BY <2>1, <2>4 DEF ProposeDependency, ProposalDies, Proposing, Working
  <2> QED BY <1>6, <2>2, <2>3, <2>4 DEF PolicySteps
<1>7. ASSUME NEW c \in Claims, Supersede(c) \/ InvalidateDiscarded(c) PROVE MeansInv'
  BY <1>7, ZenonT(60) DEF Supersede, InvalidateDiscarded, TypeOK
<1>8. ASSUME NEW c \in Claims, DiscardCertificate(c) PROVE MeansInv'
  BY <1>8 DEF DiscardCertificate, TypeOK, ApprovedInv, BeforeBaseline
<1>9. CASE Baseline \/ SweepAgain \/ Preflight
  BY <1>9 DEF Baseline, SweepAgain, Preflight
<1>10. ASSUME NEW c \in Claims, IssueCertificate(c) \/ Postpone(c) \/ RejectCertificate(c)
       PROVE  MeansInv'
  BY <1>10, ZenonT(60) DEF IssueCertificate, Postpone, RejectCertificate, Visits, TypeOK
<1>11. ASSUME NEW c \in Claims, MarkCertified(c) PROVE MeansInv'
  <2>1. lean[c] = Formalization(c, IsCounterexample(c))
    BY <1>11 DEF MarkCertified, EvidenceInv, ApprovedInv, Certifying
  <2> QED BY <1>11, <2>1, ZenonT(60) DEF MarkCertified, TypeOK
<1>12. CASE Schedule
  <2>1. \A c \in Claims : status'[c] = "CERTIFIED" => status[c] = "CERTIFIED"
    BY <1>12 DEF Schedule, ScheduleAfter, Blocked
  <2> QED BY <1>12, <2>1 DEF Schedule, ScheduleAfter
<1>13. ASSUME NEW c \in Claims, MarkFormalized(c) PROVE MeansInv'
  BY <1>13 DEF MarkFormalized, Working, TypeOK
<1>14. ASSUME NEW c \in Claims, RequestClarification(c) \/ ReportUnresolved(c) PROVE MeansInv'
  BY <1>14, ZenonT(60) DEF RequestClarification, ReportUnresolved, Working, TypeOK
<1>15. ASSUME NEW c \in Claims, BatchEnds(c) PROVE MeansInv'
  BY <1>15 DEF BatchEnds, Working, TypeOK
<1>17. CASE MergeBegins
  <2>1. \A c \in Claims : batch[c] \in {Absent, "empty", "sound", "unsound"}
    BY <1>17 DEF MergeBegins, RoundStopped, Working, BatchStates, TypeOK
  <2>2. \A c \in Claims : Unmerged(c) => Unmerged(c)'
    BY <1>17, <2>1 DEF MergeBegins, RoundStopped, BatchStates
  <2>3. pc = "prove" /\ pc' = "merge" /\ UNCHANGED <<snapshot, status, corr, lean, batch>>
    BY <1>17 DEF MergeBegins, RoundStopped
  <2>4. \A c \in todo' : batch'[c] \in {"empty", "sound", "unsound"}
    BY <1>17, <2>1 DEF MergeBegins
  <2> QED BY <2>2, <2>3, <2>4
<1>18. ASSUME NEW c \in Claims, Merge(c) PROVE MeansInv'
  <2>1. c \in todo /\ pc = "merge" /\ status[c] # "CERTIFIED"
    BY <1>18 DEF Merge, GraphInv, EvidenceInv, Decided
  <2>2. batch[c] \in {"empty", "sound", "unsound"}
    BY <2>1
  <2>3. UNCHANGED <<snapshot, status, corr, pc, batch>> /\ todo' = todo \ {c}
    BY <1>18 DEF Merge
  <2>4. CertifiedMeansProved'
    BY <1>18, <2>1, <2>3, MergeLean, ZenonT(60)
  <2>5. ASSUME NEW b \in Approved(corr) \ {c}
        PROVE  (Unmerged(b) \/ lean[b] \in {Unsound, Formalization(b, IsCounterexample(b))})'
    BY <1>18, <2>1, <2>3, MergeLean
  <2>6. c \in Approved(corr) =>
          (Unmerged(c) \/ lean[c] \in {Unsound, Formalization(c, IsCounterexample(c))})'
    BY <1>18, <2>1, <2>2, <2>3, MergeLean
  <2> QED BY <2>1, <2>3, <2>4, <2>5, <2>6
<1>19. CASE RecordFailures
  <2>1. \A c \in Claims : status'[c] = "CERTIFIED" => status[c] = "CERTIFIED"
    BY <1>19 DEF RecordFailures
  <2> QED BY <1>19, <2>1 DEF RecordFailures
<1>20. CASE EndRounds \/ MergedBuild \/ RoundEnds
  BY <1>20 DEF EndRounds, MergedBuild, RoundEnds
<1>21. CASE UNCHANGED vars
  BY <1>21 DEF vars
<1> QED
  BY <1>1, <1>2, <1>3, <1>4, <1>5, <1>6, <1>7, <1>8, <1>9, <1>10, <1>11, <1>12, <1>13, <1>14,
     <1>15, <1>17, <1>18, <1>19, <1>20, <1>21
  DEF PolicySteps, Next, Dies, Pass, Prepare, Certify, Prove, Command, Worker

\* Without approvals by hand and failed batches, the declaration of a CERTIFIED
\* claim proves the statement the claim has now: a correspondence certifies in the
\* run that wrote it only (begin_run), an edited statement is invalidated before
\* anything is certified, and each reported formalization is merged before the
\* certification looks at it.
THEOREM CertifiedProvesItsStatement ==
  ASSUME "approve" \notin Commands, WorkerFaults \subseteq {"unsound"}
  PROVE  Spec => []CertifiedMeansProved
<1>1. Init => NeverApproved /\ MeansInv
  BY DEF Init, MeansInv, CertifiedMeansProved, NeverApproved, Current, In, Outside
<1>2. IInv => Data
  BY DEF IInv
<1>3. MeansInv => CertifiedMeansProved
  BY DEF MeansInv
<1> QED BY <1>1, <1>2, <1>3, NeverApprovedStep, MeansStep, Inductive, PTL DEF Spec

-----------------------------------------------------------------------------
(* A certified claim keeps its certificate.                                *)

LEMMA CertificateStep ==
  ASSUME PreserveCertified
  PROVE  IInv /\ CertificateInv /\ [Next]_vars => CertificateInv'
<1> SUFFICES ASSUME TypeOK, GraphInv, EvidenceInv, ApprovedInv, CertificateInv, [Next]_vars
             PROVE  CertificateInv'
  BY DEF IInv, Data
<1> USE DistinctValues
    DEF CertificateInv, HasCertificate, Certifying, Current, In, IsCounterexample,
        store, claimVars, graphVars, loopVars, roundVars
<1>1. CASE Recover \/ RetryResolved \/ Crash \/ FinishRun \/ Cancel \/ Raise
  BY <1>1 DEF Recover, Reset, RetryResolved, Crash, FinishRun, Cancel, Raise, Abort
<1>2. CASE Command
  BY <1>2 DEF Command, ApproveCorrespondence, RejectCorrespondence, ResolveQuestion, TypeOK
<1>3. CASE BeginRun \/ ReplaceEdges \/ PolicyBegins \/ Scope \/ \E c \in Claims : PolicyFails(c)
  BY <1>3 DEF PolicyBegins, Scope, PolicyFails, Abort, BeginRun, ReplaceEdges
<1>4. CASE Import
  <2> PICK new \in Manuscripts : ImportAs(new)
    BY <1>4 DEF Import
  <2> QED BY ImportCertified DEF ImportAs
<1>5. CASE PolicySteps
  <2>1. \A c \in Claims : status'[c] = "CERTIFIED" => status[c] = "CERTIFIED"
    BY <1>5, PolicyParks
  <2>2. CASE Reconcile
    BY <2>1, <2>2 DEF Reconcile
  <2>3. ASSUME NEW c \in Claims, Policy(c) \/ PolicyDies(c) PROVE CertificateInv'
    BY <2>1, <2>3 DEF Policy, PolicyDies
  <2>4. ASSUME NEW c \in Claims, NEW d \in Claims, ProposeDependency(c, d) \/ ProposalDies(c, d)
        PROVE  CertificateInv'
    BY <2>1, <2>4 DEF ProposeDependency, ProposalDies, Proposing, Working
  <2> QED BY <1>5, <2>2, <2>3, <2>4 DEF PolicySteps
<1>6. ASSUME NEW c \in Claims, Supersede(c) \/ DiscardCertificate(c) \/ InvalidateDiscarded(c)
      PROVE  CertificateInv'
  BY <1>6 DEF Supersede, DiscardCertificate, InvalidateDiscarded
<1>7. CASE Baseline
  <2>1. \A c \in Claims : \A s \in Statements : cert[c] # Absent =>
          /\ [cert[c] EXCEPT !.stmt = s].stmt = s
          /\ [cert[c] EXCEPT !.stmt = s].status = cert[c].status
          /\ [cert[c] EXCEPT !.stmt = s] # Absent
    BY DEF TypeOK, Certificates
  <2>2. \A c \in Current : snapshot[c].stmt \in Statements
    BY DEF TypeOK, Objects
  <2>3. \A c \in Current : HasCertificate(c) => HasCertificate(c)'
    BY <1>7, <2>1, <2>2 DEF Baseline, Revalidated
  <2> QED BY <1>7, <2>3 DEF Baseline, EvidenceInv
<1>8. CASE SweepAgain \/ Preflight
  BY <1>8 DEF SweepAgain, Preflight
<1>9. ASSUME NEW c \in Claims, IssueCertificate(c) PROVE CertificateInv'
  <2>1. \A b \in Claims \ {c} : HasCertificate(b) => HasCertificate(b)'
    BY <1>9 DEF IssueCertificate, TypeOK
  <2>2. IsCounterexample(c) \/ HasCertificate(c)'
    <3>1. snapshot[c].stmt \in Statements /\ lean[c] \in Formalizations
      BY <1>9 DEF IssueCertificate, Rejected, TypeOK, Objects
    <3> DEFINE row == [status |-> "CERTIFIED", stmt |-> snapshot[c].stmt, type |-> lean[c]]
    <3>2. row # Absent
      BY <3>1 DEF Certificates
    <3>3. ~IsCounterexample(c) => cert'[c] = row
      BY <1>9 DEF IssueCertificate, TypeOK
    <3> QED BY <1>9, <3>2, <3>3 DEF IssueCertificate
  <2>3. status[c] = "CERTIFIED" => ~IsCounterexample(c)
    BY <1>9 DEF IssueCertificate, Visits, ApprovedInv, Outside
  <2> QED BY <1>9, <2>1, <2>2, <2>3 DEF IssueCertificate, Visits
<1>10. ASSUME NEW c \in Claims, MarkCertified(c) \/ Postpone(c) \/ RejectCertificate(c)
       PROVE  CertificateInv'
  BY <1>10 DEF MarkCertified, Postpone, RejectCertificate, Visits, TypeOK
<1>11. CASE Schedule
  <2>1. \A c \in Claims : status'[c] = "CERTIFIED" => status[c] = "CERTIFIED"
    BY <1>11, ZenonT(60) DEF Schedule, ScheduleAfter, Blocked
  <2> QED BY <1>11, <2>1 DEF Schedule, ScheduleAfter
<1>12. ASSUME NEW c \in Claims,
              MarkFormalized(c) \/ RequestClarification(c) \/ ReportUnresolved(c) \/ BatchEnds(c)
       PROVE  CertificateInv'
  BY <1>12 DEF MarkFormalized, RequestClarification, ReportUnresolved, BatchEnds, Working, TypeOK
<1>14. ASSUME NEW c \in Claims, Merge(c) PROVE CertificateInv'
  BY <1>14 DEF Merge
<1>15. CASE RecordFailures
  <2>1. \A c \in Claims : status'[c] = "CERTIFIED" => status[c] = "CERTIFIED"
    BY <1>15 DEF RecordFailures
  <2> QED BY <1>15, <2>1 DEF RecordFailures
<1>16. CASE EndRounds \/ MergeBegins \/ MergedBuild \/ RoundEnds
  BY <1>16 DEF EndRounds, MergeBegins, MergedBuild, RoundEnds, RoundStopped, EvidenceInv
<1>17. CASE UNCHANGED vars
  BY <1>17 DEF vars
<1> QED
  BY <1>1, <1>2, <1>3, <1>4, <1>5, <1>6, <1>7, <1>8, <1>9, <1>10, <1>11, <1>12, <1>14,
     <1>15, <1>16, <1>17
  DEF PolicySteps, Next, Dies, Pass, Prepare, Certify, Prove, Command, Worker

\* A claim is shown as CERTIFIED only with its certificate in the store, and the
\* certificate is of the statement the claim has now: the certificate is written
\* before the state (certify_current_correspondence), an edited statement is
\* invalidated with the snapshot that changes it.  preserve_certified=false deletes
\* the certificate in a commit before the one that invalidates the claim.
THEOREM CertifiedIsInTheStore ==
  ASSUME PreserveCertified
  PROVE  Spec => []CertifiedHasCertificate
<1>1. Init => CertificateInv
  BY DEF Init, CertificateInv, Certifying, Current, In
<1>2. CertificateInv => CertifiedHasCertificate
  BY DEF CertificateInv, CertifiedHasCertificate, HasCertificate
<1> QED BY <1>1, <1>2, CertificateStep, Inductive, PTL DEF Spec

-----------------------------------------------------------------------------
(* A certified claim rests on certified claims, and stays certified.       *)

\* The steps that write the states of claims.
LEMMA StateWriters ==
  ASSUME [Next]_vars
  PROVE  \/ UNCHANGED status
         \/ Recover \/ FinishRun \/ Cancel \/ Raise \/ RetryResolved \/ Import
         \/ PolicySteps
         \/ Preflight \/ RecordFailures \/ RoundEnds \/ Schedule
         \/ \E c \in Claims : \/ InvalidateDiscarded(c) \/ MarkCertified(c) \/ RejectCertificate(c)
                              \/ MarkFormalized(c) \/ RequestClarification(c) \/ ReportUnresolved(c)
                              \/ ApproveCorrespondence(c) \/ RejectCorrespondence(c)
BY DEF PolicySteps, PolicyBegins, PolicyFails, Scope, Next, Dies, Pass, Prepare, Certify, Prove, Command, Worker, vars, store, claimVars,
   BeginRun, ReplaceEdges, Supersede, DiscardCertificate, Baseline, SweepAgain, IssueCertificate,
   Postpone, EndRounds, BatchEnds, MergeBegins, Merge, MergedBuild, ResolveQuestion, Crash

\* Only the certification loop certifies, in the step after it issued the
\* certificate.
LEMMA NewlyCertified ==
  ASSUME TypeOK, GraphInv, [Next]_vars, NEW c \in Claims, status'[c] = "CERTIFIED", status[c] # "CERTIFIED"
  PROVE  MarkCertified(c) /\ ~IsCounterexample(c)
<1> USE DEF store, claimVars, graphVars
<1>1. CASE UNCHANGED status
  BY <1>1
<1>2. CASE Recover \/ FinishRun \/ Cancel \/ Raise \/ RetryResolved
  BY <1>2 DEF Recover, FinishRun, Cancel, Raise, Abort, RetryResolved, Reset
<1>3. CASE Import
  BY <1>3, ImportKeeps DEF Import, ImportAs
<1>4. CASE PolicySteps
  BY <1>4, PolicyParks
<1>5. ASSUME NEW b \in Claims, MarkCertified(b) PROVE b = c /\ ~IsCounterexample(c)
  BY <1>5 DEF MarkCertified, TypeOK
<1>6. CASE Preflight \/ RecordFailures \/ RoundEnds
  BY <1>6 DEF Preflight, RecordFailures, RoundEnds
<1>7. CASE Schedule
  BY <1>7 DEF Schedule, ScheduleAfter, Blocked
<1>8. ASSUME NEW b \in Claims,
             \/ InvalidateDiscarded(b) \/ RejectCertificate(b) \/ MarkFormalized(b)
             \/ RequestClarification(b) \/ ReportUnresolved(b)
             \/ ApproveCorrespondence(b) \/ RejectCorrespondence(b)
      PROVE  FALSE
  BY <1>8 DEF InvalidateDiscarded, RejectCertificate, MarkFormalized, RequestClarification,
              ReportUnresolved, ApproveCorrespondence, RejectCorrespondence, TypeOK
<1> QED
  BY <1>1, <1>2, <1>3, <1>4, <1>5, <1>6, <1>7, <1>8, StateWriters

LEMMA ParkedStep ==
  ASSUME Undisturbed
  PROVE  IInv /\ NeverApproved /\ ParkedInv /\ [Next]_vars => ParkedInv'
<1> SUFFICES ASSUME TypeOK, GraphInv, EvidenceInv, ApprovedInv, NeverApproved, ParkedInv, [Next]_vars
             PROVE  ParkedInv'
  BY DEF IInv, Data
<1> USE DistinctValues
    DEF ParkedInv, Undisturbed, AfterScope, ProveSteps, Parked, Current, In, Conjectural, TargetSet,
        store, claimVars, graphVars, loopVars, roundVars
<1>1. CASE Recover \/ Crash \/ FinishRun \/ Cancel \/ Raise
  BY <1>1 DEF Recover, Crash, FinishRun, Cancel, Raise, Abort, Reset
<1>2. CASE Command \/ RetryResolved
  BY <1>2 DEF Command, ApproveCorrespondence, RejectCorrespondence, ResolveQuestion, RetryResolved
<1>3. CASE BeginRun \/ ReplaceEdges \/ PolicyBegins \/ \E c \in Claims : PolicyFails(c)
  BY <1>3 DEF PolicyBegins, PolicyFails, Abort, BeginRun, ReplaceEdges
<1>4. CASE Import
  <2> PICK new \in Manuscripts : ImportAs(new)
    BY <1>4 DEF Import
  <2>1. ASSUME NEW c \in Current', status'[c] = "CERTIFIED" PROVE c \notin Conjectural(new)
    <3>1. c \in In(new) /\ c \notin Changed(snapshot, new)
      BY <2>1 DEF ImportAs
    <3>2. c \in Current /\ status[c] = "CERTIFIED"
      BY <2>1, <3>1, ImportKeeps
    <3> QED BY <3>1, <3>2 DEF Changed
  <2> QED BY <2>1 DEF ImportAs
<1>5. CASE Scope
  BY <1>5 DEF Scope, ApprovedInv, BeforeBaseline, Approved
<1>6. ASSUME NEW c \in Claims, Supersede(c) \/ DiscardCertificate(c) \/ InvalidateDiscarded(c)
      PROVE  ParkedInv'
  BY <1>6 DEF Supersede, DiscardCertificate, InvalidateDiscarded
<1>7. CASE Baseline
  BY <1>7 DEF Baseline, NeverApproved, Approved
<1>8. CASE SweepAgain \/ Preflight
  BY <1>8 DEF SweepAgain, Preflight
<1>9. ASSUME NEW c \in Claims,
             IssueCertificate(c) \/ MarkCertified(c) \/ Postpone(c) \/ RejectCertificate(c)
      PROVE  ParkedInv'
  BY <1>9 DEF IssueCertificate, MarkCertified, Postpone, RejectCertificate, Visits, TypeOK,
              ApprovedInv, Certifying
<1>10. CASE Schedule
  <2> DEFINE st == Blocked({c \in selected : status[c] = "NEEDS_CLARIFICATION"})
  <2>1. \A c \in Conjectural(snapshot) : st[c] \in Parked
    BY <1>10 DEF Blocked, Schedule, ScheduleAfter
  <2>2. Ready(st) \subseteq TargetSet
    BY <1>10, <2>1 DEF Ready, ReadyStates, GraphInv, Schedule, ScheduleAfter
  <2> HIDE DEF st
  <2>3. \A c \in Conjectural(snapshot) : status'[c] \in Parked
    BY <1>10, <2>1, <2>2 DEF Schedule, ScheduleAfter, st
  <2> QED BY <1>10, <2>2, <2>3 DEF Schedule, ScheduleAfter, st
<1>11. ASSUME NEW c \in Claims,
              MarkFormalized(c) \/ RequestClarification(c) \/ ReportUnresolved(c) \/ BatchEnds(c)
       PROVE  ParkedInv'
  <2>1. c \in TargetSet /\ pc = "prove"
    BY <1>11 DEF MarkFormalized, RequestClarification, ReportUnresolved, BatchEnds, Working,
                 BatchStates
  <2> QED BY <1>11, <2>1 DEF MarkFormalized, RequestClarification, ReportUnresolved, BatchEnds,
                             Approved, TypeOK
<1>12. CASE PolicySteps
  <2>1. \A b \in Claims :
          \/ status'[b] = status[b]
          \/ status'[b] \in {"NEEDS_CLARIFICATION", "SKIPPED_UNPROVED"}
    BY <1>12, PolicyParks
  <2>2. CASE Reconcile
    BY <2>1, <2>2 DEF Reconcile
  <2>3. ASSUME NEW c \in Claims, Policy(c) PROVE ParkedInv'
    <3>1. status'[c] \in {"NEEDS_CLARIFICATION", "SKIPPED_UNPROVED"}
      BY <2>3 DEF Policy, ApplyPolicy
    <3> QED BY <2>1, <2>3, <3>1 DEF Policy
  <2>4. ASSUME NEW c \in Claims, PolicyDies(c) PROVE ParkedInv'
    BY <2>1, <2>4 DEF PolicyDies
  <2>5. ASSUME NEW c \in Claims, NEW d \in Claims, ProposeDependency(c, d) \/ ProposalDies(c, d)
        PROVE  ParkedInv'
    BY <2>1, <2>5 DEF ProposeDependency, ProposalDies, Proposing, Working
  <2> QED BY <1>12, <2>2, <2>3, <2>4, <2>5 DEF PolicySteps
<1>13. ASSUME NEW c \in Claims, Merge(c) PROVE ParkedInv'
  BY <1>13 DEF Merge
<1>14. CASE RecordFailures
  <2>1. \A c \in Claims : status[c] # "PROVING" => status'[c] = status[c]
    BY <1>14 DEF RecordFailures
  <2> QED BY <1>14, <2>1, NewlyCertified DEF RecordFailures, MarkCertified
<1>15. CASE EndRounds \/ MergeBegins \/ MergedBuild \/ RoundEnds
  BY <1>15 DEF EndRounds, MergeBegins, MergedBuild, RoundEnds, RoundStopped
<1>16. CASE UNCHANGED vars
  BY <1>16 DEF vars
<1> QED
  BY <1>1, <1>2, <1>3, <1>4, <1>5, <1>6, <1>7, <1>8, <1>9, <1>10, <1>11, <1>12, <1>13, <1>14,
     <1>15, <1>16
  DEF PolicySteps, Next, Dies, Pass, Prepare, Certify, Prove, Command, Worker

\* Only an import takes the state CERTIFIED from a claim.
LEMMA StaysCertified ==
  ASSUME Undisturbed, IInv, ParkedInv, [Next]_vars,
         NEW c \in Claims, status[c] = "CERTIFIED", status'[c] # "CERTIFIED"
  PROVE  Import
<1> USE DEF store, claimVars, graphVars
<1>0. TypeOK /\ EvidenceInv /\ ApprovedInv /\ GraphInv
  BY DEF IInv, Data
<1>1. CASE UNCHANGED status
  BY <1>1
<1>2. CASE Recover \/ FinishRun \/ Cancel \/ Raise
  BY <1>2 DEF Recover, FinishRun, Cancel, Raise, Abort, Reset
<1>3. CASE RetryResolved
  BY <1>3 DEF RetryResolved, ParkedInv
<1>4. CASE PolicySteps
  BY <1>0, <1>4, PolicyParks DEF ParkedInv, Conjectural, Current
<1>5. CASE Preflight \/ RecordFailures \/ RoundEnds
  BY <1>5 DEF Preflight, RecordFailures, RoundEnds
<1>6. CASE Schedule
  BY <1>6 DEF Schedule, ScheduleAfter, Blocked, Ready, ReadyStates
<1>7. ASSUME NEW b \in Claims, InvalidateDiscarded(b) PROVE FALSE
  BY <1>7 DEF InvalidateDiscarded, ParkedInv
<1>8. ASSUME NEW b \in Claims, MarkCertified(b) PROVE FALSE
  <2>1. b \in Approved(corr) /\ pc \notin Outside
    BY <1>0, <1>8 DEF MarkCertified, ApprovedInv, Certifying, Outside
  <2> QED BY <1>0, <1>8, <2>1 DEF MarkCertified, ApprovedInv, TypeOK
<1>9. ASSUME NEW b \in Claims, RejectCertificate(b) PROVE FALSE
  <2>1. b = c /\ Rejected(b)
    BY <1>0, <1>9 DEF RejectCertificate, Visits, TypeOK
  <2>2. b \in Current
    BY <1>0, <1>9 DEF RejectCertificate, Visits, ApprovedInv, Certifying, ParkedInv, AfterScope,
                      ProveSteps, TargetSet
  <2> QED BY <1>0, <2>1, <2>2 DEF Rejected, EvidenceInv, EvidenceIsSound
<1>10. ASSUME NEW b \in Claims, Working(b) PROVE status[b] # "CERTIFIED"
  BY <1>0, <1>10, DistinctValues DEF Working, EvidenceInv, Decided, BatchStates
<1>11. ASSUME NEW b \in Claims,
              MarkFormalized(b) \/ RequestClarification(b) \/ ReportUnresolved(b)
       PROVE  FALSE
  BY <1>0, <1>10, <1>11 DEF MarkFormalized, RequestClarification, ReportUnresolved, TypeOK
<1>13. ASSUME NEW b \in Claims, ApproveCorrespondence(b) \/ RejectCorrespondence(b) PROVE FALSE
  BY <1>13 DEF ApproveCorrespondence, RejectCorrespondence, Undisturbed
<1> QED
  BY <1>1, <1>2, <1>3, <1>4, <1>5, <1>6, <1>7, <1>8, <1>9, <1>11, <1>13, StateWriters

\* What an import leaves certified it has not found affected.
LEMMA ImportLeaves ==
  ASSUME TypeOK, NEW new \in Manuscripts, ImportAs(new), NEW c \in In(new), status'[c] = "CERTIFIED"
  PROVE  /\ c \in Current /\ status[c] = "CERTIFIED" /\ c \notin Changed(snapshot, new)
         /\ \A e \in edges \cup References(new) : e[1] = c =>
              /\ status[e[2]] = "CERTIFIED" => status'[e[2]] = "CERTIFIED"
              /\ e[2] \notin Changed(snapshot, new)
<1> DEFINE rediscovered == {e[1] : e \in {f \in edges : f[3] = "semantic"}}
                           \cap Rediscover(snapshot, new)
           direct == Changed(snapshot, new) \cup rediscovered
           kept == {e \in edges : /\ e[3] = "semantic" /\ e[1] \notin rediscovered
                                  /\ e[1] \in In(new) /\ e[2] \in In(new)}
           graph == edges \cup kept \cup References(new)
           source == direct \cup Deleted(snapshot, new)
           affected == Affected(source, graph)
<1>1. /\ snapshot' = new
      /\ status' = [b \in Claims |-> IF b \notin In(new) THEN status[b]
                                     ELSE IF b \in direct THEN "DIRTY_SOURCE"
                                     ELSE IF b \in affected THEN "INVALIDATED"
                                     ELSE status[b]]
  BY DEF ImportAs
<1>2. c \in Claims /\ c \notin direct /\ c \notin affected
  BY <1>1 DEF In
<1>3. source \subseteq Claims /\ source \subseteq affected
  <2>1. source \subseteq Claims
    BY DEF Changed, Deleted, Rediscover, In
  <2> QED BY <2>1, ClosureContains DEF Affected
<1>4. ASSUME NEW e \in edges \cup References(new), e[1] = c PROVE e[2] \in Claims \ affected
  <2>1. e \in graph /\ e[1] \in Claims /\ e[2] \in Claims
    BY DEF TypeOK, Edges, References, In
  <2> DEFINE r == <<e[2], e[1], e[3]>>
  <2>2. r \in Reversed(graph) /\ r[1] = e[2] /\ r[2] = e[1]
    BY <2>1 DEF Reversed
  <2>3. e[2] \in affected => e[1] \in affected
    BY <2>1, <2>2, ClosureClosed DEF Affected
  <2> QED BY <1>2, <1>4, <2>1, <2>3
<1>5. c \in Current /\ status[c] = "CERTIFIED"
  BY ImportKeeps
<1> HIDE DEF affected, direct, source
<1>6. direct \subseteq source /\ Changed(snapshot, new) \subseteq source
  BY DEF source, direct
<1>7. \A b \in Claims \ affected : status'[b] = status[b] /\ b \notin Changed(snapshot, new)
  BY <1>1, <1>3, <1>6
<1> QED BY <1>2, <1>4, <1>5, <1>7

\* The steps that change the snapshot or the graph, ...
LEMMA GraphWriters ==
  ASSUME [Next]_vars
  PROVE  \/ UNCHANGED <<snapshot, edges>>
         \/ Import \/ ReplaceEdges \/ \E c, d \in Claims : ProposeDependency(c, d) \/ ProposalDies(c, d)
BY DEF PolicyBegins, Policy, PolicyFails, PolicyDies, Reconcile, Dies, Next, Dies, Pass, Prepare, Certify, Prove, Command, Worker, vars, store, graphVars,
   Recover, BeginRun, Scope, Supersede, DiscardCertificate, InvalidateDiscarded, Baseline,
   SweepAgain, Preflight, IssueCertificate, MarkCertified, Postpone, RejectCertificate, Schedule,
   ScheduleAfter, EndRounds, MarkFormalized, RequestClarification, ReportUnresolved, BatchEnds,
   MergeBegins, Merge, RecordFailures, MergedBuild, RoundEnds, FinishRun, Cancel, Raise,
   ApproveCorrespondence, RejectCorrespondence, ResolveQuestion, RetryResolved, Crash

\* ... and those of the certification loop.
LEMMA CertifyingSteps ==
  ASSUME EvidenceInv, [Next]_vars, pc' \in Certifying
  PROVE  \/ issued' = {}
         \/ UNCHANGED <<pc, corr, issued>> /\ todo' \subseteq todo
         \/ \E c \in Claims : IssueCertificate(c)
<1> USE DEF Certifying, store, claimVars, loopVars
<1>1. CASE Recover \/ BeginRun \/ Import \/ ReplaceEdges \/ PolicyBegins \/ Scope \/ Preflight \/ Schedule \/ EndRounds
           \/ MergeBegins \/ RecordFailures \/ RoundEnds \/ FinishRun \/ Cancel \/ Raise
           \/ RetryResolved \/ Crash \/ Reconcile
  BY <1>1 DEF PolicyBegins, Reconcile, Recover, BeginRun, Import, ImportAs, ReplaceEdges, Scope, Preflight, Schedule,
     ScheduleAfter, EndRounds, MergeBegins, RecordFailures, RoundEnds, FinishRun, Cancel, Raise,
     Abort, RetryResolved, Crash
<1>2. CASE Baseline \/ SweepAgain \/ MergedBuild
  BY <1>2 DEF Baseline, SweepAgain, MergedBuild, EvidenceInv
<1>3. ASSUME NEW c \in Claims,
             \/ Supersede(c) \/ DiscardCertificate(c) \/ InvalidateDiscarded(c)
             \/ MarkFormalized(c) \/ RequestClarification(c) \/ ReportUnresolved(c)
             \/ BatchEnds(c) \/ Merge(c) \/ \E d \in Claims : ProposeDependency(c, d) \/ ProposalDies(c, d)
             \/ Policy(c) \/ PolicyFails(c) \/ PolicyDies(c)
             \/ ApproveCorrespondence(c) \/ RejectCorrespondence(c) \/ ResolveQuestion(c)
      PROVE  FALSE
  BY <1>3 DEF ProposalDies, Proposing, Policy, PolicyFails, PolicyDies, Abort, Supersede, DiscardCertificate, InvalidateDiscarded, MarkFormalized,
     RequestClarification, ReportUnresolved, BatchEnds, Merge, ProposeDependency, Working,
     ApproveCorrespondence, RejectCorrespondence, ResolveQuestion
<1>4. ASSUME NEW c \in Claims, MarkCertified(c) \/ Postpone(c) \/ RejectCertificate(c)
      PROVE  UNCHANGED <<pc, corr, issued>> /\ todo' \subseteq todo
  BY <1>4 DEF MarkCertified, Postpone, RejectCertificate
<1>5. CASE UNCHANGED vars
  BY <1>5 DEF vars
<1> QED BY <1>1, <1>2, <1>3, <1>4, <1>5 DEF Next, Dies, Pass, Prepare, Certify, Prove, Command, Worker

LEMMA LoopStep ==
  ASSUME Undisturbed
  PROVE  IInv /\ IInv' /\ ParkedInv /\ LoopInv /\ [Next]_vars => LoopInv'
<1> SUFFICES ASSUME IInv, IInv', ParkedInv, LoopInv, [Next]_vars, pc' \in Certifying,
                    NEW c \in todo' \cap issued'
             PROVE  (Unsatisfied(c) = {} \/ IsCounterexample(c))'
  BY DEF LoopInv
<1>1. TypeOK /\ EvidenceInv /\ EvidenceInv' /\ TypeOK'
  BY DEF IInv, Data
<1>2. UNCHANGED <<snapshot, edges>> /\ ~Import
  <2>1. ~Import /\ ~ReplaceEdges
    BY DEF Import, ImportAs, ReplaceEdges, Certifying
  <2>2. \A a, d \in Claims : ~(ProposeDependency(a, d) \/ ProposalDies(a, d))
    BY DEF ProposeDependency, ProposalDies, Proposing, Working, Certifying
  <2> QED BY <2>1, <2>2, GraphWriters
<1>3. \A d \in Claims : status[d] = "CERTIFIED" => status'[d] = "CERTIFIED"
  BY <1>2, StaysCertified
<1>4. Unsatisfied(c) = {} => Unsatisfied(c)' = {}
  <2>1. \A e \in edges : e[2] \in Claims
    BY <1>1 DEF TypeOK, Edges
  <2> QED BY <1>2, <1>3, <2>1 DEF Unsatisfied, Dependencies
<1>5. CASE UNCHANGED <<pc, corr, issued>> /\ todo' \subseteq todo
  BY <1>4, <1>5 DEF IsCounterexample, LoopInv
<1>6. ASSUME NEW b \in Claims, IssueCertificate(b)
      PROVE  Unsatisfied(c) = {} \/ IsCounterexample(c)'
  BY <1>6 DEF IssueCertificate, IsCounterexample, Visits, LoopInv, store, claimVars
<1> QED BY <1>1, <1>4, <1>5, <1>6, CertifyingSteps

\* The inductive invariant of a project the author only edits.
LEMMA ParkedInductive ==
  ASSUME Undisturbed
  PROVE  Spec => [](IInv /\ ParkedInv)
<1>1. Init => NeverApproved /\ ParkedInv
  BY DEF Init, NeverApproved, ParkedInv, AfterScope, ProveSteps, Current, In
<1>2. "approve" \notin Commands
  BY DEF Undisturbed
<1>3. IInv => Data
  BY DEF IInv
<1> QED BY <1>1, <1>2, <1>3, NeverApprovedStep, ParkedStep, Inductive, PTL DEF Spec

LEMMA NewlyUncertified ==
  ASSUME Undisturbed, IInv, ParkedInv, LoopInv, [Next]_vars,
         NEW c \in Current', status'[c] = "CERTIFIED", NEW d \in Unsatisfied(c)'
  PROVE  \/ status[c] = "CERTIFIED" /\ d \in Unsatisfied(c)
         \/ d \in Claims /\ <<c, d, "explicit_ref">> \in edges' \ edges
<1>0. TypeOK /\ GraphInv /\ EvidenceInv /\ ApprovedInv /\ c \in Claims
  BY DEF IInv, Data, Current, In
<1>1. PICK e \in edges' : e[1] = c /\ e[2] = d
  BY DEF Unsatisfied, Dependencies
<1>2. status'[d] # "CERTIFIED"
  BY DEF Unsatisfied
<1>3. CASE Import
  <2>1. PICK new \in Manuscripts : ImportAs(new)
    BY <1>3 DEF Import
  <2>2. e \in edges /\ c \in In(new)
    BY <1>1, <2>1 DEF ImportAs, Current
  <2>3. status[c] = "CERTIFIED" /\ status[d] # "CERTIFIED"
    BY <1>0, <1>1, <1>2, <2>1, <2>2, ImportLeaves
  <2> QED BY <1>1, <2>2, <2>3 DEF Unsatisfied, Dependencies
<1>4. CASE ~Import
  <2>1. \A b \in Claims : status[b] = "CERTIFIED" => status'[b] = "CERTIFIED"
    BY <1>4, StaysCertified
  <2>2. e \in edges => d \in Claims /\ d \in Unsatisfied(c)
    BY <1>0, <1>1, <1>2, <2>1 DEF TypeOK, Edges, Unsatisfied, Dependencies
  <2>3. CASE status[c] # "CERTIFIED"
    <3>1. MarkCertified(c) /\ ~IsCounterexample(c)
      BY <1>0, <2>3, NewlyCertified
    <3>2. Unsatisfied(c) = {} /\ edges' = edges
      BY <3>1 DEF MarkCertified, LoopInv, Certifying, graphVars
    <3> QED BY <1>1, <2>2, <3>2
  <2>4. CASE status[c] = "CERTIFIED" /\ ReplaceEdges
    <3>1. edges' \subseteq edges \cup References(snapshot)
      BY <1>0, <2>4 DEF ReplaceEdges, GraphInv
    <3>2. CASE e \in References(snapshot) \ edges
      <4>1. e = <<c, d, "explicit_ref">> /\ d \in Claims
        BY <1>1, <3>2 DEF References, In
      <4> QED BY <1>1, <3>2, <4>1
    <3> QED BY <1>1, <2>2, <2>4, <3>1, <3>2
  <2>5. ASSUME status[c] = "CERTIFIED", NEW a \in Claims, NEW b \in Claims,
               ProposeDependency(a, b) \/ ProposalDies(a, b)
        PROVE  e \in edges
    <3>1. status[a] # "CERTIFIED"
      BY <1>0, <2>5, DistinctValues
      DEF ProposeDependency, ProposalDies, Proposing, Working, EvidenceInv, Decided, BatchStates
    <3> QED BY <1>1, <2>5, <3>1 DEF ProposeDependency, ProposalDies, Proposing, Proposed
  <2> QED BY <1>1, <1>4, <2>2, <2>3, <2>4, <2>5, GraphWriters
<1> QED BY <1>3, <1>4

\* Where the author only edits, a CERTIFIED claim comes to depend on an uncertified
\* one in one way only, by a reference that the manuscript has gained since
\* (_import: a proof that gains a reference is no change of the claim): whatever the
\* edit changes, all that reaches it in the old or the new graph is invalidated
\* before the graph is replaced, workers add dependencies to claims in proof, and
\* nothing is certified before what it depends on.
THEOREM CertifiedDependsOnCertified ==
  ASSUME Undisturbed
  PROVE  Spec => OnlyNewReferencesUncertified
<1>1. Init => LoopInv
  BY DEF Init, LoopInv, Certifying
<1>2. IInv /\ ParkedInv /\ LoopInv /\ [Next]_vars =>
        [\A c \in Current' : status'[c] = "CERTIFIED" =>
           Unsatisfied(c)' \subseteq (IF status[c] = "CERTIFIED" THEN Unsatisfied(c) ELSE {})
                                   \cup {d \in Claims : <<c, d, "explicit_ref">> \in edges' \ edges}]_vars
  BY NewlyUncertified
<1> QED BY <1>1, <1>2, LoopStep, Inductive, ParkedInductive, PTL DEF Spec, OnlyNewReferencesUncertified

LEMMA UnaffectedStep ==
  ASSUME Undisturbed, IInv, ParkedInv, [Next]_vars,
         NEW c \in Current, status[c] = "CERTIFIED", status'[c] # "CERTIFIED"
  PROVE  \E d \in {c} \cup Below(c, edges \cup References(snapshot')) : snapshot'[d] # snapshot[d]
<1>1. PICK new \in Manuscripts : ImportAs(new)
  BY StaysCertified DEF Import, Current, In
<1> DEFINE rediscovered == {e[1] : e \in {f \in edges : f[3] = "semantic"}}
                           \cap Rediscover(snapshot, new)
           direct == Changed(snapshot, new) \cup rediscovered
           kept == {e \in edges : /\ e[3] = "semantic" /\ e[1] \notin rediscovered
                                  /\ e[1] \in In(new) /\ e[2] \in In(new)}
           graph == edges \cup References(new)
           source == direct \cup Deleted(snapshot, new)
           affected == Affected(source, graph)
<1>2. snapshot' = new /\ edges \cup kept \cup References(new) = graph
  BY <1>1 DEF ImportAs
<1>3. status' = [b \in Claims |-> IF b \notin In(new) THEN status[b]
                                  ELSE IF b \in direct THEN "DIRTY_SOURCE"
                                  ELSE IF b \in affected THEN "INVALIDATED"
                                  ELSE status[b]]
  BY <1>1, <1>2 DEF ImportAs
<1>4. source \subseteq Claims /\ \A d \in source : new[d] # snapshot[d]
  BY DEF Changed, Deleted, Rediscover, In
<1>5. graph \subseteq Edges
  BY DEF IInv, Data, TypeOK, References, Edges, EdgeKinds, In
<1>6. CASE c \notin In(new)
  BY <1>2, <1>6 DEF Current, In
<1>7. CASE c \in In(new)
  <2>1. c \in source \/ c \in affected
    BY <1>3, <1>7 DEF In
  <2>2. CASE c \in source
    BY <1>2, <1>4, <2>2
  <2>3. CASE c \in affected
    <3>1. PICK d \in {c} \cup Below(c, graph) : d \in source
      BY <1>4, <1>5, <2>3, AffectedReaches
    <3> QED BY <1>2, <1>4, <3>1
  <2> QED BY <2>1, <2>2, <2>3
<1> QED BY <1>6, <1>7

\* Unaffected branches remain certified: where the author only edits, a claim
\* ceases to be CERTIFIED in an import only, and only when the edit changes the
\* claim or something it depends on, before or after the edit.
THEOREM UnaffectedBranchesStay ==
  ASSUME Undisturbed
  PROVE  Spec => UnaffectedStayCertified
<1>1. IInv /\ ParkedInv /\ [Next]_vars =>
        [\A c \in Current : status[c] = "CERTIFIED" /\ status'[c] # "CERTIFIED" =>
           \E d \in {c} \cup Below(c, edges \cup References(snapshot')) :
             snapshot'[d] # snapshot[d]]_vars
  BY UnaffectedStep
<1> QED BY <1>1, ParkedInductive, PTL DEF Spec, UnaffectedStayCertified

-----------------------------------------------------------------------------
(* A pass is finite.  Each of its steps moves it down this order, which has *)
(* no infinite descent: the stages are ten, the rounds are bounded         *)
(* (TypeOK), a round goes through its steps once, and a loop either has     *)
(* certified another claim in an earlier sweep, or has fewer claims to      *)
(* visit, or has less to do before it leaves one.                           *)

Stage(p) ==
  CASE p = "begin" -> 9 [] p = "import" -> 8 [] p = "edges" -> 7 [] p = "supersede" -> 6
    [] p = "policy" -> 5 [] p = "reproof" -> 4 [] p = "certify_baseline" -> 3
    [] p \in {"round"} \cup ProveSteps -> 2
    [] p \in {"final", "resolving"} -> 1
    [] p = "idle" -> 0

\* Where a round is: 0 when the next one is scheduled.
StepOfRound(p) ==
  CASE p = "prove" -> 4 [] p = "merge" -> 3 [] p = "build" -> 2 [] p = "certify_round" -> 1
    [] OTHER -> 0

\* What is left before a claim leaves the loop, or the round's workers stop.
Pending ==
  CASE pc = "reproof" -> {c \in todo : cert[c] # Absent}
    [] pc = "prove" -> {c \in Claims : Working(c)}
    [] OTHER -> todo \ issued

Nearer ==
  \/ Stage(pc') < Stage(pc)
  \/ Stage(pc') = Stage(pc) /\ round < round'
  \/ Stage(pc') = Stage(pc) /\ round' = round /\ StepOfRound(pc') < StepOfRound(pc)
  \/ /\ pc' = pc /\ round' = round
     /\ \/ fresh \subseteq fresh' /\ fresh # fresh'
        \/ fresh' = fresh /\ todo' \subseteq todo /\ todo # todo'
        \/ fresh' = fresh /\ todo' = todo /\ Pending' \subseteq Pending /\ Pending # Pending'

Stays == UNCHANGED <<pc, round, fresh, todo, Pending>>

\* The loops of the preparation and the certification.
LEMMA LoopNearer ==
  ASSUME TypeOK, NEW c \in Claims,
         \/ Supersede(c) \/ Policy(c) \/ DiscardCertificate(c) \/ InvalidateDiscarded(c)
         \/ IssueCertificate(c) \/ MarkCertified(c) \/ Postpone(c) \/ RejectCertificate(c)
         \/ Merge(c)
  PROVE  Nearer
<1> USE DEF roundVars, loopVars, TypeOK
<1>1. CASE \/ Supersede(c) \/ Policy(c) \/ InvalidateDiscarded(c) \/ MarkCertified(c) \/ Postpone(c)
           \/ RejectCertificate(c) \/ Merge(c)
  <2>1. pc' = pc /\ round' = round /\ fresh' = fresh /\ c \in todo /\ todo' = todo \ {c}
    BY <1>1 DEF Supersede, Policy, InvalidateDiscarded, MarkCertified, Postpone, RejectCertificate,
                Merge, Visits
  <2> QED BY <2>1 DEF Nearer
<1>2. CASE DiscardCertificate(c)
  <2>1. pc = "reproof" /\ pc' = pc /\ round' = round /\ fresh' = fresh /\ todo' = todo
    BY <1>2 DEF DiscardCertificate
  <2>2. c \in todo /\ cert[c] # Absent /\ cert' = [cert EXCEPT ![c] = Absent]
    BY <1>2 DEF DiscardCertificate
  <2>3. c \in Pending /\ c \notin Pending' /\ Pending' \subseteq Pending
    BY <2>1, <2>2 DEF Pending
  <2> QED BY <2>1, <2>3 DEF Nearer
<1>3. CASE IssueCertificate(c)
  <2>1. /\ pc \in {"certify_baseline", "certify_round"} /\ pc' = pc /\ round' = round
        /\ fresh' = fresh /\ todo' = todo /\ issued' = issued \cup {c}
        /\ c \in todo \ issued
    BY <1>3 DEF IssueCertificate, Visits
  <2>2. c \in Pending /\ c \notin Pending' /\ Pending' \subseteq Pending
    BY <2>1 DEF Pending
  <2> QED BY <2>1, <2>2 DEF Nearer
<1> QED BY <1>1, <1>2, <1>3

\* The workers of a round stop one by one ...
LEMMA BatchNearer ==
  ASSUME TypeOK, NEW c \in Claims, BatchEnds(c)
  PROVE  Nearer
<1>1. pc = "prove" /\ pc' = pc /\ round' = round /\ fresh' = fresh /\ todo' = todo
  BY DEF BatchEnds, Working, loopVars
<1>2. PICK end \in {"sound", "empty"} \cup WorkerFaults : batch' = [batch EXCEPT ![c] = end]
  BY DEF BatchEnds
<1>3. end \notin {"running", "reported"}
  BY VerifierAssumptions
<1>4. c \in Pending /\ c \notin Pending' /\ Pending' \subseteq Pending
  BY <1>1, <1>2, <1>3 DEF Pending, Working, BatchEnds, TypeOK
<1> QED BY <1>1, <1>4 DEF Nearer

\* ... and what their tools do meanwhile takes nothing back.
LEMMA ToolsStay ==
  ASSUME TypeOK, NEW c \in Claims, Worker(c)
  PROVE  Stays
<1>1. /\ Working(c) /\ pc = "prove" /\ UNCHANGED <<pc, round, fresh, todo>>
  BY DEF Worker, MarkFormalized, RequestClarification, ReportUnresolved, ProposeDependency,
         Proposing, Working, loopVars, roundVars
<1>2. batch' = batch \/ batch' = [batch EXCEPT ![c] = "reported"]
  BY DEF Worker, MarkFormalized, RequestClarification, ReportUnresolved, ProposeDependency,
         roundVars
<1>3. \A d \in Claims : Working(d)' <=> Working(d)
  BY <1>1, <1>2 DEF Working, TypeOK
<1> QED BY <1>1, <1>3 DEF Stays, Pending

LEMMA PassNearer ==
  ASSUME TypeOK, Pass
  PROVE  Nearer
<1> USE DEF loopVars, roundVars, TypeOK
<1>1. CASE \/ BeginRun \/ Import \/ ReplaceEdges \/ PolicyBegins \/ Scope \/ Baseline \/ Preflight \/ EndRounds
           \/ FinishRun \/ RetryResolved
  <2>1. /\ pc \in {"begin", "import", "edges", "supersede", "policy", "reproof", "certify_baseline", "round", "final",
                   "resolving"}
        /\ pc' = CASE pc = "begin" -> "import" [] pc = "import" -> "edges"
                   [] pc = "edges" -> "supersede" [] pc = "supersede" -> "policy"
                   [] pc = "policy" -> "reproof" [] pc = "reproof" -> "certify_baseline"
                   [] pc = "certify_baseline" -> "round" [] pc = "round" -> "final"
                   [] OTHER -> "idle"
    BY <1>1 DEF PolicyBegins, Scope, BeginRun, Import, ImportAs, ReplaceEdges, Baseline, Preflight, EndRounds,
                FinishRun, RetryResolved
  <2>2. Stage(pc') < Stage(pc)
    BY <2>1 DEF Stage, ProveSteps
  <2> QED BY <2>2 DEF Nearer
<1>2. ASSUME NEW c \in Claims, PolicyFails(c) PROVE Nearer
  <2>1. pc = "policy" /\ pc' = "idle"
    BY <1>2 DEF PolicyFails, Abort
  <2> QED BY <2>1 DEF Nearer, Stage, ProveSteps
<1>3. CASE SweepAgain
  <2>1. pc' = pc /\ round' = round /\ fresh \subseteq fresh' /\ fresh # fresh'
    BY <1>3 DEF SweepAgain, NewlyIssued
  <2> QED BY <2>1 DEF Nearer
<1>4. CASE Schedule
  <2>1. pc = "round" /\ pc' \in {"final", "prove"} /\ round' = round + 1 /\ round \in Nat
    BY <1>4, FewClaims DEF Schedule, ScheduleAfter
  <2> QED BY <2>1 DEF Nearer, Stage, ProveSteps
<1>5. CASE MergeBegins \/ RecordFailures \/ MergedBuild \/ RoundEnds
  <2>1. /\ round' = round
        /\ \/ pc = "prove" /\ pc' = "merge"
           \/ pc = "merge" /\ pc' = "build"
           \/ pc = "build" /\ pc' \in {"certify_round", "final"}
           \/ pc = "certify_round" /\ pc' = "round"
    BY <1>5 DEF MergeBegins, RoundStopped, RecordFailures, MergedBuild, RoundEnds
  <2> QED BY <2>1 DEF Nearer, Stage, StepOfRound, ProveSteps
<1> QED
  BY <1>1, <1>2, <1>3, <1>4, <1>5, LoopNearer, BatchNearer
  DEF Pass, Prepare, Certify, Prove

\* However workers fail and whatever they report, a pass has finitely many
\* steps of its own: each brings it nearer to its end, and the workers' tools
\* never send it back (the rounds of verify_project are bounded, the sweeps of
\* certify_baseline end, every loop visits a claim once).
THEOREM PassesAreFinite ==
  Spec => [][(Pass => Nearer) /\ (\A c \in Claims : Worker(c) => Stays)]_vars
<1>1. IInv /\ [Next]_vars => [(Pass => Nearer) /\ (\A c \in Claims : Worker(c) => Stays)]_vars
  BY PassNearer, ToolsStay DEF IInv, Data
<1> QED BY <1>1, Inductive, PTL DEF Spec

================================================================================
