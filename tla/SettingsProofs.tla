--------------------------- MODULE SettingsProofs ---------------------------
(***************************************************************************)
(* What is proved of the settings, for any number of interfaces, workers,  *)
(* policies, providers, edits and faults.                                  *)
(*                                                                         *)
(* Of the AI limit (AdaptiveLimits): it is a positive number, so somebody  *)
(* can always be admitted, and nobody replaces settings that have changed  *)
(* since they were shown.                                                  *)
(*                                                                         *)
(* Of the editor of providers and role teams (ProviderSettings): a save of *)
(* the project's form replaces the team it had loaded, an answer leaves    *)
(* the project's edits alone, and the editor leaves the screen with the    *)
(* displayed form clean, discarded or saved as it was, unless it is the    *)
(* gate of a first start, which has nothing of a project to lose.          *)
(***************************************************************************)
EXTENDS AdaptiveLimits, ProviderSettings, SequenceTheorems, TLAPS

\* The larger of two numbers, as FiniteSetsExt chooses it.
LEMMA MaxOfTwo ==
  ASSUME NEW a \in Int, NEW b \in Int
  PROVE  Max({a, b}) \in {a, b} /\ Max({a, b}) >= a /\ Max({a, b}) >= b
<1>1. \E x \in {a, b} : \A y \in {a, b} : x >= y
  <2>1. CASE a >= b  BY <2>1
  <2>2. CASE b >= a  BY <2>2
  <2> QED  BY <2>1, <2>2
<1> QED  BY <1>1, Zenon DEF Max

\* The smaller of two numbers.
LEMMA MinOfTwo ==
  ASSUME NEW a \in Int, NEW b \in Int
  PROVE  Min({a, b}) \in {a, b}
<1>1. \E x \in {a, b} : \A y \in {a, b} : x <= y
  <2>1. CASE a <= b  BY <2>1
  <2>2. CASE b <= a  BY <2>2
  <2> QED  BY <2>1, <2>2
<1> QED  BY <1>1, Zenon DEF Min

\* Both stay where their arguments are.
LEMMA SmallerNat ==
  ASSUME NEW a \in Nat, NEW b \in Nat
  PROVE  Min({a, b}) \in Nat
BY MinOfTwo

LEMMA LargerWithin ==
  ASSUME NEW n \in Nat, NEW a \in 0..n, NEW b \in 0..n
  PROVE  Max({a, b}) \in 0..n
<1>1. Max({a, b}) \in {a, b}
  BY MaxOfTwo
<1> QED  BY <1>1

LEMMA Decreased ==
  ASSUME NEW n \in Nat, NEW a \in 0..n
  PROVE  Max({a - 1, 0}) \in 0..n
<1>1. /\ Max({a - 1, 0}) \in {a - 1, 0}
      /\ Max({a - 1, 0}) >= 0
  BY MaxOfTwo
<1> QED  BY <1>1

LEMMA LargerThanFirst ==
  ASSUME NEW a \in Nat \ {0}, NEW b \in Int
  PROVE  Max({a, b}) \in Nat \ {0}
<1>1. Max({a, b}) \in {a, b} /\ Max({a, b}) >= a
  BY MaxOfTwo
<1> QED  BY <1>1

-----------------------------------------------------------------------------
\* A client that is about to publish, restart or record has a runtime.
HasRuntime ==
  /\ \A i \in Interfaces : stage[i] \in {"publish", "sync", "clear", "restart"}
                             => runtime[i] \in Settings
  /\ \A w \in Workers : pc[w] # "idle" => policy[w] \in Policies

LimitInv == TypeOK /\ HasRuntime

\* What an interface has read is old, or it is what the file holds.
Read(known) ==
  known # None =>
    /\ known \in Settings /\ known.revision <= file.revision
    /\ known.revision = file.revision => known.policy = file.policy

ReadInv == \A i \in Interfaces : Read(runtime[i]) /\ Read(form[i])

LEMMA InitLimit == Init => LimitInv
BY LimitsAssumption
   DEF Init, LimitInv, TypeOK, HasRuntime, NoEvidence, Settings

LEMMA StepLimit == LimitInv /\ [Next]_vars => LimitInv'
<1> SUFFICES ASSUME LimitInv, [Next]_vars  PROVE LimitInv'
  OBVIOUS
<1> USE LimitsAssumption DEF LimitInv, TypeOK, HasRuntime, Settings, store,
                             interface, worker
<1>1. ASSUME NEW i \in Interfaces, Look(i)  PROVE LimitInv'
  BY <1>1 DEF Look
<1>2. ASSUME NEW i \in Interfaces, Publish(i)  PROVE LimitInv'
  BY <1>2 DEF Publish, Sync
<1>3. ASSUME NEW i \in Interfaces, Show(i)  PROVE LimitInv'
  BY <1>3 DEF Show
<1>4. ASSUME NEW i \in Interfaces, Apply(i)  PROVE LimitInv'
  BY <1>4 DEF Apply
<1>5. ASSUME NEW i \in Interfaces, Reload(i)  PROVE LimitInv'
  BY <1>5 DEF Reload
<1>6. ASSUME NEW i \in Interfaces, ResetHistory(i)  PROVE LimitInv'
  BY <1>6 DEF ResetHistory
<1>7. ASSUME NEW i \in Interfaces, ClearHistory(i)  PROVE LimitInv'
  BY <1>7 DEF ClearHistory, NoEvidence
<1>8. ASSUME NEW i \in Interfaces, RestartLimit(i)  PROVE LimitInv'
  BY <1>8 DEF RestartLimit
<1>9. ASSUME NEW i \in Interfaces, InterfaceDies(i)  PROVE LimitInv'
  BY <1>9 DEF InterfaceDies
<1>10. ASSUME NEW w \in Workers, BeginTurn(w)  PROVE LimitInv'
  BY <1>10 DEF BeginTurn
<1>11. ASSUME NEW w \in Workers, PublishTurn(w)  PROVE LimitInv'
  BY <1>11 DEF PublishTurn, Goto, Sync
<1>12. ASSUME NEW w \in Workers, NEW queued \in BOOLEAN, Admit(w, queued)
       PROVE LimitInv'
  BY <1>12 DEF Admit, Goto
<1>13. ASSUME NEW w \in Workers, Succeed(w)  PROVE LimitInv'
  BY <1>13 DEF Succeed, Goto
<1>14. ASSUME NEW w \in Workers, Fail(w)  PROVE LimitInv'
  BY <1>14, SMTT(30) DEF Fail, Goto
<1>15. ASSUME NEW w \in Workers, RecordSuccess(w)  PROVE LimitInv'
  <2> DEFINE next == Min({evidence.stable + 1, Threshold})
  <2>1. evidence.stable + 1 \in Nat /\ Threshold \in Nat
    OBVIOUS
  <2>2. next \in Nat
    BY ONLY <2>1, SmallerNat
  <2> HIDE DEF next
  <2>3. evidence' = [evidence EXCEPT
          !.failures = IF evidence.backoff = 0 THEN 0 ELSE evidence.failures,
          !.stable = IF Due(w) THEN 0 ELSE next,
          !.rest = IF Due(w) THEN Cooldown ELSE evidence.rest]
    BY <1>15 DEF RecordSuccess, next
  <2>4. evidence' \in [stable : Nat, failures : Nat, backoff : 0..MaxDelay,
                       rest : 0..Cooldown]
    <3>1. /\ evidence.backoff \in 0..MaxDelay /\ evidence.rest \in 0..Cooldown
          /\ evidence.failures \in Nat /\ Cooldown \in 0..Cooldown
      OBVIOUS
    <3>2. CASE Due(w)
      BY <2>2, <2>3, <3>1, <3>2
    <3>3. CASE ~Due(w)
      BY <2>2, <2>3, <3>1, <3>3
    <3> QED  BY <3>2, <3>3
  <2>5. PICK there \in {"idle", "check"} : Goto(w, there, 0)
    BY <1>15 DEF RecordSuccess
  <2>6. UNCHANGED <<file, marker, limit, runtime, form, stage, faults>>
    BY <1>15 DEF RecordSuccess
  <2>7. pc[w] # "idle"
    BY <1>15 DEF RecordSuccess
  <2> QED  BY <2>4, <2>5, <2>6, <2>7 DEF Goto
<1>16. ASSUME NEW w \in Workers, CheckCeiling(w)  PROVE LimitInv'
  BY <1>16 DEF CheckCeiling, Goto
<1>17. ASSUME NEW w \in Workers, RecordThrottle(w)  PROVE LimitInv'
  <2>1. PICK delay \in 0..MaxDelay :
          evidence' = [evidence EXCEPT !.stable = 0,
                         !.backoff = Max({evidence.backoff, delay})]
    BY <1>17 DEF RecordThrottle
  <2> DEFINE later == Max({evidence.backoff, delay})
  <2>2. evidence.backoff \in 0..MaxDelay /\ delay \in 0..MaxDelay /\ MaxDelay \in Nat
    OBVIOUS
  <2>3. later \in 0..MaxDelay
    BY ONLY <2>2, LargerWithin
  <2> HIDE DEF later
  <2>4. evidence' = [evidence EXCEPT !.stable = 0, !.backoff = later]
    BY <2>1 DEF later
  <2> QED  BY <1>17, <2>3, <2>4 DEF RecordThrottle, Goto
<1>18. ASSUME NEW w \in Workers, RecordTransient(w)  PROVE LimitInv'
  <2>1. PICK delay \in 1..MaxDelay :
          evidence' = [evidence EXCEPT !.stable = 0,
                         !.failures = evidence.failures + 1,
                         !.backoff = Max({evidence.backoff, delay})]
    BY <1>18 DEF RecordTransient
  <2> DEFINE later == Max({evidence.backoff, delay})
  <2>2. evidence.backoff \in 0..MaxDelay /\ delay \in 0..MaxDelay /\ MaxDelay \in Nat
    OBVIOUS
  <2>3. later \in 0..MaxDelay
    BY ONLY <2>2, LargerWithin
  <2> HIDE DEF later
  <2>4. evidence' = [evidence EXCEPT !.stable = 0,
                       !.failures = evidence.failures + 1, !.backoff = later]
    BY <2>1 DEF later
  <2>5. evidence' \in [stable : Nat, failures : Nat, backoff : 0..MaxDelay,
                       rest : 0..Cooldown]
    <3>1. evidence.rest \in 0..Cooldown /\ evidence.failures + 1 \in Nat
      OBVIOUS
    <3> QED  BY <2>3, <2>4, <3>1
  <2>6. PICK there \in {"idle", "lower"} : Goto(w, there, 0)
    BY <1>18 DEF RecordTransient
  <2>7. UNCHANGED <<file, marker, limit, runtime, form, stage, faults>>
    BY <1>18 DEF RecordTransient
  <2>8. pc[w] # "idle"
    BY <1>18 DEF RecordTransient
  <2> QED  BY <2>5, <2>6, <2>7, <2>8 DEF Goto
<1>19. ASSUME NEW w \in Workers, ReadLimit(w)  PROVE LimitInv'
  BY <1>19 DEF ReadLimit, Goto
<1>20. ASSUME NEW w \in Workers, WriteLimit(w)  PROVE LimitInv'
  <2>1. policy[w] \in Policies /\ policy[w].minimum \in Nat \ {0}
    BY <1>20 DEF WriteLimit
  <2>2. read[w] \in Nat /\ read[w] - 1 \in Int /\ read[w] \div 2 \in Int
    OBVIOUS
  <2>3. limit' \in Nat \ {0}
    <3>1. CASE limit' = read[w] + 1
      BY <2>2, <3>1
    <3>2. CASE limit' = Max({policy[w].minimum, read[w] \div 2})
      BY ONLY <2>1, <2>2, <3>2, LargerThanFirst
    <3>3. CASE limit' = Max({policy[w].minimum, read[w] - 1})
      BY ONLY <2>1, <2>2, <3>3, LargerThanFirst
    <3> QED  BY <1>20, <3>1, <3>2, <3>3 DEF WriteLimit
  <2> QED  BY <1>20, <2>3 DEF WriteLimit, Goto
<1>21. ASSUME Tick  PROVE LimitInv'
  <2> DEFINE less == Max({evidence.backoff - 1, 0})
             cooler == Max({evidence.rest - 1, 0})
  <2>1. /\ evidence.backoff \in 0..MaxDelay /\ MaxDelay \in Nat
        /\ evidence.rest \in 0..Cooldown /\ Cooldown \in Nat
    OBVIOUS
  <2>2. less \in 0..MaxDelay /\ cooler \in 0..Cooldown
    BY ONLY <2>1, Decreased
  <2> HIDE DEF less, cooler
  <2>3. evidence' = [evidence EXCEPT !.backoff = less, !.rest = cooler]
    BY <1>21 DEF Tick, less, cooler
  <2>4. evidence' \in [stable : Nat, failures : Nat, backoff : 0..MaxDelay,
                       rest : 0..Cooldown]
    BY <2>2, <2>3
  <2> QED  BY <1>21, <2>4 DEF Tick
<1>22. CASE UNCHANGED vars
  BY <1>22 DEF vars
<1> HIDE DEF LimitInv, TypeOK, HasRuntime, Settings
<1> QED
  BY <1>1, <1>2, <1>3, <1>4, <1>5, <1>6, <1>7, <1>8, <1>9, <1>10, <1>11,
     <1>12, <1>13, <1>14, <1>15, <1>16, <1>17, <1>18, <1>19, <1>20, <1>21,
     <1>22 DEF Next, Interface, Worker, Record

\* The limit of the AI resource stays a positive number, whatever is published,
\* halved, lowered or restarted by whom: admission never closes for good.
THEOREM LimitStaysPositive == Spec => []TypeOK
<1>1. Spec => []LimitInv
  BY InitLimit, StepLimit, PTL DEF Spec
<1>2. LimitInv => TypeOK
  BY DEF LimitInv
<1> QED  BY <1>1, <1>2, PTL

-----------------------------------------------------------------------------
LEMMA InitRead == Init => ReadInv
BY LimitsAssumption DEF Init, ReadInv, Read

LEMMA StepRead == LimitInv /\ ReadInv /\ [Next]_vars => ReadInv'
<1> SUFFICES ASSUME LimitInv, ReadInv, [Next]_vars  PROVE ReadInv'
  OBVIOUS
<1> USE LimitsAssumption DEF LimitInv, TypeOK, ReadInv, Read, Settings
<1>1. ASSUME NEW i \in Interfaces, Look(i) \/ Reload(i) \/ ResetHistory(i)
      PROVE ReadInv'
  BY <1>1 DEF Look, Reload, ResetHistory
<1>2. ASSUME NEW i \in Interfaces, Show(i)  PROVE ReadInv'
  BY <1>2 DEF Show
<1>3. ASSUME NEW i \in Interfaces, Apply(i)  PROVE ReadInv'
  BY <1>3 DEF Apply
<1>4. ASSUME NEW i \in Interfaces, InterfaceDies(i)  PROVE ReadInv'
  BY <1>4 DEF InterfaceDies
<1>5. CASE UNCHANGED <<file, runtime, form>>
  BY <1>5
<1>6. ASSUME NEW i \in Interfaces,
             Publish(i) \/ ClearHistory(i) \/ RestartLimit(i)
      PROVE UNCHANGED <<file, runtime, form>>
  BY <1>6 DEF Publish, ClearHistory, RestartLimit
<1>7. ASSUME NEW w \in Workers, Worker(w)
      PROVE UNCHANGED <<file, runtime, form>>
  BY <1>7 DEF Worker, BeginTurn, PublishTurn, Admit, Succeed, Fail, Record,
              RecordSuccess, CheckCeiling, RecordThrottle, RecordTransient,
              ReadLimit, WriteLimit, interface
<1>8. ASSUME Tick \/ UNCHANGED vars  PROVE UNCHANGED <<file, runtime, form>>
  BY <1>8 DEF Tick, vars, interface
<1> QED
  BY <1>1, <1>2, <1>3, <1>4, <1>5, <1>6, <1>7, <1>8 DEF Next, Interface

\* MachineConfigStore.save: settings are replaced only by an interface that was
\* showing exactly the settings it replaces.
THEOREM SettingsKept == Spec => SettingsNotOverwritten
<1>1. LimitInv /\ ReadInv /\ [Next]_vars =>
        [file' # file =>
           \E i \in Interfaces : stage'[i] = "load" /\ form[i] = file]_vars
  <2> SUFFICES ASSUME LimitInv, ReadInv, Next, file' # file
               PROVE  \E i \in Interfaces : stage'[i] = "load" /\ form[i] = file
    OBVIOUS
  <2>1. PICK i \in Interfaces : Apply(i)
    BY DEF Next, Interface, Look, Publish, Show, Reload, ResetHistory,
           ClearHistory, RestartLimit, InterfaceDies, Worker, BeginTurn,
           PublishTurn, Admit, Succeed, Fail, Record, RecordSuccess,
           CheckCeiling, RecordThrottle, RecordTransient, ReadLimit,
           WriteLimit, Tick
  <2>2. form[i] \in Settings /\ file \in Settings
    BY <2>1 DEF Apply, LimitInv, TypeOK, ReadInv, Read
  <2>3. form[i].revision = file.revision /\ form[i].policy = file.policy
    BY <2>1 DEF Apply, ReadInv, Read
  <2>4. form[i] = file
    BY <2>2, <2>3 DEF Settings
  <2>5. stage'[i] = "load"
    BY <2>1 DEF Apply, LimitInv, TypeOK
  <2> QED  BY <2>4, <2>5
<1>2. Spec => [](LimitInv /\ ReadInv)
  BY InitLimit, StepLimit, InitRead, StepRead, PTL DEF Spec
<1> QED  BY <1>1, <1>2, PTL DEF Spec, SettingsNotOverwritten

-----------------------------------------------------------------------------
(* The editor of providers and role teams.                                 *)
(*                                                                         *)
(* The three properties rest on what the forms, the saves on their way and *)
(* the dialogs have to do with each other (Sound): a dialog is about       *)
(* something that was read, a form with edits awaits no reading that would *)
(* replace them, a save remembers the form it was taken from, and whatever *)
(* is known of a revision of the project's file is true as long as the     *)
(* file has that revision. Every operator on the editor keeps it.          *)

Raised == [kind |-> "install"]

\* What a dialog asks about is there.
Grounded(e, q) ==
  /\ q.kind = "reset" => e.project.loaded # Absent
  /\ q.kind = "install" => e.install # Absent /\ e.install.phase = "reviewed"
  /\ q.kind = "unsaved" => IF q.scope = "project" THEN e.project.loaded # Absent
                           ELSE e.snap # Absent

\* At most two dialogs are open: only the plan of an installation opens above another.
Questioned(e) ==
  \/ e.dialogs = <<>>
  \/ \E q \in Questions : e.dialogs = <<q>> /\ Grounded(e, q)
  \/ \E q \in Questions : /\ e.dialogs = <<Raised, q>> /\ q # Raised
                          /\ Grounded(e, Raised) /\ Grounded(e, q)

\* No reading is on its way that would replace the project's edits.
Undisturbed(e) == ProjectDirty(e) => "project" \notin e.asked

\* A save remembers the form it was taken from, unless the user has turned to
\* another provider since.
Signed(e) ==
  /\ e.saving.machine # Absent =>
       e.saving.machine.signature \in
         {<<>>, <<e.saving.machine.team.driver, e.saving.machine.team>>}
  /\ e.saving.project # Absent =>
       e.saving.project.signature =
         <<e.saving.project.team.driver, e.saving.project.team>>

\* The team of a revision is the file's while it has that revision.
Knows(p, rev, team) == rev <= p.rev /\ (rev = p.rev => team = p.team)

\* What the form has loaded, what a save replaces and what it has written.
Informed(e, p) ==
  /\ e.project.loaded # Absent =>
       Knows(p, e.project.loaded.rev, e.project.loaded.override)
  /\ e.saving.project # Absent =>
       IF e.saving.project.phase = "sent"
       THEN Knows(p, e.saving.project.expected, e.saving.project.replaces)
       ELSE Knows(p, e.saving.project.expected + 1, e.saving.project.team)
  /\ e.saving.reset # Absent =>
       IF e.saving.reset.phase = "sent" THEN e.saving.reset.expected <= p.rev
       ELSE Knows(p, e.saving.reset.expected + 1, Absent)

ProjectFiles == [rev : 0 .. MaxRevisions, team : Team \cup {Absent}]

Sound(e, p) == /\ e \in Editors /\ p \in ProjectFiles
               /\ Questioned(e) /\ Undisturbed(e) /\ Signed(e) /\ Informed(e, p)

EditorInv == EditorTypeOK /\ Sound(editor, disk.project)

\* A team is a provider and one of its picks.
LEMMA Teams ==
  ASSUME NEW t
  PROVE  t \in Team <=> /\ t.driver \in Drivers /\ t.pick \in Offers[t.driver]
                        /\ t = [driver |-> t.driver, pick |-> t.pick]
BY DEF Team

LEMMA RecommendedIsATeam ==
  ASSUME NEW d \in Drivers
  PROVE  RecommendedTeam(d) \in Team /\ RecommendedTeam(d).driver = d
BY EditorAssumption, Teams DEF RecommendedTeam

\* What a thread reads has the types of what the forms hold.
LEMMA Readings ==
  ASSUME disk \in Disks, installed \subseteq Drivers
  PROVE  /\ SnapshotNow \in Snapshot /\ LoadedNow \in Loaded
         /\ disk.project \in ProjectFiles
         /\ LoadedNow.rev = disk.project.rev /\ LoadedNow.override = disk.project.team
BY Teams DEF Disks, SnapshotNow, LoadedNow, Snapshot, Loaded, ProjectFiles

-----------------------------------------------------------------------------
(* The operators on the editor.                                            *)

\* An editor with the same dialogs, saves and installation is as sound, where what
\* the dialogs are about is still there and its project's form is no worse.
LEMMA AsSound ==
  ASSUME NEW e, NEW p, Sound(e, p), NEW f \in Editors,
         f.dialogs = e.dialogs, f.install = e.install, f.saving = e.saving,
         e.snap # Absent => f.snap # Absent,
         e.project.loaded # Absent => f.project.loaded # Absent,
         f.project.loaded # Absent =>
           Knows(p, f.project.loaded.rev, f.project.loaded.override),
         Undisturbed(f)
  PROVE  Sound(f, p)
<1>1. Questioned(f)
  BY DEF Sound, Questioned, Grounded
<1>2. Signed(f) /\ Informed(f, p)
  BY DEF Sound, Signed, Informed
<1> QED
  BY <1>1, <1>2 DEF Sound

\* In particular where its project's form is the same and no reading was asked for.
LEMMA AsSoundToo ==
  ASSUME NEW e, NEW p, Sound(e, p), NEW f \in Editors,
         f.dialogs = e.dialogs, f.install = e.install, f.saving = e.saving,
         e.snap # Absent => f.snap # Absent, f.project = e.project,
         "project" \in f.asked => "project" \in e.asked \/ ~ProjectDirty(e)
  PROVE  Sound(f, p)
<1>1. Undisturbed(f)
  BY DEF Sound, Undisturbed, ProjectDirty
<1>2. f.project.loaded # Absent =>
        Knows(p, f.project.loaded.rev, f.project.loaded.override)
  BY DEF Sound, Informed
<1> QED
  BY <1>1, <1>2, AsSound

LEMMA AskKeeps ==
  ASSUME NEW e, NEW p, Sound(e, p), NEW r \in Reads,
         r = "project" => ~ProjectDirty(e)
  PROVE  Sound(Ask(e, r), p) /\ Ask(e, r).project = e.project
<1> DEFINE f == Ask(e, r)
<1>1. /\ f \in Editors
      /\ f.dialogs = e.dialogs /\ f.install = e.install /\ f.saving = e.saving
      /\ f.snap = e.snap /\ f.project = e.project /\ f.asked = e.asked \cup {r}
  BY DEF Ask, Sound, Editors
<1> HIDE DEF f
<1> QED
  BY <1>1, AsSoundToo DEF f

LEMMA AnsweredKeeps ==
  ASSUME NEW e, NEW p, Sound(e, p), NEW r
  PROVE  Sound(Answered(e, r), p) /\ Answered(e, r).project = e.project
<1> DEFINE f == Answered(e, r)
<1>1. /\ f \in Editors
      /\ f.dialogs = e.dialogs /\ f.install = e.install /\ f.saving = e.saving
      /\ f.snap = e.snap /\ f.project = e.project /\ f.asked = e.asked \ {r}
  BY DEF Answered, Sound, Editors
<1> HIDE DEF f
<1> QED
  BY <1>1, AsSoundToo DEF f

LEMMA PoliciesKeep ==
  ASSUME NEW e, NEW p, Sound(e, p), NEW t \in Team
  PROVE  Sound(WithPolicies(e, t), p) /\ WithPolicies(e, t).project = e.project
<1> DEFINE f == WithPolicies(e, t)
<1>1. /\ f \in Editors
      /\ f.dialogs = e.dialogs /\ f.install = e.install /\ f.saving = e.saving
      /\ f.snap = e.snap /\ f.project = e.project /\ f.asked = e.asked
  BY DEF WithPolicies, Sound, Editors, MachineForms
<1> HIDE DEF f
<1> QED
  BY <1>1, AsSoundToo DEF f

\* A form that has just been loaded is clean.
LEMMA ProjectKeeps ==
  ASSUME NEW e, NEW p, Sound(e, p), NEW l \in Loaded, Knows(p, l.rev, l.override)
  PROVE  Sound(WithProject(e, l), p)
<1> DEFINE f == WithProject(e, l)
           customizing == l.override # Absent
<1>1. l.effective.driver \in Drivers /\ l.effective \in Team /\ l # Absent
  BY Teams, AbsentAssumption DEF Loaded
<1> HIDE DEF customizing
<1>2. customizing \in BOOLEAN
  BY Zenon DEF customizing
<1>3. f = [e EXCEPT !.project = [loaded |-> l, driver |-> l.effective.driver,
                                 team |-> l.effective, customizing |-> customizing]]
  BY Zenon DEF WithProject, customizing
<1>4. /\ f \in Editors
      /\ f.dialogs = e.dialogs /\ f.install = e.install /\ f.saving = e.saving
      /\ f.snap = e.snap /\ f.project.loaded = l /\ f.project.team = l.effective
      /\ f.project.driver = l.effective.driver
  <2> DEFINE j == [loaded |-> l, driver |-> l.effective.driver,
                   team |-> l.effective, customizing |-> customizing]
  <2>1. j \in ProjectForms
    BY <1>1, <1>2 DEF ProjectForms
  <2>2. e \in Editors /\ f = [e EXCEPT !.project = j]
    BY <1>3 DEF Sound
  <2>3. /\ j.loaded = l /\ j.team = l.effective /\ j.driver = l.effective.driver
    OBVIOUS
  <2> HIDE DEF f, j
  <2>4. f \in Editors
    BY <2>1, <2>2, Zenon DEF Editors
  <2>5. /\ f.dialogs = e.dialogs /\ f.install = e.install /\ f.saving = e.saving
        /\ f.snap = e.snap /\ f.project = j
    BY <2>2 DEF Editors
  <2> QED
    BY <2>3, <2>4, <2>5
<1> HIDE DEF f
<1>5. Undisturbed(f)
  BY <1>1, <1>4 DEF Undisturbed, ProjectDirty
<1> QED
  BY <1>1, <1>4, <1>5, AsSound DEF f

LEMMA SetupKeeps ==
  ASSUME NEW e, NEW p, Sound(e, p), NEW s \in Snapshot, NEW base \in BOOLEAN
  PROVE  /\ Sound(WithSetup(e, s, base), p)
         /\ WithSetup(e, s, base).project = e.project
<1> DEFINE f == WithSetup(e, s, base)
<1>1. /\ f \in Editors
      /\ f.dialogs = e.dialogs /\ f.install = e.install /\ f.saving = e.saving
      /\ f.snap = s /\ f.project = e.project /\ f.asked = e.asked
  BY DEF WithSetup, Sound, Editors, MachineForms, Snapshot
<1> HIDE DEF f
<1> QED
  BY <1>1, AsSoundToo, AbsentAssumption DEF f

LEMMA AskProjectKeeps ==
  ASSUME NEW e, NEW p, Sound(e, p), ~ProjectDirty(e)
  PROVE  Sound(AskProject(e), p) /\ AskProject(e).project = e.project
BY AskKeeps DEF AskProject, Reads

\* Reading the providers again touches no role of the project.
LEMMA ReloadKeeps ==
  ASSUME NEW e, NEW p, Sound(e, p), NEW s \in Snapshot
  PROVE  Sound(Reloaded(e, s), p) /\ Reloaded(e, s).project = e.project
<1> DEFINE keep == MachineDirty(e)
           answered == Answered(e, "setup")
           shown == WithSetup(answered, s, ~keep)
           kept == [shown EXCEPT !.machine = e.machine]
           m == IF keep THEN kept ELSE Ask(shown, "policies")
<1>1. Sound(answered, p) /\ answered.project = e.project
  BY AnsweredKeeps
<1>2. Sound(shown, p) /\ shown.project = e.project
  <2> HIDE DEF answered
  <2> QED
    BY <1>1, SetupKeeps, keep \in BOOLEAN DEF MachineDirty
<1>3. Sound(kept, p) /\ kept.project = e.project
  <2> HIDE DEF shown
  <2>1. /\ kept \in Editors
        /\ kept.dialogs = shown.dialogs /\ kept.install = shown.install
        /\ kept.saving = shown.saving /\ kept.snap = shown.snap
        /\ kept.project = shown.project /\ kept.asked = shown.asked
    BY <1>2, ZenonT(60) DEF Sound, Editors
  <2> HIDE DEF kept
  <2> QED
    BY <1>2, <2>1, AsSoundToo
<1>4. /\ Sound(Ask(shown, "policies"), p)
      /\ Ask(shown, "policies").project = e.project
  <2> HIDE DEF shown
  <2> QED
    BY <1>2, AskKeeps DEF Reads
<1>5. Sound(m, p) /\ m.project = e.project
  <2> HIDE DEF shown, kept
  <2> QED
    BY <1>3, <1>4
<1>6. ProjectDirty(m) <=> ProjectDirty(e)
  <2> HIDE DEF m
  <2> QED
    BY <1>5 DEF ProjectDirty
<1>7. ~ProjectDirty(e) => Sound(AskProject(m), p) /\ AskProject(m).project = e.project
  <2> HIDE DEF m
  <2> QED
    BY <1>5, <1>6, AskProjectKeeps
<1>8. Reloaded(e, s) = IF ProjectDirty(e) THEN m ELSE AskProject(m)
  BY DEF Reloaded
<1> HIDE DEF m
<1> QED
  BY <1>5, <1>7, <1>8

LEMMA EditedKeeps ==
  ASSUME NEW e, NEW p, Sound(e, p), NEW s \in Scopes
  PROVE  /\ Sound(Edited(e, s), p) /\ Edited(e, s).project = e.project
         /\ s = "project" => "project" \notin Edited(e, s).asked
<1> DEFINE f == Edited(e, s)
<1>1. e \in Editors
  BY DEF Sound
<1>2. f \in Editors
  BY <1>1, ZenonT(60) DEF Edited, Editors, Scopes
<1>3. /\ f.dialogs = e.dialogs /\ f.install = e.install /\ f.saving = e.saving
      /\ f.snap = e.snap /\ f.project = e.project /\ f.asked \subseteq e.asked
  BY <1>1 DEF Edited, Editors
<1>4. s = "project" => "project" \notin f.asked
  BY <1>1 DEF Edited, Editors
<1> HIDE DEF f
<1> QED
  BY <1>2, <1>3, <1>4, AsSoundToo DEF f

LEMMA RestoreKeeps ==
  ASSUME NEW e, NEW p, Sound(e, p), NEW s \in Scopes,
         IF s = "project" THEN e.project.loaded # Absent ELSE e.snap # Absent
  PROVE  Sound(Restore(e, s), p)
<1>1. CASE s = "project"
  <2> DEFINE d == Edited(e, "project")
             customizing == e.project.loaded.override # Absent
             restored == [loaded |-> e.project.loaded,
                          driver |-> e.project.loaded.effective.driver,
                          team |-> e.project.loaded.effective,
                          customizing |-> customizing]
             f == [d EXCEPT !.project = restored]
  <2>1. Sound(d, p) /\ d.project = e.project
    BY EditedKeeps DEF Scopes
  <2>2. Restore(e, s) = [d EXCEPT !.project.team = e.project.loaded.effective,
                             !.project.driver = e.project.loaded.effective.driver,
                             !.project.customizing = customizing]
    BY <1>1 DEF Restore, RestoreProject
  <2>3. customizing \in BOOLEAN
    BY Zenon DEF customizing
  <2>4. /\ e.project.loaded \in Loaded /\ e.project.loaded.effective \in Team
        /\ e.project.loaded.effective.driver \in Drivers
    BY <1>1, Teams DEF Sound, Editors, ProjectForms, Loaded
  <2> HIDE DEF d, customizing
  <2>5. restored \in ProjectForms
    BY <2>3, <2>4 DEF ProjectForms
  <2>6. f = Restore(e, s)
    BY <2>1, <2>2 DEF Sound, Editors, ProjectForms
  <2> HIDE DEF restored
  <2>7. /\ f \in Editors
        /\ f.dialogs = d.dialogs /\ f.install = d.install /\ f.saving = d.saving
        /\ f.snap = d.snap /\ f.project = restored
    BY <2>1, <2>5, ZenonT(60) DEF Sound, Editors
  <2> HIDE DEF f
  <2>8. Undisturbed(f)
    BY <2>7 DEF Undisturbed, ProjectDirty, restored
  <2>9. d.project.loaded # Absent =>
          Knows(p, d.project.loaded.rev, d.project.loaded.override)
    BY <2>1 DEF Sound, Informed
  <2> QED
    BY <1>1, <2>1, <2>7, <2>8, <2>6, <2>9, AsSound DEF restored
<1>2. CASE s = "machine"
  <2> DEFINE t == IF e.machine.saved # Absent THEN e.machine.saved ELSE e.machine.team
             f == [e EXCEPT !.machine.team = t, !.machine.driver = e.snap.driver]
  <2>1. f = Restore(e, s)
    BY <1>2 DEF Restore, RestoreMachine
  <2>2. t \in Team \cup {Absent} /\ e.snap.driver \in Drivers
    BY <1>2 DEF Sound, Editors, MachineForms, Snapshot
  <2> HIDE DEF t
  <2>3. /\ f \in Editors
        /\ f.dialogs = e.dialogs /\ f.install = e.install /\ f.saving = e.saving
        /\ f.snap = e.snap /\ f.project = e.project /\ f.asked = e.asked
    BY <2>2 DEF Sound, Editors, MachineForms
  <2> HIDE DEF f
  <2> QED
    BY <2>1, <2>3, AsSoundToo
<1> QED
  BY <1>1, <1>2 DEF Scopes

\* The uppermost dialog is about something that is there, and the editor is as
\* sound when it is closed.
LEMMA PopKeeps ==
  ASSUME NEW e, NEW p, Sound(e, p), e.dialogs # <<>>
  PROVE  /\ Sound([e EXCEPT !.dialogs = Tail(@)], p)
         /\ Head(e.dialogs) \in Questions /\ Grounded(e, Head(e.dialogs))
         /\ Head(e.dialogs) = Raised =>
              \/ Tail(e.dialogs) = <<>>
              \/ \E q \in Questions : /\ Tail(e.dialogs) = <<q>> /\ q # Raised
                                      /\ Grounded(e, q)
<1> DEFINE rest == Tail(e.dialogs)
           f == [e EXCEPT !.dialogs = rest]
<1>1. Raised \in Questions
  BY DEF Raised, Questions
<1>2. /\ \/ rest = <<>>
         \/ \E q \in Questions : rest = <<q>> /\ q # Raised /\ Grounded(e, q)
      /\ Head(e.dialogs) \in Questions /\ Grounded(e, Head(e.dialogs))
  <2>1. CASE \E q \in Questions : e.dialogs = <<q>> /\ Grounded(e, q)
    BY <2>1
  <2>2. CASE \E q \in Questions : /\ e.dialogs = <<Raised, q>> /\ q # Raised
                                  /\ Grounded(e, Raised) /\ Grounded(e, q)
    <3>1. PICK q \in Questions : /\ e.dialogs = <<Raised, q>> /\ q # Raised
                                 /\ Grounded(e, Raised) /\ Grounded(e, q)
      BY <2>2
    <3>2. Head(e.dialogs) = Raised /\ rest = <<q>>
      BY <3>1, <1>1
    <3> QED
      BY <3>1, <3>2, <1>1
  <2> QED
    BY <2>1, <2>2 DEF Sound, Questioned
<1> HIDE DEF rest
<1>3. rest \in Seq(Questions)
  <2>1. \A q \in Questions : <<q>> \in Seq(Questions)
    OBVIOUS
  <2>2. <<>> \in Seq(Questions)
    OBVIOUS
  <2> QED
    BY <1>2, <2>1, <2>2
<1>4. /\ f \in Editors /\ f.dialogs = rest /\ f.install = e.install
      /\ f.saving = e.saving /\ f.snap = e.snap /\ f.project = e.project
      /\ f.asked = e.asked
  BY <1>3 DEF Sound, Editors
<1> HIDE DEF f
<1>5. Questioned(f)
  BY <1>2, <1>4 DEF Questioned, Grounded
<1>6. Undisturbed(f) /\ Signed(f) /\ Informed(f, p)
  BY <1>4 DEF Sound, Undisturbed, Signed, Informed, ProjectDirty
<1> QED
  BY <1>2, <1>4, <1>5, <1>6 DEF Sound, f, rest

LEMMA NewKeeps ==
  ASSUME NEW p \in ProjectFiles, NEW firstRun \in BOOLEAN
  PROVE  /\ Sound(NewEditor(firstRun), p)
         /\ ~ProjectDirty(NewEditor(firstRun))
<1> DEFINE f == NewEditor(firstRun)
<1>1. /\ EmptyMachine \in MachineForms /\ EmptyProject \in ProjectForms
      /\ EmptyProject.loaded = Absent /\ <<>> \in Seq(Questions)
  BY EditorAssumption DEF EmptyMachine, EmptyProject, MachineForms, ProjectForms
<1>2. /\ f \in Editors /\ f.dialogs = <<>> /\ f.project.loaded = Absent
      /\ f.saving = [machine |-> Absent, project |-> Absent, reset |-> Absent]
  BY <1>1 DEF NewEditor, Editors, Pages, Scopes
<1> HIDE DEF f
<1>3. Questioned(f) /\ Undisturbed(f) /\ Signed(f) /\ Informed(f, p) /\ ~ProjectDirty(f)
  BY <1>2 DEF Questioned, Undisturbed, ProjectDirty, Signed, Informed
<1> QED
  BY <1>2, <1>3 DEF Sound, f

LEMMA ClosedKeeps ==
  ASSUME NEW e, NEW p, Sound(e, p)
  PROVE  Sound(Closed(e), p)
<1> DEFINE n == NewEditor(FALSE)
           f == [n EXCEPT !.open = FALSE, !.snap = e.snap]
<1>1. Sound(n, p) /\ n \in Editors /\ n.snap = Absent
  <2>1. p \in ProjectFiles /\ FALSE \in BOOLEAN
    BY DEF Sound
  <2>2. n.snap = Absent
    BY DEF NewEditor
  <2> QED
    BY <2>1, <2>2, NewKeeps DEF Sound
<1>2. f = Closed(e)
  BY DEF Closed
<1>3. e.snap \in Snapshot \cup {Absent}
  BY DEF Sound, Editors
<1> HIDE DEF n
<1>4. f \in Editors
  BY ONLY <1>1, <1>3, ZenonT(90) DEF Editors
<1>5. /\ f.dialogs = n.dialogs /\ f.install = n.install /\ f.saving = n.saving
      /\ f.project = n.project /\ f.asked = n.asked /\ f.snap = e.snap
  BY <1>1 DEF Editors
<1> HIDE DEF f
<1> QED
  BY <1>1, <1>2, <1>4, <1>5, AsSoundToo

\* A destination moves the editor about, closes it or closes a dialog.
LEMMA ArriveKeeps ==
  ASSUME NEW e, NEW p, Sound(e, p), NEW d \in Destinations
  PROVE  Sound(Arrive(e, d), p)
<1>1. CASE d = "refresh"
  BY <1>1, AskKeeps DEF Arrive, Reads, Scopes, Pages
<1>2. ASSUME d \in Scopes
      PROVE  Sound([e EXCEPT !.scope = d], p)
  <2> DEFINE f == [e EXCEPT !.scope = d]
  <2>1. /\ f \in Editors
        /\ f.dialogs = e.dialogs /\ f.install = e.install /\ f.saving = e.saving
        /\ f.snap = e.snap /\ f.project = e.project /\ f.asked = e.asked
    BY <1>2 DEF Sound, Editors
  <2> HIDE DEF f
  <2> QED
    BY <2>1, AsSoundToo DEF f
<1>3. ASSUME d \in Pages
      PROVE  Sound([e EXCEPT !.page = d], p)
  <2> DEFINE f == [e EXCEPT !.page = d]
  <2>1. /\ f \in Editors
        /\ f.dialogs = e.dialogs /\ f.install = e.install /\ f.saving = e.saving
        /\ f.snap = e.snap /\ f.project = e.project /\ f.asked = e.asked
    BY <1>3 DEF Sound, Editors
  <2> HIDE DEF f
  <2> QED
    BY <2>1, AsSoundToo DEF f
<1>4. CASE d \in Scopes
  BY <1>2, <1>4 DEF Arrive, Scopes, Pages
<1>5. CASE d \in Pages
  BY <1>3, <1>5 DEF Arrive, Scopes, Pages
<1>6. CASE d = "home" /\ e.dialogs # <<>>
  BY <1>6, PopKeeps DEF Arrive, Scopes, Pages
<1>7. CASE d \in Outside /\ ~(d = "home" /\ e.dialogs # <<>>)
  BY <1>7, ClosedKeeps DEF Arrive, Scopes, Pages, Outside
<1> QED
  BY <1>1, <1>4, <1>5, <1>6, <1>7 DEF Destinations, Outside

LEMMA FinishKeeps ==
  ASSUME NEW e, NEW p, Sound(e, p)
  PROVE  Sound(FinishPending(e), p)
<1> DEFINE f == [e EXCEPT !.pending = Absent]
<1>1. /\ f \in Editors
      /\ f.dialogs = e.dialogs /\ f.install = e.install /\ f.saving = e.saving
      /\ f.snap = e.snap /\ f.project = e.project /\ f.asked = e.asked
  BY DEF Sound, Editors
<1> HIDE DEF f
<1>2. Sound(f, p)
  BY <1>1, AsSoundToo
<1>3. e.pending # Absent => e.pending \in Destinations
  BY DEF Sound, Editors
<1>4. e.pending # Absent => Sound(Arrive(f, e.pending), p)
  BY <1>2, <1>3, ArriveKeeps
<1> QED
  BY <1>4 DEF FinishPending, f

\* A dialog is opened where none is.
LEMMA RaiseKeeps ==
  ASSUME NEW e, NEW p, Sound(e, p), e.dialogs = <<>>, NEW q \in Questions,
         Grounded(e, q)
  PROVE  Sound([e EXCEPT !.dialogs = <<q>>], p)
<1> DEFINE f == [e EXCEPT !.dialogs = <<q>>]
<1>1. /\ f \in Editors
      /\ f.dialogs = <<q>> /\ f.install = e.install /\ f.saving = e.saving
      /\ f.snap = e.snap /\ f.project = e.project /\ f.asked = e.asked
  <2>1. <<q>> \in Seq(Questions)
    OBVIOUS
  <2> QED
    BY <2>1 DEF Sound, Editors
<1> HIDE DEF f
<1>2. Questioned(f)
  BY <1>1 DEF Questioned, Grounded
<1>3. Undisturbed(f) /\ Signed(f) /\ Informed(f, p)
  BY <1>1 DEF Sound, Undisturbed, Signed, Informed, ProjectDirty
<1> QED
  BY <1>1, <1>2, <1>3 DEF Sound, f

\* Only the saves on their way and the project's file change.
LEMMA SavesSound ==
  ASSUME NEW e, NEW p, Sound(e, p), NEW f \in Editors, NEW q \in ProjectFiles,
         f.dialogs = e.dialogs, f.install = e.install, f.snap = e.snap,
         f.project = e.project, f.asked = e.asked, Signed(f), Informed(f, q)
  PROVE  Sound(f, q)
<1>1. Questioned(f)
  BY DEF Sound, Questioned, Grounded
<1>2. Undisturbed(f)
  BY DEF Sound, Undisturbed, ProjectDirty
<1> QED
  BY <1>1, <1>2 DEF Sound

\* What is known of a revision is true as long as the file has it: also when the
\* file moves on.
LEMMA FileMovesOn ==
  ASSUME NEW e, NEW p, Sound(e, p), NEW q \in ProjectFiles, q.rev = p.rev + 1
  PROVE  Sound(e, q)
<1>1. p.rev \in Nat
  BY EditorAssumption DEF Sound, ProjectFiles
<1>2. Informed(e, q)
  <2>1. /\ e.project.loaded # Absent => e.project.loaded.rev \in Nat
        /\ e.saving.project # Absent => e.saving.project.expected \in Nat
        /\ e.saving.reset # Absent => e.saving.reset.expected \in Nat
    BY EditorAssumption
       DEF Sound, Editors, ProjectForms, Loaded, ProjectSaves, ResetSaves
  <2> QED
    BY <1>1, <2>1 DEF Sound, Informed, Knows
<1> QED
  BY <1>2, SavesSound DEF Sound

\* A save that is not under way any more.
LEMMA DropKeeps ==
  ASSUME NEW e, NEW p, Sound(e, p), NEW s \in Saves
  PROVE  /\ Sound([e EXCEPT !.saving[s] = Absent], p)
         /\ [e EXCEPT !.saving[s] = Absent].project = e.project
<1> DEFINE f == [e EXCEPT !.saving[s] = Absent]
<1>1. f \in Editors
  BY DEF Sound, Editors, Saves
<1>2. /\ f.dialogs = e.dialogs /\ f.install = e.install /\ f.snap = e.snap
      /\ f.project = e.project /\ f.asked = e.asked
      /\ f.saving = [e.saving EXCEPT ![s] = Absent]
  BY DEF Sound, Editors
<1>3. /\ f.saving.machine # Absent => f.saving.machine = e.saving.machine
      /\ f.saving.project # Absent => f.saving.project = e.saving.project
      /\ f.saving.reset # Absent => f.saving.reset = e.saving.reset
  BY <1>2 DEF Sound, Editors, Saves
<1> HIDE DEF f
<1>4. Signed(f)
  BY <1>3 DEF Sound, Signed
<1>5. Informed(f, p)
  BY <1>2, <1>3 DEF Sound, Informed
<1> QED
  BY <1>1, <1>2, <1>4, <1>5, SavesSound DEF Sound, f

\* A save remembers the form it is taken from.
LEMMA SentKeeps ==
  ASSUME NEW e, NEW p, Sound(e, p), NEW s \in Scopes, CanSave(e, s)
  PROVE  Sound(SaveSent(e, s), p)
<1>1. CASE s = "project"
  <2> DEFINE m == [phase |-> "sent", team |-> e.project.team,
                   expected |-> e.project.loaded.rev,
                   replaces |-> e.project.loaded.override,
                   signature |-> ProjectSignature(e)]
             f == [e EXCEPT !.saving.project = m]
  <2>1. /\ e.project.team \in Team /\ e.project.driver = e.project.team.driver
        /\ e.project.driver \in Drivers /\ e.project.loaded \in Loaded
        /\ e.project.loaded # Absent
    BY <1>1, Teams DEF CanSave, Saveable, Sound, Editors, ProjectForms
  <2>2. m \in ProjectSaves
    BY <2>1 DEF ProjectSaves, Loaded, Progress, ProjectSignature
  <2>3. /\ m.signature = <<m.team.driver, m.team>> /\ m.phase = "sent"
        /\ Knows(p, m.expected, m.replaces)
    BY <2>1 DEF ProjectSignature, Sound, Informed
  <2> HIDE DEF m
  <2>4. f \in Editors
    BY <2>2 DEF Sound, Editors
  <2>5. /\ f.dialogs = e.dialogs /\ f.install = e.install /\ f.snap = e.snap
        /\ f.project = e.project /\ f.asked = e.asked /\ f.saving.project = m
        /\ f.saving.machine = e.saving.machine /\ f.saving.reset = e.saving.reset
    BY DEF Sound, Editors
  <2>6. f = SaveSent(e, s)
    BY <1>1 DEF SaveSent, m
  <2> HIDE DEF f
  <2>7. Signed(f) /\ Informed(f, p)
    BY <2>3, <2>5 DEF Sound, Signed, Informed
  <2> QED
    BY <2>4, <2>5, <2>6, <2>7, SavesSound DEF Sound
<1>2. CASE s = "machine"
  <2> DEFINE m == [phase |-> "sent", team |-> e.machine.team,
                   signature |-> MachineSignature(e)]
             f == [e EXCEPT !.saving.machine = m]
  <2>1. /\ e.machine.team \in Team /\ e.machine.driver = e.machine.team.driver
        /\ e.machine.driver \in Drivers
    BY <1>2, Teams DEF CanSave, Saveable, Sound, Editors, MachineForms
  <2>2. m \in MachineSaves
    BY <2>1 DEF MachineSaves, Progress, MachineSignature
  <2>3. m.signature = <<m.team.driver, m.team>>
    BY <2>1 DEF MachineSignature
  <2> HIDE DEF m
  <2>4. f \in Editors
    BY <2>2 DEF Sound, Editors
  <2>5. /\ f.dialogs = e.dialogs /\ f.install = e.install /\ f.snap = e.snap
        /\ f.project = e.project /\ f.asked = e.asked /\ f.saving.machine = m
        /\ f.saving.project = e.saving.project /\ f.saving.reset = e.saving.reset
    BY DEF Sound, Editors
  <2>6. f = SaveSent(e, s)
    BY <1>2 DEF SaveSent, m
  <2> HIDE DEF f
  <2>7. Signed(f) /\ Informed(f, p)
    BY <2>3, <2>5 DEF Sound, Signed, Informed
  <2> QED
    BY <2>4, <2>5, <2>6, <2>7, SavesSound DEF Sound
<1> QED
  BY <1>1, <1>2 DEF Scopes

\* An editor opens with what the program has read.
LEMMA OpenedKeeps ==
  ASSUME NEW p \in ProjectFiles, NEW firstRun \in BOOLEAN,
         NEW s \in Snapshot \cup {Absent}
  PROVE  Sound(Opened(firstRun, s), p)
<1> DEFINE n == NewEditor(firstRun)
           w == WithSetup(n, s, TRUE)
           a == Ask(w, "policies")
<1>1. Sound(n, p) /\ ~ProjectDirty(n)
  BY NewKeeps
<1>2. CASE s = Absent
  <2>1. Sound(Ask(n, "setup"), p)
    <3> HIDE DEF n
    <3> QED
      BY <1>1, AskKeeps DEF Reads
  <2> QED
    BY <1>2, <2>1 DEF Opened
<1>3. CASE s # Absent
  <2>1. Sound(w, p) /\ w.project = n.project
    <3> HIDE DEF n
    <3> QED
      BY <1>1, <1>3, SetupKeeps
  <2>2. Sound(a, p) /\ a.project = w.project
    <3> HIDE DEF w
    <3> QED
      BY <2>1, AskKeeps DEF Reads
  <2> HIDE DEF n, w, a
  <2>3. ~ProjectDirty(a)
    BY <1>1, <2>1, <2>2 DEF ProjectDirty
  <2>4. Sound(AskProject(a), p)
    BY <2>2, <2>3, AskProjectKeeps
  <2> QED
    BY <1>3, <2>4 DEF Opened, n, w, a
<1> QED
  BY <1>2, <1>3

\* Arriving somewhere changes no role of the project, unless the editor is closed.
LEMMA ArriveShows ==
  ASSUME NEW e \in Editors, NEW d \in Destinations
  PROVE  Arrive(e, d).project = e.project \/ ~Arrive(e, d).open
<1>1. Closed(e).open = FALSE
  BY DEF Closed, NewEditor
<1>2. /\ Ask(e, "setup").project = e.project
      /\ [e EXCEPT !.scope = d].project = e.project
      /\ [e EXCEPT !.page = d].project = e.project
      /\ [e EXCEPT !.dialogs = Tail(e.dialogs)].project = e.project
  BY DEF Ask, Editors
<1> QED
  BY <1>1, <1>2 DEF Arrive, Scopes, Pages, Destinations, Outside

LEMMA FinishShows ==
  ASSUME NEW e, NEW p, Sound(e, p)
  PROVE  FinishPending(e).project = e.project \/ ~FinishPending(e).open
<1> DEFINE f == [e EXCEPT !.pending = Absent]
<1>1. f \in Editors /\ f.project = e.project
  BY DEF Sound, Editors
<1>2. e.pending # Absent => e.pending \in Destinations
  BY DEF Sound, Editors
<1> HIDE DEF f
<1>3. e.pending # Absent =>
        Arrive(f, e.pending).project = f.project \/ ~Arrive(f, e.pending).open
  BY <1>1, <1>2, ArriveShows
<1> QED
  BY <1>1, <1>3 DEF FinishPending, f

-----------------------------------------------------------------------------
(* The steps.                                                              *)

\* What every step that only shows something has to keep.
LEMMA ShownKeeps ==
  ASSUME EditorInv, NEW e, Sound(e, disk.project), Becomes(e)
  PROVE  EditorInv'
BY DEF EditorInv, EditorTypeOK, Becomes, Sound

LEMMA NavigatesKeeps ==
  ASSUME EditorInv, Navigates
  PROVE  EditorInv'
<1>1. Sound(editor, disk.project)
  BY DEF EditorInv
<1>2. ASSUME NEW d \in Destinations, RequestNavigation(d)  PROVE EditorInv'
  <2> DEFINE s == DisplayedScope(editor)
             q == [kind |-> "unsaved", scope |-> s, destination |-> d]
  <2>1. s \in Scopes
    BY <1>1 DEF DisplayedScope, Sound, Editors, Scopes
  <2>2. q \in Questions
    BY <2>1 DEF Questions
  <2>3. DisplayedDirty(editor) => Grounded(editor, q)
    BY DEF DisplayedDirty, MachineDirty, ProjectDirty, Grounded
  <2>4. editor.dialogs = <<>>
    BY <1>2 DEF RequestNavigation, Facing
  <2>5. DisplayedDirty(editor) => Sound([editor EXCEPT !.dialogs = <<q>>], disk.project)
    <3> HIDE DEF q
    <3> QED
      BY <1>1, <2>2, <2>3, <2>4, RaiseKeeps
  <2>6. Sound(Arrive(editor, d), disk.project)
    BY <1>1, ArriveKeeps
  <2>7. CASE DisplayedDirty(editor)
    BY <1>2, <2>5, <2>7, ShownKeeps DEF RequestNavigation
  <2>8. CASE ~DisplayedDirty(editor)
    BY <1>2, <2>6, <2>8, ShownKeeps DEF RequestNavigation
  <2> QED
    BY <2>7, <2>8
<1>3. ASSUME NEW page \in Pages \cup {"choose"}
      PROVE  Sound([editor EXCEPT !.page = page], disk.project)
  <2> DEFINE f == [editor EXCEPT !.page = page]
  <2>1. /\ f \in Editors
        /\ f.dialogs = editor.dialogs /\ f.install = editor.install
        /\ f.saving = editor.saving /\ f.snap = editor.snap
        /\ f.project = editor.project /\ f.asked = editor.asked
    BY <1>1, <1>3 DEF Sound, Editors
  <2> HIDE DEF f
  <2> QED
    BY <1>1, <2>1, AsSoundToo DEF f
<1>4. ASSUME NEW s \in Scopes, ManageConnection(s)  PROVE EditorInv'
  BY <1>3, <1>4, ShownKeeps DEF ManageConnection, Pages
<1>5. CASE FirstRunBack
  BY <1>3, <1>5, ShownKeeps DEF FirstRunBack
<1>6. CASE FirstRunNext
  <2>1. ASSUME NEW d \in Destinations \cup {Absent}
        PROVE  LET f == [editor EXCEPT !.pending = d] IN
               /\ Sound(f, disk.project)
               /\ CanSave(editor, "machine") => CanSave(f, "machine")
    <3> DEFINE f == [editor EXCEPT !.pending = d]
    <3>1. f \in Editors
      BY <1>1, <2>1 DEF Sound, Editors
    <3>2. /\ f.dialogs = editor.dialogs /\ f.install = editor.install
          /\ f.saving = editor.saving /\ f.snap = editor.snap
          /\ f.project = editor.project /\ f.asked = editor.asked
          /\ f.machine = editor.machine
      BY <1>1 DEF Sound, Editors
    <3>3. f["machine"] = f.machine /\ editor["machine"] = editor.machine
      OBVIOUS
    <3> HIDE DEF f
    <3>4. Sound(f, disk.project)
      BY <1>1, <3>1, <3>2, AsSoundToo
    <3>5. CanSave(editor, "machine") => CanSave(f, "machine")
      BY <3>2, <3>3 DEF CanSave, Saveable, Ready
    <3> QED
      BY <3>4, <3>5 DEF f
  <2>2. "menu" \in Destinations
    BY DEF Destinations, Outside
  <2>3. CanSave(editor, "machine") =>
          Sound(SaveSent([editor EXCEPT !.pending = "menu"], "machine"), disk.project)
    <3> DEFINE f == [editor EXCEPT !.pending = "menu"]
    <3>1. Sound(f, disk.project) /\ (CanSave(editor, "machine") => CanSave(f, "machine"))
      BY <2>1, <2>2
    <3> HIDE DEF f
    <3>2. CanSave(editor, "machine") => Sound(SaveSent(f, "machine"), disk.project)
      BY <3>1, SentKeeps DEF Scopes
    <3> QED
      BY <3>2 DEF f
  <2>4. Sound([editor EXCEPT !.pending = Absent], disk.project)
    BY <2>1
  <2>5. Sound([editor EXCEPT !.page = "connection"], disk.project)
    BY <1>3 DEF Pages
  <2> QED
    BY <1>6, <2>3, <2>4, <2>5, ShownKeeps DEF FirstRunNext
<1>7. CASE OpenEditor
  <2>1. editor.snap \in Snapshot \cup {Absent} /\ disk.project \in ProjectFiles
    BY <1>1 DEF Sound, Editors
  <2>2. Sound(Opened(FALSE, editor.snap), disk.project)
    BY <2>1, OpenedKeeps
  <2> QED
    BY <1>7, <2>2, ShownKeeps DEF OpenEditor
<1>8. CASE ExitSetup
  <2>1. Sound(NewEditor(FALSE), disk.project)
    BY <1>1, NewKeeps DEF Sound
  <2>2. Sound(Closed(NewEditor(FALSE)), disk.project)
    BY <2>1, ClosedKeeps
  <2> QED
    BY <1>8, <2>2 DEF ExitSetup, EditorInv, EditorTypeOK, Sound
<1>9. CASE GateReplaced
  BY <1>1, <1>9, ClosedKeeps, ShownKeeps DEF GateReplaced
<1> QED
  BY <1>2, <1>4, <1>5, <1>6, <1>7, <1>8, <1>9 DEF Navigates

LEMMA EditKeeps ==
  ASSUME EditorInv, NEW e, Sound(e, disk.project), Edit(e)
  PROVE  EditorInv'
BY EditorAssumption DEF EditorInv, EditorTypeOK, Edit, Sound

\* The roles of the machine's form, and the recommendations asked for, concern
\* neither a dialog nor the project.
LEMMA MachineRolesKeep ==
  ASSUME NEW e, NEW p, Sound(e, p), NEW m \in MachineForms, NEW d \in Drivers \cup {Absent}
  PROVE  /\ Sound([e EXCEPT !.machine = m], p)
         /\ Sound([e EXCEPT !.machine = m, !.defaults.machine = d], p)
         /\ Sound([e EXCEPT !.defaults.machine = d], p)
         /\ Sound([e EXCEPT !.defaults.project = d], p)
<1>1. /\ [e EXCEPT !.machine = m] \in Editors
      /\ [e EXCEPT !.machine = m, !.defaults.machine = d] \in Editors
      /\ [e EXCEPT !.defaults.machine = d] \in Editors
      /\ [e EXCEPT !.defaults.project = d] \in Editors
  <2>1. e \in Editors
    BY DEF Sound
  <2>2. [e EXCEPT !.machine = m] \in Editors
    BY <2>1, Zenon DEF Editors
  <2>3. [e EXCEPT !.machine = m, !.defaults.machine = d] \in Editors
    BY <2>1, Zenon DEF Editors
  <2>4. [e EXCEPT !.defaults.machine = d] \in Editors
    BY <2>1, Zenon DEF Editors
  <2>5. [e EXCEPT !.defaults.project = d] \in Editors
    BY <2>1, Zenon DEF Editors
  <2> QED
    BY <2>2, <2>3, <2>4, <2>5
<1>2. Sound([e EXCEPT !.machine = m], p)
  <2> DEFINE f == [e EXCEPT !.machine = m]
  <2>1. /\ f.dialogs = e.dialogs /\ f.install = e.install /\ f.saving = e.saving
        /\ f.snap = e.snap /\ f.project = e.project /\ f.asked = e.asked
    BY DEF Sound, Editors
  <2>2. f \in Editors
    BY <1>1
  <2> HIDE DEF f
  <2> QED
    BY <2>1, <2>2, AsSoundToo DEF f
<1>3. Sound([e EXCEPT !.machine = m, !.defaults.machine = d], p)
  <2> DEFINE f == [e EXCEPT !.machine = m, !.defaults.machine = d]
  <2>1. /\ f.dialogs = e.dialogs /\ f.install = e.install /\ f.saving = e.saving
        /\ f.snap = e.snap /\ f.project = e.project /\ f.asked = e.asked
    BY DEF Sound, Editors
  <2>2. f \in Editors
    BY <1>1
  <2> HIDE DEF f
  <2> QED
    BY <2>1, <2>2, AsSoundToo DEF f
<1>4. Sound([e EXCEPT !.defaults.machine = d], p)
  <2> DEFINE f == [e EXCEPT !.defaults.machine = d]
  <2>1. /\ f.dialogs = e.dialogs /\ f.install = e.install /\ f.saving = e.saving
        /\ f.snap = e.snap /\ f.project = e.project /\ f.asked = e.asked
    BY DEF Sound, Editors
  <2>2. f \in Editors
    BY <1>1
  <2> HIDE DEF f
  <2> QED
    BY <2>1, <2>2, AsSoundToo DEF f
<1>5. Sound([e EXCEPT !.defaults.project = d], p)
  <2> DEFINE f == [e EXCEPT !.defaults.project = d]
  <2>1. /\ f.dialogs = e.dialogs /\ f.install = e.install /\ f.saving = e.saving
        /\ f.snap = e.snap /\ f.project = e.project /\ f.asked = e.asked
    BY DEF Sound, Editors
  <2>2. f \in Editors
    BY <1>1
  <2> HIDE DEF f
  <2> QED
    BY <2>1, <2>2, AsSoundToo DEF f
<1> QED
  BY <1>2, <1>3, <1>4, <1>5

\* So do the roles of the project's form, once the edit has superseded the reading.
LEMMA ProjectRolesKeep ==
  ASSUME NEW e, NEW p, Sound(e, p), "project" \notin e.asked, NEW j \in ProjectForms,
         j.loaded = e.project.loaded, NEW d \in Drivers \cup {Absent}
  PROVE  /\ Sound([e EXCEPT !.project = j], p)
         /\ Sound([e EXCEPT !.project = j, !.defaults.project = d], p)
<1>1. ASSUME NEW f \in Editors,
             f.dialogs = e.dialogs, f.install = e.install, f.saving = e.saving,
             f.snap = e.snap, f.project = j, f.asked = e.asked
      PROVE  Sound(f, p)
  <2>1. Undisturbed(f)
    BY <1>1 DEF Undisturbed
  <2>2. e.project.loaded # Absent =>
          Knows(p, e.project.loaded.rev, e.project.loaded.override)
    BY DEF Sound, Informed
  <2> QED
    BY <1>1, <2>1, <2>2, AsSound
<1>2. /\ [e EXCEPT !.project = j] \in Editors
      /\ [e EXCEPT !.project = j, !.defaults.project = d] \in Editors
  <2>1. e \in Editors
    BY DEF Sound
  <2>2. [e EXCEPT !.project = j] \in Editors
    BY <2>1, Zenon DEF Editors
  <2>3. [e EXCEPT !.project = j, !.defaults.project = d] \in Editors
    BY <2>1, Zenon DEF Editors
  <2> QED
    BY <2>2, <2>3
<1>3. Sound([e EXCEPT !.project = j], p)
  BY <1>1, <1>2 DEF Sound, Editors
<1>4. Sound([e EXCEPT !.project = j, !.defaults.project = d], p)
  BY <1>1, <1>2, ZenonT(60) DEF Sound, Editors
<1> QED
  BY <1>3, <1>4

LEMMA EditsKeeps ==
  ASSUME EditorInv, Edits
  PROVE  EditorInv'
<1> DEFINE em == Edited(editor, "machine")
           ep == Edited(editor, "project")
<1>1. Sound(editor, disk.project)
  BY DEF EditorInv
<1>2. /\ Sound(em, disk.project) /\ em \in Editors
      /\ Sound(ep, disk.project) /\ ep \in Editors
      /\ "project" \notin ep.asked /\ ep.project = editor.project
  BY <1>1, EditedKeeps DEF Scopes, Sound
<1>3. em.machine = editor.machine
  BY <1>1 DEF Edited, Sound, Editors
<1>4. editor.machine \in MachineForms /\ editor.project \in ProjectForms
  BY <1>1 DEF Sound, Editors
<1>5. ASSUME NEW pick, ChooseMachineRole(pick)  PROVE EditorInv'
  <2> DEFINE t == editor.machine.team
             new == IF t = Absent THEN t
                    ELSE [driver |-> editor.machine.driver, pick |-> pick]
             m == [editor.machine EXCEPT !.team = new]
  <2>1. new \in Team \cup {Absent}
    BY <1>4, <1>5, Teams DEF ChooseMachineRole, MachineForms
  <2>2. Edit([em EXCEPT !.machine.team = new])
    BY <1>5 DEF ChooseMachineRole
  <2> HIDE DEF new, em
  <2>3. m \in MachineForms
    BY <1>4, <2>1 DEF MachineForms
  <2>4. [em EXCEPT !.machine.team = new] = [em EXCEPT !.machine = m]
    BY <1>2, <1>3 DEF Editors
  <2> HIDE DEF m
  <2> QED
    BY <1>2, <2>2, <2>3, <2>4, MachineRolesKeep, EditKeeps
<1>6. ASSUME NEW pick, ChooseProjectRole(pick)  PROVE EditorInv'
  <2> DEFINE t == editor.project.team
             new == IF t = Absent THEN t
                    ELSE [driver |-> editor.project.driver, pick |-> pick]
             j == [editor.project EXCEPT !.team = new]
  <2>1. new \in Team \cup {Absent}
    BY <1>4, <1>6, Teams DEF ChooseProjectRole, ProjectForms
  <2>2. Edit([ep EXCEPT !.project.team = new])
    BY <1>6 DEF ChooseProjectRole
  <2> HIDE DEF new, ep
  <2>3. j \in ProjectForms /\ j.loaded = ep.project.loaded
    BY <1>2, <1>4, <2>1 DEF ProjectForms
  <2>4. [ep EXCEPT !.project.team = new] = [ep EXCEPT !.project = j]
    BY <1>2 DEF Editors
  <2> HIDE DEF j
  <2> QED
    BY <1>2, <2>2, <2>3, <2>4, ProjectRolesKeep, EditKeeps
<1>7. ASSUME NEW d \in Drivers, NEW e, Sound(e, disk.project), e.machine = editor.machine
      PROVE  Sound([e EXCEPT !.machine.driver = d, !.machine.team = Absent,
                             !.defaults.machine = d], disk.project)
  <2> DEFINE m == [editor.machine EXCEPT !.driver = d, !.team = Absent]
  <2>1. m \in MachineForms
    BY <1>4 DEF MachineForms
  <2>2. [e EXCEPT !.machine.driver = d, !.machine.team = Absent, !.defaults.machine = d]
          = [e EXCEPT !.machine = m, !.defaults.machine = d]
    BY <1>7 DEF Sound, Editors
  <2> HIDE DEF m
  <2> QED
    BY <1>7, <2>1, <2>2, MachineRolesKeep
<1>8. ASSUME NEW d \in Drivers, ChooseMachineDriver(d)  PROVE EditorInv'
  BY <1>2, <1>3, <1>7, <1>8, EditKeeps DEF ChooseMachineDriver
<1>9. ASSUME NEW d \in Drivers, ChooseProjectDriver(d)  PROVE EditorInv'
  <2> DEFINE j == [editor.project EXCEPT !.driver = d, !.team = Absent]
             f == [ep EXCEPT !.project = j, !.defaults.project = d]
  <2>1. Edit([ep EXCEPT !.project.driver = d, !.project.team = Absent,
                        !.defaults.project = d])
    BY <1>9 DEF ChooseProjectDriver
  <2> HIDE DEF ep
  <2>2. j \in ProjectForms /\ j.loaded = ep.project.loaded
    BY <1>2, <1>4 DEF ProjectForms
  <2>3. [ep EXCEPT !.project.driver = d, !.project.team = Absent,
                   !.defaults.project = d] = f
    BY <1>2 DEF Editors
  <2> HIDE DEF j
  <2>4. Sound(f, disk.project)
    BY <1>2, <2>2, ProjectRolesKeep
  <2> QED
    BY <2>1, <2>3, <2>4, EditKeeps
<1>10. ASSUME NEW d \in Drivers, ConfigureDriver(d)  PROVE EditorInv'
  <2> DEFINE e == [em EXCEPT !.saving.machine = IF @ = Absent THEN @
                                                ELSE [@ EXCEPT !.signature = <<>>]]
             s == IF em.saving.machine = Absent THEN Absent
                  ELSE [em.saving.machine EXCEPT !.signature = <<>>]
             f == [em EXCEPT !.saving.machine = s]
  <2> HIDE DEF em
  <2>1. s \in MachineSaves \cup {Absent} /\ (s # Absent => s.signature = <<>>)
    BY <1>2 DEF Editors, MachineSaves
  <2> HIDE DEF s
  <2>2. f \in Editors
    BY <1>2, <2>1 DEF Editors
  <2>3. /\ f.dialogs = em.dialogs /\ f.install = em.install /\ f.snap = em.snap
        /\ f.project = em.project /\ f.asked = em.asked /\ f.saving.machine = s
        /\ f.saving.project = em.saving.project /\ f.saving.reset = em.saving.reset
        /\ f.machine = em.machine
    BY <1>2 DEF Editors
  <2> HIDE DEF f
  <2>4. Signed(f) /\ Informed(f, disk.project)
    BY <1>2, <2>1, <2>3 DEF Sound, Signed, Informed
  <2>5. Sound(f, disk.project)
    BY <1>2, <2>2, <2>3, <2>4, SavesSound DEF Sound
  <2>6. Edit(IF editor.firstRun
             THEN [f EXCEPT !.machine.driver = d, !.machine.team = Absent,
                            !.defaults.machine = d]
             ELSE f)
    BY <1>10 DEF ConfigureDriver, f, s, em
  <2>7. Sound([f EXCEPT !.machine.driver = d, !.machine.team = Absent,
                        !.defaults.machine = d], disk.project)
    BY <1>3, <1>7, <2>3, <2>5
  <2>8. CASE editor.firstRun
    BY <2>6, <2>7, <2>8, EditKeeps
  <2>9. CASE ~editor.firstRun
    BY <2>5, <2>6, <2>9, EditKeeps
  <2> QED
    BY <2>8, <2>9
<1>11. CASE CustomizeProject
  <2> DEFINE d == editor.project.loaded.effective.driver
             j == [editor.project EXCEPT !.customizing = TRUE, !.driver = d]
  <2>1. Becomes([ep EXCEPT !.project.customizing = TRUE, !.project.driver = d])
    BY <1>11 DEF CustomizeProject
  <2>2. d \in Drivers
    BY <1>4, <1>11, Teams DEF CustomizeProject, ProjectForms, Loaded
  <2> HIDE DEF d, ep
  <2>3. j \in ProjectForms
    BY <1>4, <2>2 DEF ProjectForms
  <2>4. j.loaded = ep.project.loaded
    BY <1>2, <1>4 DEF ProjectForms
  <2>5. [ep EXCEPT !.project.customizing = TRUE, !.project.driver = d]
          = [ep EXCEPT !.project = j]
    BY <1>2 DEF Editors
  <2> HIDE DEF j
  <2> QED
    BY <1>2, <2>1, <2>3, <2>4, <2>5, ProjectRolesKeep, ShownKeeps
<1>12. ASSUME NEW s \in Scopes, UseRecommended(s)  PROVE EditorInv'
  <2>1. /\ editor.machine.driver \in Drivers \cup {Absent}
        /\ editor.project.driver \in Drivers \cup {Absent}
    BY <1>4 DEF MachineForms, ProjectForms
  <2>2. /\ Sound([editor EXCEPT !.defaults.machine = editor.machine.driver], disk.project)
        /\ Sound([editor EXCEPT !.defaults.project = editor.project.driver], disk.project)
    BY <1>1, <1>4, <2>1, MachineRolesKeep
  <2> QED
    BY <1>12, <2>2, ShownKeeps DEF UseRecommended
<1> QED
  BY <1>5, <1>6, <1>8, <1>9, <1>10, <1>11, <1>12 DEF Edits

\* Only the installation on its way changes, and no dialog is about it.
LEMMA InstallSound ==
  ASSUME NEW e, NEW p, Sound(e, p), NEW i \in Installs \cup {Absent},
         \A q \in Questions :
           e.dialogs # <<q>> \/ q.kind # "install",
         \A q \in Questions : e.dialogs # <<Raised, q>>
  PROVE  Sound([e EXCEPT !.install = i], p)
<1> DEFINE f == [e EXCEPT !.install = i]
<1>1. f \in Editors
  BY DEF Sound, Editors
<1>2. /\ f.dialogs = e.dialogs /\ f.snap = e.snap /\ f.saving = e.saving
      /\ f.project = e.project /\ f.asked = e.asked
  BY DEF Sound, Editors
<1> HIDE DEF f
<1>3. Questioned(f)
  <2>1. CASE e.dialogs = <<>>
    BY <1>2, <2>1 DEF Questioned
  <2>2. CASE \E q \in Questions : e.dialogs = <<q>> /\ Grounded(e, q)
    BY <1>2, <2>2 DEF Questioned, Grounded
  <2> QED
    BY <2>1, <2>2 DEF Sound, Questioned
<1>4. Undisturbed(f) /\ Signed(f) /\ Informed(f, p)
  BY <1>2 DEF Sound, Undisturbed, Signed, Informed, ProjectDirty
<1> QED
  BY <1>1, <1>3, <1>4 DEF Sound, f

LEMMA DecidesKeeps ==
  ASSUME EditorInv, Decides
  PROVE  EditorInv'
<1>1. Sound(editor, disk.project)
  BY DEF EditorInv
<1>2. CASE Save
  <2> DEFINE s == DisplayedScope(editor)
  <2>1. s \in Scopes
    BY <1>1 DEF DisplayedScope, Sound, Editors, Scopes
  <2>2. CanSave(editor, s) /\ Becomes(SaveSent(editor, s))
    BY <1>2 DEF Save
  <2> QED
    BY <1>1, <2>1, <2>2, SentKeeps, ShownKeeps
<1>3. CASE ReviewReset
  <2> DEFINE q == [kind |-> "reset"]
  <2>1. /\ editor.dialogs = <<>> /\ editor.project.loaded # Absent
        /\ Becomes([editor EXCEPT !.dialogs = <<q>>])
    BY <1>3 DEF ReviewReset, Facing
  <2>2. q \in Questions
    BY DEF Questions
  <2>3. Grounded(editor, q)
    BY <2>1 DEF Grounded
  <2> HIDE DEF q
  <2> QED
    BY <1>1, <2>1, <2>2, <2>3, RaiseKeeps, ShownKeeps
<1>4. CASE PreviewInstall
  <2>1. PICK d \in Drivers :
          Becomes([editor EXCEPT !.install = [phase |-> "previewing", driver |-> d]])
    BY <1>4 DEF PreviewInstall
  <2>2. editor.dialogs = <<>>
    BY <1>4 DEF PreviewInstall, Facing
  <2>3. [phase |-> "previewing", driver |-> d] \in Installs
    BY DEF Installs
  <2>4. /\ \A q \in Questions : editor.dialogs # <<q>>
        /\ \A q \in Questions : editor.dialogs # <<Raised, q>>
    BY <2>2
  <2> QED
    BY <1>1, <2>1, <2>3, <2>4, InstallSound, ShownKeeps
<1>5. ASSUME editor.dialogs # <<>>
      PROVE  LET q == Head(editor.dialogs)
                 e == [editor EXCEPT !.dialogs = Tail(@)]
             IN /\ Sound(e, disk.project) /\ q \in Questions /\ Grounded(e, q)
                /\ \A d \in Destinations \cup {Absent}, s \in Scopes :
                     LET f == [e EXCEPT !.pending = d] IN
                     Sound(f, disk.project) /\ (CanSave(e, s) => CanSave(f, s))
  <2> DEFINE q == Head(editor.dialogs)
             e == [editor EXCEPT !.dialogs = Tail(@)]
  <2>1. Sound(e, disk.project) /\ q \in Questions /\ Grounded(editor, q)
    BY <1>1, <1>5, PopKeeps
  <2>2. Grounded(e, q)
    <3>1. e.snap = editor.snap /\ e.project = editor.project /\ e.install = editor.install
      BY <1>1 DEF Sound, Editors
    <3> HIDE DEF e, q
    <3> QED
      BY <2>1, <3>1 DEF Grounded
  <2>3. ASSUME NEW d \in Destinations \cup {Absent}, NEW s \in Scopes
        PROVE  LET f == [e EXCEPT !.pending = d] IN
               Sound(f, disk.project) /\ (CanSave(e, s) => CanSave(f, s))
    <3> DEFINE f == [e EXCEPT !.pending = d]
    <3> HIDE DEF e
    <3>1. f \in Editors
      BY <2>1, <2>3 DEF Sound, Editors
    <3>2. /\ f.dialogs = e.dialogs /\ f.install = e.install
          /\ f.saving = e.saving /\ f.snap = e.snap
          /\ f.project = e.project /\ f.asked = e.asked
          /\ f.machine = e.machine
      BY <2>1 DEF Sound, Editors
    <3>3. f[s] = e[s]
      BY <2>1 DEF Sound, Editors, Scopes
    <3> HIDE DEF f
    <3>4. Sound(f, disk.project)
      BY <2>1, <3>1, <3>2, AsSoundToo
    <3>5. CanSave(e, s) => CanSave(f, s)
      BY <3>2, <3>3 DEF CanSave, Saveable, Ready
    <3> QED
      BY <3>4, <3>5 DEF f
  <2> QED
    BY <2>1, <2>2, <2>3
<1>6. ASSUME NEW c \in {"continue", "discard", "save"}, AnswerUnsaved(c)
      PROVE  EditorInv'
  <2> DEFINE q == Head(editor.dialogs)
             e == [editor EXCEPT !.dialogs = Tail(@)]
  <2>1. /\ Sound(e, disk.project) /\ q \in Questions /\ Grounded(e, q)
        /\ \A d \in Destinations \cup {Absent}, s \in Scopes :
             /\ Sound([e EXCEPT !.pending = d], disk.project)
             /\ CanSave(e, s) => CanSave([e EXCEPT !.pending = d], s)
    BY <1>5, <1>6 DEF AnswerUnsaved
  <2>2. q.kind = "unsaved"
    BY <1>6 DEF AnswerUnsaved
  <2>3. /\ c = "continue" => Becomes(e)
        /\ c = "discard" => Becomes(Arrive(Restore(e, q.scope), q.destination))
        /\ c = "save" =>
             Becomes(IF CanSave(e, q.scope)
                     THEN SaveSent([e EXCEPT !.pending = q.destination], q.scope)
                     ELSE [e EXCEPT !.pending = Absent])
    BY <1>6 DEF AnswerUnsaved
  <2> HIDE DEF q, e
  <2>4. q.scope \in Scopes /\ q.destination \in Destinations
    BY <2>1, <2>2 DEF Questions
  <2>5. Sound(Restore(e, q.scope), disk.project)
    BY <2>1, <2>2, <2>4, RestoreKeeps DEF Grounded
  <2>6. Sound(Arrive(Restore(e, q.scope), q.destination), disk.project)
    BY <2>4, <2>5, ArriveKeeps
  <2>7. CanSave(e, q.scope) =>
          Sound(SaveSent([e EXCEPT !.pending = q.destination], q.scope), disk.project)
    BY <2>1, <2>4, SentKeeps
  <2>8. Sound([e EXCEPT !.pending = Absent], disk.project)
    BY <2>1, <2>4
  <2>9. CASE c = "continue"
    BY <2>1, <2>3, <2>9, ShownKeeps
  <2>10. CASE c = "discard"
    BY <2>3, <2>6, <2>10, ShownKeeps
  <2>11. CASE c = "save"
    <3>1. CASE CanSave(e, q.scope)
      BY <2>3, <2>7, <2>11, <3>1, ShownKeeps
    <3>2. CASE ~CanSave(e, q.scope)
      BY <2>3, <2>8, <2>11, <3>2, ShownKeeps
    <3> QED
      BY <3>1, <3>2
  <2> QED
    BY <2>9, <2>10, <2>11
<1>7. ASSUME NEW accepted \in BOOLEAN, AnswerReview(accepted)
      PROVE  EditorInv'
  <2> DEFINE q == Head(editor.dialogs)
             e == [editor EXCEPT !.dialogs = Tail(@)]
             sent == [phase |-> "sent", expected |-> e.project.loaded.rev]
             f == [e EXCEPT !.saving.reset = sent]
  <2>1. Sound(e, disk.project) /\ q \in Questions /\ Grounded(e, q)
    BY <1>5, <1>7 DEF AnswerReview
  <2>2. q = Raised =>
          \/ e.dialogs = <<>>
          \/ \E r \in Questions : e.dialogs = <<r>> /\ r # Raised
    <3>1. editor.dialogs # <<>>
      BY <1>7 DEF AnswerReview
    <3>2. e.dialogs = Tail(editor.dialogs)
      BY <1>1 DEF Sound, Editors
    <3> HIDE DEF e
    <3> QED
      BY <1>1, <3>1, <3>2, PopKeeps
  <2>3. \/ q.kind = "reset" /\ Becomes(IF accepted /\ e.saving.reset = Absent THEN f ELSE e)
        \/ q.kind = "install" /\ Becomes(IF accepted THEN [e EXCEPT !.install.phase = "accepted"]
                                         ELSE [e EXCEPT !.install = Absent])
    BY <1>7 DEF AnswerReview
  <2> HIDE DEF q, e
  <2>4. ASSUME q.kind = "reset"  PROVE Sound(f, disk.project)
    <3>1. e.project.loaded \in Loaded /\ e.project.loaded # Absent
      BY <2>1, <2>4 DEF Grounded, Sound, Editors, ProjectForms
    <3>2. sent \in ResetSaves /\ sent.phase = "sent" /\ sent.expected = e.project.loaded.rev
      BY <3>1 DEF ResetSaves, Progress, Loaded
    <3> HIDE DEF sent
    <3>3. f \in Editors
      BY <2>1, <3>2 DEF Sound, Editors
    <3>4. /\ f.dialogs = e.dialogs /\ f.install = e.install /\ f.snap = e.snap
          /\ f.project = e.project /\ f.asked = e.asked /\ f.saving.reset = sent
          /\ f.saving.machine = e.saving.machine /\ f.saving.project = e.saving.project
      BY <2>1 DEF Sound, Editors
    <3> HIDE DEF f
    <3>5. Signed(f)
      BY <2>1, <3>4 DEF Sound, Signed
    <3>6. Informed(f, disk.project)
      BY <2>1, <3>1, <3>2, <3>4 DEF Sound, Informed, Knows
    <3> QED
      BY <2>1, <3>3, <3>4, <3>5, <3>6, SavesSound DEF Sound
  <2>5. ASSUME q.kind = "install"
        PROVE  /\ Sound([e EXCEPT !.install.phase = "accepted"], disk.project)
               /\ Sound([e EXCEPT !.install = Absent], disk.project)
    <3>1. q = Raised
      BY <2>1, <2>5 DEF Questions, Raised
    <3>2. /\ \A r \in Questions : e.dialogs # <<r>> \/ r.kind # "install"
          /\ \A r \in Questions : e.dialogs # <<Raised, r>>
      <4>1. \A r \in Questions : r.kind = "install" => r = Raised
        BY DEF Questions, Raised
      <4>2. CASE e.dialogs = <<>>
        BY <4>2
      <4>3. CASE \E r \in Questions : e.dialogs = <<r>> /\ r # Raised
        BY <4>1, <4>3
      <4> QED
        BY <2>2, <3>1, <4>2, <4>3
    <3>3. /\ e.install \in Installs
          /\ [e EXCEPT !.install.phase = "accepted"]
               = [e EXCEPT !.install = [e.install EXCEPT !.phase = "accepted"]]
      BY <2>1, <2>5 DEF Grounded, Sound, Editors
    <3>4. [e.install EXCEPT !.phase = "accepted"] \in Installs
      BY <3>3 DEF Installs
    <3> QED
      BY <2>1, <3>2, <3>3, <3>4, InstallSound
  <2>6. CASE q.kind = "reset"
    <3>1. CASE accepted /\ e.saving.reset = Absent
      BY <2>3, <2>4, <2>6, <3>1, ShownKeeps
    <3>2. CASE ~(accepted /\ e.saving.reset = Absent)
      BY <2>1, <2>3, <2>6, <3>2, ShownKeeps
    <3> QED
      BY <3>1, <3>2
  <2>7. CASE q.kind = "install"
    <3>1. CASE accepted
      BY <2>3, <2>5, <2>7, <3>1, ShownKeeps
    <3>2. CASE ~accepted
      BY <2>3, <2>5, <2>7, <3>2, ShownKeeps
    <3> QED
      BY <3>1, <3>2
  <2> QED
    BY <2>3, <2>6, <2>7
<1> QED
  BY <1>2, <1>3, <1>4, <1>6, <1>7 DEF Decides

LEMMA WritesKeeps ==
  ASSUME EditorInv, Writes
  PROVE  EditorInv'
<1> DEFINE P == disk.project
<1>1. /\ Sound(editor, P) /\ disk \in Disks /\ P \in ProjectFiles
      /\ disk.machine.rev \in Nat /\ P.rev \in Nat /\ editor \in Editors
  BY EditorAssumption DEF EditorInv, EditorTypeOK, Sound, Disks, ProjectFiles
\* A save that was written stays in the editor until it is answered.
<1>2. ASSUME NEW s \in Saves, SaveUnderWay(s)
      PROVE  LET f == [editor EXCEPT !.saving[s].phase = "written"] IN
             /\ f \in Editors /\ f.dialogs = editor.dialogs /\ f.install = editor.install
             /\ f.snap = editor.snap /\ f.project = editor.project
             /\ f.asked = editor.asked
             /\ f.saving = [editor.saving EXCEPT ![s].phase = "written"]
  <2>1. editor.saving \in [machine : MachineSaves \cup {Absent},
                           project : ProjectSaves \cup {Absent},
                           reset : ResetSaves \cup {Absent}]
    BY <1>1 DEF Editors
  <2>2. [editor.saving EXCEPT ![s].phase = "written"] \in
          [machine : MachineSaves \cup {Absent}, project : ProjectSaves \cup {Absent},
           reset : ResetSaves \cup {Absent}]
    <3>1. CASE s = "machine"
      BY <1>2, <2>1, <3>1 DEF SaveUnderWay, MachineSaves, Progress
    <3>2. CASE s = "project"
      BY <1>2, <2>1, <3>2 DEF SaveUnderWay, ProjectSaves, Progress
    <3>3. CASE s = "reset"
      BY <1>2, <2>1, <3>3 DEF SaveUnderWay, ResetSaves, Progress
    <3> QED
      BY <3>1, <3>2, <3>3 DEF Saves
  <2> QED
    BY <1>1, <2>2 DEF Editors
<1>3. CASE WriteMachine
  <2> DEFINE f == [editor EXCEPT !.saving["machine"].phase = "written"]
  <2>1. /\ f \in Editors /\ f.dialogs = editor.dialogs /\ f.install = editor.install
        /\ f.snap = editor.snap /\ f.project = editor.project
        /\ f.asked = editor.asked
        /\ f.saving = [editor.saving EXCEPT !["machine"].phase = "written"]
    BY <1>2, <1>3 DEF WriteMachine, Saves
  <2>2. /\ editor' = f /\ UNCHANGED <<installed, startup, edits>>
        /\ editor.saving.machine # Absent
        /\ SaveMachineFile(editor.machine.base, editor.saving.machine.team)
    BY <1>3 DEF WriteMachine, Written, SaveUnderWay
  <2>3. editor.saving.machine \in MachineSaves /\ editor.saving.machine.team \in Team
    BY <1>1, <2>2 DEF Editors, MachineSaves
  <2> HIDE DEF f
  <2>4. /\ f.saving.machine.signature = editor.saving.machine.signature
        /\ f.saving.machine.team = editor.saving.machine.team
        /\ f.saving.project = editor.saving.project
        /\ f.saving.reset = editor.saving.reset
    BY <1>1, <2>1, <2>3 DEF Editors, MachineSaves
  <2>5. Signed(f)
    BY <1>1, <2>2, <2>4 DEF Sound, Signed
  <2>6. Informed(f, P)
    BY <1>1, <2>1, <2>4 DEF Sound, Informed
  <2>7. Sound(f, P)
    BY <1>1, <2>1, <2>5, <2>6, SavesSound
  <2>8. disk' \in Disks /\ disk'.project = P
    BY <1>1, <2>2, <2>3, EditorAssumption DEF SaveMachineFile, AtLastRevision, Disks
  <2> QED
    BY <2>1, <2>2, <2>7, <2>8 DEF EditorInv, EditorTypeOK
<1>4. CASE WriteProject
  <2> DEFINE f == [editor EXCEPT !.saving["project"].phase = "written"]
             s == editor.saving.project
             Q == [rev |-> s.expected + 1, team |-> s.team]
  <2>1. /\ f \in Editors /\ f.dialogs = editor.dialogs /\ f.install = editor.install
        /\ f.snap = editor.snap /\ f.project = editor.project
        /\ f.asked = editor.asked
        /\ f.saving = [editor.saving EXCEPT !["project"].phase = "written"]
    BY <1>2, <1>4 DEF WriteProject, Saves
  <2>2. /\ editor' = f /\ UNCHANGED <<installed, startup, edits>>
        /\ s # Absent /\ s.phase = "sent"
        /\ SaveProjectFile(s.expected, s.team)
    BY <1>4 DEF WriteProject, Written, SaveUnderWay
  <2>3. s \in ProjectSaves /\ s.team \in Team
    BY <1>1, <2>2 DEF Editors, ProjectSaves
  <2>4. disk' \in Disks /\ disk'.project = Q /\ s.expected = P.rev
    BY <1>1, <2>2, <2>3, EditorAssumption DEF SaveProjectFile, AtLastRevision, Disks
  <2>5. Q \in ProjectFiles /\ Q.rev = P.rev + 1
    BY <2>4 DEF Disks, ProjectFiles
  <2>6. Sound(editor, Q)
    <3> HIDE DEF Q
    <3> QED
      BY <1>1, <2>5, FileMovesOn
  <2> HIDE DEF f
  <2>7. /\ f.saving.project.signature = s.signature
        /\ f.saving.project.team = s.team
        /\ f.saving.project.phase = "written"
        /\ f.saving.project.expected = s.expected
        /\ f.saving.machine = editor.saving.machine
        /\ f.saving.reset = editor.saving.reset
    BY <1>1, <2>1, <2>3 DEF Editors, ProjectSaves
  <2>8. Signed(f)
    BY <1>1, <2>2, <2>7 DEF Sound, Signed
  <2>9. Informed(f, Q)
    <3>1. Knows(Q, s.expected + 1, s.team)
      BY <1>1, <2>4 DEF Knows
    <3> HIDE DEF Q
    <3> QED
      BY <2>1, <2>6, <2>7, <3>1 DEF Sound, Informed
  <2>10. Sound(f, Q)
    <3> HIDE DEF Q
    <3> QED
      BY <2>1, <2>5, <2>6, <2>8, <2>9, SavesSound
  <2> HIDE DEF Q
  <2> QED
    BY <2>1, <2>2, <2>4, <2>10, EditorInv DEF EditorInv, EditorTypeOK
<1>5. CASE WriteReset
  <2> DEFINE f == [editor EXCEPT !.saving["reset"].phase = "written"]
             s == editor.saving.reset
             Q == [rev |-> s.expected + 1, team |-> Absent]
  <2>1. /\ f \in Editors /\ f.dialogs = editor.dialogs /\ f.install = editor.install
        /\ f.snap = editor.snap /\ f.project = editor.project
        /\ f.asked = editor.asked
        /\ f.saving = [editor.saving EXCEPT !["reset"].phase = "written"]
    BY <1>2, <1>5 DEF WriteReset, Saves
  <2>2. /\ editor' = f /\ UNCHANGED <<installed, startup, edits>>
        /\ s # Absent /\ SaveProjectFile(s.expected, Absent)
    BY <1>5 DEF WriteReset, Written, SaveUnderWay
  <2>3. s \in ResetSaves
    BY <1>1, <2>2 DEF Editors
  <2>4. disk' \in Disks /\ disk'.project = Q /\ s.expected = P.rev
    BY <1>1, <2>2, <2>3, EditorAssumption DEF SaveProjectFile, AtLastRevision, Disks
  <2>5. Q \in ProjectFiles /\ Q.rev = P.rev + 1
    BY <2>4 DEF Disks, ProjectFiles
  <2>6. Sound(editor, Q)
    <3> HIDE DEF Q
    <3> QED
      BY <1>1, <2>5, FileMovesOn
  <2> HIDE DEF f
  <2>7. /\ f.saving.reset.phase = "written"
        /\ f.saving.reset.expected = s.expected
        /\ f.saving.machine = editor.saving.machine
        /\ f.saving.project = editor.saving.project
    BY <1>1, <2>1, <2>3 DEF Editors, ResetSaves
  <2>8. Signed(f)
    BY <1>1, <2>7 DEF Sound, Signed
  <2>9. Informed(f, Q)
    <3>1. Knows(Q, s.expected + 1, Absent)
      BY <1>1, <2>4 DEF Knows
    <3> HIDE DEF Q
    <3> QED
      BY <2>1, <2>6, <2>7, <3>1 DEF Sound, Informed
  <2>10. Sound(f, Q)
    <3> HIDE DEF Q
    <3> QED
      BY <2>1, <2>5, <2>6, <2>8, <2>9, SavesSound
  <2> HIDE DEF Q
  <2> QED
    BY <2>1, <2>2, <2>4, <2>10, EditorInv DEF EditorInv, EditorTypeOK
<1>6. CASE RunInstall
  <2> DEFINE e == [editor EXCEPT !.install = Absent]
  <2>1. editor.install # Absent /\ editor.install.phase = "accepted"
    BY <1>6 DEF RunInstall
  <2>2. /\ \A q \in Questions : editor.dialogs # <<q>> \/ q.kind # "install"
        /\ \A q \in Questions : editor.dialogs # <<Raised, q>>
    <3>1. ~Grounded(editor, Raised)
      BY <2>1 DEF Grounded, Raised
    <3>2. \A q \in Questions : q.kind = "install" => ~Grounded(editor, q)
      BY <2>1 DEF Grounded
    <3>3. CASE editor.dialogs = <<>>
      BY <3>3
    <3>4. CASE \E q \in Questions : editor.dialogs = <<q>> /\ Grounded(editor, q)
      BY <3>2, <3>4
    <3> QED
      BY <1>1, <3>1, <3>3, <3>4 DEF Sound, Questioned
  <2>3. Sound(e, P)
    BY <1>1, <2>2, InstallSound
  <2>4. Sound(Ask(e, "setup"), P)
    <3> HIDE DEF e
    <3> QED
      BY <2>3, AskKeeps DEF Reads
  <2>5. /\ editor' \in {e, Ask(e, "setup")} /\ UNCHANGED <<disk, startup, edits>>
        /\ installed' \in {installed, installed \cup {editor.install.driver}}
    BY <1>6 DEF RunInstall
  <2>6. editor.install.driver \in Drivers
    BY <1>1, <2>1 DEF Editors, Installs
  <2>7. installed' \subseteq Drivers
    BY <2>5, <2>6 DEF EditorInv, EditorTypeOK
  <2>8. Sound(editor', P)
    BY <2>3, <2>4, <2>5
  <2> QED
    BY <2>5, <2>7, <2>8 DEF EditorInv, EditorTypeOK, Sound
<1> QED
  BY <1>3, <1>4, <1>5, <1>6 DEF Writes

\* The answer to a save of the project's form: the form holds what was saved, or
\* keeps what the user has made of it since.
LEMMA ProjectSaveAnswered ==
  ASSUME EditorInv, AnswerProjectSave
  PROVE  /\ EditorInv'
         /\ ProjectSignature(editor') = ProjectSignature(editor) \/ ~editor'.open
<1> DEFINE P == disk.project
           s == editor.saving.project
           dropped == [editor EXCEPT !.saving.project = Absent]
           answered == Answered(dropped, "project")
           l == [rev |-> s.expected + 1, override |-> s.team, effective |-> s.team]
           saved == WithProject(answered, l)
           kept == [saved EXCEPT !.project.team = editor.project.team,
                                 !.project.driver = editor.project.driver,
                                 !.pending = Absent]
<1>1. Sound(editor, P) /\ editor \in Editors /\ P \in ProjectFiles
  BY DEF EditorInv, Sound
<1>2. s # Absent /\ s.phase = "written"
  BY DEF AnswerProjectSave
<1>3. s \in ProjectSaves /\ s.team \in Team /\ s.expected \in Nat
  BY <1>1, <1>2, EditorAssumption DEF Editors, ProjectSaves
<1>4. Knows(P, s.expected + 1, s.team) /\ s.signature = <<s.team.driver, s.team>>
  BY <1>1, <1>2 DEF Sound, Informed, Signed
<1>5. l \in Loaded /\ Knows(P, l.rev, l.override)
  BY <1>1, <1>3, <1>4, EditorAssumption DEF Loaded, Knows, ProjectFiles
<1>6. Sound(dropped, P) /\ dropped.project = editor.project
  <2>1. dropped = [editor EXCEPT !.saving["project"] = Absent]
    OBVIOUS
  <2> QED
    BY <1>1, <2>1, DropKeeps DEF Saves
<1>7. Sound(answered, P) /\ answered.project = editor.project
  <2> HIDE DEF dropped
  <2> QED
    BY <1>6, AnsweredKeeps
<1>8. "project" \notin answered.asked
  BY <1>1 DEF Answered, Editors
<1>9. /\ Sound(saved, P) /\ saved.asked = answered.asked
      /\ saved.project.driver = s.team.driver /\ saved.project.team = s.team
      /\ saved.project.loaded = l
  <2>1. Sound(saved, P)
    <3> HIDE DEF answered, l
    <3> QED
      BY <1>5, <1>7, ProjectKeeps
  <2>2. l.effective = s.team
    OBVIOUS
  <2>3. /\ saved.asked = answered.asked /\ saved.project.driver = l.effective.driver
        /\ saved.project.team = l.effective /\ saved.project.loaded = l
    <3> HIDE DEF answered, l
    <3> QED
      BY <1>7 DEF WithProject, Sound, Editors
  <2> QED
    BY <2>1, <2>2, <2>3
<1>10. Becomes(IF ProjectSignature(editor) # s.signature THEN kept ELSE FinishPending(saved))
  BY DEF AnswerProjectSave
<1> HIDE DEF dropped, answered, l, saved
<1>11. Sound(kept, P) /\ ProjectSignature(kept) = ProjectSignature(editor)
  <2> DEFINE j == [saved.project EXCEPT !.team = editor.project.team,
                                        !.driver = editor.project.driver]
             f == [saved EXCEPT !.project = j]
             g == [f EXCEPT !.pending = Absent]
  <2>1. saved \in Editors /\ saved.project \in ProjectForms
    BY <1>9 DEF Sound, Editors
  <2>2. /\ j \in ProjectForms /\ j.loaded = saved.project.loaded
        /\ j.team = editor.project.team /\ j.driver = editor.project.driver
    BY <1>1, <2>1 DEF Editors, ProjectForms
  <2>3. kept = g
    BY <2>1 DEF Editors, ProjectForms
  <2> HIDE DEF j
  <2>4. Sound(f, P) /\ f.project = j
    <3>1. Sound(f, P)
      BY <1>8, <1>9, <2>2, ProjectRolesKeep
    <3>2. f.project = j
      BY <2>1 DEF Editors
    <3> QED
      BY <3>1, <3>2
  <2> HIDE DEF f
  <2>5. /\ g \in Editors
        /\ g.dialogs = f.dialogs /\ g.install = f.install /\ g.saving = f.saving
        /\ g.snap = f.snap /\ g.project = f.project /\ g.asked = f.asked
    BY <2>4 DEF Sound, Editors
  <2> HIDE DEF g
  <2>6. Sound(g, P)
    BY <2>4, <2>5, AsSoundToo
  <2> QED
    BY <2>2, <2>3, <2>4, <2>5, <2>6 DEF ProjectSignature
<1>12. Sound(FinishPending(saved), P)
  BY <1>9, FinishKeeps
<1>13. CASE ProjectSignature(editor) # s.signature
  <2>1. editor' = kept
    BY <1>10, <1>13 DEF Becomes
  <2> QED
    BY <1>10, <1>11, <1>13, <2>1, ShownKeeps
<1>14. CASE ProjectSignature(editor) = s.signature
  <2>1. editor' = FinishPending(saved)
    BY <1>10, <1>14 DEF Becomes
  <2>2. EditorInv'
    BY <1>10, <1>12, <1>14, ShownKeeps
  <2>3. ProjectSignature(saved) = ProjectSignature(editor)
    BY <1>4, <1>9, <1>14 DEF ProjectSignature
  <2>4. ProjectSignature(FinishPending(saved)) = ProjectSignature(saved)
          \/ ~FinishPending(saved).open
    BY <1>9, FinishShows DEF ProjectSignature
  <2> QED
    BY <2>1, <2>2, <2>3, <2>4
<1> QED
  BY <1>13, <1>14

LEMMA OneAbove ==
  ASSUME NEW S, NEW a \in S, NEW b \in S
  PROVE  <<a>> \o <<b>> = <<a, b>>
<1> DEFINE s == <<a>>
           t == <<b>>
           u == s \o t
           v == <<a, b>>
<1>1. /\ s \in Seq(S) /\ Len(s) = 1 /\ s[1] = a
      /\ t \in Seq(S) /\ Len(t) = 1 /\ t[1] = b
      /\ v \in Seq(S) /\ Len(v) = 2 /\ v[1] = a /\ v[2] = b
  OBVIOUS
<1> HIDE DEF s, t, v
<1>2. u \in Seq(S) /\ Len(u) = 2 /\ u[1] = a /\ u[2] = b
  BY <1>1, ConcatProperties
<1> HIDE DEF u
<1>3. u = v
  BY <1>1, <1>2, SeqEqual
<1> QED
  BY <1>3 DEF s, t, u, v

\* What a thread answers to another request leaves the roles of the project's form
\* alone.
OtherAnswers ==
  \/ AnswerSetup \/ AnswerPolicies
  \/ \E r \in Reads : ReadFails(r)
  \/ AnswerDefaults("machine") \/ \E s \in Scopes : DefaultsFail(s)
  \/ AnswerMachineSave
  \/ \E s \in Saves : SaveFails(s)
  \/ InstallPreviewed
  \/ ReadAtStartup \/ RouteAtStartup \/ StartupFails

LEMMA OtherAnswersKeep ==
  ASSUME EditorInv, OtherAnswers
  PROVE  /\ EditorInv'
         /\ editor'.project = editor.project \/ ~editor'.open \/ ~editor.open
<1> DEFINE P == disk.project
           Stays(e) == e.project = editor.project \/ ~e.open
<1>1. /\ Sound(editor, P) /\ editor \in Editors /\ P \in ProjectFiles
      /\ SnapshotNow \in Snapshot /\ disk.machine.team \in Team
      /\ disk.machine.rev \in 0 .. MaxRevisions
  BY Readings DEF EditorInv, EditorTypeOK, Sound, Disks
<1>2. ASSUME NEW e, Becomes(e), Sound(e, P), Stays(e)
      PROVE  EditorInv' /\ (editor'.project = editor.project \/ ~editor'.open)
  BY <1>2, ShownKeeps DEF Becomes
<1>3. CASE AnswerSetup
  <2>1. Becomes(Reloaded(editor, SnapshotNow))
    BY <1>3 DEF AnswerSetup
  <2> QED
    BY <1>1, <1>2, <2>1, ReloadKeeps
<1>4. CASE AnswerPolicies
  <2> DEFINE a == Answered(editor, "policies")
  <2>1. Becomes(WithPolicies(a, disk.machine.team))
    BY <1>4 DEF AnswerPolicies
  <2>2. Sound(a, P) /\ a.project = editor.project
    BY <1>1, AnsweredKeeps
  <2> HIDE DEF a
  <2>3. /\ Sound(WithPolicies(a, disk.machine.team), P)
        /\ WithPolicies(a, disk.machine.team).project = editor.project
    BY <1>1, <2>2, PoliciesKeep
  <2> QED
    BY <1>2, <2>1, <2>3
<1>5. ASSUME NEW r \in Reads, ReadFails(r)
      PROVE  EditorInv' /\ (editor'.project = editor.project \/ ~editor'.open)
  BY <1>1, <1>2, <1>5, AnsweredKeeps DEF ReadFails
<1>6. ASSUME NEW d \in Drivers \cup {Absent}
      PROVE  /\ Sound([editor EXCEPT !.defaults.machine = d], P)
             /\ Sound([editor EXCEPT !.defaults.project = d], P)
  BY <1>1, MachineRolesKeep DEF Editors
<1>7. CASE AnswerDefaults("machine")
  <2> DEFINE d == editor.defaults.machine
             e == [editor EXCEPT !.defaults.machine = Absent]
             m == [editor.machine EXCEPT !.team = RecommendedTeam(d)]
  <2>1. d # Absent /\ d \in Drivers
    BY <1>1, <1>7 DEF AnswerDefaults, Editors
  <2>2. Sound(e, P) /\ e.project = editor.project /\ e.machine = editor.machine
    BY <1>1, <1>6 DEF Editors
  <2>3. Becomes(IF e.machine.driver # d THEN e
                ELSE [e EXCEPT !.machine.team = RecommendedTeam(d)])
    BY <1>7 DEF AnswerDefaults
  <2> HIDE DEF e, d
  <2>4. m \in MachineForms
    BY <1>1, <2>1, RecommendedIsATeam DEF Editors, MachineForms
  <2>5. [e EXCEPT !.machine.team = RecommendedTeam(d)] = [e EXCEPT !.machine = m]
    BY <1>1, <2>2 DEF Sound, Editors
  <2> HIDE DEF m
  <2>6. Sound([e EXCEPT !.machine = m], P)
    BY <2>2, <2>4, MachineRolesKeep
  <2>7. [e EXCEPT !.machine = m].project = editor.project
    BY <2>2 DEF Sound, Editors
  <2>8. CASE e.machine.driver # d
    BY <1>2, <2>2, <2>3, <2>8
  <2>9. CASE e.machine.driver = d
    BY <1>2, <2>3, <2>5, <2>6, <2>7, <2>9
  <2> QED
    BY <2>8, <2>9
<1>8. ASSUME NEW s \in Scopes, DefaultsFail(s)
      PROVE  EditorInv' /\ (editor'.project = editor.project \/ ~editor'.open)
  <2>1. [editor EXCEPT !.defaults[s] = Absent] \in
          {[editor EXCEPT !.defaults.machine = Absent],
           [editor EXCEPT !.defaults.project = Absent]}
    BY DEF Scopes
  <2>2. Sound([editor EXCEPT !.defaults[s] = Absent], P)
    BY <1>6, <2>1
  <2>3. [editor EXCEPT !.defaults[s] = Absent].project = editor.project
    BY <1>1 DEF Editors
  <2> QED
    BY <1>2, <1>8, <2>2, <2>3 DEF DefaultsFail
<1>9. ASSUME NEW e, Sound(e, P), e.project = editor.project, NEW f \in Editors,
             f.dialogs = e.dialogs, f.install = e.install, f.saving = e.saving,
             f.snap \in Snapshot \cup {e.snap}, f.project = e.project,
             f.asked = e.asked
      PROVE  Sound(f, P) /\ f.project = editor.project
  BY <1>9, AsSoundToo, AbsentAssumption
<1>10. CASE AnswerMachineSave
  <2> DEFINE m == editor.saving.machine
             d == [editor EXCEPT !.saving.machine = Absent]
             n == [editor.machine EXCEPT !.saved = m.team, !.base = disk.machine.rev]
             e == [d EXCEPT !.machine = n]
             kept == [e EXCEPT !.snap = SnapshotNow, !.pending = Absent]
             reloaded == Reloaded(e, SnapshotNow)
             passed == [reloaded EXCEPT !.passed = TRUE]
  <2>1. m # Absent /\ m \in MachineSaves
    BY <1>1, <1>10 DEF AnswerMachineSave, Editors
  <2>2. Sound(d, P) /\ d.project = editor.project /\ d.machine = editor.machine
    <3>1. d = [editor EXCEPT !.saving["machine"] = Absent]
      OBVIOUS
    <3>2. d.machine = editor.machine
      BY <1>1 DEF Editors
    <3> HIDE DEF d
    <3> QED
      BY <1>1, <3>1, <3>2, DropKeeps DEF Saves
  <2>3. n \in MachineForms
    BY <1>1, <2>1 DEF Editors, MachineForms, MachineSaves
  <2>4. [editor EXCEPT !.saving.machine = Absent, !.machine.saved = m.team,
                       !.machine.base = disk.machine.rev] = e
    BY <1>1 DEF Editors, MachineForms
  <2>5. Becomes(IF MachineSignature(editor) # m.signature THEN kept
                ELSE FinishPending(passed))
    BY <1>10, <2>4 DEF AnswerMachineSave
  <2> HIDE DEF d, m, n
  <2>6. Sound(e, P) /\ e.project = editor.project
    <3>1. Sound(e, P)
      BY <2>2, <2>3, MachineRolesKeep
    <3>2. e.project = editor.project
      BY <2>2 DEF Sound, Editors
    <3> QED
      BY <3>1, <3>2
  <2> HIDE DEF e
  <2>7. Sound(kept, P) /\ kept.project = editor.project
    <3>1. kept \in Editors
      BY <1>1, <2>6 DEF Sound, Editors
    <3>2. /\ kept.dialogs = e.dialogs /\ kept.install = e.install
          /\ kept.saving = e.saving /\ kept.snap = SnapshotNow
          /\ kept.project = e.project /\ kept.asked = e.asked
      BY <2>6 DEF Sound, Editors
    <3> HIDE DEF kept
    <3> QED
      BY <1>1, <1>9, <2>6, <3>1, <3>2
  <2>8. Sound(reloaded, P) /\ reloaded.project = editor.project
    BY <1>1, <2>6, ReloadKeeps
  <2> HIDE DEF reloaded, kept
  <2>9. Sound(passed, P) /\ passed.project = editor.project
    <3>1. passed \in Editors
      BY <2>8 DEF Sound, Editors
    <3>2. /\ passed.dialogs = reloaded.dialogs /\ passed.install = reloaded.install
          /\ passed.saving = reloaded.saving /\ passed.snap = reloaded.snap
          /\ passed.project = reloaded.project /\ passed.asked = reloaded.asked
      BY <2>8 DEF Sound, Editors
    <3> HIDE DEF passed
    <3> QED
      BY <1>9, <2>8, <3>1, <3>2
  <2> HIDE DEF passed
  <2>10. Sound(FinishPending(passed), P) /\ Stays(FinishPending(passed))
    BY <2>9, FinishKeeps, FinishShows
  <2> HIDE DEF Stays
  <2>11. Stays(kept)
    BY <2>7 DEF Stays
  <2>12. CASE MachineSignature(editor) # m.signature
    BY <1>2, <2>5, <2>7, <2>11, <2>12
  <2>13. CASE MachineSignature(editor) = m.signature
    BY <1>2, <2>5, <2>10, <2>13
  <2> QED
    BY <2>12, <2>13
<1>11. ASSUME NEW s \in Saves, SaveFails(s)
       PROVE  EditorInv' /\ (editor'.project = editor.project \/ ~editor'.open)
  <2> DEFINE e == [editor EXCEPT !.saving[s] = Absent]
             f == [e EXCEPT !.pending = IF s = "reset" THEN @ ELSE Absent]
  <2>1. Becomes(f)
    <3>1. f = [editor EXCEPT !.saving[s] = Absent,
                             !.pending = IF s = "reset" THEN @ ELSE Absent]
      BY <1>1 DEF Editors
    <3> HIDE DEF f
    <3> QED
      BY <1>11, <3>1 DEF SaveFails
  <2>2. Sound(e, P) /\ e.project = editor.project
    BY <1>1, DropKeeps
  <2> HIDE DEF e
  <2>3. f \in Editors
    BY <2>2, ZenonT(60) DEF Sound, Editors
  <2>4. /\ f.dialogs = e.dialogs /\ f.install = e.install /\ f.saving = e.saving
        /\ f.snap = e.snap /\ f.project = e.project /\ f.asked = e.asked
    BY <2>2 DEF Sound, Editors
  <2> HIDE DEF f
  <2>5. Sound(f, P) /\ f.project = editor.project
    BY <1>9, <2>2, <2>3, <2>4
  <2> QED
    BY <1>2, <2>1, <2>5
<1>12. CASE InstallPreviewed
  <2> DEFINE i == [editor.install EXCEPT !.phase = "reviewed"]
             e == [editor EXCEPT !.install = i]
             f == [editor EXCEPT !.install.phase = "reviewed",
                                 !.dialogs = <<[kind |-> "install"]>> \o @]
             g == [editor EXCEPT !.install = Absent]
  <2>1. /\ editor.install \in Installs /\ editor.install.phase = "previewing"
        /\ Becomes(f) \/ Becomes(g)
    BY <1>1, <1>12 DEF InstallPreviewed, Editors
  <2>2. /\ \A q \in Questions : editor.dialogs # <<q>> \/ q.kind # "install"
        /\ \A q \in Questions : editor.dialogs # <<Raised, q>>
    <3>1. ~Grounded(editor, Raised)
      BY <2>1 DEF Grounded, Raised
    <3>2. \A q \in Questions : q.kind = "install" => ~Grounded(editor, q)
      BY <2>1 DEF Grounded
    <3>3. CASE editor.dialogs = <<>>
      BY <3>3
    <3>4. CASE \E q \in Questions : editor.dialogs = <<q>> /\ Grounded(editor, q)
      BY <3>2, <3>4
    <3> QED
      BY <1>1, <3>1, <3>3, <3>4 DEF Sound, Questioned
  <2>3. Sound(g, P)
    BY <1>1, <2>2, InstallSound
  <2>4. g.project = editor.project
    BY <1>1 DEF Editors
  <2>5. i \in Installs /\ i.phase = "reviewed"
    BY <2>1 DEF Installs
  <2>6. f = [e EXCEPT !.dialogs = <<Raised>> \o editor.dialogs]
    BY <1>1 DEF Editors, Raised
  <2> HIDE DEF i, f, g
  <2>7. Sound(e, P)
    BY <1>1, <2>2, <2>5, InstallSound
  <2>8. /\ e.dialogs = editor.dialogs /\ e.install = i /\ e.project = editor.project
    BY <1>1 DEF Editors
  <2> HIDE DEF e
  <2>9. Raised \in Questions /\ Raised.kind = "install"
    BY DEF Raised, Questions
  <2>10. \/ editor.dialogs = <<>>
         \/ \E q \in Questions : editor.dialogs = <<q>> /\ q # Raised /\ Grounded(e, q)
    BY <2>2, <2>7, <2>8, <2>9 DEF Sound, Questioned
  <2>11. Grounded(e, Raised) /\ (i # Absent)
    <3>1. e.install # Absent
      BY <2>1, <2>5, <2>8, AbsentAssumption
    <3> QED
      BY <2>5, <2>8, <2>9, <3>1 DEF Grounded
  <2>12. /\ f \in Editors /\ f.dialogs = <<Raised>> \o editor.dialogs
         /\ f.install = e.install /\ f.snap = e.snap /\ f.saving = e.saving
         /\ f.project = e.project /\ f.asked = e.asked
    <3>1. <<Raised>> \o editor.dialogs \in Seq(Questions)
      BY <1>1, <2>9 DEF Editors
    <3> QED
      BY <2>6, <2>7, <3>1 DEF Sound, Editors
  <2>13. Questioned(f)
    <3>1. CASE editor.dialogs = <<>>
      <4>1. f.dialogs = <<Raised>>
        BY <2>12, <3>1
      <4> QED
        BY <2>9, <2>11, <2>12, <4>1 DEF Questioned, Grounded
    <3>2. CASE \E q \in Questions : editor.dialogs = <<q>> /\ q # Raised /\ Grounded(e, q)
      <4>1. PICK q \in Questions : editor.dialogs = <<q>> /\ q # Raised /\ Grounded(e, q)
        BY <3>2
      <4>2. f.dialogs = <<Raised, q>>
        <5>1. <<Raised>> \o <<q>> = <<Raised, q>>
          BY <2>9, OneAbove
        <5>2. f.dialogs = <<Raised>> \o <<q>>
          BY <2>12, <4>1
        <5> QED
          BY <5>1, <5>2
      <4>3. Grounded(f, Raised) /\ Grounded(f, q)
        BY <2>11, <2>12, <4>1 DEF Grounded
      <4> QED
        BY <4>1, <4>2, <4>3 DEF Questioned
    <3> QED
      BY <2>10, <3>1, <3>2
  <2>14. Undisturbed(f) /\ Signed(f) /\ Informed(f, P)
    BY <2>7, <2>12 DEF Sound, Undisturbed, Signed, Informed, ProjectDirty
  <2>15. Sound(f, P) /\ f.project = editor.project
    BY <1>1, <2>8, <2>12, <2>13, <2>14 DEF Sound
  <2> QED
    BY <1>2, <2>1, <2>3, <2>4, <2>15
<1>13. CASE ReadAtStartup \/ StartupFails
  <2>1. editor' = editor /\ disk' = disk /\ installed' = installed /\ edits' = edits
    BY <1>13 DEF ReadAtStartup, StartupFails
  <2>2. startup' \in {Absent} \cup [phase : {"read"}, snap : Snapshot]
    BY <1>1, <1>13 DEF ReadAtStartup, StartupFails
  <2> QED
    BY <2>1, <2>2 DEF EditorInv, EditorTypeOK
<1>14. CASE RouteAtStartup
  <2>1. /\ startup \in [phase : {"read"}, snap : Snapshot]
        /\ disk' = disk /\ installed' = installed /\ edits' = edits /\ startup' = Absent
        /\ ~editor.open
        /\ editor' \in {Opened(TRUE, startup.snap), [editor EXCEPT !.snap = startup.snap]}
    BY <1>14 DEF RouteAtStartup, EditorInv, EditorTypeOK, Asked
  <2>2. Sound(Opened(TRUE, startup.snap), P)
    BY <1>1, <2>1, OpenedKeeps
  <2> DEFINE s == startup.snap
             f == [editor EXCEPT !.snap = s]
  <2>3. s \in Snapshot
    BY <2>1
  <2> HIDE DEF s
  <2>4. f \in Editors
    BY <1>1, <2>3 DEF Editors
  <2>5. /\ f.dialogs = editor.dialogs /\ f.install = editor.install
        /\ f.saving = editor.saving /\ f.snap = s
        /\ f.project = editor.project /\ f.asked = editor.asked
    BY <1>1 DEF Editors
  <2> HIDE DEF f
  <2>6. Sound(f, P)
    BY <1>1, <1>9, <2>3, <2>4, <2>5
  <2>7. Sound(editor', P)
    BY <2>1, <2>2, <2>6 DEF f, s
  <2> QED
    BY <2>1, <2>7 DEF EditorInv, EditorTypeOK, Sound
<1> QED
  BY <1>3, <1>4, <1>5, <1>7, <1>8, <1>10, <1>11, <1>12, <1>13, <1>14 DEF OtherAnswers

LEMMA AnswersKeep ==
  ASSUME EditorInv, Answers
  PROVE  EditorInv'
<1> DEFINE P == disk.project
<1>1. /\ Sound(editor, P) /\ editor \in Editors /\ P \in ProjectFiles
      /\ LoadedNow \in Loaded /\ LoadedNow.rev = P.rev /\ LoadedNow.override = P.team
      /\ disk.machine.team \in Team /\ P.rev \in Nat
  BY Readings, EditorAssumption DEF EditorInv, EditorTypeOK, Sound, Disks, ProjectFiles
<1>2. CASE AnswerProject
  <2> DEFINE a == Answered(editor, "project")
  <2>1. Sound(a, P) /\ Knows(P, LoadedNow.rev, LoadedNow.override)
    BY <1>1, AnsweredKeeps DEF Knows
  <2>2. Becomes(WithProject(a, LoadedNow))
    BY <1>2 DEF AnswerProject
  <2> HIDE DEF a
  <2> QED
    BY <1>1, <2>1, <2>2, ProjectKeeps, ShownKeeps
<1>3. CASE AnswerDefaults("project")
  <2> DEFINE d == editor.defaults.project
             e == [editor EXCEPT !.defaults.project = Absent]
             j == [editor.project EXCEPT !.team = RecommendedTeam(d)]
             advised == [e EXCEPT !.project = j]
  <2>1. d # Absent /\ d \in Drivers
    BY <1>1, <1>3 DEF AnswerDefaults, Editors
  <2>2. Sound(e, P)
    BY <1>1, MachineRolesKeep DEF Editors
  <2>3. e.project = editor.project
    BY <1>1 DEF Editors
  <2>4. Becomes(IF e.project.driver # d THEN e
                ELSE Edited([e EXCEPT !.project.team = RecommendedTeam(d)], "project"))
    BY <1>3 DEF AnswerDefaults
  <2> HIDE DEF d, e
  <2>5. j \in ProjectForms /\ j.loaded = editor.project.loaded
    BY <1>1, <2>1, RecommendedIsATeam DEF Editors, ProjectForms
  <2>6. [e EXCEPT !.project.team = RecommendedTeam(d)] = advised
    BY <1>1, <2>2, <2>3 DEF Sound, Editors
  <2> DEFINE b == Edited(e, "project")
             f == [b EXCEPT !.project = j]
  <2>7. /\ Sound(b, P) /\ b.project = e.project /\ "project" \notin b.asked
    BY <2>2, EditedKeeps DEF Scopes
  <2>8. Edited(advised, "project") = f
    BY <2>2 DEF Edited, Sound, Editors
  <2> HIDE DEF b, advised, j
  <2>9. Sound(f, P)
    BY <2>3, <2>5, <2>7, ProjectRolesKeep
  <2> HIDE DEF f
  <2>10. CASE e.project.driver # d
    BY <2>2, <2>4, <2>10, ShownKeeps
  <2>11. CASE e.project.driver = d
    BY <2>4, <2>6, <2>8, <2>9, <2>11, ShownKeeps
  <2> QED
    BY <2>10, <2>11
<1>4. CASE AnswerReset
  <2> DEFINE s == editor.saving.reset
             d == [editor EXCEPT !.saving.reset = Absent]
             a == Answered(d, "project")
             l == [rev |-> s.expected + 1, override |-> Absent,
                   effective |-> disk.machine.team]
  <2>1. s # Absent /\ s.phase = "written" /\ Becomes(WithProject(a, l))
    BY <1>4 DEF AnswerReset
  <2>2. s \in ResetSaves /\ s.expected \in Nat
    BY <1>1, <2>1, EditorAssumption DEF Editors, ResetSaves
  <2>3. Knows(P, s.expected + 1, Absent)
    BY <1>1, <2>1 DEF Sound, Informed
  <2>4. l \in Loaded /\ Knows(P, l.rev, l.override)
    BY <1>1, <2>2, <2>3, EditorAssumption DEF Loaded, Knows, ProjectFiles
  <2>5. Sound(d, P)
    <3>1. d = [editor EXCEPT !.saving["reset"] = Absent]
      OBVIOUS
    <3> QED
      BY <1>1, <3>1, DropKeeps DEF Saves
  <2> HIDE DEF d, l
  <2>6. Sound(a, P)
    BY <2>5, AnsweredKeeps
  <2> HIDE DEF a
  <2> QED
    BY <2>1, <2>4, <2>6, ProjectKeeps, ShownKeeps
<1>5. CASE AnswerProjectSave
  BY <1>5, ProjectSaveAnswered
<1>6. CASE OtherAnswers
  BY <1>6, OtherAnswersKeep
<1> QED
  BY <1>2, <1>3, <1>4, <1>5, <1>6 DEF Answers, OtherAnswers, Scopes

LEMMA OthersKeep ==
  ASSUME EditorInv, NEW t \in OthersTeams, OthersSave(t)
  PROVE  EditorInv'
<1> DEFINE P == disk.project
           Q == [rev |-> P.rev + 1, team |-> t]
<1>1. /\ Sound(editor, P) /\ disk \in Disks /\ P.rev \in Nat /\ disk.machine.rev \in Nat
      /\ t \in Team \cup {Absent} /\ UNCHANGED <<installed, editor, startup, edits>>
  BY EditorAssumption DEF EditorInv, EditorTypeOK, Disks, OthersSave
<1>2. CASE t # Absent /\ SaveMachineFile(disk.machine.rev, t)
  <2>1. disk' \in Disks /\ disk'.project = P
    BY <1>1, <1>2, EditorAssumption DEF SaveMachineFile, AtLastRevision, Disks
  <2> QED
    BY <1>1, <2>1 DEF EditorInv, EditorTypeOK
<1>3. CASE SaveProjectFile(P.rev, t)
  <2>1. disk' \in Disks /\ disk'.project = Q
    BY <1>1, <1>3, EditorAssumption DEF SaveProjectFile, AtLastRevision, Disks
  <2>2. Q \in ProjectFiles /\ Q.rev = P.rev + 1
    BY <2>1 DEF Disks, ProjectFiles
  <2> HIDE DEF Q
  <2>3. Sound(editor, Q)
    BY <1>1, <2>2, FileMovesOn
  <2> QED
    BY <1>1, <2>1, <2>3 DEF EditorInv, EditorTypeOK
<1> QED
  BY <1>2, <1>3 DEF OthersSave

\* The editor and what it knows of the project's file stay as Sound says.
THEOREM EditorInductive == EditorSpec => []EditorInv
<1>1. EditorInit => EditorInv
  <2> SUFFICES ASSUME EditorInit  PROVE EditorInv
    OBVIOUS
  <2> DEFINE n == NewEditor(FALSE)
             f == [n EXCEPT !.open = FALSE]
  <2>1. /\ disk \in Disks /\ disk.project \in ProjectFiles
    BY EditorAssumption, RecommendedIsATeam DEF EditorInit, Disks, ProjectFiles
  <2>2. Sound(n, disk.project)
    BY <2>1, NewKeeps
  <2> HIDE DEF n
  <2>3. f \in Editors
    BY <2>2 DEF Sound, Editors
  <2>4. /\ f.dialogs = n.dialogs /\ f.install = n.install /\ f.saving = n.saving
        /\ f.snap = n.snap /\ f.project = n.project /\ f.asked = n.asked
    BY <2>2 DEF Sound, Editors
  <2> HIDE DEF f
  <2>5. Sound(f, disk.project)
    BY <2>2, <2>3, <2>4, AsSoundToo
  <2>6. editor = f
    BY DEF EditorInit, f, n
  <2>7. installed \subseteq Drivers /\ startup = Asked /\ edits \in 0 .. MaxEdits
    BY EditorAssumption DEF EditorInit
  <2> QED
    BY <2>1, <2>3, <2>5, <2>6, <2>7 DEF EditorInv, EditorTypeOK
<1>2. EditorInv /\ [EditorNext]_editorVars => EditorInv'
  <2> SUFFICES ASSUME EditorInv, [EditorNext]_editorVars  PROVE EditorInv'
    OBVIOUS
  <2>1. CASE UNCHANGED editorVars
    BY <2>1 DEF editorVars, EditorInv, EditorTypeOK
  <2> QED
    BY <2>1, NavigatesKeeps, EditsKeeps, DecidesKeeps, WritesKeeps, AnswersKeep, OthersKeep
       DEF EditorNext
<1> QED
  BY <1>1, <1>2, PTL DEF EditorSpec

\* The files, the snapshots, both forms, the saves on their way and the dialogs
\* have the types EditorTypeOK gives them, whatever arrives when.
THEOREM EditorTypes == EditorSpec => []EditorTypeOK
<1>1. EditorInv => EditorTypeOK
  BY DEF EditorInv
<1> QED
  BY <1>1, EditorInductive, PTL

\* A project's save that is written replaces the team its form had loaded: the
\* revision it expects is still the file's, and that revision's team was loaded.
THEOREM ProjectSavesReplaceWhatWasLoaded ==
  EditorSpec => ProjectSaveReplacesWhatWasLoaded
<1>1. ASSUME EditorInv, WriteProject
      PROVE  disk.project.team = editor.saving.project.replaces
  BY <1>1 DEF WriteProject, SaveUnderWay, SaveProjectFile, EditorInv, Sound, Informed, Knows
<1> QED
  BY <1>1, EditorInductive, PTL DEF ProjectSaveReplacesWhatWasLoaded

\* A reading that would replace the project's edits is superseded by them, and a save
\* is answered with what it wrote only while the form still shows that.
THEOREM AnswersKeepEdits == EditorSpec => AnswersLeaveEditsAlone
<1> DEFINE Alone == editor.open /\ editor'.open /\ ProjectDirty(editor) /\ Answers
                      /\ ~AnswerReset
                      => \/ ProjectSignature(editor') = ProjectSignature(editor)
                         \/ AnswerDefaults("project")
<1>1. EditorInv => Alone
  <2> SUFFICES ASSUME EditorInv, editor.open, editor'.open, ProjectDirty(editor), Answers,
                      ~AnswerReset, ~AnswerDefaults("project")
               PROVE  ProjectSignature(editor') = ProjectSignature(editor)
    OBVIOUS
  <2>1. ~AnswerProject
    BY DEF AnswerProject, EditorInv, Sound, Undisturbed
  <2>2. CASE AnswerProjectSave
    BY <2>2, ProjectSaveAnswered
  <2>3. CASE OtherAnswers
    BY <2>3, OtherAnswersKeep DEF ProjectSignature
  <2> QED
    BY <2>1, <2>2, <2>3 DEF Answers, OtherAnswers, Scopes
<1> QED
  BY <1>1, EditorInductive, PTL DEF AnswersLeaveEditsAlone

\* Only an arrival closes the editor.
LEMMA StaysOpen ==
  ASSUME NEW e \in Editors
  PROVE  /\ \A r : Ask(e, r).open = e.open /\ Answered(e, r).open = e.open
         /\ \A s : Edited(e, s).open = e.open /\ SaveSent(e, s).open = e.open
         /\ \A t : WithPolicies(e, t).open = e.open
         /\ \A l : WithProject(e, l).open = e.open
         /\ \A s, b : WithSetup(e, s, b).open = e.open
         /\ AskProject(e).open = e.open
BY DEF Ask, Answered, Edited, SaveSent, WithPolicies, WithProject, WithSetup, AskProject,
       Editors

LEMMA ReloadStaysOpen ==
  ASSUME NEW e, NEW p, Sound(e, p), NEW s \in Snapshot
  PROVE  Reloaded(e, s).open = e.open
<1> DEFINE keep == MachineDirty(e)
           answered == Answered(e, "setup")
           shown == WithSetup(answered, s, ~keep)
           kept == [shown EXCEPT !.machine = e.machine]
           asked == Ask(shown, "policies")
           m == IF keep THEN kept ELSE asked
<1>1. Sound(answered, p) /\ answered \in Editors /\ answered.open = e.open
  BY AnsweredKeeps, StaysOpen DEF Sound
<1>2. shown \in Editors /\ shown.open = e.open
  <2>1. keep \in BOOLEAN
    BY DEF MachineDirty
  <2> HIDE DEF answered, keep
  <2>2. Sound(shown, p)
    BY <1>1, <2>1, SetupKeeps
  <2> QED
    BY <1>1, <2>2, StaysOpen DEF Sound
<1> HIDE DEF shown
<1>3. kept \in Editors /\ kept.open = e.open
  <2>1. e.machine \in MachineForms
    BY DEF Sound, Editors
  <2>2. kept.open = e.open
    BY <1>2 DEF Editors
  <2> QED
    BY <1>2, <2>1, <2>2 DEF Editors
<1>4. asked \in Editors /\ asked.open = e.open
  <2>1. asked \in Editors
    BY <1>2 DEF Ask, Editors, Reads
  <2> QED
    BY <1>2, <2>1, StaysOpen
<1> HIDE DEF kept, asked
<1>5. m \in Editors /\ m.open = e.open
  BY <1>3, <1>4
<1>6. Reloaded(e, s) = IF ProjectDirty(e) THEN m ELSE AskProject(m)
  BY DEF Reloaded, m, shown, kept, asked
<1> HIDE DEF m
<1> QED
  BY <1>5, <1>6, StaysOpen

\* The gate never has to do with a project.
GateAlone(e) ==
  e.firstRun => /\ e.project.loaded = Absent /\ "project" \notin e.asked
                /\ e.saving.project = Absent /\ e.saving.reset = Absent

\* Whatever asks for no project's form and saves none leaves it at that.
LEMMA AloneToo ==
  ASSUME NEW e, GateAlone(e), NEW f, f.firstRun => e.firstRun,
         f.project.loaded = e.project.loaded,
         "project" \in f.asked => "project" \in e.asked,
         f.saving.project \in {e.saving.project, Absent},
         f.saving.reset \in {e.saving.reset, Absent}
  PROVE  GateAlone(f)
BY DEF GateAlone

\* The operators on the editor that say nothing of a project.
LEMMA OperatorsAlone ==
  ASSUME NEW e \in Editors, GateAlone(e)
  PROVE  /\ \A r \in {"setup", "policies"} : GateAlone(Ask(e, r))
         /\ GateAlone(AskProject(e))
         /\ \A r : GateAlone(Answered(e, r))
         /\ \A s \in Scopes : GateAlone(Edited(e, s))
         /\ \A t : GateAlone(WithPolicies(e, t))
         /\ \A t, b : GateAlone(WithSetup(e, t, b))
         /\ GateAlone(SaveSent(e, "machine"))
         /\ e.firstRun \/ GateAlone(SaveSent(e, "project"))
         /\ GateAlone(Closed(e))
<1>1. \A r \in {"setup", "policies"} : GateAlone(Ask(e, r))
  BY DEF GateAlone, Ask, Editors
<1>2. GateAlone(AskProject(e))
  BY DEF GateAlone, AskProject, Ask, Editors
<1>3. \A r : GateAlone(Answered(e, r))
  BY DEF GateAlone, Answered, Editors
<1>4. \A s \in Scopes : GateAlone(Edited(e, s))
  BY DEF GateAlone, Edited, Editors
<1>5. \A t : GateAlone(WithPolicies(e, t))
  BY DEF GateAlone, WithPolicies, Editors
<1>6. \A t, b : GateAlone(WithSetup(e, t, b))
  BY DEF GateAlone, WithSetup, Editors
<1>7. GateAlone(SaveSent(e, "machine"))
  BY DEF GateAlone, SaveSent, Editors
<1>8. e.firstRun \/ GateAlone(SaveSent(e, "project"))
  BY DEF GateAlone, SaveSent, Editors
<1>9. ~Closed(e).firstRun
  BY DEF Closed, NewEditor
<1> QED
  BY <1>1, <1>2, <1>3, <1>4, <1>5, <1>6, <1>7, <1>8, <1>9 DEF GateAlone

LEMMA ReloadAlone ==
  ASSUME NEW e, NEW p, Sound(e, p), GateAlone(e), NEW s \in Snapshot
  PROVE  GateAlone(Reloaded(e, s))
<1> DEFINE keep == MachineDirty(e)
           answered == Answered(e, "setup")
           shown == WithSetup(answered, s, ~keep)
           kept == [shown EXCEPT !.machine = e.machine]
           asked == Ask(shown, "policies")
           m == IF keep THEN kept ELSE asked
<1>1. Sound(answered, p) /\ GateAlone(answered)
  BY AnsweredKeeps, OperatorsAlone DEF Sound
<1>2. shown \in Editors /\ GateAlone(shown)
  <2>1. keep \in BOOLEAN
    BY DEF MachineDirty
  <2> HIDE DEF answered, keep
  <2>2. Sound(shown, p)
    BY <1>1, <2>1, SetupKeeps
  <2> QED
    BY <1>1, <2>2, OperatorsAlone DEF Sound
<1> HIDE DEF shown
<1>3. kept \in Editors /\ GateAlone(kept)
  <2>1. e.machine \in MachineForms
    BY DEF Sound, Editors
  <2>2. kept \in Editors
    BY <1>2, <2>1 DEF Editors
  <2>3. /\ kept.firstRun = shown.firstRun /\ kept.project = shown.project
        /\ kept.asked = shown.asked /\ kept.saving = shown.saving
    BY <1>2 DEF Editors
  <2> QED
    BY <1>2, <2>2, <2>3 DEF GateAlone
<1>4. asked \in Editors /\ GateAlone(asked)
  <2>1. asked \in Editors
    BY <1>2 DEF Ask, Editors, Reads
  <2> QED
    BY <1>2, <2>1, OperatorsAlone
<1> HIDE DEF kept, asked
<1>5. m \in Editors /\ GateAlone(m)
  BY <1>3, <1>4
<1>6. Reloaded(e, s) = IF ProjectDirty(e) THEN m ELSE AskProject(m)
  BY DEF Reloaded, m, shown, kept, asked
<1> HIDE DEF m
<1> QED
  BY <1>5, <1>6, OperatorsAlone

LEMMA ArriveAlone ==
  ASSUME NEW e \in Editors, GateAlone(e), NEW d
  PROVE  GateAlone(Arrive(e, d))
<1>1. GateAlone(Ask(e, "setup")) /\ GateAlone(Closed(e))
  BY OperatorsAlone
<1>2. /\ GateAlone([e EXCEPT !.scope = d]) /\ GateAlone([e EXCEPT !.page = d])
      /\ GateAlone([e EXCEPT !.dialogs = Tail(@)])
  BY DEF GateAlone, Editors
<1> QED
  BY <1>1, <1>2 DEF Arrive

LEMMA FinishAlone ==
  ASSUME NEW e \in Editors, GateAlone(e)
  PROVE  GateAlone(FinishPending(e))
<1> DEFINE f == [e EXCEPT !.pending = Absent]
<1>1. f \in Editors
  BY DEF Editors
<1>2. GateAlone(f)
  BY DEF GateAlone, Editors
<1> HIDE DEF f
<1> QED
  BY <1>1, <1>2, ArriveAlone DEF FinishPending, f

LEMMA GateStep ==
  ASSUME EditorInv, GateAlone(editor), [EditorNext]_editorVars
  PROVE  GateAlone(editor')
<1>1. /\ Sound(editor, disk.project) /\ editor \in Editors
      /\ SnapshotNow \in Snapshot
  BY Readings DEF EditorInv, EditorTypeOK, Sound
<1>2. CASE UNCHANGED editorVars
  BY <1>2 DEF editorVars, GateAlone
<1>3. CASE Navigates
  <2>1. \A d \in Destinations : RequestNavigation(d) => GateAlone(editor')
    <3>1. \A q : GateAlone([editor EXCEPT !.dialogs = q])
      BY <1>1 DEF GateAlone, Editors
    <3> QED
      BY <1>1, <3>1, ArriveAlone DEF RequestNavigation, Becomes
  <2>2. \A s \in Scopes : ManageConnection(s) => GateAlone(editor')
    BY <1>1 DEF ManageConnection, Becomes, Editors, GateAlone
  <2>3. FirstRunBack => GateAlone(editor')
    BY <1>1 DEF FirstRunBack, Becomes, Editors, GateAlone
  <2>4. FirstRunNext => GateAlone(editor')
    <3> DEFINE f == [editor EXCEPT !.pending = "menu"]
    <3>1. f \in Editors /\ GateAlone(f)
      BY <1>1 DEF Editors, Destinations, Outside, GateAlone
    <3>2. /\ GateAlone([editor EXCEPT !.page = "connection"])
          /\ GateAlone([editor EXCEPT !.pending = Absent])
      BY <1>1 DEF Editors, GateAlone
    <3>3. GateAlone(SaveSent(f, "machine"))
      BY <3>1, OperatorsAlone
    <3> QED
      BY <3>2, <3>3 DEF FirstRunNext, Becomes
  <2>5. OpenEditor => GateAlone(editor')
    <3>1. ~Opened(FALSE, editor.snap).firstRun
      BY DEF Opened, NewEditor, Ask, AskProject, WithSetup
    <3> QED
      BY <3>1 DEF OpenEditor, Becomes, GateAlone
  <2>6. ExitSetup \/ GateReplaced => GateAlone(editor')
    BY DEF ExitSetup, GateReplaced, Becomes, Closed, NewEditor, GateAlone
  <2> QED
    BY <1>3, <2>1, <2>2, <2>3, <2>4, <2>5, <2>6 DEF Navigates
<1>4. CASE Edits
  <2>1. \A s \in Scopes : Edited(editor, s) \in Editors /\ GateAlone(Edited(editor, s))
    BY <1>1, EditedKeeps, OperatorsAlone DEF Sound
  <2> DEFINE em == Edited(editor, "machine")
             ep == Edited(editor, "project")
  <2> HIDE DEF em, ep
  <2>2. \A pick : ChooseMachineRole(pick) \/ ChooseProjectRole(pick) => GateAlone(editor')
    <3> DEFINE fm(t) == [em EXCEPT !.machine.team = t]
               fp(t) == [ep EXCEPT !.project.team = t]
    <3>1. \A t : GateAlone(fm(t)) /\ GateAlone(fp(t))
      BY <2>1 DEF Scopes, Editors, ProjectForms, GateAlone, em, ep
    <3> SUFFICES ASSUME NEW pick, ChooseMachineRole(pick) \/ ChooseProjectRole(pick)
                 PROVE  GateAlone(editor')
      OBVIOUS
    <3> DEFINE role(s) == IF editor[s].team = Absent THEN editor[s].team
                          ELSE [driver |-> editor[s].driver, pick |-> pick]
    <3>2. ChooseMachineRole(pick) => editor' = fm(role("machine"))
      BY Zenon DEF ChooseMachineRole, Edit, em
    <3>3. ChooseProjectRole(pick) => editor' = fp(role("project"))
      BY Zenon DEF ChooseProjectRole, Edit, ep
    <3> HIDE DEF fm, fp, role
    <3> QED
      BY <3>1, <3>2, <3>3
  <2>3. \A d \in Drivers : ChooseMachineDriver(d) \/ ChooseProjectDriver(d)
                            => GateAlone(editor')
    <3> DEFINE fm(d) == [em EXCEPT !.machine.driver = d, !.machine.team = Absent,
                                   !.defaults.machine = d]
               fp(d) == [ep EXCEPT !.project.driver = d, !.project.team = Absent,
                                   !.defaults.project = d]
    <3>1. \A d \in Drivers : GateAlone(fm(d)) /\ GateAlone(fp(d))
      BY <2>1 DEF Scopes, Editors, ProjectForms, GateAlone, em, ep
    <3>2. \A d \in Drivers : /\ ChooseMachineDriver(d) => editor' = fm(d)
                             /\ ChooseProjectDriver(d) => editor' = fp(d)
      BY Zenon DEF ChooseMachineDriver, ChooseProjectDriver, Edit, em, ep
    <3> HIDE DEF fm, fp
    <3> QED
      BY <3>1, <3>2
  <2>4. \A d \in Drivers : ConfigureDriver(d) => GateAlone(editor')
    <3> DEFINE e == [em EXCEPT !.saving.machine = IF @ = Absent THEN Absent
                                                  ELSE [@ EXCEPT !.signature = <<>>]]
               g(d) == [e EXCEPT !.machine.driver = d, !.machine.team = Absent,
                                 !.defaults.machine = d]
    <3>1. em \in Editors /\ GateAlone(em)
      BY <2>1 DEF Scopes, em
    <3>2. /\ e.firstRun = em.firstRun /\ e.project = em.project /\ e.asked = em.asked
          /\ e.saving.project = em.saving.project /\ e.saving.reset = em.saving.reset
          /\ DOMAIN e = DOMAIN em
      BY <3>1 DEF Editors
    <3>3. \A d \in Drivers : Edit(e) \/ Edit(g(d)) \/ ~ConfigureDriver(d)
      BY DEF ConfigureDriver, em
    <3> HIDE DEF e
    <3>4. GateAlone(e)
      BY <3>1, <3>2 DEF GateAlone
    <3>5. \A d \in Drivers : GateAlone(g(d))
      BY <3>1, <3>2, <3>4 DEF Editors, GateAlone
    <3> HIDE DEF g
    <3> QED
      BY <3>3, <3>4, <3>5 DEF Edit
  <2>5. CustomizeProject => GateAlone(editor')
    <3> DEFINE e == [ep EXCEPT !.project.customizing = TRUE,
                               !.project.driver = editor.project.loaded.effective.driver]
    <3>1. GateAlone(e)
      BY <2>1 DEF Scopes, Editors, ProjectForms, GateAlone, ep
    <3>2. CustomizeProject => editor' = e
      BY Zenon DEF CustomizeProject, Becomes, ep
    <3> HIDE DEF e
    <3> QED
      BY <3>1, <3>2
  <2>6. \A s \in Scopes : UseRecommended(s) => GateAlone(editor')
    BY <1>1 DEF UseRecommended, Becomes, Editors, GateAlone
  <2> QED
    BY <1>4, <2>2, <2>3, <2>4, <2>5, <2>6 DEF Edits
<1>5. CASE Decides
  <2>1. Save => GateAlone(editor')
    <3>1. CanSave(editor, "project") => ~editor.firstRun
      BY DEF CanSave, GateAlone
    <3> QED
      BY <1>1, <3>1, OperatorsAlone DEF Save, Becomes, DisplayedScope, Editors, Scopes
  <2>2. ReviewReset \/ PreviewInstall => GateAlone(editor')
    BY <1>1 DEF ReviewReset, PreviewInstall, Becomes, Editors, GateAlone
  <2>3. \A c \in {"continue", "discard", "save"} : AnswerUnsaved(c) => GateAlone(editor')
    <3> SUFFICES ASSUME NEW c \in {"continue", "discard", "save"}, AnswerUnsaved(c)
                 PROVE  GateAlone(editor')
      OBVIOUS
    <3> DEFINE e == [editor EXCEPT !.dialogs = Tail(@)]
               q == Head(editor.dialogs)
               f(d) == [e EXCEPT !.pending = d]
    <3>1. /\ editor.dialogs # <<>> /\ q.kind = "unsaved"
          /\ \/ Becomes(e) \/ Becomes(f(Absent))
             \/ Becomes(Arrive(Restore(e, q.scope), q.destination))
             \/ CanSave(e, q.scope) /\ Becomes(SaveSent(f(q.destination), q.scope))
      BY DEF AnswerUnsaved
    <3>2. /\ e \in Editors /\ q \in Questions /\ Sound(e, disk.project)
          /\ Grounded(editor, q)
          /\ e.project = editor.project /\ e.snap = editor.snap
      BY <1>1, <3>1, PopKeeps DEF Sound, Editors
    <3>3. GateAlone(e)
      BY <1>1 DEF Editors, GateAlone
    <3> HIDE DEF e, q
    <3>4. q.destination \in Destinations /\ q.scope \in Scopes
      BY <3>1, <3>2 DEF Questions
    <3>5. \A d \in Destinations \cup {Absent} :
            /\ f(d) \in Editors /\ GateAlone(f(d)) /\ f(d).firstRun = e.firstRun
      BY <3>2, <3>3 DEF Editors, GateAlone
    <3> HIDE DEF f
    <3>6. Becomes(SaveSent(f(q.destination), q.scope)) /\ CanSave(e, q.scope)
            => GateAlone(editor')
      <4>1. q.scope = "project" /\ CanSave(e, q.scope) => ~e.firstRun
        BY <3>3 DEF CanSave, GateAlone
      <4> QED
        BY <3>4, <3>5, <4>1, OperatorsAlone DEF Becomes, Scopes
    <3>7. Restore(e, q.scope) \in Editors
      <4>1. IF q.scope = "project" THEN e.project.loaded # Absent ELSE e.snap # Absent
        BY <3>1, <3>2 DEF Grounded
      <4> QED
        BY <3>2, <3>4, <4>1, RestoreKeeps DEF Sound
    <3>8. GateAlone(Restore(e, q.scope))
      <4>1. Edited(e, "project") \in Editors /\ GateAlone(Edited(e, "project"))
        BY <3>2, <3>3, EditedKeeps, OperatorsAlone DEF Sound, Scopes
      <4>2. GateAlone(RestoreProject(e))
        BY <4>1, <3>2, EditedKeeps DEF RestoreProject, GateAlone, Editors, ProjectForms
      <4>3. GateAlone(RestoreMachine(e))
        BY <3>2, <3>3 DEF RestoreMachine, GateAlone, Editors
      <4> QED
        BY <4>2, <4>3 DEF Restore
    <3> QED
      BY <3>1, <3>3, <3>5, <3>6, <3>7, <3>8, ArriveAlone DEF Becomes
  <2>4. \A a \in BOOLEAN : AnswerReview(a) => GateAlone(editor')
    <3> SUFFICES ASSUME NEW a \in BOOLEAN, AnswerReview(a)  PROVE GateAlone(editor')
      OBVIOUS
    <3> DEFINE e == [editor EXCEPT !.dialogs = Tail(@)]
               sent == [phase |-> "sent", expected |-> e.project.loaded.rev]
    <3>1. /\ editor.dialogs # <<>>
          /\ \/ Becomes(e) \/ Becomes([e EXCEPT !.install = Absent])
             \/ Becomes([e EXCEPT !.install.phase = "accepted"])
             \/ /\ Head(editor.dialogs).kind = "reset"
                /\ Becomes([e EXCEPT !.saving.reset = sent])
      BY DEF AnswerReview
    <3>2. e \in Editors /\ Grounded(editor, Head(editor.dialogs))
      BY <1>1, <3>1, PopKeeps DEF Sound
    <3>3. GateAlone(e) /\ e.project = editor.project /\ e.firstRun = editor.firstRun
      BY <1>1 DEF Editors, GateAlone
    <3> HIDE DEF e, sent
    <3>4. Head(editor.dialogs).kind = "reset" => ~e.firstRun
      BY <3>2, <3>3 DEF Grounded, GateAlone
    <3> QED
      BY <3>1, <3>2, <3>3, <3>4 DEF Becomes, Editors, GateAlone
  <2> QED
    BY <1>5, <2>1, <2>2, <2>3, <2>4 DEF Decides
<1>6. CASE Writes
  <2>1. RunInstall => GateAlone(editor')
    <3> DEFINE e == [editor EXCEPT !.install = Absent]
    <3>1. e \in Editors /\ GateAlone(e)
      BY <1>1 DEF Editors, GateAlone
    <3>2. RunInstall => editor' = e \/ editor' = Ask(e, "setup")
      BY DEF RunInstall
    <3> HIDE DEF e
    <3> QED
      BY <3>1, <3>2, OperatorsAlone
  <2>2. WriteMachine => GateAlone(editor')
    BY <1>1 DEF WriteMachine, Written, Editors, GateAlone
  <2>3. WriteProject \/ WriteReset => ~editor.firstRun
    BY DEF WriteProject, WriteReset, SaveUnderWay, GateAlone
  <2>4. WriteProject \/ WriteReset => editor'.firstRun = editor.firstRun
    BY <1>1 DEF WriteProject, WriteReset, Written, Editors
  <2> QED
    BY <1>6, <2>1, <2>2, <2>3, <2>4 DEF Writes, GateAlone
<1>7. ASSUME NEW t, OthersSave(t)  PROVE GateAlone(editor')
  BY <1>7 DEF OthersSave, GateAlone
<1>8. CASE Answers
  <2>1. AnswerSetup => GateAlone(editor')
    BY <1>1, ReloadAlone DEF AnswerSetup, Becomes
  <2>2. Answered(editor, "policies") \in Editors
    BY <1>1, AnsweredKeeps DEF Sound
  <2>3. AnswerPolicies => GateAlone(editor')
    BY <1>1, <2>2, OperatorsAlone DEF AnswerPolicies, Becomes
  <2>4. AnswerProject => ~editor.firstRun /\ ~editor'.firstRun
    BY <1>1 DEF AnswerProject, Answered, WithProject, Becomes, Editors, GateAlone
  <2>5. \A r \in Reads : ReadFails(r) => GateAlone(editor')
    BY <1>1, OperatorsAlone DEF ReadFails, Becomes
  <2>6. \A s \in Scopes : AnswerDefaults(s) => GateAlone(editor')
    <3> SUFFICES ASSUME NEW s \in Scopes, AnswerDefaults(s)  PROVE GateAlone(editor')
      OBVIOUS
    <3> DEFINE e == [editor EXCEPT !.defaults[s] = Absent]
               advised == [e EXCEPT ![s].team = RecommendedTeam(editor.defaults[s])]
    <3>1. \/ Becomes(e) \/ Becomes(advised)
          \/ Becomes(Edited(advised, s))
      BY DEF AnswerDefaults
    <3>2. /\ e.firstRun = editor.firstRun /\ e.project = editor.project
          /\ e.asked = editor.asked /\ e.saving = editor.saving
          /\ DOMAIN e = DOMAIN editor
      BY <1>1 DEF Editors
    <3> HIDE DEF e
    <3>3. /\ advised.firstRun = e.firstRun /\ advised.asked = e.asked
          /\ advised.saving = e.saving /\ DOMAIN advised = DOMAIN e
          /\ advised.project.loaded = e.project.loaded
      BY <1>1, <3>2 DEF Editors, ProjectForms, Scopes
    <3> HIDE DEF advised
    <3>4. /\ Edited(advised, s).firstRun = advised.firstRun
          /\ Edited(advised, s).project = advised.project
          /\ Edited(advised, s).asked \subseteq advised.asked
          /\ Edited(advised, s).saving = advised.saving
      BY <1>1, <3>2, <3>3 DEF Edited, Editors
    <3> QED
      BY <3>1, <3>2, <3>3, <3>4 DEF Becomes, GateAlone
  <2>7. /\ \A s \in Scopes : DefaultsFail(s) => GateAlone(editor')
        /\ \A s \in Saves : SaveFails(s) => GateAlone(editor')
    <3>1. \A s \in Scopes : GateAlone([editor EXCEPT !.defaults[s] = Absent])
      BY <1>1 DEF Editors, GateAlone
    <3> DEFINE f(s) == [editor EXCEPT !.saving[s] = Absent,
                                      !.pending = IF s = "reset" THEN @ ELSE Absent]
    <3>2. \A s \in Saves : GateAlone(f(s))
      BY <1>1 DEF Editors, Saves, GateAlone
    <3>3. \A s \in Saves : SaveFails(s) => GateAlone(editor')
      BY <3>2 DEF SaveFails, Becomes
    <3> QED
      BY <3>1, <3>3 DEF DefaultsFail, Becomes
  <2>8. AnswerReset => ~editor.firstRun /\ ~editor'.firstRun
    BY <1>1 DEF AnswerReset, Answered, WithProject, Becomes, Editors, GateAlone
  <2>9. InstallPreviewed \/ ReadAtStartup \/ StartupFails => GateAlone(editor')
    BY <1>1 DEF InstallPreviewed, ReadAtStartup, StartupFails, Becomes, Editors, GateAlone
  <2>10. RouteAtStartup => GateAlone(editor')
    <3>1. ASSUME NEW x  PROVE GateAlone(Opened(TRUE, x))
      BY DEF Opened, NewEditor, Ask, AskProject, WithSetup, EmptyProject, GateAlone
    <3>2. GateAlone([editor EXCEPT !.snap = startup.snap])
      BY <1>1 DEF Editors, GateAlone
    <3> QED
      BY <3>1, <3>2 DEF RouteAtStartup
  <2>11. AnswerMachineSave => GateAlone(editor')
    <3> SUFFICES ASSUME AnswerMachineSave  PROVE GateAlone(editor')
      OBVIOUS
    <3> DEFINE m == editor.saving.machine
               d == [editor EXCEPT !.saving.machine = Absent]
               n == [editor.machine EXCEPT !.saved = m.team, !.base = disk.machine.rev]
               e == [d EXCEPT !.machine = n]
               kept == [e EXCEPT !.snap = SnapshotNow, !.pending = Absent]
               reloaded == Reloaded(e, SnapshotNow)
               passed == [reloaded EXCEPT !.passed = TRUE]
    <3>1. [editor EXCEPT !.saving.machine = Absent, !.machine.saved = m.team,
                         !.machine.base = disk.machine.rev] = e
      BY <1>1 DEF Editors, MachineForms
    <3>2. Becomes(kept) \/ Becomes(FinishPending(passed))
      BY <3>1 DEF AnswerMachineSave
    <3>3. m \in MachineSaves
      BY <1>1 DEF AnswerMachineSave, Editors
    <3>4. n \in MachineForms
      BY <1>1, <3>3 DEF EditorInv, EditorTypeOK, Disks, Editors, MachineForms, MachineSaves
    <3>5. d = [editor EXCEPT !.saving["machine"] = Absent] /\ GateAlone(d)
      BY <1>1 DEF Editors, GateAlone
    <3> HIDE DEF m, n, d
    <3>6. Sound(d, disk.project)
      BY <1>1, <3>5, DropKeeps DEF Saves
    <3>7. Sound(e, disk.project) /\ e \in Editors
      BY <3>4, <3>6, MachineRolesKeep DEF Sound
    <3>8. GateAlone(e)
      BY <3>5, <3>6 DEF Sound, Editors, GateAlone
    <3> HIDE DEF e
    <3>9. GateAlone(kept)
      BY <3>7, <3>8 DEF Editors, GateAlone
    <3>10. reloaded \in Editors /\ GateAlone(reloaded)
      BY <1>1, <3>7, <3>8, ReloadAlone, ReloadKeeps DEF Sound
    <3> HIDE DEF kept, reloaded
    <3>11. passed \in Editors /\ GateAlone(passed)
      BY <3>10 DEF Editors, GateAlone
    <3> HIDE DEF passed
    <3> QED
      BY <3>2, <3>9, <3>11, FinishAlone DEF Becomes
  <2>12. AnswerProjectSave => ~editor'.firstRun
    <3> SUFFICES ASSUME AnswerProjectSave  PROVE ~editor'.firstRun
      OBVIOUS
    <3> DEFINE s == editor.saving.project
               saved == WithProject(
                          Answered([editor EXCEPT !.saving.project = Absent], "project"),
                          [rev |-> s.expected + 1, override |-> s.team,
                           effective |-> s.team])
               kept == [saved EXCEPT !.project.team = editor.project.team,
                                     !.project.driver = editor.project.driver,
                                     !.pending = Absent]
    <3>1. ~saved.firstRun
      BY <1>1 DEF AnswerProjectSave, Answered, WithProject, Editors, GateAlone
    <3>2. Becomes(kept) \/ Becomes(FinishPending(saved))
      BY DEF AnswerProjectSave
    <3> HIDE DEF saved
    <3>3. kept.firstRun = saved.firstRun
      OBVIOUS
    <3>4. ~FinishPending(saved).firstRun
      BY <3>1 DEF FinishPending, Arrive, Ask, Closed, NewEditor
    <3> HIDE DEF kept
    <3> QED
      BY <3>1, <3>2, <3>3, <3>4 DEF Becomes
  <2> QED
    BY <1>8, <2>1, <2>3, <2>4, <2>5, <2>6, <2>7, <2>8, <2>9, <2>10, <2>11, <2>12
       DEF Answers, GateAlone
<1> QED
  BY <1>2, <1>3, <1>4, <1>5, <1>6, <1>7, <1>8 DEF EditorNext

\* An editor that leaves the screen was clean, was discarded by the user, was saved
\* as it was, or was the gate of a first start, left through one of its two exits
\* that ask nobody: those lose no edits of a project and no save of its team.
THEOREM NothingLeftUnsaved == EditorSpec => LeavesNothingUnsaved
<1> DEFINE Leaves == editor.open /\ ~editor'.open =>
                       \/ ~DisplayedDirty(editor)
                       \/ AnswerUnsaved("discard")
                       \/ AnswerMachineSave /\ editor.saving.machine.team = editor.machine.team
                       \/ AnswerProjectSave /\ editor.saving.project.team = editor.project.team
                       \/ /\ ExitSetup \/ GateReplaced
                          /\ ~ProjectDirty(editor) /\ editor.saving.project = Absent
<1>1. EditorInv /\ GateAlone(editor) /\ [EditorNext]_editorVars => Leaves
  <2>0. GateAlone(editor) /\ (ExitSetup \/ GateReplaced)
          => ~ProjectDirty(editor) /\ editor.saving.project = Absent
    BY DEF ExitSetup, GateReplaced, GateAlone, ProjectDirty
  <2> SUFFICES ASSUME EditorInv, EditorNext, editor.open, ~editor'.open,
                      DisplayedDirty(editor), ~AnswerUnsaved("discard"),
                      ~ExitSetup, ~GateReplaced
               PROVE  \/ /\ AnswerMachineSave
                         /\ editor.saving.machine.team = editor.machine.team
                      \/ /\ AnswerProjectSave
                         /\ editor.saving.project.team = editor.project.team
    BY <2>0 DEF editorVars
  <2>1. /\ Sound(editor, disk.project) /\ editor \in Editors
        /\ SnapshotNow \in Snapshot
    BY Readings DEF EditorInv, EditorTypeOK, Sound
  <2>2. ~Navigates
    <3>1. \A d \in Destinations : ~RequestNavigation(d)
      BY <2>1 DEF RequestNavigation, Becomes, Editors
    <3>2. \A s \in Scopes : ~ManageConnection(s)
      BY <2>1 DEF ManageConnection, Becomes, Editors
    <3>3. ~FirstRunBack /\ ~OpenEditor
      BY <2>1 DEF FirstRunBack, OpenEditor, Becomes, Editors
    <3>4. ~FirstRunNext
      <4>1. [editor EXCEPT !.pending = "menu"] \in Editors
        BY <2>1 DEF Editors, Destinations, Outside
      <4>2. /\ [editor EXCEPT !.page = "connection"].open = editor.open
            /\ [editor EXCEPT !.pending = Absent].open = editor.open
            /\ [editor EXCEPT !.pending = "menu"].open = editor.open
        BY <2>1 DEF Editors
      <4>3. SaveSent([editor EXCEPT !.pending = "menu"], "machine").open = editor.open
        BY <4>1, <4>2, StaysOpen
      <4> QED
        BY <4>2, <4>3 DEF FirstRunNext, Becomes
    <3> QED
      BY <3>1, <3>2, <3>3, <3>4 DEF Navigates
  <2>3. ~Edits
    <3>1. \A s \in Scopes : Edited(editor, s) \in Editors /\ Edited(editor, s).open = editor.open
      BY <2>1, EditedKeeps, StaysOpen DEF Sound
    <3>2. \A pick : ~ChooseMachineRole(pick) /\ ~ChooseProjectRole(pick)
      BY <3>1 DEF ChooseMachineRole, ChooseProjectRole, Edit, Editors, Scopes
    <3>3. \A d \in Drivers : ~ChooseMachineDriver(d) /\ ~ChooseProjectDriver(d)
      BY <3>1 DEF ChooseMachineDriver, ChooseProjectDriver, Edit, Editors, Scopes
    <3>4. \A d \in Drivers : ~ConfigureDriver(d)
      BY <3>1, ZenonT(60) DEF ConfigureDriver, Edit, Editors, Scopes
    <3>5. ~CustomizeProject
      BY <3>1 DEF CustomizeProject, Becomes, Editors, Scopes
    <3>6. \A s \in Scopes : ~UseRecommended(s)
      BY <2>1 DEF UseRecommended, Becomes, Editors
    <3> QED
      BY <3>2, <3>3, <3>4, <3>5, <3>6 DEF Edits
  <2>4. ~Decides
    <3>1. ~Save
      BY <2>1, StaysOpen DEF Save, Becomes
    <3>2. ~ReviewReset /\ ~PreviewInstall
      BY <2>1 DEF ReviewReset, PreviewInstall, Becomes, Editors
    <3>3. ASSUME NEW c \in {"continue", "save"}, AnswerUnsaved(c)  PROVE FALSE
      <4> DEFINE e == [editor EXCEPT !.dialogs = Tail(@)]
                 q == Head(editor.dialogs)
                 f(d) == [e EXCEPT !.pending = d]
      <4>1. /\ editor.dialogs # <<>> /\ q.kind = "unsaved"
            /\ \/ Becomes(e) \/ Becomes(f(Absent))
               \/ Becomes(SaveSent(f(q.destination), q.scope))
        BY <3>3 DEF AnswerUnsaved
      <4>2. e \in Editors /\ e.open = editor.open /\ q \in Questions
        BY <2>1, <4>1, PopKeeps DEF Sound, Editors
      <4> HIDE DEF e, q
      <4>3. \A d \in Destinations \cup {Absent} : f(d) \in Editors /\ f(d).open = editor.open
        BY <4>2 DEF Editors
      <4>4. q.destination \in Destinations
        BY <4>1, <4>2 DEF Questions
      <4> HIDE DEF f
      <4>5. SaveSent(f(q.destination), q.scope).open = editor.open
        BY <4>3, <4>4, StaysOpen, ZenonT(30)
      <4> QED
        BY <4>1, <4>2, <4>3, <4>5 DEF Becomes
    <3>4. ASSUME NEW a \in BOOLEAN, AnswerReview(a)  PROVE FALSE
      <4> DEFINE e == [editor EXCEPT !.dialogs = Tail(@)]
      <4>1. /\ editor.dialogs # <<>>
            /\ \/ Becomes(e) \/ Becomes([e EXCEPT !.install = Absent])
               \/ Becomes([e EXCEPT !.install.phase = "accepted"])
               \/ Becomes([e EXCEPT !.saving.reset =
                             [phase |-> "sent", expected |-> e.project.loaded.rev]])
        BY <3>4 DEF AnswerReview
      <4>2. e \in Editors /\ e.open = editor.open
        BY <2>1, <4>1, PopKeeps DEF Sound, Editors
      <4> HIDE DEF e
      <4> QED
        BY <4>1, <4>2 DEF Becomes, Editors
    <3> QED
      BY <3>1, <3>2, <3>3, <3>4 DEF Decides
  <2>5. ~Writes
    BY <2>1 DEF Writes, WriteMachine, WriteProject, WriteReset, Written, RunInstall, Ask,
                Editors
  <2>6. \A t : ~OthersSave(t)
    BY DEF OthersSave
  <2>7. Answers
    BY <2>2, <2>3, <2>4, <2>5, <2>6 DEF EditorNext
  <2>8. ~AnswerSetup
    BY <2>1, ReloadStaysOpen DEF AnswerSetup, Becomes
  <2>9. Answered(editor, "policies") \in Editors /\ Answered(editor, "project") \in Editors
    BY <2>1, AnsweredKeeps DEF Sound
  <2>10. ~AnswerPolicies /\ ~AnswerProject /\ \A r : ~ReadFails(r)
    BY <2>1, <2>9, StaysOpen DEF AnswerPolicies, AnswerProject, ReadFails, Becomes
  <2>11. \A s \in Scopes : ~AnswerDefaults(s)
    <3> SUFFICES ASSUME NEW s \in Scopes, AnswerDefaults(s)  PROVE FALSE
      OBVIOUS
    <3> DEFINE e == [editor EXCEPT !.defaults[s] = Absent]
               advised == [e EXCEPT ![s].team = RecommendedTeam(editor.defaults[s])]
    <3>1. \/ Becomes(e) \/ Becomes(advised) \/ Becomes(Edited(advised, s))
      BY DEF AnswerDefaults
    <3>2. e.open = editor.open
      BY <2>1 DEF Editors
    <3>3. DOMAIN e = DOMAIN editor
      OBVIOUS
    <3> HIDE DEF e
    <3>4. advised.open = e.open /\ DOMAIN advised = DOMAIN e
      BY <2>1, <3>3 DEF Editors, Scopes
    <3> HIDE DEF advised
    <3>5. Edited(advised, s).open = advised.open
      BY <2>1, <3>3, <3>4 DEF Edited, Editors
    <3> QED
      BY <3>1, <3>2, <3>4, <3>5 DEF Becomes
  <2>12. (\A s \in Scopes : ~DefaultsFail(s)) /\ \A s \in Saves : ~SaveFails(s)
    BY <2>1 DEF DefaultsFail, SaveFails, Becomes, Editors
  <2>13. ~AnswerReset
    BY <2>1 DEF AnswerReset, Answered, WithProject, Becomes, Editors
  <2>14. ~InstallPreviewed /\ ~ReadAtStartup /\ ~RouteAtStartup /\ ~StartupFails
    BY <2>1 DEF InstallPreviewed, ReadAtStartup, RouteAtStartup, StartupFails, Becomes,
                Editors
  <2>15. CASE AnswerMachineSave
    <3>1. editor.saving.machine # Absent
      BY <2>15 DEF AnswerMachineSave
    <3>2. MachineSignature(editor) = editor.saving.machine.signature
      BY <2>1, <2>15 DEF AnswerMachineSave, Becomes, Editors
    <3>3. editor.saving.machine.signature \in
            {<<>>, <<editor.saving.machine.team.driver, editor.saving.machine.team>>}
      BY <2>1, <3>1 DEF Sound, Signed
    <3>4. editor.saving.machine.team = editor.machine.team
      BY <3>2, <3>3 DEF MachineSignature
    <3> QED
      BY <2>15, <3>4
  <2>16. CASE AnswerProjectSave
    <3>1. editor.saving.project # Absent
      BY <2>16 DEF AnswerProjectSave
    <3>2. ProjectSignature(editor) = editor.saving.project.signature
      BY <2>1, <2>16 DEF AnswerProjectSave, Answered, WithProject, Becomes, Editors
    <3>3. editor.saving.project.signature =
            <<editor.saving.project.team.driver, editor.saving.project.team>>
      BY <2>1, <3>1 DEF Sound, Signed
    <3>4. editor.saving.project.team = editor.project.team
      BY <3>2, <3>3 DEF ProjectSignature
    <3> QED
      BY <2>16, <3>4
  <2> QED
    BY <2>7, <2>8, <2>10, <2>11, <2>12, <2>13, <2>14, <2>15, <2>16 DEF Answers
<1>2. EditorInit => GateAlone(editor)
  BY DEF EditorInit, NewEditor, GateAlone
<1>3. EditorInv /\ GateAlone(editor) /\ [EditorNext]_editorVars => GateAlone(editor')
  BY GateStep
<1>4. GateAlone(editor)' <=> GateAlone(editor')
  BY DEF GateAlone
<1> QED
  BY <1>1, <1>2, <1>3, <1>4, EditorInductive, PTL DEF LeavesNothingUnsaved, EditorSpec
=============================================================================
