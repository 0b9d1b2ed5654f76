-------------------------- MODULE ProjectNavigation --------------------------
(***************************************************************************)
(* The terminal interface outside its settings pages (tui/app.py and the   *)
(* screens of tui/screens.py): the stack of screens, the threads that      *)
(* create, open, check, delete and observe projects, and the client that   *)
(* watches the detached verification of one of them.                       *)
(*                                                                         *)
(* A thread works for as long as it takes and then hands its answer to the *)
(* interface, which applies it between two events of the user. A worker of *)
(* the interface that is cancelled, or superseded in its group, goes on:   *)
(* only an observer looks at its flag, and only between two steps. Any     *)
(* other answer is applied whatever the screen shows by then, or kept back *)
(* until the settings are closed.                                          *)
(*                                                                         *)
(* The settings pages are one screen here (ProviderSettings has theirs),   *)
(* and what a verification does is the state of its job (VerificationJobs  *)
(* has the rest). A screen of a project stands for the dashboard, the      *)
(* findings, the clarifications, the recovery and the failure analysis.    *)
(***************************************************************************)
EXTENDS Integers, Sequences, FiniteSets

CONSTANTS Projects,
          Known,      \* the projects that exist at first
          None,       \* an absent value
          Slots,      \* bound on the threads there are at once, a set of their places
          MaxJobs,    \* bound on the jobs of a project
          MaxAsks     \* bound on what is asked of the program, here or elsewhere

ASSUME NavigationAssumption ==
    /\ Known \subseteq Projects /\ None \notin Projects
    /\ IsFiniteSet(Slots) /\ None \notin Slots /\ None \notin Nat
    /\ MaxJobs \in Nat /\ MaxAsks \in Nat

VARIABLES
    backend,  \* for each project whether it exists, its latest job and that job's state
    ui,       \* what the interface keeps, its threads included
    owed,     \* the verifications of each project that were asked for and not submitted
    asks      \* how much was asked for

vars == <<backend, ui, owed, asks>>

-----------------------------------------------------------------------------
(* The backend, as far as the interface can tell.                          *)

\* A session of the command line has no job: it is observed as a legacy one.
Busy(p) == backend[p].state # "ended"

\* What observe_verification returns; None where no job was ever started.
Observed(p) ==
    CASE backend[p].state = "session" -> [job |-> 0, state |-> "session"]
      [] Busy(p) \/ backend[p].job > 0 -> [job |-> backend[p].job, state |-> backend[p].state]
      [] OTHER -> None

Terminal(o) == o.state = "ended"

\* What resume_project makes of a project: activity, a change to review, questions
\* to answer, or a dashboard, findings or a recovery.
SnapshotStates(p) == IF Busy(p) THEN {"verifying"} ELSE {"review", "clarify", "other"}

NextJob(p) ==
    /\ ~Busy(p) /\ backend[p].job < MaxJobs
    /\ backend' = [backend EXCEPT ![p].job = @ + 1, ![p].state = "active"]

-----------------------------------------------------------------------------
(* Screens.                                                                *)

\* "waiting" is the progress screen of a thread, "watch" that of a detached job.
Screen(kind, p) == [kind |-> kind, project |-> p]
Welcome == Screen("welcome", None)
Settings == Screen("settings", None)
Modals == {"help", "confirm"}

\* A watch has its identity, the job it shows (None before the first observation),
\* a cancel button that is enabled and heeded, and an error that was reported to it.
Watch(p, id, heeded) ==
    [kind |-> "watch", project |-> p, id |-> id, job |-> None, cancel |-> FALSE,
     heeded |-> heeded, error |-> FALSE]

Top(u) == Head(u.stack)
Switch(u, s) == [u EXCEPT !.stack = <<s>> \o Tail(@)]
Push(u, s) == [u EXCEPT !.stack = <<s>> \o @]
Pop(u) == [u EXCEPT !.stack = Tail(@)]

IsWatch(s, id) == s.kind = "watch" /\ s.id = id
Watches(u) == {s \in {u.stack[n] : n \in DOMAIN u.stack} : s.kind = "watch"}

\* The screen with this identity, wherever it is in the stack.
OnWatch(u, id, Change(_)) ==
    [u EXCEPT !.stack = [n \in DOMAIN @ |-> IF IsWatch(@[n], id) THEN Change(@[n]) ELSE @[n]]]

\* What a watch shows of an observation, of an error, and of being left alone.
Recorded(s, obs) == [s EXCEPT !.job = obs.job, !.cancel = obs.state = "active"]
Reported(s) == [s EXCEPT !.error = TRUE]
Uncancellable(s) == [s EXCEPT !.cancel = FALSE]

-----------------------------------------------------------------------------
(* Threads.                                                                *)

\* What a thread does, for which project and for which watch, the observation it
\* holds and the answer it is about to hand over.
Thread(does, p) ==
    [does |-> does, project |-> p, phase |-> "working", watch |-> None,
     cancelled |-> FALSE, obs |-> None, nav |-> None]
Observer(p, id, phase, obs) ==
    [Thread("observe", p) EXCEPT !.watch = id, !.phase = phase, !.obs = obs]

Alive(u) == {i \in Slots : u.threads[i] # None}
Observers(u) == {i \in Alive(u) : u.threads[i].does = "observe"}
Room(u) == Alive(u) # Slots
Some(S) == CHOOSE x \in S : TRUE

Spawn(u, t) == [u EXCEPT !.threads[Some(Slots \ Alive(u))] = t]
Ended(u, i) == [u EXCEPT !.threads[i] = None]
Cancelled(u, S) ==
    [u EXCEPT !.threads =
       [i \in Slots |-> IF i \in S THEN [@[i] EXCEPT !.cancelled = TRUE] ELSE @[i]]]

\* A mutant: the observer is started before the others are superseded.
Observe_Itself(u, t) == LET v == Spawn(u, t) IN Cancelled(v, Observers(v))

\* A new observer supersedes the others.
Observe(u, t) == Spawn(Cancelled(u, Observers(u)), t)

\* An identity no screen and no thread has.
Used(u) ==
    {u.watch} \cup {s.id : s \in Watches(u)} \cup {u.threads[i].watch : i \in Alive(u)}
FreshId(u) == Some((1 .. Cardinality(Used(u)) + 1) \ Used(u))

\* The answers of threads are navigations; one that has to wait is kept as it is.
Nav(to, p) == [to |-> to, project |-> p]
Snapshot(p, state) == [to |-> "snapshot", project |-> p, state |-> state]
AttachTo(p, obs) == [to |-> "attach", project |-> p, obs |-> obs]
Planned(p, changed) == [to |-> "planned", project |-> p, changed |-> changed]
Setup(gate) == [to |-> "setup", gate |-> gate]

-----------------------------------------------------------------------------
(* What the interface does with an answer.                                 *)

\* The identity is cleared first: what the observer still hands over is for a
\* watch that is no longer the current one.
Detached(u) ==
    LET own == {i \in Observers(u) : u.threads[i].watch = u.watch} IN
    OnWatch([Cancelled(u, own) EXCEPT !.watch = None, !.observed = None], u.watch,
            Uncancellable)

ShowWelcome(u) == Switch(Detached(u), Welcome)

\* A mutant: an observation is taken for the current watch's whoever made it.
Activated_Any(u, id, p, obs) ==
    OnWatch([u EXCEPT !.observed = [project |-> p, obs |-> obs]], id,
            LAMBDA s : Recorded(s, obs))

\* An observation is for the current watch or for none. A watch that was replaced
\* on the screen stays the current one until it is detached.
Activated(u, id, p, obs) ==
    IF u.watch # id THEN u
    ELSE OnWatch([u EXCEPT !.observed = [project |-> p, obs |-> obs]], id,
                 LAMBDA s : Recorded(s, obs))

PollingError(u, id) ==
    IF u.watch # id THEN u ELSE OnWatch(u, id, Reported)

\* The observation of an earlier watch is not forgotten here.
StartVerification(u, p) ==
    LET id == FreshId(u) IN
    Observe([Switch(u, Watch(p, id, TRUE)) EXCEPT !.watch = id],
            Observer(p, id, "submitting", None))

AttachToVerification(u, p, obs) ==
    LET id == FreshId(u)
        shown == [Switch(u, Watch(p, id, obs.state # "session")) EXCEPT !.watch = id]
    IN Observe(Activated(shown, id, p, obs), Observer(p, id, "polling", obs))

DiscoverActivity(u, p) == Spawn(Switch(u, Screen("waiting", p)), Thread("discover", p))

\* The current snapshot, of which only the questions matter here: a check without
\* changes shows them again, whichever project it was for.
Noted(u, nav) ==
    CASE nav.to = "snapshot" ->
           [u EXCEPT !.questions = IF nav.state = "clarify" THEN nav.project ELSE None]
      [] nav.to = "created" -> [u EXCEPT !.questions = None]
      [] OTHER -> u

ShowSnapshot(u, p, state) ==
    CASE state = "verifying" -> DiscoverActivity(u, p)
      [] state = "review" -> Switch(u, Screen("review", p))
      [] OTHER -> Switch(u, Screen("project", p))

AfterPlan(u, p, changed) ==
    IF changed THEN Switch([u EXCEPT !.questions = None], Screen("review", p))
    ELSE Switch(u, Screen("project", IF u.questions # None THEN u.questions ELSE p))

\* The dialog about a deletion comes above whatever is on the screen.
ConfirmAbove(u, p) == Push(u, Screen("confirm", p))

\* A machine without a chosen provider gets the first-run gate.
RouteAfterProbe(u, gate) == IF gate THEN Switch(u, Screen("gate", None)) ELSE u

\* The snapshot of a project just created is always ready and without a plan
\* (WorkflowService.create_project), so _after_create always starts the verification.
Arrive(u, nav) ==
    CASE nav.to = "snapshot" -> ShowSnapshot(u, nav.project, nav.state)
      [] nav.to = "attach" -> AttachToVerification(u, nav.project, nav.obs)
      [] nav.to = "created" -> StartVerification(u, nav.project)
      [] nav.to = "planned" -> AfterPlan(u, nav.project, nav.changed)
      [] nav.to = "setup" -> RouteAfterProbe(u, nav.gate)
      [] nav.to = "confirm" -> ConfirmAbove(u, nav.project)
      [] nav.to \in {"form", "removed"} -> Switch(u, Screen(nav.to, nav.project))
      [] nav.to \in {"error", "unattachable"} -> Switch(u, Screen("project", nav.project))

\* Settings stay on the screen; they keep back one answer, the latest.
Deliver(u, nav) ==
    IF u.settings THEN [Noted(u, nav) EXCEPT !.kept = nav] ELSE Arrive(Noted(u, nav), nav)

\* A mutant: a finished watch stays the current one.
FinishObserved_Stays(u, id, nav) == IF u.watch # id THEN u ELSE Deliver(u, nav)

FinishObserved(u, id, nav) ==
    IF u.watch # id THEN u
    ELSE Deliver([u EXCEPT !.watch = None, !.observed = None], nav)

-----------------------------------------------------------------------------
(* The user.                                                               *)

Free == UNCHANGED <<backend, owed, asks>>
Ask == asks < MaxAsks /\ asks' = asks + 1
At(kinds) == Top(ui).kind \in kinds

\* A request that shows a progress screen until its thread has answered.
Request(does, p) ==
    /\ Ask /\ Room(ui)
    /\ ui' = Spawn(Switch(ui, Screen("waiting", p)), Thread(does, p))
    /\ UNCHANGED backend

Owe(p) == owed' = [owed EXCEPT ![p] = @ + 1]

\* The catalogue lists a project that has been deleted since.
Listed(p) == backend[p].exists # "no"

NewProject == At({"welcome"}) /\ ui' = Switch(ui, Screen("form", None)) /\ Free

InspectSource(p) == At({"form"}) /\ backend[p].exists = "no" /\ Request("inspect", p)
                      /\ UNCHANGED owed

CreateProject(p) == At({"form"}) /\ backend[p].exists = "no" /\ Request("create", p) /\ Owe(p)

\* Opening from the list, or again from a recovery screen.
ResumeProject(p) ==
    /\ (At({"welcome"}) /\ Listed(p)) \/ Top(ui) = Screen("project", p)
    /\ Request("resume", p) /\ UNCHANGED owed

SelectMainFile(p) == At({"welcome"}) /\ Listed(p) /\ Request("select", p) /\ UNCHANGED owed

CheckForChanges(p) == Top(ui) = Screen("project", p) /\ Request("plan", p) /\ UNCHANGED owed

ViewReport(p) == Top(ui) = Screen("project", p) /\ Request("load", p) /\ UNCHANGED owed

\* From a dashboard, a failure analysis or the review of a plan; the settings of
\* the project may be unusable.
Verify(p) ==
    /\ Top(ui) \in {Screen("project", p), Screen("review", p)}
    /\ Ask /\ Room(ui) /\ UNCHANGED backend
    /\ \/ ui' = StartVerification(ui, p) /\ Owe(p)
       \/ ui' = Switch(ui, Screen("project", p)) /\ UNCHANGED owed

KeepWaiting == At({"review"}) /\ ui' = Switch(ui, Screen("project", Top(ui).project)) /\ Free

\* The list stays on the screen while a deletion is looked into.
RequestDeletion(p) ==
    /\ (At({"welcome"}) /\ Listed(p)) \/ Top(ui) = Screen("removed", p)
    /\ Ask /\ Room(ui) /\ ui' = Spawn(ui, Thread("preflight", p))
    /\ UNCHANGED <<backend, owed>>

\* What is below the dialog gives way to the progress of the deletion.
ConfirmDeletion ==
    /\ At({"confirm"})
    /\ LET p == Top(ui).project IN Room(ui)
         /\ ui' = Spawn(Switch(Pop(ui), Screen("waiting", p)), Thread("delete", p))
    /\ Free

\* A global key first dismisses a dialog.
Dismiss == At(Modals) /\ ui' = Pop(ui) /\ Free
Help == ~At({"help"}) /\ Ask /\ ui' = Push(ui, Screen("help", None)) /\ UNCHANGED <<backend, owed>>

\* The main menu, the back keys and the detach button. Above the settings it drops
\* the answer they have kept back.
Leave ==
    /\ ~At(Modals \cup {"welcome", "gate"})
    /\ ui' = ShowWelcome(IF ui.settings
                         THEN [Pop(ui) EXCEPT !.settings = FALSE, !.kept = None] ELSE ui)
    /\ Free

PassGate == At({"gate"}) /\ ui' = ShowWelcome(ui) /\ Free

OpenSettings ==
    /\ ~At(Modals \cup {"settings", "gate"})
    /\ ui' = [Push(ui, Settings) EXCEPT !.settings = TRUE] /\ Free

\* A mutant: what was kept back is not forgotten.
CloseSettings_Again ==
    /\ At({"settings"})
    /\ LET u == [Pop(ui) EXCEPT !.settings = FALSE] IN
         /\ ui.kept # None => Room(ui)
         /\ ui' = IF ui.kept = None THEN u ELSE Deliver(u, ui.kept)
    /\ Free

\* What was kept back is applied to the screen below, once.
CloseSettings ==
    /\ At({"settings"})
    /\ LET u == [Pop(ui) EXCEPT !.settings = FALSE, !.kept = None] IN
         /\ ui.kept # None => Room(ui)
         /\ ui' = IF ui.kept = None THEN u ELSE Deliver(u, ui.kept)
    /\ Free

\* The job that is cancelled is the one last observed for the current watch.
CancelVerification ==
    /\ At({"watch"}) /\ Top(ui).cancel /\ Top(ui).heeded
    /\ ui.watch # None /\ ui.observed # None /\ Room(ui)
    /\ LET o == ui.observed
           t == [Thread("cancel", o.project) EXCEPT !.watch = ui.watch, !.obs = o.obs]
       IN ui' = Spawn(OnWatch(ui, ui.watch, Uncancellable), t)
    /\ Free

-----------------------------------------------------------------------------
(* The threads.                                                            *)

Exists(p) == backend[p].exists = "yes"

Inquiries == {"resume", "discover", "select", "plan", "preflight", "load", "inspect"}

\* An inquiry into a project that is gone ends in an error screen, as any may.
Inquiry(t) ==
    LET p == t.project
        snapshots == {Snapshot(p, s) : s \in SnapshotStates(p)}
    IN CASE t.does \in {"resume", "discover"} ->
              IF Observed(p) # None /\ ~Terminal(Observed(p))
              THEN {AttachTo(p, Observed(p))}
              ELSE IF t.does = "discover" /\ Observed(p) = None
                   THEN {Nav("unattachable", p)} ELSE snapshots
         [] t.does = "select" -> snapshots
         [] t.does = "plan" -> {Planned(p, c) : c \in BOOLEAN}
         [] t.does = "preflight" -> {Nav("confirm", p)}
         [] OTHER -> {}

\* Where the refusal of a request leads.
Refusal(t) == Nav(IF t.does \in {"preflight", "delete"} THEN "removed" ELSE "error", t.project)

Answers(i, nav) ==
    ui' = [ui EXCEPT !.threads[i] = [@ EXCEPT !.phase = "answering", !.nav = nav]]

Works(i, does) ==
    /\ i \in Alive(ui) /\ ui.threads[i].does \in does /\ ui.threads[i].phase = "working"
    /\ UNCHANGED asks

Inquire(i) ==
    /\ Works(i, Inquiries)
    /\ LET t == ui.threads[i] IN
         \E nav \in {Refusal(t)} \cup (IF Exists(t.project) THEN Inquiry(t) ELSE {})
                      \cup (IF t.does = "inspect" THEN {Nav("form", t.project)} ELSE {}) :
           Answers(i, nav)
    /\ UNCHANGED <<backend, owed>>

\* A project may be created whose verification settings then are unusable.
Create(i) ==
    /\ Works(i, {"create"})
    /\ LET t == ui.threads[i] IN
         \/ /\ backend[t.project].exists = "no"
            /\ backend' = [backend EXCEPT ![t.project].exists = "yes"]
            /\ \/ Answers(i, Nav("created", t.project)) /\ UNCHANGED owed
               \/ Answers(i, Refusal(t)) /\ owed' = [owed EXCEPT ![t.project] = @ - 1]
         \/ /\ Answers(i, Refusal(t)) /\ owed' = [owed EXCEPT ![t.project] = @ - 1]
            /\ UNCHANGED backend

\* A project with a verification is not deleted.
Delete(i) ==
    /\ Works(i, {"delete"})
    /\ LET p == ui.threads[i].project IN
         /\ \/ UNCHANGED backend
            \/ Exists(p) /\ ~Busy(p) /\ backend' = [backend EXCEPT ![p].exists = "deleted"]
         /\ Answers(i, Nav("removed", p))
    /\ UNCHANGED owed

\* The providers are asked for when the program starts.
Probe(i) ==
    /\ Works(i, {"probe"})
    /\ \E gate \in BOOLEAN : Answers(i, Setup(gate))
    /\ UNCHANGED <<backend, owed>>

Answer(i) ==
    /\ i \in Alive(ui) /\ ui.threads[i].phase = "answering"
    /\ ui' = Deliver(Ended(ui, i), ui.threads[i].nav)
    /\ Free

-----------------------------------------------------------------------------
(* The observers of detached jobs.                                         *)

Is(i, does, phase) ==
    i \in Alive(ui) /\ ui.threads[i].does \in does /\ ui.threads[i].phase = phase

Continue(i, phase, obs) ==
    ui' = [ui EXCEPT !.threads[i] = [@ EXCEPT !.phase = phase, !.obs = obs]]

Fails(i) == ui' = [ui EXCEPT !.threads[i] = [@ EXCEPT !.phase = "failing"]]

\* The job is started even if the watch is gone; a project that is being verified
\* is observed, whoever asked for it and with whichever settings.
Submit(i) ==
    /\ Is(i, {"observe"}, "submitting")
    /\ LET p == ui.threads[i].project IN
         /\ \/ /\ Exists(p) /\ NextJob(p)
               /\ Continue(i, "showing", [job |-> backend[p].job + 1, state |-> "active"])
            \/ Busy(p) /\ Continue(i, "showing", Observed(p)) /\ UNCHANGED backend
            \/ Fails(i) /\ UNCHANGED backend
         /\ owed' = [owed EXCEPT ![p] = @ - 1]
    /\ UNCHANGED asks

\* An observation is handed to the interface.
Show(i) ==
    /\ Is(i, {"observe", "cancel"}, "showing")
    /\ LET t == ui.threads[i] IN
         ui' = Activated(IF t.does = "cancel" THEN Ended(ui, i)
                         ELSE [ui EXCEPT !.threads[i] = [@ EXCEPT !.phase = "polling"]],
                         t.watch, t.project, t.obs)
    /\ Free

Polling(i) == Is(i, {"observe"}, "polling") /\ ~ui.threads[i].cancelled

Poll(i) ==
    /\ Polling(i) /\ ~Terminal(ui.threads[i].obs)
    /\ LET p == ui.threads[i].project IN
         \/ Exists(p) /\ Observed(p) # None /\ Continue(i, "showing", Observed(p))
         \/ Fails(i)
    /\ Free

\* The result of a job that has ended is loaded once.
LoadResult(i) ==
    /\ Polling(i) /\ Terminal(ui.threads[i].obs)
    /\ LET p == ui.threads[i].project IN
         \/ /\ Exists(p)
            /\ \E s \in SnapshotStates(p) :
                 ui' = [ui EXCEPT !.threads[i] = [@ EXCEPT !.phase = "ending",
                                                           !.nav = Snapshot(p, s)]]
         \/ Fails(i)
    /\ Free

Finish(i) ==
    /\ Is(i, {"observe"}, "ending")
    /\ ui' = FinishObserved(Ended(ui, i), ui.threads[i].watch, ui.threads[i].nav)
    /\ Free

ReportError(i) ==
    /\ Is(i, {"observe", "cancel"}, "failing")
    /\ ui' = PollingError(Ended(ui, i), ui.threads[i].watch)
    /\ Free

StopPolling(i) ==
    /\ Is(i, {"observe"}, "polling") /\ ui.threads[i].cancelled
    /\ ui' = Ended(ui, i)
    /\ Free

\* A request to cancel names its job: one that has ended stays as it is, and the
\* next one of the project is left alone.
RequestCancel(i) ==
    /\ Works(i, {"cancel"})
    /\ LET p == ui.threads[i].project
           n == ui.threads[i].obs.job
           latest == backend[p].job = n
           open == latest /\ backend[p].state \in {"active", "cancelling"}
       IN \/ /\ Exists(p)
             /\ backend' = IF open THEN [backend EXCEPT ![p].state = "cancelling"] ELSE backend
             /\ Continue(i, "showing", [job |-> n, state |-> IF open THEN "cancelling" ELSE "ended"])
          \/ Fails(i) /\ UNCHANGED backend
    /\ UNCHANGED owed

-----------------------------------------------------------------------------
(* Others.                                                                 *)

\* Another client starts a verification, or the command line a session.
OthersStart(p) ==
    /\ Exists(p) /\ Ask
    /\ \/ NextJob(p)
       \/ ~Busy(p) /\ backend' = [backend EXCEPT ![p].state = "session"]
    /\ UNCHANGED <<ui, owed>>

ActivityEnds(p) ==
    /\ Busy(p) /\ backend' = [backend EXCEPT ![p].state = "ended"]
    /\ UNCHANGED <<ui, owed, asks>>

Init ==
    /\ backend = [p \in Projects |->
                    [exists |-> IF p \in Known THEN "yes" ELSE "no", job |-> 0, state |-> "ended"]]
    /\ ui = [stack |-> <<Welcome>>,
             watch |-> None,     \* the identity of the current watch
             observed |-> None,  \* the observation last made for it
             settings |-> FALSE, \* the settings are above the screen
             kept |-> None,      \* the answer they keep back
             questions |-> None, \* the project whose questions the current snapshot has
             threads |-> [i \in Slots |-> IF i = Some(Slots) THEN Thread("probe", None)
                                          ELSE None]]
    /\ owed = [p \in Projects |-> 0] /\ asks = 0

-----------------------------------------------------------------------------
(* Types.                                                                  *)

Obs == [job : Nat, state : {"active", "cancelling", "ended", "session"}]

Navs ==
    [to : {"form", "confirm", "removed", "error", "unattachable", "created"}, project : Projects]
    \cup [to : {"snapshot"}, project : Projects,
          state : {"verifying", "review", "clarify", "other"}]
    \cup [to : {"attach"}, project : Projects, obs : Obs]
    \cup [to : {"planned"}, project : Projects, changed : BOOLEAN]
    \cup [to : {"setup"}, gate : BOOLEAN]

Screens ==
    [kind : {"welcome", "gate", "settings", "help", "form"}, project : Projects \cup {None}]
    \cup [kind : {"confirm", "removed", "waiting", "project", "review"}, project : Projects]
    \cup [kind : {"watch"}, project : Projects, id : Nat, job : Nat \cup {None},
          cancel : BOOLEAN, heeded : BOOLEAN, error : BOOLEAN]

Phases == {"working", "answering", "submitting", "polling", "showing", "ending", "failing"}

Threads ==
    [does : Inquiries \cup {"probe", "create", "delete", "observe", "cancel"},
     project : Projects \cup {None},
     phase : Phases,
     watch : Nat \cup {None}, cancelled : BOOLEAN,
     obs : Obs \cup {None}, nav : Navs \cup {None}]

\* The observation made for the current watch, with its project.
ObservedOf == [project : Projects, obs : Obs]

ASSUME NoneIsNoRecord == None \notin Obs \cup ObservedOf \cup Navs \cup Threads

Uis ==
    [stack : Seq(Screens), watch : Nat \cup {None},
     observed : ObservedOf \cup {None}, settings : BOOLEAN,
     kept : Navs \cup {None}, questions : Projects \cup {None},
     threads : [Slots -> Threads \cup {None}]]

TypeOK ==
    /\ backend \in [Projects -> [exists : {"no", "yes", "deleted"}, job : Nat,
                                 state : {"active", "cancelling", "ended", "session"}]]
    /\ ui \in Uis
    /\ owed \in [Projects -> Int] /\ asks \in Nat

UserActs ==
    \/ \E p \in Projects :
         \/ InspectSource(p) \/ CreateProject(p) \/ ResumeProject(p) \/ SelectMainFile(p)
         \/ CheckForChanges(p) \/ ViewReport(p) \/ Verify(p) \/ RequestDeletion(p)
    \/ NewProject \/ KeepWaiting \/ ConfirmDeletion \/ Dismiss \/ Help \/ Leave \/ PassGate
    \/ OpenSettings \/ CloseSettings \/ CancelVerification

ThreadStep(i) ==
    \/ Inquire(i) \/ Create(i) \/ Delete(i) \/ Probe(i) \/ Answer(i)
    \/ StopPolling(i) \/ RequestCancel(i)

ObserverStep(i) ==
    \/ Submit(i) \/ Show(i) \/ Poll(i) \/ LoadResult(i) \/ Finish(i) \/ ReportError(i)

Next ==
    \/ UserActs
    \/ \E i \in Slots : ThreadStep(i) \/ ObserverStep(i)
    \/ \E p \in Projects : OthersStart(p) \/ ActivityEnds(p)

Spec == Init /\ [][Next]_vars

\* Observers run and what they hand over is applied; an activity of the backend
\* ends. The user and the other threads need not do anything.
FairSpec ==
    /\ Spec
    /\ \A i \in Slots : WF_vars(ObserverStep(i))
    /\ \A p \in Projects : WF_vars(ActivityEnds(p))

-----------------------------------------------------------------------------
(* Properties.                                                             *)

\* No verification is submitted that was not asked for: an answer that starts one
\* is applied once, however often it was kept back.
NeverStartedUnasked == \A p \in Projects : owed[p] >= 0

HasError(u, id) == \E s \in Watches(u) : s.id = id /\ s.error
OnScreen(u, id) == \E s \in Watches(u) : s.id = id

\* The current watch is observed, unless it says that it no longer is.
ObservedUntilTheEnd ==
    ui.watch # None /\ OnScreen(ui, ui.watch) =>
      \/ HasError(ui, ui.watch)
      \/ \E i \in Observers(ui) : ui.threads[i].watch = ui.watch /\ ~ui.threads[i].cancelled

\* The job that is cancelled is the one the screen showed when the user asked for
\* it, whatever watches were left behind and whichever jobs have come since.
CancelsTheShownJob ==
    [][/\ CancelVerification =>
            ui.observed.project = Top(ui).project /\ ui.observed.obs.job = Top(ui).job
       /\ \A i \in Slots : RequestCancel(i) /\ backend' # backend =>
            backend[ui.threads[i].project].job = ui.threads[i].obs.job]_vars

\* No watch is open for ever: the user is told how the job ended, or that it cannot
\* be told, or leaves it, or another screen has taken its place.
WatchedJobIsReported ==
    []<>(ui.watch = None \/ HasError(ui, ui.watch) \/ ~OnScreen(ui, ui.watch))

\* "Background work finished while Settings was open. Close Settings to view the
\* result." It does not hold: the next answer takes the place of the one kept back,
\* and when that is about the providers or a deletion, the progress screen below
\* the settings is left without a thread.
KeptBackIsShown ==
    [][ui.kept # None /\ ui'.kept # ui.kept => CloseSettings \/ Leave]_vars

\* An answer takes the place of its own progress screen. It does not hold: a thread
\* answers whatever the user has gone to meanwhile, the first-run gate included.
AnswersTakeTheirPlace ==
    [][\A i \in Slots : Answer(i) /\ Top(ui') # Top(ui) =>
         \/ ui.threads[i].does \in {"probe", "preflight"}
         \/ Top(ui) = Screen("waiting", ui.threads[i].project)]_vars

=============================================================================
