--------------------------- MODULE ProviderSettings ---------------------------
(***************************************************************************)
(* The editor of AI providers and role teams of the terminal interface     *)
(* (tui/settings/screens.py), the service calls it makes from threads      *)
(* (workflow/service.py, ai/service.py) and the two revisioned files they  *)
(* end in: the machine's providers.json (ai/config.py) and the project's   *)
(* verification-settings.json (workflow/project_ai.py).                    *)
(*                                                                         *)
(* The editor holds one form for the machine and one for the project. It   *)
(* runs every read and every save in a thread, and the thread hands its    *)
(* answer back to the interface between two other events: whatever the     *)
(* user did meanwhile is already in the forms.                             *)
(*                                                                         *)
(* A team is the provider and one pick standing for the models and efforts *)
(* of the eight roles. The generation counters of the source are not kept: *)
(* an answer whose generation is no longer the current one changes nothing *)
(* but the notice line, so a superseded request is forgotten at once.      *)
(***************************************************************************)
EXTENDS Naturals, Sequences, FiniteSets

CONSTANTS Drivers,      \* the supported providers
          DefaultDriver, \* the provider of a machine that never saved one
          Connected,    \* the providers that are installed and logged in at first
          Offers,       \* the complete choices of models and efforts each provider has
          Recommended,  \* the pick the recommendations make
          OthersTeams,  \* what the other writers of the files save
          Absent,       \* an absent value
          MaxRevisions, \* bound on the sum of the revisions of the two files
          MaxEdits,     \* bound on the changes the user makes by hand
          MaxWaiting    \* bound on the requests the user has under way at once

Team == UNION {[driver : {d}, pick : Offers[d]] : d \in Drivers}

ASSUME EditorAssumption ==
    /\ \A d \in Drivers : Recommended \in Offers[d]
    /\ DefaultDriver \in Drivers /\ Connected \subseteq Drivers
    /\ OthersTeams \subseteq Team \cup {Absent}
    /\ MaxRevisions \in Nat /\ MaxEdits \in Nat /\ MaxWaiting \in Nat

RecommendedTeam(d) == [driver |-> d, pick |-> Recommended]

\* What get_setup_snapshot reports, and what a load of the project's file does.
Snapshot == [rev : 0 .. MaxRevisions, driver : Drivers, ready : SUBSET Drivers]
Loaded == [rev : 0 .. MaxRevisions, override : Team \cup {Absent}, effective : Team]

\* An installation on its way.
Installs == [phase : {"previewing", "reviewed", "accepted"}, driver : Drivers]

\* None is no provider, and nothing that is read, saved or installed is None.
ASSUME AbsentAssumption ==
    /\ Absent \notin Drivers /\ Absent \notin Team
    /\ Absent \notin Snapshot /\ Absent \notin Loaded /\ Absent \notin Installs

Scopes == {"machine", "project"}

\* Destinations of a guarded navigation: outside the editor, another reading of the
\* providers, the other scope or page.
Outside == {"home", "menu", "quit"}
Pages == {"roles", "connection"}
Destinations == Outside \cup {"refresh"} \cup Scopes \cup Pages

VARIABLES
    disk,       \* the machine's revision and team, the project's revision and override
    installed,  \* providers whose command line is installed and logged in
    editor,     \* the editor and the snapshot of the providers it shares with the program
    startup,    \* the probe of the providers made when the program starts
    edits       \* how many changes the user has made

editorVars == <<disk, installed, editor, startup, edits>>

\* The probe has been asked for, by a program that has just started.
Asked == [phase |-> "asked"]

EmptyMachine == [base |-> 0, driver |-> Absent, team |-> Absent, saved |-> Absent]
EmptyProject == [loaded |-> Absent, driver |-> Absent, team |-> Absent, customizing |-> FALSE]

\* What the editor asks a thread to read, and to save.
Reads == {"setup", "policies", "project"}
Saves == {"machine", "project", "reset"}

NewEditor(firstRun) ==
    [open |-> TRUE,
     firstRun |-> firstRun,  \* the editor is the gate a first start has to pass
     passed |-> ~firstRun,   \* _first_run_saved
     snap |-> Absent, machine |-> EmptyMachine, project |-> EmptyProject,
     page |-> IF firstRun THEN "choose" ELSE "roles", scope |-> "machine",
     asked |-> {},           \* the reads under way
     defaults |-> [machine |-> Absent, project |-> Absent], \* recommendations for a provider
     saving |-> [machine |-> Absent, project |-> Absent, reset |-> Absent],
     install |-> Absent,       \* the installation on its way
     dialogs |-> <<>>,       \* modal dialogs, the uppermost first
     pending |-> Absent]       \* _pending_navigation

-----------------------------------------------------------------------------
(* The forms.                                                              *)

SnapshotNow == [rev |-> disk.machine.rev, driver |-> disk.machine.team.driver,
                ready |-> installed]

\* What the project runs with: its own team, or the machine's when it inherits.
LoadedNow == [rev |-> disk.project.rev, override |-> disk.project.team,
              effective |-> IF disk.project.team = Absent
                            THEN disk.machine.team ELSE disk.project.team]

MachineDirty(e) ==
    /\ e.snap # Absent
    /\ \/ e.machine.driver # e.snap.driver
       \/ e.machine.saved # Absent /\ e.machine.team # e.machine.saved

ProjectDirty(e) ==
    /\ e.project.loaded # Absent
    /\ \/ e.project.driver # e.project.loaded.effective.driver
       \/ e.project.team # e.project.loaded.effective

\* The connection page edits the machine whatever scope the roles page shows.
DisplayedScope(e) == IF e.page = "connection" THEN "machine" ELSE e.scope
DisplayedDirty(e) ==
    IF DisplayedScope(e) = "project" THEN ProjectDirty(e) ELSE MachineDirty(e)

\* The provider is ready in the last snapshot and all roles are its models'.
Ready(e, driver) == e.snap # Absent /\ driver \in e.snap.ready
Saveable(e, form) ==
    Ready(e, form.driver) /\ form.team # Absent /\ form.team.driver = form.driver

\* A mutant: a save looks only at the provider it was sent with.
MachineSignature_DriverOnly(e) == <<e.machine.driver>>

MachineSignature(e) == <<e.machine.driver, e.machine.team>>

ProjectSignature(e) == <<e.project.driver, e.project.team>>

Ask(e, read) == [e EXCEPT !.asked = @ \cup {read}]
Answered(e, read) == [e EXCEPT !.asked = @ \ {read}]

\* A mutant: an edit does not supersede the reads under way.
Edited_KeepsReads(e, s) == [e EXCEPT !.defaults[s] = Absent]

\* An edit moves the form's draft generation on: what was asked for before it is
\* no longer wanted.
Edited(e, s) ==
    [e EXCEPT !.asked = @ \ {IF s = "machine" THEN "policies" ELSE "project"},
              !.defaults[s] = Absent]

WithPolicies(e, team) ==
    [e EXCEPT !.machine.team = team, !.machine.saved = team]

\* Revision and roles of the project's form change together.
WithProject(e, l) ==
    [e EXCEPT !.project =
       [loaded |-> l, driver |-> l.effective.driver, team |-> l.effective,
        customizing |-> l.override # Absent]]

\* The providers are shown; the roles of the machine's form are not touched.
WithSetup(e, s, base) ==
    [e EXCEPT !.snap = s, !.machine.base = IF base THEN s.rev ELSE @,
              !.machine.driver = s.driver]

AskProject(e) == IF e.firstRun THEN e ELSE Ask(e, "project")

\* A machine form with edits keeps them and the revision they were based on; one
\* without takes the snapshot's and has its roles read again.
Reloaded(e, s) ==
    LET keep == MachineDirty(e)
        shown == WithSetup(Answered(e, "setup"), s, ~keep)
        m == IF keep THEN [shown EXCEPT !.machine = e.machine]
                     ELSE Ask(shown, "policies")
    IN IF ProjectDirty(e) THEN m ELSE AskProject(m)

RestoreMachine(e) ==
    [e EXCEPT !.machine.team = IF e.machine.saved # Absent THEN e.machine.saved ELSE @,
              !.machine.driver = e.snap.driver]
RestoreProject(e) ==
    [Edited(e, "project") EXCEPT
       !.project.team = e.project.loaded.effective,
       !.project.driver = e.project.loaded.effective.driver,
       !.project.customizing = e.project.loaded.override # Absent]
Restore(e, s) == IF s = "project" THEN RestoreProject(e) ELSE RestoreMachine(e)

-----------------------------------------------------------------------------
(* Navigation.                                                             *)

\* What a closed editor had asked for finds no widgets, and a save it had under way
\* is one of the other writers.
Closed(e) == [NewEditor(FALSE) EXCEPT !.open = FALSE, !.snap = e.snap]

\* The editor a destination leads to. Above a dialog the settings home replaces the
\* dialog, not the editor.
Arrive(e, destination) ==
    CASE destination = "refresh" -> Ask(e, "setup")
      [] destination \in Scopes -> [e EXCEPT !.scope = destination]
      [] destination \in Pages -> [e EXCEPT !.page = destination]
      [] destination = "home" /\ e.dialogs # <<>> -> [e EXCEPT !.dialogs = Tail(@)]
      [] OTHER -> Closed(e)

FinishPending(e) ==
    IF e.pending = Absent THEN e ELSE Arrive([e EXCEPT !.pending = Absent], e.pending)

\* Nothing is in front of the editor.
Facing == editor.open /\ editor.dialogs = <<>>

\* The requests under way, and whether the user makes one more.
Waiting(e) ==
    Cardinality(e.asked) + Cardinality({s \in Scopes : e.defaults[s] # Absent})
      + Cardinality({s \in Saves : e.saving[s] # Absent})
      + (IF e.install = Absent THEN 0 ELSE 1)
Patient == Waiting(editor) < MaxWaiting

Becomes(e) == editor' = e /\ UNCHANGED <<disk, installed, startup, edits>>

\* At once when the displayed form is clean, otherwise after a dialog.
RequestNavigation(destination) ==
    /\ Facing
    /\ destination = "refresh" => Patient
    /\ destination \in Scopes \cup Pages => ~editor.firstRun
    /\ destination \in Scopes => editor.page = "roles" /\ destination # editor.scope
    /\ destination \in Pages => destination # editor.page
    /\ destination = "home" => ~editor.firstRun
    /\ destination = "menu" /\ editor.firstRun =>
         editor.passed /\ Ready(editor, editor.snap.driver)
    /\ Becomes(IF DisplayedDirty(editor)
            THEN [editor EXCEPT !.dialogs =
                    <<[kind |-> "unsaved", scope |-> DisplayedScope(editor),
                       destination |-> destination]>>]
            ELSE Arrive(editor, destination))

\* The button beside a role goes to the connection page without a question.
ManageConnection(s) ==
    /\ Facing /\ editor.page = "roles" /\ editor.scope = s
    /\ editor[s].driver # Absent
    /\ Becomes([editor EXCEPT !.page = "connection"])

\* "Exit setup" of the gate ends the program whatever the form holds. The next
\* start begins with a probe.
ExitSetup ==
    /\ Facing /\ editor.firstRun
    /\ editor' = Closed(NewEditor(FALSE)) /\ startup' = Asked
    /\ UNCHANGED <<disk, installed, edits>>

\* The late answer to an earlier request takes the place of the gate. Only settings
\* opened above another screen are spared.
GateReplaced == Facing /\ editor.firstRun /\ Becomes(Closed(editor))

FirstRunBack ==
    /\ Facing /\ editor.firstRun /\ editor.page = "connection"
    /\ Becomes([editor EXCEPT !.page = "choose"])

-----------------------------------------------------------------------------
(* The user's changes.                                                     *)

Edit(e) ==
    /\ edits < MaxEdits /\ edits' = edits + 1
    /\ editor' = e
    /\ UNCHANGED <<disk, installed, startup>>

\* One role at a time: a team that is not complete stays incomplete.
ChooseMachineRole(pick) ==
    /\ Facing /\ editor.page = "roles" /\ editor.scope = "machine" /\ editor.snap # Absent
    /\ editor.machine.driver # Absent /\ pick \in Offers[editor.machine.driver]
    /\ LET t == editor.machine.team IN
       Edit([Edited(editor, "machine") EXCEPT !.machine.team =
               IF t = Absent THEN t ELSE [driver |-> editor.machine.driver, pick |-> pick]])

ChooseProjectRole(pick) ==
    /\ Facing /\ editor.page = "roles" /\ editor.scope = "project" /\ editor.snap # Absent
    /\ editor.project.customizing
    /\ editor.project.driver # Absent /\ pick \in Offers[editor.project.driver]
    /\ LET t == editor.project.team IN
       Edit([Edited(editor, "project") EXCEPT !.project.team =
               IF t = Absent THEN t ELSE [driver |-> editor.project.driver, pick |-> pick]])

\* Another provider empties the team and asks for the recommended one.
ChooseMachineDriver(d) ==
    /\ Facing /\ editor.snap # Absent /\ d # editor.machine.driver
    /\ editor.page \in {"choose", "roles"} /\ editor.scope = "machine"
    /\ Edit([Edited(editor, "machine") EXCEPT
               !.machine.driver = d, !.machine.team = Absent,
               !.defaults.machine = d])

ChooseProjectDriver(d) ==
    /\ Facing /\ editor.page = "roles" /\ editor.scope = "project" /\ editor.snap # Absent
    /\ editor.project.customizing /\ d # editor.project.driver
    /\ Edit([Edited(editor, "project") EXCEPT
               !.project.driver = d, !.project.team = Absent,
               !.defaults.project = d])

\* Turning to another provider's connection counts as an edit (a save under way
\* finds the form changed); in the gate it also chooses the provider.
ConfigureDriver(d) ==
    /\ Facing /\ editor.page = "connection" /\ editor.snap # Absent
    /\ LET e == [Edited(editor, "machine") EXCEPT
                   !.saving.machine = IF @ = Absent THEN Absent
                                      ELSE [@ EXCEPT !.signature = <<>>]]
       IN Edit(IF editor.firstRun
               THEN [e EXCEPT !.machine.driver = d, !.machine.team = Absent,
                              !.defaults.machine = d]
               ELSE e)

CustomizeProject ==
    /\ Facing /\ editor.page = "roles" /\ editor.scope = "project"
    /\ editor.project.loaded # Absent /\ ~editor.project.customizing
    /\ Becomes([Edited(editor, "project") EXCEPT
               !.project.customizing = TRUE,
               !.project.driver = editor.project.loaded.effective.driver])

\* Asking for the recommended team is not an edit yet.
UseRecommended(s) ==
    /\ Facing /\ Patient /\ editor.page = "roles" /\ editor.scope = s /\ editor.snap # Absent
    /\ editor[s].driver # Absent
    /\ s = "project" => editor.project.customizing
    /\ Becomes(IF s = "project"
            THEN [editor EXCEPT !.defaults.project = editor.project.driver]
            ELSE [editor EXCEPT !.defaults.machine = editor.machine.driver])

-----------------------------------------------------------------------------
(* Saving.                                                                 *)

CanSave(e, s) ==
    /\ e.saving[s] = Absent
    /\ Saveable(e, e[s])
    /\ s = "project" => e.project.loaded # Absent

\* The project's revision is taken with the form.
SaveSent(e, s) ==
    IF s = "project"
    THEN [e EXCEPT !.saving.project =
            [phase |-> "sent", team |-> e.project.team, expected |-> e.project.loaded.rev,
             replaces |-> e.project.loaded.override, signature |-> ProjectSignature(e)]]
    ELSE [e EXCEPT !.saving.machine =
            [phase |-> "sent", team |-> e.machine.team, signature |-> MachineSignature(e)]]

Save ==
    /\ Facing /\ Patient /\ CanSave(editor, DisplayedScope(editor))
    /\ Becomes(SaveSent(editor, DisplayedScope(editor)))

\* "Save and continue" of the gate. A refused save forgets the destination, also
\* when it is refused because one is under way.
FirstRunNext ==
    /\ Facing /\ editor.firstRun /\ editor.snap # Absent
    /\ IF ~Ready(editor, editor.machine.driver)
       THEN /\ editor.page = "choose"
            /\ Becomes([editor EXCEPT !.page = "connection"])
       ELSE /\ Saveable(editor, editor.machine)
            /\ Becomes(IF CanSave(editor, "machine")
                    THEN SaveSent([editor EXCEPT !.pending = "menu"], "machine")
                    ELSE [editor EXCEPT !.pending = Absent])

\* The dialog about unsaved work: continue, discard, or save and go on.
AnswerUnsaved(choice) ==
    /\ editor.dialogs # <<>> /\ Head(editor.dialogs).kind = "unsaved"
    /\ LET d == Head(editor.dialogs)
           e == [editor EXCEPT !.dialogs = Tail(@)]
       IN Becomes(CASE choice = "continue" -> e
                 [] choice = "discard" -> Arrive(Restore(e, d.scope), d.destination)
                 [] choice = "save" ->
                      IF CanSave(e, d.scope)
                      THEN SaveSent([e EXCEPT !.pending = d.destination], d.scope)
                      ELSE [e EXCEPT !.pending = Absent])

ReviewReset ==
    /\ Facing /\ Patient /\ editor.page = "roles" /\ editor.scope = "project"
    /\ editor.project.loaded # Absent /\ editor.project.loaded.override # Absent
    /\ Becomes([editor EXCEPT !.dialogs = <<[kind |-> "reset"]>>])

AnswerReview(accepted) ==
    /\ editor.dialogs # <<>>
    /\ LET d == Head(editor.dialogs)
           e == [editor EXCEPT !.dialogs = Tail(@)]
       IN \/ /\ d.kind = "reset"
             /\ Becomes(IF accepted /\ e.saving.reset = Absent
                     THEN [e EXCEPT !.saving.reset =
                             [phase |-> "sent", expected |-> e.project.loaded.rev]]
                     ELSE e)
          \/ /\ d.kind = "install"
             /\ Becomes(IF accepted THEN [e EXCEPT !.install.phase = "accepted"]
                     ELSE [e EXCEPT !.install = Absent])

-----------------------------------------------------------------------------
(* The threads.                                                            *)

AtLastRevision == disk.machine.rev + disk.project.rev >= MaxRevisions

\* A file is replaced under its lock, when it still has the expected revision.
SaveMachineFile(expected, team) ==
    /\ disk.machine.rev = expected /\ ~AtLastRevision
    /\ disk' = [disk EXCEPT !.machine = [rev |-> expected + 1, team |-> team]]

\* A mutant: the file is replaced whatever its revision.
SaveProjectFile_Blind(expected, team) ==
    /\ ~AtLastRevision
    /\ disk' = [disk EXCEPT !.project = [rev |-> @.rev + 1, team |-> team]]

SaveProjectFile(expected, team) ==
    /\ disk.project.rev = expected /\ ~AtLastRevision
    /\ disk' = [disk EXCEPT !.project = [rev |-> expected + 1, team |-> team]]

\* What the service asks the provider's command line before it writes: the machine
\* needs a catalogue that offers every role's model, the project also the login.
Catalogued(team) == team.pick \in Offers[team.driver]
AcceptedForProject(team) == team.driver \in installed /\ Catalogued(team)

SaveUnderWay(s) == editor.saving[s] # Absent /\ editor.saving[s].phase = "sent"

Written(s) ==
    /\ editor' = [editor EXCEPT !.saving[s].phase = "written"]
    /\ UNCHANGED <<installed, startup, edits>>

\* The machine's revision is read by the thread, not with the form.
WriteMachine ==
    /\ SaveUnderWay("machine") /\ Catalogued(editor.saving.machine.team)
    /\ SaveMachineFile(editor.machine.base, editor.saving.machine.team)
    /\ Written("machine")

WriteProject ==
    /\ SaveUnderWay("project") /\ AcceptedForProject(editor.saving.project.team)
    /\ SaveProjectFile(editor.saving.project.expected, editor.saving.project.team)
    /\ Written("project")

WriteReset ==
    /\ SaveUnderWay("reset")
    /\ SaveProjectFile(editor.saving.reset.expected, Absent)
    /\ Written("reset")

-----------------------------------------------------------------------------
(* The answers. A thread reads when its answer is handed to the interface: *)
(* another writer between the two is one just after them.                  *)

AnswerSetup ==
    /\ "setup" \in editor.asked
    /\ Becomes(Reloaded(editor, SnapshotNow))

AnswerPolicies ==
    /\ "policies" \in editor.asked
    /\ Becomes(WithPolicies(Answered(editor, "policies"), disk.machine.team))

AnswerProject ==
    /\ "project" \in editor.asked
    /\ Becomes(WithProject(Answered(editor, "project"), LoadedNow))

ReadFails(read) ==
    /\ read \in editor.asked
    /\ Becomes(Answered(editor, read))

\* The project's form counts a recommendation as an edit, the machine's does not.
AnswerDefaults(s) ==
    /\ editor.defaults[s] # Absent
    /\ LET d == editor.defaults[s]
           e == [editor EXCEPT !.defaults[s] = Absent]
           advised == [e EXCEPT ![s].team = RecommendedTeam(d)]
       IN Becomes(IF e[s].driver # d THEN e
               ELSE IF s = "project" THEN Edited(advised, s) ELSE advised)

DefaultsFail(s) ==
    /\ editor.defaults[s] # Absent
    /\ Becomes([editor EXCEPT !.defaults[s] = Absent])

\* The machine's save answers with another reading of the file. Edits made since
\* the save was sent stay unsaved, and the editor stays.
AnswerMachineSave ==
    /\ editor.saving.machine # Absent /\ editor.saving.machine.phase = "written"
    /\ LET m == editor.saving.machine
           e == [editor EXCEPT !.saving.machine = Absent, !.machine.saved = m.team,
                               !.machine.base = disk.machine.rev]
       IN Becomes(IF MachineSignature(editor) # m.signature
               THEN [e EXCEPT !.snap = SnapshotNow, !.pending = Absent]
               ELSE FinishPending([Reloaded(e, SnapshotNow) EXCEPT !.passed = TRUE]))

AnswerProjectSave ==
    /\ editor.saving.project # Absent /\ editor.saving.project.phase = "written"
    /\ LET s == editor.saving.project
           saved == WithProject(Answered([editor EXCEPT !.saving.project = Absent], "project"),
                                [rev |-> s.expected + 1, override |-> s.team,
                                 effective |-> s.team])
       IN Becomes(IF ProjectSignature(editor) # s.signature
               THEN [saved EXCEPT !.project.team = editor.project.team,
                                  !.project.driver = editor.project.driver,
                                  !.pending = Absent]
               ELSE FinishPending(saved))

\* A reset replaces whatever the form shows by now.
AnswerReset ==
    /\ editor.saving.reset # Absent /\ editor.saving.reset.phase = "written"
    /\ Becomes(WithProject(Answered([editor EXCEPT !.saving.reset = Absent], "project"),
                        [rev |-> editor.saving.reset.expected + 1, override |-> Absent,
                         effective |-> disk.machine.team]))

\* Refused, in conflict with another writer, or unreadable after it was written.
SaveFails(s) ==
    /\ editor.saving[s] # Absent
    /\ editor.saving[s].phase = "sent" \/ s # "project"
    /\ Becomes([editor EXCEPT !.saving[s] = Absent,
                           !.pending = IF s = "reset" THEN @ ELSE Absent])

-----------------------------------------------------------------------------
(* Installing a provider.                                                  *)

PreviewInstall ==
    /\ Facing /\ Patient /\ editor.page = "connection" /\ editor.snap # Absent
    /\ editor.install = Absent
    /\ \E d \in Drivers \ editor.snap.ready :
         Becomes([editor EXCEPT !.install = [phase |-> "previewing", driver |-> d]])

InstallPreviewed ==
    /\ editor.install # Absent /\ editor.install.phase = "previewing"
    /\ \/ Becomes([editor EXCEPT !.install.phase = "reviewed",
                              !.dialogs = <<[kind |-> "install"]>> \o @])
       \/ Becomes([editor EXCEPT !.install = Absent])

\* The reviewed plan is refused when it is no longer the one that would be made.
RunInstall ==
    /\ editor.install # Absent /\ editor.install.phase = "accepted"
    /\ \/ /\ editor.install.driver \notin installed
          /\ \E done \in BOOLEAN :
               installed' = IF done THEN installed \cup {editor.install.driver} ELSE installed
          /\ editor' = Ask([editor EXCEPT !.install = Absent], "setup")
       \/ editor' = [editor EXCEPT !.install = Absent] /\ UNCHANGED installed
    /\ UNCHANGED <<disk, startup, edits>>

-----------------------------------------------------------------------------
(* The program around the editor.                                          *)

\* The editor opens with the program's snapshot, which may be an old one.
Opened(firstRun, s) ==
    LET e == NewEditor(firstRun) IN
    IF s = Absent THEN Ask(e, "setup")
    ELSE AskProject(Ask(WithSetup(e, s, TRUE), "policies"))

OpenEditor ==
    /\ ~editor.open /\ startup = Absent
    /\ Becomes(Opened(FALSE, editor.snap))

ReadAtStartup ==
    /\ startup = Asked /\ startup' = [phase |-> "read", snap |-> SnapshotNow]
    /\ UNCHANGED <<disk, installed, editor, edits>>

\* Its answer opens the gate when nothing was ever saved. Settings opened before it
\* came put the gate off until they are closed: the snapshot is then an old one, as
\* it is here when others save in between.
RouteAtStartup ==
    /\ startup # Absent /\ startup.phase = "read" /\ ~editor.open
    /\ startup' = Absent
    /\ editor' = IF startup.snap.rev = 0 THEN Opened(TRUE, startup.snap)
                 ELSE [editor EXCEPT !.snap = startup.snap]
    /\ UNCHANGED <<disk, installed, edits>>

StartupFails ==
    /\ startup = Asked /\ startup' = Absent
    /\ UNCHANGED <<disk, installed, editor, edits>>

\* Another interface, the command line, or a save of an editor since closed.
OthersSave(t) ==
    /\ \/ t # Absent /\ t # disk.machine.team /\ SaveMachineFile(disk.machine.rev, t)
       \/ t # disk.project.team /\ SaveProjectFile(disk.project.rev, t)
    /\ UNCHANGED <<installed, editor, startup, edits>>

EditorInit ==
    /\ disk = [machine |-> [rev |-> 0, team |-> RecommendedTeam(DefaultDriver)],
               project |-> [rev |-> 0, team |-> Absent]]
    /\ installed = Connected
    /\ editor = [NewEditor(FALSE) EXCEPT !.open = FALSE]
    /\ startup = Asked /\ edits = 0

Navigates ==
    \/ \E d \in Destinations : RequestNavigation(d)
    \/ \E s \in Scopes : ManageConnection(s)
    \/ FirstRunBack \/ FirstRunNext \/ OpenEditor
    \/ ExitSetup \/ GateReplaced

Edits ==
    \/ \E p \in UNION {Offers[d] : d \in Drivers} :
         ChooseMachineRole(p) \/ ChooseProjectRole(p)
    \/ \E d \in Drivers : \/ ChooseMachineDriver(d) \/ ChooseProjectDriver(d)
                          \/ ConfigureDriver(d)
    \/ CustomizeProject
    \/ \E s \in Scopes : UseRecommended(s)

Decides ==
    \/ Save \/ ReviewReset \/ PreviewInstall
    \/ \E c \in {"continue", "discard", "save"} : AnswerUnsaved(c)
    \/ \E a \in BOOLEAN : AnswerReview(a)

Writes == WriteMachine \/ WriteProject \/ WriteReset \/ RunInstall

Answers ==
    \/ AnswerSetup \/ AnswerPolicies \/ AnswerProject
    \/ \E r \in Reads : ReadFails(r)
    \/ \E s \in Scopes : AnswerDefaults(s) \/ DefaultsFail(s)
    \/ AnswerMachineSave \/ AnswerProjectSave \/ AnswerReset
    \/ \E s \in Saves : SaveFails(s)
    \/ InstallPreviewed
    \/ ReadAtStartup \/ RouteAtStartup \/ StartupFails

EditorNext ==
    \/ Navigates \/ Edits \/ Decides
    \/ Writes \/ Answers
    \/ \E t \in OthersTeams : OthersSave(t)

EditorSpec == EditorInit /\ [][EditorNext]_editorVars

-----------------------------------------------------------------------------
(* Types.                                                                  *)

MachineForms == [base : 0 .. MaxRevisions, driver : Drivers \cup {Absent},
                 team : Team \cup {Absent}, saved : Team \cup {Absent}]
ProjectForms == [loaded : Loaded \cup {Absent}, driver : Drivers \cup {Absent},
                 team : Team \cup {Absent}, customizing : BOOLEAN]

\* A save on its way: what it writes, and the form it was taken from.
Progress == {"sent", "written"}
MachineSaves == [phase : Progress, team : Team,
                 signature : (Drivers \X Team) \cup {<<>>}]
ProjectSaves == [phase : Progress, team : Team, expected : 0 .. MaxRevisions,
                 replaces : Team \cup {Absent}, signature : Drivers \X Team]
ResetSaves == [phase : Progress, expected : 0 .. MaxRevisions]

Questions == [kind : {"unsaved"}, scope : Scopes, destination : Destinations]
               \cup [kind : {"reset", "install"}]

Editors ==
    [open : BOOLEAN, firstRun : BOOLEAN, passed : BOOLEAN,
     snap : Snapshot \cup {Absent}, machine : MachineForms, project : ProjectForms,
     page : Pages \cup {"choose"}, scope : Scopes, asked : SUBSET Reads,
     defaults : [machine : Drivers \cup {Absent}, project : Drivers \cup {Absent}],
     saving : [machine : MachineSaves \cup {Absent}, project : ProjectSaves \cup {Absent},
               reset : ResetSaves \cup {Absent}],
     install : Installs \cup {Absent}, dialogs : Seq(Questions),
     pending : Destinations \cup {Absent}]

Disks == [machine : [rev : 0 .. MaxRevisions, team : Team],
          project : [rev : 0 .. MaxRevisions, team : Team \cup {Absent}]]

EditorTypeOK ==
    /\ disk \in Disks
    /\ installed \subseteq Drivers
    /\ editor \in Editors
    /\ startup \in {Absent, Asked} \cup [phase : {"read"}, snap : Snapshot]
    /\ edits \in 0 .. MaxEdits

-----------------------------------------------------------------------------
(* Properties.                                                             *)

\* A project's team replaces exactly the one the form had loaded: an edit made
\* against an older revision never overwrites another client's.
ProjectSaveReplacesWhatWasLoaded ==
    [][WriteProject /\ disk' # disk
         => disk.project.team = editor.saving.project.replaces]_editorVars

\* The same of the machine's save, whose form has the roles of the file it was
\* loaded from. It does not hold: a reload may move the expected revision before
\* the roles are read again, and the thread takes the revision when it writes.
MachineSaveReplacesWhatWasLoaded ==
    [][WriteMachine /\ disk' # disk /\ editor.machine.saved # Absent
         => disk.machine.team = editor.machine.saved]_editorVars

\* What arrives from a thread leaves the project's edits in the form, whatever was
\* read or saved; only a reset the user has confirmed replaces them.
AnswersLeaveEditsAlone ==
    [][editor.open /\ editor'.open /\ ProjectDirty(editor) /\ Answers /\ ~AnswerReset
         => \/ ProjectSignature(editor') = ProjectSignature(editor)
            \/ AnswerDefaults("project")]_editorVars

\* action_request_quit: the editor leaves the screen when the displayed form is
\* clean or is discarded by the user, or after a save of a form nobody has changed
\* since it was sent. (The other form may have edits then: both share one
\* destination.) It does not hold in the gate, which two exits leave without a word.
AsksBeforeLeaving ==
    [][editor.open /\ ~editor'.open =>
         \/ ~DisplayedDirty(editor)
         \/ AnswerUnsaved("discard")
         \/ AnswerMachineSave /\ editor.saving.machine.team = editor.machine.team
         \/ AnswerProjectSave /\ editor.saving.project.team = editor.project.team]_editorVars

\* What the code keeps of it: every other exit asks, and those two lose no edits of
\* a project and no save of its team.
LeavesNothingUnsaved ==
    [][editor.open /\ ~editor'.open =>
         \/ ~DisplayedDirty(editor)
         \/ AnswerUnsaved("discard")
         \/ AnswerMachineSave /\ editor.saving.machine.team = editor.machine.team
         \/ AnswerProjectSave /\ editor.saving.project.team = editor.project.team
         \/ /\ ExitSetup \/ GateReplaced
            /\ ~ProjectDirty(editor) /\ editor.saving.project = Absent]_editorVars

=============================================================================
