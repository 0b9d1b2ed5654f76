# A verification development for Proof Assistant

Proof Assistant turns a LaTeX manuscript into a persistent verification project:
it indexes the theorems of the manuscript, lets proof workers (language-model
agents) formalize them in Lean, certifies what Lean accepts, and keeps certificates
valid while the author goes on editing. This directory holds TLA+ models of its
control logic, the TLC runs that check them and proofs about them. Paths below are
relative to `src/src/proof_assistant/` unless they start with `docs/` or `tests/` or name
`DESIGN.md`, which are in `src/`.

## 1. The system

| Component | State it keeps | Operations | Talks to |
|---|---|---|---|
| Job store `workflow/jobs.py` | rows of `control.sqlite3` (at most one open, by a partial unique index), `<job>.cancel` files, event rows, worker logs | `create`, `mark_running`, `record_spawn`, `heartbeat`, `finish`, `request_cancel`, `observe` | clients and workers, through SQLite and files |
| Workflow service `workflow/service.py` | nothing durable of its own | `plan_changes`, `confirm_and_verify`, `observe_verification`, `start_verification`, `request_verification_cancel`, `_run_verification_job` | job store, locks, session, a detached worker process |
| Project locks `incremental/locking.py` | `worker.lock` (a lease inherited by the worker), `session.lock` (shared and exclusive), `graph-mutation.lock` | acquire, release, and probes that acquire and give back | all processes of one project |
| Incremental session `incremental/session.py` | - | `initialize`, `prepare_pass`, `status`, `reconcile_conjectural_policy` | snapshot, LaTeX index, state store |
| State store `incremental/store.py` | `state.sqlite3`: claims, manuscript edges, correspondences, certificates, questions, runs and scopes, incidents | one autocommitted statement or one transaction per method | session, orchestration, workers, commands |
| Orchestration `incremental/orchestration.py` | the pass in progress | `verify_project`: preparation, baseline, proof rounds, merge, build, certification, outcome | everything else |
| Certification `incremental/certification.py` | - | `certify_current_correspondence`, `revalidate_unchanged_certificates` | store, Lean declarations |
| Dependency graph `incremental/graph.py` | - | closure, affected claims, frontier, blockers, source changes | session, orchestration, certification |
| Worker tools `incremental/agent.py` | the worker's worktree | `claim_mark_formalized`, `claim_propose_dependency`, `clarification_request`, `claim_report_unresolved` | store, concurrently with other workers |
| Command line `cli.py` | - | `manuscript verify`, `status`, `questions`, `correspondence`, ... | service, session |
| Admission `concurrency/admission.py` | `admission.sqlite3`: limits, waiters, leases with expiry | acquire, heartbeat, release, prune | all processes of the machine |
| AI, Lean, build controllers `concurrency/` | adaptive limits, back-off, memory pressure, the marker of the settings published last | admit, report success or failure, publish limits, reset | admission, settings |
| Cache `cache.py`, `cache_index.py` | eviction units on disk, an SQLite index of them, reservations, lease files | reserve, lease, attach, measure, collect | all projects |
| Dependency depot `cache.py`, `manuscript.py` | one depot of built packages, `READY`, ownership markers, links | attach, claim, build, promote, roll back, commit | all projects, Lake, collection |
| Workspace `workspace/` | project directories with their lock files, recovery storage, the catalog | create, inspect, delete, roll back | project locks, session |
| Settings `concurrency/config.py`, `workflow/project_ai.py` | versioned JSON files | load, save if the revision is the expected one | interfaces, controllers |
| Source snapshots `incremental/snapshot.py` | a bare Git repository of manuscript versions | stable inventory, create, diff | session |
| LaTeX index `incremental/latex.py` | - | input closure, objects, stable identities, references | session |
| Failure reports `incremental/failures.py`, `reports.py`, `diagnostics.py` | incidents, JSON and Markdown reports | record, attribute, render | orchestration, interface |
| AI execution `ai/`, `protocol.py`, `backend.py` | a turn in progress: a provider process, a reader thread or a loopback server, tool calls | run a turn, run a tool, time out, close | providers, worker tools, orchestration |
| Provider settings `ai/config.py`, `ai/service.py`, `tui/settings/` | `providers.json` and its revision; two forms with the revisions they were loaded at, reads and saves under way, dialogs, a destination | load, edit, recommend, save, reset, install, leave | AI providers, settings of projects |
| Terminal interface `tui/`, `presentation/` | a stack of screens, threads, the watch of a job, the observation last made for it, one answer kept back by the settings | open, create, check, verify, watch, cancel, delete, leave | service, from threads whose answers it applies |

### What is hard in it

* **Concurrency.** A project is used by any number of processes: terminal
  interfaces that poll, commands, detached workers, several proof workers per round.
  They meet in two SQLite files and on advisory `flock` locks, and they read a
  lock's state by *acquiring* it.
* **Hand-over.** The lease of a worker is the open file description its launcher
  acquired; the launcher closes its descriptor after the `Popen`. Unlocking and
  closing look alike in the launcher and are not.
* **Crashes.** Processes are killed between any two steps. The lease dies with its
  last holder, rows and files do not. The state store commits every statement by
  itself, so a crash falls between any two commits of an import or a certification.
* **Stale knowledge.** A row read before a probe, a plan compared before a lock is
  taken, an approval given before an edit, a certificate written for an earlier text.
* **A moving graph.** Workers add dependencies and ask questions during a round;
  authors add references, restate lemmas and delete proofs between passes.
* **Threads that outlive their caller.** Tools of a turn run in a reader thread or in the
  thread of a loopback connection, with time limits of their own, while the batch goes on
  to build and merge.
* **Locks inside what they protect.** The locks of a project lie in its directory: a
  rename takes them away, and opening them makes the directory again.
* **Books kept in two places.** The cache counts bytes in an index and on disk, the AI
  limit lives in a database and its settings in a file; each side is read before the
  other is written.
* **Answers that come later.** The interface runs every call of the service in a thread
  and applies the answer to whatever is on the screen by then; cancelling such a worker
  stops nothing. Forms are edited while they are read again, and saved while they are edited.
* **Partial failure.** A batch may fail after its worker has reported success; a
  provider may fail for one claim and not for the next.

The list `hazards` of `PROJECT.json` gives the places in the code, with the properties
that would notice each of them going wrong.

### What makes each component correct

* *Jobs and locks*: at most one worker; no row of a living worker closed by somebody
  else; every job closed in the end, whoever dies; a cancellation is never lost; what
  is imported is what was confirmed.
* *Verification*: a CERTIFIED claim has a current certificate, resting on a Lean
  declaration of its present statement and on certified dependencies; editing one claim
  does not disturb unrelated ones; nothing stays in flight when no run is open; passes end.
* *Admission*: work begins only within the limit as far as rows can be relied on,
  nobody who waits starves, what the dead leave behind is reclaimed.
* *Cache*: nothing in use is collected, reservations of the living stay, and all sessions
  together leave the free space the policy reserves.
* *Depot*: no half-published depot is used, and nothing of the user's is replaced.
* *Workspace*: a deletion is complete or undone, never meets a live worker, and no project
  is lost.
* *Settings and adaptive limits*: an update based on a stale revision is refused, the last
  settings come into force, and a lowered limit recovers.
* *Turns*: a turn ends, leaves no tool running, and what is merged is what was built.
* *Provider settings*: an answer leaves the user's edits alone, a save replaces what its form
  was loaded from, and nothing unsaved is dropped without a question.
* *Interface*: nothing is started that was not asked for, a watch keeps its observer until the
  user has been told how the job ended, and a cancellation reaches the job that was shown.
* *Snapshots*: what is indexed is one state of the files, not a mixture.

## 2. Modules

| Module | What it is | Composed with |
|---|---|---|
| `VerificationJobs` | job store, locks, service and worker process | refines `JobLifecycle` |
| `JobLifecycle` | what the control plane promises: rows move forward, one open, owners not declared dead | |
| `MCVerificationJobs` | TLC instance: symmetry | extends `VerificationJobs` |
| `VerificationJobsProofs` | inductive invariant, safety theorems, and that `VerificationJobs` implements `JobLifecycle` | extends `VerificationJobs` |
| `IncrementalVerifier` | a pass of the verifier, its workers, the author's edits and commands | |
| `MCIncrementalVerifier` | TLC instances: small manuscripts | extends `IncrementalVerifier` |
| `IncrementalVerifierProofs` | evidence, questions, certificates, dependencies, that a pass is finite, for any manuscript | extends `IncrementalVerifier` |
| `Admission` | machine-wide admission to one resource, its users, and the exclusive Lean calibration | |
| `MCAdmission` | TLC instances: owner strings and priorities | extends `Admission` |
| `AdaptiveLimits` | machine settings, the AI limit that follows them and the turns that adapt it | the limit `Admission` obeys |
| `MCAdaptiveLimits` | TLC instances: settings | extends `AdaptiveLimits` |
| `CacheAdmission` | disk accounting: index, reservations, leases and collection | |
| `MCCacheAdmission` | TLC instance: symmetry | extends `CacheAdmission` |
| `CacheAdmissionProofs` | leases, reservations, laws of sums, the free-space reserve | extends `CacheAdmission` |
| `DependencyDepot` | attaching projects to the cache; building, publishing and using the depot | |
| `MCDependencyDepot` | TLC instance: symmetry | extends `DependencyDepot` |
| `DependencyDepotProofs` | whole depots, the user's packages | extends `DependencyDepot` |
| `ManagedProject` | creation, verification and deletion of one path | |
| `MCManagedProject` | TLC instance: symmetry | extends `ManagedProject` |
| `ManagedProjectProofs` | all safety properties of a path | extends `ManagedProject` |
| `AgentTurn` | one batch: turn, tool calls, final build, checks and merge | the inside of `BatchEnds` and `Merge` of `IncrementalVerifier` |
| `MCAgentTurn` | TLC instance: symmetry | extends `AgentTurn` |
| `AgentProofs` | safety theorems of admission; quiet turns, merged builds, that a batch is finite | extends `Admission` and `AgentTurn` |
| `ProviderSettings` | the editor of providers and role teams, its threads, the two settings files | the settings page of `ProjectNavigation` |
| `MCProviderSettings` | TLC instance: two providers, two constraints | extends `ProviderSettings` |
| `SettingsProofs` | the limit's positivity and no lost machine settings; the editor's types and its three properties | extends `AdaptiveLimits` and `ProviderSettings` |
| `ProjectNavigation` | screens, threads and watches of the terminal interface | a client of `VerificationJobs` and `ManagedProject` |
| `MCProjectNavigation` | TLC instance: two projects, two constraints | extends `ProjectNavigation` |
| `ProjectNavigationProofs` | types and the three safety properties of the interface | extends `ProjectNavigation` |

Where one proof module extends two components, their definitions carry the component's
name: `TurnInit`, `TurnSpec`, `TurnTypeOK` of `AgentTurn`, `EditorInit`, `EditorSpec`,
`EditorTypeOK` of `ProviderSettings`.

### `VerificationJobs`

Clients are processes that run one call of the service at a time; `pc[c]` is the
next indivisible step of client `c`, named after the place in the call. Jobs are
rows; `wpc[j]` is the next step of the worker process of job `j`.

| Variable | Code |
|---|---|
| `state`, `request` | the columns `state`, and `request_fingerprint` with what it hashes, of table `jobs` |
| `cancelFile` | the `<job_id>.cancel` files |
| `dbLock` | a client between `BEGIN IMMEDIATE` and `COMMIT` in `request_cancel` |
| `leaseFds` | the processes that have the lease's open file description: `flock` belongs to the description, hence a *set* |
| `sessionX`, `sessionS` | holders of `session.lock`, exclusive and shared |
| `seen`, `want` | the local variables of a call: the row it read, the request it makes |
| `expected`, `result` | locals of the worker: the inventory hash it insists on, what it will record |
| `source`, `base` | the author's files, and the snapshot they were last imported as |

Each probe is two actions, acquire and give back, with any other process in between;
`LeaseProbes` and `SessionProbes` say where in the calls a probe stands and where
each answer leads. `start_verification` is followed through its poll of an owned
project, its second read of the open row under the lease, the plan check, insert,
spawn, close, and the `finally` that releases. The spawn may fail. Clients die and
return at any step; workers die at any step; the author edits at any time; a client
may also read (`status`, shared lock) or mutate (`questions`, exclusive lock) directly.

### `IncrementalVerifier`

One process, cut where the store commits. `pc` names the phase of `prepare_pass`
and `verify_project`, `todo` the claims its loop has still to visit. The policy on conjectures
visits one claim at a time, in two commits; `PolicyDies` is a death between them, `PolicyFails` its
refusal to replace a worker's question. A worker's `ProposeDependency` and an interface's refresh
between passes (`Reconcile`, `workflow/service.py:1756`) apply the policy as well: to every
conjecture in one step, or to those visited before it raised or its process died.

| Variable | Code |
|---|---|
| `snapshot` | the current manuscript: statement, proof and references of each claim |
| `status`, `edges`, `corr`, `cert`, `question`, `run` | the tables `claims`, `manuscript_edges`, `correspondence`, `certificates`, `clarifications`, `runs` |
| `lean` | what the declaration in the merged Lean module of a claim states: a statement, its negation, or something resting on a forbidden axiom |
| `selected`, `targets` | `run_scope` |
| `newEdges`, `changed`, `issued`, `fresh`, `batch`, `errors`, `round` | locals of the pass |

A statement hash is the statement; a formal type hash is the statement a declaration
formalizes. `Import` takes any member of `Manuscripts`, which are the versions the
author may have saved. Workers use their tools in any order and number before their
batch ends. A crash may come anywhere; it keeps the tables and Lean modules and
forgets the rest.

### `Admission`

One action is one transaction on `admission.sqlite3`, one read of `controller_state`,
or the passing of time. A user is one caller of `lease()`, in any process; `pc[u]` is
its next step. Every transaction of the code that reads rows deletes the expired ones first
(`_prune`), so no transaction ever sees one; in the model a row leaves its table when it
expires. What a status display reads then changes nothing and is left out.

| Variable | Code |
|---|---|
| `leases` | unexpired rows of `leases`, named by the user that created them (the `lease_id`) |
| `waiting` | unexpired rows of `waiters` by `request_id` |
| `before` | the order of the tickets of waiting requests of one priority |
| `limit` | the row of `resource_limits` |
| `paused`, `calibration` | the states `pressure` and `calibration` in `controller_state`, as far as they are fresh |
| `calibLock` | the holder of `lean-calibration.lock` |
| `holds` | the lease a user's `with` block will release, while it is in the table |
| `adopted` | the users that were handed a row that existed, and whose heartbeat has not renewed it yet |

`Key[u]` is the request id: the owner string, unless the caller gives another one. A task
polls: calibration and pressure (one step; what is read of the pressure after the
calibration may have been so before, since it changes at any time), `try_acquire`, sleep,
again; it may give up at its deadline. `try_acquire` is three actions, for its three outcomes. A calibration takes the
file lock, looks at the queue, announces itself, looks again, and then polls like
everybody else, with priority. Users die at any step and leave their rows; their work may be
tried again under the same owner string and is then handed the lease they left. `paused` also
stands for the AI controller's back-off and the build controller's red pressure, which act
at the same place. `Mortal` bounds who dies in a run.

Time: a row may expire when the code does not refresh it. `try_acquire` returns a row that exists
with the expiry it had, and the first heartbeat comes a quarter of the time to live later: a lease
in `adopted` may expire under its user. So may any row of the users in `Late`, whose
heartbeats and polls may come too late because the machine sleeps or a thread ends in an error.
Otherwise heartbeats and polls come in time.

### `AdaptiveLimits`

| Variable | Code |
|---|---|
| `file` | the machine settings: a revision and the AI policy (minimum, initial limit, ceiling, fixed or adaptive) |
| `marker`, `limit`, `evidence` | the resolved marker, the row of `resource_limits` and the state `adaptive` in the admission database |
| `runtime`, `form`, `stage` | the settings an interface's runtime follows, those it shows, and where its call is |
| `policy`, `read`, `pc` | of a worker's turn: its settings, the limit it has read, its next step |

An interface shows settings, applies others against the revision shown, and reloads; it may
reset the history. Every turn resolves the settings anew, publishes them (`Sync`: a
marker that differs restarts the limit), is admitted unless a back-off lasts, and records
success, throttle or failure. The record is a transaction on the evidence, then a read of the
limit, then a write: three steps, as in the code, so updates can be lost. Deadlines are
counted down by `Tick`; while nothing waits for one, time does not count.

### `CacheAdmission`

| Variable | Code |
|---|---|
| `size`, `present` | bytes and directories on disk |
| `row`, `touched` | the index rows, and which of them no longer have the signature of the tree |
| `reserved`, `held` | the reservations table, and whose reservation lock a living process has |
| `globals`, `builds` | who has the shared leases |
| `admission`, `stage`, `evicting`, `usage` | the critical section: its holder, how far it is, the unit it has quarantined, the totals in memory |
| `scan` | the locals of `reconcile_cache_index`: the units listed, those still to look at, which of these changed since, the measurement not yet stored |
| `measured`, `used`, `asked`, `pc` | a session's locals |

A session asks for bytes, enters the critical section (reconcile, recover, judge, evict one
unit after another, reserve), takes its leases, attaches, writes up to what it reserved,
measures its build and the bulk caches, releases, and collects once more. Bytes are small
numbers and the whole disk is the cache's or free. Nobody but sessions writes; the cache
commands that lock everything exclusively are left out. `Reconcile` is five actions, as sessions
that already work go on while units are looked at one by one: a unit is marked or measured under
a lease that is closed before its row is stored, over what a session stored in between, and the
last step drops the rows that were not listed, that of a build attached meanwhile included. None
of the properties relies on the rows being right. A sum over a table (`Total`) is the
number of the bytes the table counts, each with its owner (`Bytes`): the same number as a fold
over the table gives, in a form whose laws can be proved.

### `DependencyDepot`

`depot` is the set of parts the depot directory holds; `lake`, `target`, `marker`,
`packages` describe the project tree (`.lake`, managed build directory, ownership record,
`.lake/packages`), `intent`, `carried`, `attaching`, `debris` what an attach or a builder has
under way or left behind; `shared` and `exclusive` are the depot lease. Each step of
`attach_project_cache` and of `promote` that a death can separate from the next is an
action. Around it, collection evicts depots, builds and staging trees, and users remove
links and run Lake. All projects name one depot. I/O errors in the middle of
an attach are left out.

### `ManagedProject`

Directories have identities: `here` is the one at the path, `trash` those in recovery
storage, `kind` what each holds. `file[c]` is the directory in which a process has opened
a lock file, which may by now be somewhere else; opening makes missing directories
(`Reach`), so a path can come to hold a ghost. Verification and deletion take both locks
one after the other; deletion is confirmed under the locks, released, taken again,
inspected again, moved, and entered in the catalog or taken back.

### `AgentTurn`

| Variable | Code |
|---|---|
| `driver`, `step`, `ending`, `rounds` | which driver runs the turn, and the batch worker's next step |
| `agent`, `over`, `inbox` | the provider's process, its last message, and that message once queued |
| `unread`, `running`, `reader`, `bridge` | calls nobody has read, the call a handler runs, the thread that reads, the socket of the MCP bridge |
| `result`, `heard`, `counted` | what the host has recorded of a call, what the agent was told, what the turn's result lists |
| `head`, `loose` | the worktree: calls whose effect is committed, or lies there uncommitted |
| `built`, `final`, `clean`, `merged` | what the final build saw, `rev-parse HEAD`, the status, the merge |

A Codex turn is five requests with timeouts and a loop over notifications, its tools run in
the reader thread; a CLI turn is a process with a loopback server whose connection thread
runs the tools behind a bridge; an API turn alternates requests and tools in one thread,
at most `max_tool_rounds` times. Providers may be silent, refuse, die, or go on calling.

### `ProviderSettings`

| Variable | Code |
|---|---|
| `disk` | `providers.json` and the project's `verification-settings.json`: a revision and a team each |
| `installed` | the providers whose command line is there and logged in |
| `editor` | the settings screen: its two forms (`machine`, `project`), the snapshot of the providers it shares with the program (`snap`), reads and saves under way (`asked`, `defaults`, `saving`, `install`), `dialogs`, and `_pending_navigation` |
| `startup` | the probe of the providers at the start of the program, which may open the first-run gate |

A request sets a field; its answer is an action that clears it and changes the forms as the
callback does. A save has three steps: it is sent with the form, written by the thread under
the file's lock when the revision is the expected one, and answered. The machine's save takes
its expected revision when it writes, the project's when it is sent, as in the code. A request
that was superseded (the code drops its answer by a generation counter) leaves its
field. A team is a provider and one pick for all eight roles; undo is one more edit; a read
happens when its answer is applied, so a writer in between is one just after. `OthersSave` is
any other writer of the files. The editor is left by way of the unsaved-work guard, except from
the first-run gate: its button "Exit setup" (`ExitSetup`) ends the program as it is, and the late answer of
another request takes its place (`GateReplaced`).

### `ProjectNavigation`

| Variable | Code |
|---|---|
| `backend` | what a thread can learn of a project: whether it exists, its latest job and that job's state |
| `ui` | the screen stack, the identity of the current watch (`_progress_screen`) and the observation made for it (`_active_observation`), whether the settings are open, the answer they keep back (`_pending_settings_navigation`), the questions of `current_snapshot`, and the threads |
| `owed` | history: verifications asked for and not submitted |
| `asks` | how much was asked, a bound |

A thread is a record in one of `Slots`: what it does, for which project and watch, and how far
it is. `Slots` may be any finite set, and a new watch takes an identity that no screen and no
thread has (`FreshId`; in the code it is the object). Answers are values (`Nav`, `Snapshot`, `AttachTo`, ...); `Deliver` keeps one back while
the settings are open and `Arrive` switches the screen, as the code's callbacks do. An observer
submits or attaches, hands over observations, polls, loads the result and finishes; it looks
at its cancelled flag only between two polls. The screen "project" stands for dashboard,
findings, clarifications, recovery and failure analysis, with the actions of all of them; "help"
for the help screen and the command menu.

## 3. Runs

Every property has a mutant: a definition changed as a plausible bug would change it,
under which TLC reports the property violated. The mutants stand beside the
definitions they change, with a comment.

| Run | Question | Instance |
|---|---|---|
| `jobs_safety` | Can any interleaving of two clients, two successive jobs, deaths and an author's edits produce two workers, a false interruption, a mutation without ownership, a lost cancellation, the import of other files than the plan's, or leave the abstract life cycle? No. | 2 clients, 2 jobs, 2 versions |
| `jobs_liveness` | Is every job closed, does the lease always return, is an early cancellation honoured? Yes, under fairness. | 2 clients, 1 job, 1 version |
| `admission` | With users that share an owner string, come late, die and find the lease they left, a calibration, changing limits and pauses: does work begin only within the limit as far as rows can be relied on, is a reliable task that waits served, and does a calibration always end? Yes. | 3 tasks, 1 calibrator, limits 1 and 2 |
| `adaptive_limits` | While turns succeed, are throttled and fail, updates of the limit are lost and settings change: do the last settings come into force, although older ones are published after them, and does an adaptive limit return to its ceiling? Yes. | 2 workers, 1 interface, 2 edits, 1 fault |
| `cache_admission` | Do two sessions with any pattern of reserving, writing, measuring, collecting and dying keep their reservations, the disk's reserve and what they use? Yes. | 2 sessions, reservations of 1 or 2, disk of 4 |
| `dependency_depot` | Is a claimed depot complete, and are packages the user brought left alone, whatever dies and whatever is evicted in between? Yes. | 1 project of the package, 1 imported, 2 deaths |
| `managed_project` | Can verifications, deletions and creations at one path meet so that a project is taken away under its worker, verified twice at once, or lost? No. | 3 processes, 4 directories, 1 fault |
| `agent_turn` | With each driver and whatever the provider does: does a turn that returns leave a tool running, is a commit merged that was not built, can a turn last for ever? No. | 3 calls, 2 rounds |
| `verifier_certificates` | Are certified claims proved in their present statement, do they rest on certified claims but for a reference just added, is a clarification asked again after any death, and do unaffected certificates survive, while the author restates, deletes, un-proves and adds references, workers formalize, ask and add dependencies, interfaces reapply the policy, and crashes happen? Yes. | 2 claims, 5 manuscripts |
| `verifier_recovery` | With every fault, tool, command, cancellation and crash: is evidence sound, in-flight work recovered, and does every pass end? Yes. | 1 claim, 3 manuscripts, argument audit, reproof, review |
| `settings` | While reads and saves are under way, others replace the files and the user edits, navigates and passes the first-run gate: does a project save replace only what its form was loaded from, do answers leave edits alone, is nothing unsaved dropped unasked, but for the gate's two ways out that ask nobody? Yes, for the project's form; see section 6 for the machine's and for the gate. | 2 providers, 1 edit, 2 requests, 2 revisions |
| `navigation` | While threads answer late, settings keep answers back, jobs of two projects come and go and projects are deleted: is a verification submitted that nobody asked for, does a watch lose its observer, is another job than the shown one cancelled, is a watch open for ever? No. | 2 projects, 2 threads, 2 jobs, 3 requests |

That a pass ends as verified only when every claim is proved is no property of its own: the
outcome is computed from the claims' states (`Outcome`), and the properties of
`verifier_certificates` say what these states mean. The type invariants are theorems (section
5) and are not listed as properties of the runs; each of them, and each inductive invariant, was
first checked by TLC on the instance of its run.

Fifteen further configurations are kept beside the runs. Each reproduces one observation of
section 6 (TLC reports its property violated) and is no part of the regular checks:

| Configuration | Module | Property that does not hold |
|---|---|---|
| `JobsReviewedImport.cfg` | `MCVerificationJobs` | `ReviewedImport` |
| `JobsSessionProbe.cfg` | `MCVerificationJobs` | `LockedMeansMutating` |
| `AdmissionSharedOwner.cfg` | `MCAdmission` | `StrictBudget` |
| `AdmissionAdopted.cfg` | `MCAdmission` | `StrictBudget` |
| `VerifierApproval.cfg` | `MCIncrementalVerifier` | `CertifiedMeansProved` |
| `VerifierReproof.cfg` | `MCIncrementalVerifier` | `CertifiedHasCertificate` |
| `VerifierReferences.cfg` | `MCIncrementalVerifier` | `CertifiedRestsOnCertified` |
| `VerifierTornPolicy.cfg` | `MCIncrementalVerifier` | `EveryClarificationIsAsked` |
| `AdaptiveCeiling.cfg` | `MCAdaptiveLimits` | `CeilingKept` |
| `DepotReleased.cfg` | `MCDependencyDepot` | `DepotKeptForJob` |
| `AgentAnswers.cfg` | `MCAgentTurn` | `AgentHearsResult` |
| `SettingsOverwritten.cfg` | `MCProviderSettings` | `MachineSaveReplacesWhatWasLoaded` |
| `SettingsGateExit.cfg` | `MCProviderSettings` | `AsksBeforeLeaving` |
| `NavigationKeptBack.cfg` | `MCProjectNavigation` | `KeptBackIsShown` |
| `NavigationLateAnswer.cfg` | `MCProjectNavigation` | `AnswersTakeTheirPlace` |

**Bounds.** Two clients are an observer and a launcher, or two launchers: the hazards of
the control plane are races of two processes with a third, the worker. A second
job identity is what is needed to reuse a project after a job was closed, and to
have an old worker meet a new launcher. Two versions are one before and one after
an edit. For the verifier, two claims give a dependency, its reversal and a cycle;
the manuscripts of `Edits` contain each kind of edit (statement, proof removed,
object deleted, references changed), two of which may follow one another. The number of
rounds is bounded by the code itself. With one claim
the runs can afford all faults and commands. For admission, three users are one that
works, one that waits and one that comes later or with priority; two limits are one that
is full with one user and one that is not, and going from 2 to 1 leaves more leases
than slots. `jobs_safety` has a state constraint, `SecondJobIsQuiet`: once a second
job exists nobody has a change to review. The races of an edit with a job and the races of
two jobs are both complete, their product is not; the proofs cover it.

Two workers of `AdaptiveLimits` are what a lost update needs; two edits put one between
the publication and the record of a turn begun under the first, and a policy that is
fixed beside one that adapts lets a turn of either kind meet settings of the other. Two
sessions of the cache are one that collects and one that works; a disk of 4, a ceiling of 2
and a reserve of 1 make every one of ceiling, reserve and dirtiness the reason of a refusal.
Two deaths let a project be interrupted twice, in its attach and in its claim, or two
projects once each. Three processes at a path are two that race and one that comes to
the place they leave; four directories are the project, two successors and a ghost. Three
calls are one that is told, one that runs and one that waits unread.

In `settings`, one edit by hand suffices because undo, recommendations and the answers of
threads change the forms too; two requests are a read or a save and one that overtakes it;
`MaxRevisions` bounds the sum of both revisions, so either file is replaced twice or each once.
Two constraints keep the instance small: a provider is installed only in the gate
(`InstallsInTheGate`), and a dialog is answered while at most one request is under way
(`DialogOverOneRequest`). In `navigation`, the second project is still to be created, so that both
ways to a project occur; two threads are an observer and one that answers late, and two
jobs the one shown and the one that comes after it. Its constraints say that the providers'
probe has answered before the second request (`ProbedEarly`) and that the second project is
verified once (`OnceVerified`). `WatchedJobIsReported` is therefore checked of the behaviours
that keep to both.

**What the passing verifier runs leave out.** The counterexamples of `VerifierApproval.cfg` and
`VerifierReproof.cfg` are excluded from `verifier_certificates` through its constants: no
commands and no review, `preserve_certified=true`, and no failing batch, since a batch that fails
after reporting a formalization is a further way to have an older declaration visited
(section 6). Proofs that gain references and deaths inside the policy are in the run:
`OnlyNewReferencesUncertified` and `ClarificationIsAsked` say what the code keeps there, the
two other configurations what it does not.

**Deadlock** is checked where the system never has to stop: a client may always begin a
call, a pass may always begin, sessions and turns follow one another. It is not checked in
`agent_turn`, where the batch is over in the end, in `managed_project`, where a path that
leads to a ghost is nobody's project any more and every directory of the bound has been used,
and in `settings` and `navigation`, where a user may sit before a closed editor or the list
of projects for ever and the bounds on edits and requests are used up.

## 4. Fairness

`VerificationJobs`: a running process is scheduled (`SF` of `Continue(c)` and `Work(j)`).
Strong rather than weak, because a step on the database is disabled while somebody else
is inside a transaction; the connections retry for 30 seconds (`timeout=30` in
`workflow/jobs.py`), and every transaction is a few statements long. Polling is fair
(`SF` of `ObserveBegin`): interfaces call `observe_verification` on a timer. A
client that died is opened again some day (`WF` of `ClientReturns`); without it nobody
would ever look at a dead worker's row. Deaths, edits, cancellations and direct
mutations have no fairness. `JobsEnd` has the premise that from some time on clients
only observe and cancel and stop dying, for if they kept dying in the middle of a
probe nobody could close anything.

`IncrementalVerifier`: weak fairness of `Pass`, the host's own steps together with the
end of a batch, which a turn timeout and the batch's turn limit bring about. The
workers' tools have none.

`Admission`: polling is fair (`SF` of `Attempt(u)`; strong, because the pauses and other
users' deaths interrupt it); a calibration goes on and work ends (`WF`; every command
runs with a timeout); a calibration gives up after its minute (`SF` of its `GiveUp`, disabled only
while it polls); what nobody works under, asks for or renews expires (`WF` of each expiry, and
not of those that come too early). Deaths, requests, the giving up of tasks,
limits and pauses have no fairness. `Served` has as premises that from some time on
nothing is paused, the limit does not change and nobody dies: a limit may be lowered, or
a process die with a lease, as often as one likes, and the poor waiter with the lowest
priority waits on. It is stated of tasks that are `Reliable`: alone with their request id, for
another under it may cancel their waiter, and not late. New requests and calibrations may come
for ever. `CalibrationEnds` has as premise only that deaths stop, since a calibration may be
announced again under the name of one that died.

`AdaptiveLimits`: an interface's call goes on and a turn's own steps are taken (`WF`); time
passes (`WF` of `Tick`); a waiting turn that is admitted again and again is admitted once
(`SF` of `Admit`, what the queue of `Admission` gives: `Served`) and has work to do, since
the limit is raised only at full use. Edits, resets, throttles, failures and deaths are
bounded and not fair.

`AgentTurn`: the batch worker's own steps, timeouts included (`WF` of `Worker`), the reader
thread's (`WF` of `Reader`), and, in an API turn, the tool that runs in the turn's own
thread (`WF`), because every tool's command has a timeout. Nothing is assumed of the
provider, nor of tools in other threads: the turn has to end without them.

`ProjectNavigation`: an observer's thread runs and what it hands over is applied (`WF` of
`ObserverStep(i)`: the interface's event loop is never blocked, every call that may be is in a
thread); an activity of the backend ends (`WF` of `ActivityEnds(p)`, which is what
`jobs_liveness` shows of jobs). The user and the other threads need not do anything.
`ProviderSettings` has only safety properties, and no fairness.

## 5. Proofs

All proofs are checked by TLAPS for arbitrary constants that satisfy the assumptions of their
module. Where a set has to be finite (the claims of a manuscript, the places for threads, the
rows that are counted), the assumption says so. Most assumptions only say that "no value" is none of the
values. The theorems that need more than that of the environment have it as a hypothesis
in their statement.

### Jobs and locks

The constants are `Clients`, `Jobs`, `Versions` and `Settings`. The only assumption is
`DistinctNames`: process identities, job identities and "no value" are different things.

**The inductive invariant** `IInv` has three layers, each inductive given the ones
before it:

1. *Data*: `TypeOK`; a client at a step that uses a row has one (`SeenInv`); a worker
   that is about to record a result has one (`ResultInv`).
2. *Locks*: who can have the lease's description at which step (`LeaseInv`: an owner
   has it alone until it spawns, a living worker always has it), and who the session
   lock (`SessionInv`).
3. *Rows*: who is inside a transaction (`DatabaseInv`); the row of a client that has
   found the lease free has lost its owner for good, since a row is inserted only once
   (`AbandonedInv`); a launcher that could not spawn has closed its row
   (`UnlaunchedInv`); at most one row is open, and none when a launcher inserts
   (`OpenRowsInv`); `NoFalseInterruption`; `CancelRequestReachesWorker`.

It is needed because the safety properties are not inductive: that an observer may
close a row depends on when it read the row, and that an insert finds no open row
depends on who had the lease since. Each layer has a lemma (`DataStep`, `LocksStep`,
`RowsStep`) with one step per action. From `Invariance` follow

* `TypeCorrect`, and `OneWorker`, `NoJobIsLost`, `MutationIsOwned`, `InsertIsFree`,
  `CancelIsSeen`: the four invariants of `jobs_safety`, and `InsertNeverConflicts`, which
  says that an insert never meets the unique index and is only proved;
* `ConfirmedPlanIsImported`: `PlannedImport` of the same run, without its constraint, by a second invariant
  `PlanInv` about the worker's `expected` inventory;
* `EarlyCancelWins`: `EarlyCancelNeverSucceeds` of `jobs_liveness`, which is a safety property: an
  early request makes the job `Doomed`, which no step undoes (`WorkerMoves`: the verification is
  entered through a checkpoint, which sees the request; `SuccessIsRecorded`: only a worker with
  a success to record writes one), and a job that is still early has no success
  (`NoEarlySuccess`). A job is doomed also when its worker dies and an observer closes the row;
* `Refinement`: `Spec => ImplementsLifecycle`. The mapping computes the owner of a
  job from `wpc`, `pc` and `seen`. `LauncherIsAlone` and `OwnerLeaves` say how an
  owner ends; most steps change neither rows nor owners (`QuietSteps`); the rest are
  matched with actions of `JobLifecycle` one by one.

### Admission

The constants are the users, their request ids, the priorities and the limits, with
`AdmissionAssumptions` (natural limits and priorities, tasks are not calibrators).

* `TypeCorrect` takes `CalibratorSteps` along: only a calibrator is ever at a step of a
  calibration. `CountedOnce` is `NeverCountedTwice`, which is only proved.
* `BudgetIsOne` (`OneBudget`) assumes nothing of request ids, heartbeats or deaths. What it says
  is what the code can keep: work begins only while fewer than the limit work reliably, or under
  a row that exists for the request. Not counted are users that share a request id or
  come late, and whoever was handed an existing row and has not renewed it: the code loses their
  rows (`AdmissionSharedOwner.cfg`, `AdmissionAdopted.cfg`). The invariant behind it is `FiniteLeases`
  (the rows can be counted), `RowOfUser` (the row a user works under has its request id, so
  that nobody else releases the row of a user that is alone with its own) and
  `RenewedLeaseStays` (a reliable worker that created or renewed its lease has it). From these,
  the counted workers are a subset of the rows; a row is added only while there are fewer of
  these than the limit.

### Verifier

`IncrementalVerifierProofs` covers any finite set of claims, any manuscripts and hence any graph,
any number of edits, and crashes between any two commits. `VerifierAssumptions` says what the
constants are; `DistinctValues` that `Absent` and `Unsound` are none of the values stored.

`Inductive` needs nothing else, and holds with all faults, tools and commands. Its invariant `IInv`
has `TypeOK` and four parts, each inductive given the ones before it:

* `GraphInv`: the graph of a pass and its batches are of the claims of its snapshot.
* `ProvingInv`: what is PROVING is in a batch of this round, or the run ends badly and will
  say so, or a crash has left the run open and the next pass recovers it.
* `EvidenceInv`: a certified claim never has a batch, so that no merge replaces its declaration,
  and a claim to which the certification loop has issued a certificate was looked at in the
  step before. Only with this is `EvidenceIsSound` inductive: the loop issues in one commit and
  sets the state in the next.
* `ApprovedInv`: a run certifies the correspondences recorded in it only.

From it follow `TypeCorrect`, `ProvingHasRun` (`NoProvingWithoutRun`) and `DecidedHasEvidence`
(`EvidenceIsSound`). The other theorems have hypotheses, each of which names what the code
does not protect:

| Theorem | Property | Hypothesis | What happens without it |
|---|---|---|---|
| `WaitingIsAsked` | `ClarificationIsAsked` | the author resolves no question by hand | two commits, and a crash between them (`cli.py:1303`), which nothing repairs |
| `CertifiedProvesItsStatement` | `CertifiedMeansProved` | no approvals by hand, and of the workers' faults only unsound declarations | `VerifierApproval.cfg`; the correspondence of a batch that failed (`incremental/orchestration.py:1306`) |
| `CertifiedIsInTheStore` | `CertifiedHasCertificate` | `PreserveCertified` | `VerifierReproof.cfg` |
| `CertifiedDependsOnCertified` | `OnlyNewReferencesUncertified` | `Undisturbed` (no commands, certificates are preserved) | a command, or a pass with `preserve_certified=false`, takes certificates away from dependencies too |
| `UnaffectedBranchesStay` | `UnaffectedStayCertified` | `Undisturbed` | a command, or a pass with `preserve_certified=false`, is meant to take certificates away |

`ClarificationIsAsked` is what the two commits of the policy allow. Of a claim with a proof it
asks the question always. A conjecture may wait unasked from a death to the next application of
the policy (`VerifierTornPolicy.cfg` shows that it does), but not from the policy of a pass to the
pass's end, and not after a pass with an outcome while a proof relies on it: a conjecture
nothing relies on any more is the only one whose question the policy closes. The strengthening is
`AskedInv`. `CertifiedHasCertificate` is only proved and, with the hypothesis removed, refuted.
`OnlyNewReferencesUncertified` excludes no edit: an import may leave a certificate over
the references it adds, and those only (`VerifierReferences.cfg` shows that it does), and no later
step adds to them.

The argument for dependencies: `Affected` is closed under the reversed edges of the old and
the new graph together (`Below` and the closure have lemmas of their own, stated with the
least closed set that contains a claim), so a claim that stays certified in an import has
everything it rests on, before and after, among what stays certified or was unchanged. Workers
add dependencies to claims in proof only, and these are not certified (`EvidenceInv`). The same
lemma gives `UnaffectedStayCertified`, and `NewlyUncertified` what an import may leave. Its witness `d` is looked for in the old edges and the
references of the new snapshot: a reference may have had no object before the edit.

`PassesAreFinite` is what can be proved of `PassEnds`, with all faults, tools and commands. Every
step of a pass is `Nearer`: it goes to a later stage, schedules another round, goes on within its
round, or stays and has certified another claim in an earlier sweep, has fewer claims to visit, or
has less to do before it leaves one (`Pending`). The order is lexicographic and has no infinite
descent, since the claims are finite and `TypeOK` bounds the rounds. The workers' tools leave all of
it as it is (`Stays`), however often they are called. That the pass takes its next step is the
fairness of `FairSpec`.

### Settings and limits

Any interfaces, workers and policies that satisfy `LimitsAssumption` (a minimum of at least
one, below the initial limit, below the ceiling).

* `LimitStaysPositive`: `TypeOK`, in which the limit is a positive number. The invariant adds
  that a client about to publish or record has a runtime (`HasRuntime`); small lemmas
  (`MaxOfTwo`, `Decreased`, ...) say what the clamps return.
* `SettingsKept`: `SettingsNotOverwritten`, by `ReadInv`: what an interface shows is older than
  the file or is what the file holds. Comparing revisions alone is enough only because of
  this: no two contents ever had one revision.

The editor: any providers, offers, writers, edits and requests (`EditorAssumption`,
`AbsentAssumption`). `EditorInductive` proves `EditorInv`: the types, and `Sound` of the editor and
the project's file, whose parts are

* `Questioned`: a dialog asks about something that was read (a reset and unsaved edits have a
  form that is loaded), and only the plan of an installation opens above another dialog;
* `Undisturbed`: while the project's form has edits, no reading is on its way that would
  replace them, because every edit supersedes the reading (`Edited`);
* `Signed`: a save on its way remembers the form it was taken from;
* `Informed`: what the form has loaded, what a save will replace and what it has written are
  the file's while the file has that revision, and never of a later one (`Knows`).

Each operator on the editor has one lemma that it keeps `Sound`, and actions compose them;
`FileMovesOn` says that a writer, whoever it is, leaves `Sound` true because it takes a new
revision. Then `ProjectSavesReplaceWhatWasLoaded` follows from `Informed`, `AnswersKeepEdits` from
`Undisturbed` and `Signed`, `NothingLeftUnsaved` from `Signed`: an answered save closes the editor only
if the form still has the signature the save remembers, hence its team. The
gate's two exits ask nobody; the property names them, and `GateAlone` shows that they cannot lose a
project's edits: the gate has no project's form and saves none. `Questioned` is what keeps the other
parts and the types, since an answer to a dialog acts on what the dialog is about. None of them needs the two constraints
of the run.

### Cache and depot

* `ReservationsSurvive` and `ActiveUnitsStay` hold for any sessions, requests, sizes and deaths
  (`CacheAssumption`). `LeaseInv` says who is in the critical section and which leases a step
  implies; the recovery of stale reservations tests the lock that every living session
  keeps, and an eviction starts only from a unit no one leases.
* `ReserveIsKept` (`FreeSpaceKept`) and `CacheTypes` follow from `CacheInv`, with nothing more
  assumed. The reserve alone is not inductive: a session is admitted on totals that were taken
  some steps before, while other sessions write, die and give back. `JudgedInv` says what of
  these totals is still true: what was free less what was reserved has not shrunk, and the
  sessions owe no more than was reserved (`BudgetStep`: no step but an admission takes anything
  from what is free and not owed; `ReserveStep`: the admission has just tested that there is
  room). `HeldByLiving` ties the reservation lease to the steps of a session, and `SectionInv` ties
  the totals to the holder of the admission lease and says when a quarantined tree
  still counts. That no unit outgrows the disk, which is part of `TypeOK`, is a consequence of the
  reserve. Under it are the laws of sums (`TotalSplit`, `TotalUpdate`, `TotalMonotone`,
  `PartOfTotal`): since a sum is a number of bytes, they are laws of cardinalities of
  finite sets, which need no induction here. The index itself plays no part: the reserve is
  kept however stale its rows are.
* `TypeCorrect`, `ClaimsAreWhole` and `UserPackagesStay` hold for any projects. The invariant of the
  last two has four layers: who has the depot lease at which step and what the depot is
  then (`DepotInv`), that a target that is gone has no marker (`TargetInv`), what a builder
  carries (`CarryInv`), and that neither a marker nor the intent of an attach claims the
  packages of the user (`UserInv`). Without the intent it is not inductive: the marker
  is written two steps after the decision.

### Project paths

`ManagedProjectProofs` proves all three properties of `managed_project`, and types, for any
processes, directories and number of faults. The key is `Placed`: a directory that has ever
been at the path is there or in recovery storage. So while nothing is in recovery storage
only the first project was ever at the path, every lock file anybody has opened lies in it
(`Opened`), and two processes past both locks would have the same session lock (`Locked`).
`Staged` keeps the tree of one creation apart from the project of another.

### Turns and batches

`AgentProofs` proves types, `TurnsReturnQuiet`, `MergedIsBuilt` and `BatchIsFinite` for any calls
and any bound on rounds. Its invariant has the steps of each driver (`Shape`), what is known of the
provider and its calls once its last message is on the way (`Quiet`: the reader takes calls
and that message from one pipe, in order), and that what the end of a batch has read is still
what the worktree holds (`AtRest`). The last rests on the second: the worktree stays as it is
only because a turn that returned has left nobody who writes to it.

`BatchIsFinite` is what can be proved of `TurnEnds`: a number, `Remaining`, that each step of the
worker lowers and that no step of the provider, its tools or the threads that serve it changes. For
an API driver it counts two steps for each round that is left. That the worker takes its next step is fairness, of the worker and of the
threads it waits for.

### Navigation

`ProjectNavigationProofs` covers any projects, any finite number of threads, and any number of jobs
and requests. Its invariant `IInv` is about the record of the interface rather than about the
variable, so that every operator on it has one lemma and each action uses the lemmas of the
operators it calls (`Keeps`: the change disturbs nothing and owes nothing new; `Passes`: an
answer is applied or kept back, and what it starts is owed to it alone). Its parts:

* `Rooted`, `SettingsAbove`: under the dialogs there is a screen, and only help covers the settings.
* `ThreadsOK`: a thread holds what its phase needs.
* `OneProject`: no identity of a watch, on the screen or in a thread, is of two projects. Without
  it an observation could reach another project's screen.
* `ShowsObserved`: a watch that can be cancelled is the current one and shows the job
  last observed for it. It is needed for `CancelsTheShownJob`, since a request takes its job
  from the observation and the user takes it from the screen.
* `Watched`: the current watch has an observer that is not cancelled, or says on every screen
  it has that it has none. `ObservedUntilTheEnd` follows.
* `DebtInv`: what is owed is at least what threads and the answer kept back still are to submit.
  `NeverStartedUnasked` follows; equality does not hold, because a kept answer may be replaced
  (`NavigationKeptBack.cfg`).

### What is only model-checked

Liveness under fairness is out of the prover's reach: `JobsEnd`, `LeaseReturns`, `Served`,
`CalibrationEnds`, `PassEnds`, `SettingsTakeEffect`, `LimitRecovers`, `TurnEnds`, `WatchedJobIsReported`. Every other property of a
run that passes is a theorem. Of `PassEnds` and `TurnEnds` the part without fairness is proved: the
steps towards the end are finitely many (`PassesAreFinite`, `BatchIsFinite`).

## 6. Findings

### Observed, with a configuration that reproduces it

* `VerifierApproval.cfg` - an approval recorded for the old statement is attributed to the
  next run, also when that run imports another statement, and certifies it with the
  old declaration (`incremental/orchestration.py:1089`), although a statement edit is said to
  invalidate (`docs/INCREMENTAL_VERIFICATION.md:118`).
* `AgentAnswers.cfg` - the bridge between a coding-agent CLI and the host keeps its connection
  timeout of 30 seconds for the answers (`ai/mcp_bridge.py:60`). After one longer call the
  agent is told an error, and since a stream that has timed out refuses further reads, every
  later call of the turn is carried out by the host and reported as an error. The
  repository's test of the bridge asserts that the result of a call is what the agent reads.
  (`tests/test_ai_execution.py:641`).
* `SettingsOverwritten.cfg` - a save of the machine's team takes the revision it insists on
  when its thread writes, not when the user sends it (`tui/settings/screens.py:3043`), and a
  reload moves that revision on before the roles are read again. A team based on an older file
  then overwrites another writer's, which the revision is there to refuse
  (`DESIGN.md:434`). The project's save takes it with the form and is right.
* `SettingsGateExit.cfg` - the first-run gate's button "Exit setup" clears the keys typed and exits
  (`tui/settings/screens.py:1707`) whatever was edited in the gate, although leaving is said to honour "an
  editor's unsaved-work guard" (`tui/app.py:697`). A late answer that switches the screen
  (`tui/app.py:1719`) drops the gate's edits too.
* `NavigationKeptBack.cfg` - the settings keep back one answer (`tui/app.py:893`); a second one
  takes its place, though the user was told "Background work finished while Settings was open.
  Close Settings to view the result." (`tui/app.py:888`). A created project whose
  verification was to start is then not verified, and a progress screen may remain that no
  thread will ever replace.
* `NavigationLateAnswer.cfg` - `show_snapshot` and its like switch the screen that is on top when the
  answer comes (`tui/app.py:1719`): one the user has gone to meanwhile, the first-run gate
  included.
* `JobsReviewedImport.cfg` - `confirm_and_verify` passes no expected inventory when there was
  nothing to review, so a file saved between its check and the snapshot is imported
  without review (`workflow/service.py:2206`), although only explicit confirmation permits
  the next iteration (`docs/INCREMENTAL_VERIFICATION.md:190`).
* `JobsSessionProbe.cfg` - the probe of an observer, or the shared lock of `status`, at the
  moment a worker enters `project_lock` without waiting ends its job as FAILED
  (`incremental/locking.py:54`).
* `VerifierReproof.cfg` - discarding a certificate and invalidating its claim are two
  commits; after a crash between them the claim is CERTIFIED without a certificate for
  good (`incremental/session.py:845`).
* `VerifierReferences.cfg` - a proof that gains a reference to an unproved lemma keeps its
  certified state (`incremental/session.py:729`), although the documentation lists a
  dependency change among the causes of invalidation (`docs/INCREMENTAL_VERIFICATION.md:116`).
* `VerifierTornPolicy.cfg` - the policy closes the question of a conjecture nothing relies on any
  more in one commit and makes the claim SKIPPED_UNPROVED in the next
  (`incremental/session.py:256`). After a death between them the claim waits for an answer to no
  question until the policy is applied again.
* `AdmissionSharedOwner.cfg` - the owner strings of `incremental/orchestration.py` (lines 628,
  1039, 1390, 1481, 1521) consist of a purpose and the project's own run number. They are
  request ids in a database all projects share, so the final builds of run 1 of two
  projects run side by side under one lease, and the first to end releases it for both
  (`concurrency/admission.py:66`).
* `AdmissionAdopted.cfg` - a request whose row exists is handed it with the expiry it had
  (`concurrency/admission.py:273`), and the first heartbeat comes a quarter of the time to live
  later (665). Work that is tried again just before the row of its dead process expires
  loses it, and somebody else is admitted beside it.
* `DepotReleased.cfg` - `verify_project` closes its depot claim when the set-up is done
  (`incremental/orchestration.py:964`); its audits and builds use the depot unleased, and a
  collection may evict it under them. A running job is said to hold its leases for its
  complete lifetime (`docs/CACHE_AND_STORAGE.md:164`).
* `AdaptiveCeiling.cfg` - `record_success` compares with the ceiling of its own turn and writes
  one more than it reads again, so a turn begun before the ceiling was lowered, or two
  that raise at once, leave a limit above it (`concurrency/ai.py:246`).

### Observed without one

* *Provider settings.* A recommendation counts as an edit of the project's form and not of
  the machine's; edits made before the first roles have been read are lost on a recheck; the
  button beside a role leaves an edited project form without a question; a confirmed reset
  replaces edits made after it; both forms share one destination. A start-up probe that is put
  off while the settings are open routes with its old snapshot, and is dropped when the
  user leaves them by the main menu. The settings home asked for above a dialog replaces the
  dialog. The reading after a save may already hold another writer's revision.
* *Interface.* Confirming a deletion over a watch leaves it the current watch; an observation for
  a current watch that is no longer on the screen re-arms a timer of 10 ms for ever. A cancel
  request that fails makes the screen say that polling has stopped, and the poller goes on. A check
  without changes shows the questions of whichever project the last snapshot was of. After
  attaching to a session of the command line the cancel button of a later job does nothing.
* *Verifier.* A discarded commit of a failed batch leaves its correspondence, which the
  round's certification pairs with an older declaration of the same name; a claim may be
  certified while its worker's question is open; approving a counterexample's
  correspondence certifies the claim; BLOCKED_DEPENDENCY is never reset when the blocking
  question is resolved; `revalidate_unchanged_certificates` leaves CERTIFIED a claim whose
  declaration is missing or has another type.
* *Jobs.* A lease probe makes a concurrent `start_verification` report a legacy job that
  does not exist.
* *Admission.* A task that has read the calibration state before a calibration is announced
  enters after its second idle check, although `concurrency/lean.py:118` says the state stops
  others; a calibration that lasts longer than its hour is no longer announced. A timeout
  of admission is counted as a transient failure of the provider. Lean's marker contains the
  tuned initial limit, so a runtime per turn takes an adapted limit back.
* *Turns.* A CLI that ends while a call of its runs lets the batch build, the handler commit
  and the batch merge a commit it did not build: `MergedWasBuilt` is stated of the other
  drivers. `--turn-timeout` is said to apply to each turn (`docs/COMMAND_REFERENCE.md:59`), but
  in Codex turns it restarts with every notification, and a tool call longer than it ends the
  turn; API turns are bounded by their rounds only. The expiry of a CLI turn is not
  counted as a transient failure.
* *Cache.* A death between reconciliation and the removal of stale reservations can leave
  more in the cache than the ceiling until the next collection, which the documentation of the
  ceiling does not say (`docs/CACHE_AND_STORAGE.md:184`). The lock directory of an attach that
  died (`cache.py:784`) refuses every later attach of the project until somebody removes it.
* *Workspace.* Opening the locks of a project that has just been moved leaves a directory
  with lock files only, which is INCOMPLETE for ever; an inspection, said to change nothing
  (`docs/ARCHITECTURE.md:113,118`), can do that too. After that, two processes can hold "the"
  lock of a path in two directories, which is why the properties of `ManagedProject` end with
  the first removal. The catalog is read and written back without a lock.

## 7. What is not modelled, and abstractions to know of

* *Jobs*: heartbeats, PIDs, events and logs are written and never decide anything.
  The request fingerprint is the request. A job has at most one worker process.
* *Verifier*: explicit targets and assistant-context edges; batches of several claims;
  the two commits of `correspondence --approve` and `--reject` are one action (the
  first determines what the next pass does); an extraction always reads what was merged;
  the environment hash, which only labels certificates. Workers are idealised: a
  reported formalization states the claim the worker was shown, unless it leans on
  a forbidden axiom. `graph_mutation_lock` appears as the atomicity of
  `ProposeDependency`. Incidents, diagnostics and reports are written and not read.
* *Admission*: one resource; the three do not interact. A waiter's minimum of one
  attempt before its deadline and the interval of polls are not timed. The flag a
  controller keeps in its own process besides the shared pressure is part of `paused`.
  Restoring the calibration state and unlocking its file are one step: nobody can take
  the lock in between. Limits change to any other member of `Limits`. What an
  expiry may do at a given moment is decided from the users' steps, not from clocks.
  Requests of one key have one priority.
* *Adaptive limits*: the AI resource only. Lean's and the builds' limits follow memory
  arithmetic the model has no use for. Overrides on the command line are settings of a turn.
* *Cache*: sizes are small numbers, one download and one Lake-system cache are one unit; detaching,
  relocation and the exclusive cleanup commands are left out. Every process of a project is
  one session. Reading the index and listing the units is one step.
* *Workspace*: the catalog appears as an update that may fail; paths do not interact.
* *Turns*: item notifications, which restart the timeout of a Codex turn; a provider
  that sends them for ever is excluded. One of the three API loops stands for all. The
  AI lease around a turn is in `Admission`. A retry of a batch is a new batch.
* *Provider settings*: the provider's own output, credentials and reasoning options; which role a
  pick is for; the editor's other pages. A late answer that finds a dialog above the gate replaces the
  dialog in the code (`switch_screen`); here it waits until the dialog is closed.
* *Interface*: closing the settings and applying what they kept back is one step (the code waits
  for a refresh in between); `_after_create` shows a snapshot that has a plan or is in another state
  than ready, which no creation returns (`workflow/service.py:1702`); an observation is applied at once (the code waits until the screen's
  widgets exist); an observer reads the job and the project's state in one step; a failed
  start-up probe is one without a gate. Layout, focus, the folder picker, the trees of reports and
  failures, the concurrency page and the legacy settings are left out.
* *Not modelled*: the serialised full build under yellow pressure, the retries of a source
  snapshot, the attribution of failures to claims, LaTeX parsing and stable identities: the first
  is a gate in front of `Admission`, the others are computations on files and trees whose
  difficulty is in the data.
* *Distributed leases*: a library for coordinators that nothing in the workflow calls.
* *Left out for good*: hardware probing and telemetry, installation and Lean set-up scripts,
  the presentation of clarifications: input, output and layout.

## 8. Plan

The modules of sections 2 and 3 are complete, and every safety property of a passing run is a
theorem. What could be added next, in order of importance:

1. `VerificationBatch`: `AgentTurn` as the refinement of what `IncrementalVerifier` assumes of a
   batch, with two claims in one batch and the failure attribution.
2. `Admission`, continued: the build controller's yellow pressure; an abstract `Semaphore` it
   implements when owner strings are distinct.
3. `SourceSnapshot`, `FailureAttribution` and `InputClosure`: a stable inventory is one state of
   the files; pure algorithms against reference definitions.
