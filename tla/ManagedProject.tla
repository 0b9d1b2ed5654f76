--------------------------- MODULE ManagedProject ---------------------------
(***************************************************************************)
(* One managed project path and what several processes do to it:           *)
(* creation, verification and recoverable deletion                         *)
(* (workspace/management.py, incremental/locking.py and session.py).       *)
(*                                                                         *)
(* Both locks of a project are files inside its directory.  A process      *)
(* opens such a file by its path, which makes the missing directories, and *)
(* locks the file it has opened; a rename moves the directory with its     *)
(* lock files and with whoever holds them.  So a path may lead to another  *)
(* directory than the one whose lock a process has, or to a directory that *)
(* holds nothing but lock files: a ghost.                                  *)
(*                                                                         *)
(* Paths do not interact; the catalog, which lists them, is left out, but  *)
(* for the failure of its update that takes a deletion back.               *)
(***************************************************************************)
EXTENDS Naturals

CONSTANTS
  Clients,   \* processes of the interfaces and their detached workers
  Dirs,      \* directories that may come to exist, which bounds creations
  First,     \* the project that is at the path to begin with
  MaxFaults, \* bound on deaths and failing updates
  None

ASSUME ProjectAssumption ==
  /\ First \in Dirs /\ None \notin Dirs \cup Clients /\ MaxFaults \in Nat

VARIABLES
  here,     \* the directory at the managed path
  kind,     \* what each directory holds
  trash,    \* directories in recovery storage
  lease,    \* who holds jobs/worker.lock of each directory
  session,  \* who holds session.lock of each directory
  goal,     \* what a client is about
  pc,       \* where it is
  file,     \* the directory of the lock file it has opened, or that it carries
  faults

vars == <<here, kind, trash, lease, session, goal, pc, file, faults>>

locks == <<lease, session>>
client == <<goal, pc, file>>

TypeOK ==
  /\ here \in Dirs \cup {None}
  /\ kind \in [Dirs -> {"unborn", "staged", "project", "ghost", "removed"}]
  /\ trash \subseteq Dirs
  /\ lease \in [Dirs -> Clients \cup {None}]
  /\ session \in [Dirs -> Clients \cup {None}]
  /\ goal \in [Clients -> {"none", "verify", "probe", "delete", "create"}]
  /\ pc \in [Clients -> {"idle", "lease", "flock lease", "session",
                         "flock session", "locked", "work", "move", "forget",
                         "release", "install", "record"}]
  /\ file \in [Clients -> Dirs \cup {None}]
  /\ faults \in 0..MaxFaults

Init ==
  /\ here = First
  /\ kind = [d \in Dirs |-> IF d = First THEN "project" ELSE "unborn"]
  /\ trash = {}
  /\ lease = [d \in Dirs |-> None] /\ session = [d \in Dirs |-> None]
  /\ goal = [c \in Clients |-> "none"]
  /\ pc = [c \in Clients |-> "idle"]
  /\ file = [c \in Clients |-> None]
  /\ faults = 0

-----------------------------------------------------------------------------
Goto(c, there) == pc' = [pc EXCEPT ![c] = there]

\* inspect: the path leads to a complete project, RESUMABLE.  A ghost is
\* INCOMPLETE, and a path without a directory is AVAILABLE.
Resumable == here # None /\ kind[here] = "project"

\* mkdir(parents=True) below the path: its directory is d afterwards.
Reach(d) ==
  \/ /\ here = d /\ UNCHANGED <<here, kind>>
  \/ /\ here = None /\ kind[d] = "unborn"
     /\ here' = d /\ kind' = [kind EXCEPT ![d] = "ghost"]

\* A mutant: the locks are taken shared.
Free_Shared(holder, d) == d \in Dirs

\* flock(LOCK_EX | LOCK_NB) on the file in d succeeds.
Free(holder, d) == holder[d] = None

\* The owner of a directory's lock gives it back.
Without(c, holder) ==
  [d \in Dirs |-> IF holder[d] = c THEN None ELSE holder[d]]

-----------------------------------------------------------------------------
(* Verification and deletion take the worker lease, then the session lock. *)

\* resume_project opens a project somebody will verify, inspect_deletion one
\* somebody may delete: the path is inspected before any lock is taken.
Inspect(c) ==
  /\ pc[c] = "idle" /\ Resumable
  /\ \E g \in {"verify", "probe"} : goal' = [goal EXCEPT ![c] = g]
  /\ Goto(c, "lease")
  /\ UNCHANGED <<here, kind, trash, locks, file, faults>>

\* The lock file is opened by its path ...
OpenLock(c) ==
  /\ pc[c] \in {"lease", "session"}
  /\ \E d \in Dirs : Reach(d) /\ file' = [file EXCEPT ![c] = d]
  /\ Goto(c, IF pc[c] = "lease" THEN "flock lease" ELSE "flock session")
  /\ UNCHANGED <<trash, locks, goal, faults>>

\* acquire_worker_lease: ... and locked, wherever its directory is by then.
LockLease(c) ==
  /\ pc[c] = "flock lease"
  /\ IF Free(lease, file[c])
     THEN lease' = [lease EXCEPT ![file[c]] = c] /\ Goto(c, "session")
     ELSE UNCHANGED lease /\ Goto(c, "release")
  /\ UNCHANGED <<here, kind, trash, session, goal, file, faults>>

\* project_lock(exclusive=True)
LockSession(c) ==
  /\ pc[c] = "flock session"
  /\ IF Free(session, file[c])
     THEN session' = [session EXCEPT ![file[c]] = c] /\ Goto(c, "locked")
     ELSE UNCHANGED session /\ Goto(c, "release")
  /\ UNCHANGED <<here, kind, trash, lease, goal, file, faults>>

\* Everything the client holds is given back.
Release(c) ==
  /\ pc[c] = "release"
  /\ lease' = Without(c, lease) /\ session' = Without(c, session)
  /\ goal' = [goal EXCEPT ![c] = "none"] /\ file' = [file EXCEPT ![c] = None]
  /\ Goto(c, "idle")
  /\ UNCHANGED <<here, kind, trash, faults>>

-----------------------------------------------------------------------------
(* Verification.                                                           *)

\* prepare_pass reads the configuration by its path before it does anything.
Work(c) ==
  /\ pc[c] = "locked" /\ goal[c] = "verify"
  /\ Goto(c, IF Resumable THEN "work" ELSE "release")
  /\ UNCHANGED <<here, kind, trash, locks, goal, file, faults>>

WorkEnds(c) ==
  /\ pc[c] = "work"
  /\ Goto(c, "release")
  /\ UNCHANGED <<here, kind, trash, locks, goal, file, faults>>

-----------------------------------------------------------------------------
(* Recoverable deletion.                                                   *)

\* A mutant: what the confirmation has found is trusted.
Confirm_Trusts(c) ==
  /\ pc[c] = "locked" /\ goal[c] = "probe"
  /\ lease' = Without(c, lease) /\ session' = Without(c, session)
  /\ goal' = [goal EXCEPT ![c] = "delete"]
  /\ Goto(c, "locked")
  /\ UNCHANGED <<here, kind, trash, file, faults>>

\* _deletion_inspection(check_lock=True): both locks could be taken and are
\* given back; the deletion that follows takes them again.
Confirm(c) ==
  /\ pc[c] = "locked" /\ goal[c] = "probe"
  /\ lease' = Without(c, lease) /\ session' = Without(c, session)
  /\ goal' = [goal EXCEPT ![c] = "delete"]
  /\ Goto(c, "lease")
  /\ UNCHANGED <<here, kind, trash, file, faults>>

\* Nobody confirms: the inspection was all.
Decline(c) ==
  /\ pc[c] = "locked" /\ goal[c] = "probe"
  /\ Goto(c, "release")
  /\ UNCHANGED <<here, kind, trash, locks, goal, file, faults>>

\* Under both locks the path is inspected again.
Reinspect(c) ==
  /\ pc[c] = "locked" /\ goal[c] = "delete"
  /\ Goto(c, IF Resumable THEN "move" ELSE "release")
  /\ UNCHANGED <<here, kind, trash, locks, goal, file, faults>>

\* os.rename(project, destination): whatever is at the path is moved to a
\* recovery container of its own.
Move(c) ==
  /\ pc[c] = "move" /\ here # None
  /\ file' = [file EXCEPT ![c] = here]
  /\ trash' = trash \cup {here} /\ here' = None
  /\ Goto(c, "forget")
  /\ UNCHANGED <<kind, locks, goal, faults>>

\* ... or nothing is there any more.
MoveFails(c) ==
  /\ pc[c] = "move" /\ here = None
  /\ Goto(c, "release")
  /\ UNCHANGED <<here, kind, trash, locks, goal, file, faults>>

\* catalog.forget_path
Forget(c) ==
  /\ pc[c] = "forget"
  /\ Goto(c, "release")
  /\ UNCHANGED <<here, kind, trash, locks, goal, file, faults>>

\* A mutant: the path is not tested before the project is moved back.
ForgetFails_Untested(c) ==
  /\ pc[c] = "forget" /\ faults < MaxFaults
  /\ faults' = faults + 1
  /\ here' = file[c] /\ trash' = trash \ {file[c]}
  /\ Goto(c, "release")
  /\ UNCHANGED <<kind, locks, goal, file>>

\* The catalog cannot be written: the move is taken back unless the path has
\* become occupied, and then the user is told where the project is.
ForgetFails(c) ==
  /\ pc[c] = "forget" /\ faults < MaxFaults
  /\ faults' = faults + 1
  /\ IF here = None
     THEN here' = file[c] /\ trash' = trash \ {file[c]}
     ELSE UNCHANGED <<here, trash>>
  /\ Goto(c, "release")
  /\ UNCHANGED <<kind, locks, goal, file>>

-----------------------------------------------------------------------------
(* Creation.                                                               *)

\* initialize: an available path; the project is built in a directory beside it.
Stage(c) ==
  /\ pc[c] = "idle" /\ here = None
  /\ \E d \in Dirs :
       /\ kind[d] = "unborn"
       /\ kind' = [kind EXCEPT ![d] = "staged"]
       /\ file' = [file EXCEPT ![c] = d]
  /\ goal' = [goal EXCEPT ![c] = "create"]
  /\ Goto(c, "install")
  /\ UNCHANGED <<here, trash, locks, faults>>

\* staging.rename(destination), which fails if the path is occupied by then;
\* the staged tree is removed.
Install(c) ==
  /\ pc[c] = "install"
  /\ IF here = None
     THEN /\ here' = file[c]
          /\ kind' = [kind EXCEPT ![file[c]] = "project"]
          /\ Goto(c, "record")
     ELSE /\ kind' = [kind EXCEPT ![file[c]] = "removed"]
          /\ Goto(c, "release")
          /\ UNCHANGED here
  /\ UNCHANGED <<trash, locks, goal, file, faults>>

\* _record_workflow_state writes below the path.
Record(c) ==
  /\ pc[c] = "record"
  /\ \E d \in Dirs : Reach(d)
  /\ Goto(c, "release")
  /\ UNCHANGED <<trash, locks, goal, file, faults>>

\* A killed process loses its locks; what it has moved or staged stays there.
Die(c) ==
  /\ pc[c] # "idle" /\ faults < MaxFaults
  /\ faults' = faults + 1
  /\ lease' = Without(c, lease) /\ session' = Without(c, session)
  /\ goal' = [goal EXCEPT ![c] = "none"] /\ file' = [file EXCEPT ![c] = None]
  /\ Goto(c, "idle")
  /\ UNCHANGED <<here, kind, trash>>

Next ==
  \E c \in Clients :
    \/ Inspect(c) \/ OpenLock(c) \/ LockLease(c) \/ LockSession(c) \/ Release(c)
    \/ Work(c) \/ WorkEnds(c)
    \/ Confirm(c) \/ Decline(c) \/ Reinspect(c) \/ Move(c) \/ MoveFails(c)
    \/ Forget(c) \/ ForgetFails(c)
    \/ Stage(c) \/ Install(c) \/ Record(c) \/ Die(c)

Spec == Init /\ [][Next]_vars
-----------------------------------------------------------------------------
(* What the locks and the deletion promise.  A directory leaves the path     *)
(* with its lock files, so they promise it of the project that is there     *)
(* until one is taken away: of its successors only as far as nobody still   *)
(* carries a lock file of theirs.                                           *)

Working == {c \in Clients : pc[c] = "work"}

\* delete_project: however many deletions, confirmations and verifications
\* meet, the project is taken away only while no verification works on it.
MovedWhileIdle == [][trash = {} /\ trash' # {} => Working = {}]_vars

\* delete_project, its rollback and creation: no race or failure makes a project
\* disappear; one that exists stays at its path or in recovery storage.
Kept(d) == kind[d] = "project" /\ d \in {here} \cup trash
ProjectsAreKept == [][\A d \in Dirs : Kept(d) => Kept(d)']_vars

\* locking.py: one verification at a time works on the project, also after a
\* deletion that has been taken back.
WorkersAlone == trash = {} => \A c, e \in Working : c = e
=============================================================================
