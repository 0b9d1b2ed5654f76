--------------------------- MODULE DependencyDepot ---------------------------
(***************************************************************************)
(* One shared dependency depot and the Lean projects that use it: how a    *)
(* project's `.lake' tree is attached to the managed cache, how the first  *)
(* project builds the packages and publishes them as the depot, how later  *)
(* ones link to it, and what garbage collection and killed processes leave *)
(* behind (cache.py, manuscript.bootstrap_lean_workspace).                 *)
(*                                                                         *)
(* All projects declare the same dependencies, so they name the same       *)
(* depot.  Every project is used by one process at a time.                 *)
(***************************************************************************)
EXTENDS Naturals, FiniteSets

CONSTANTS
  Projects,
  Imported,   \* projects the user brought along with a `.lake' of their own
  None,
  Deaths      \* bound on the number of processes that are killed

ASSUME DepotAssumption ==
  /\ Imported \subseteq Projects
  /\ None \notin Projects
  /\ Deaths \in Nat

VARIABLES
  depot,      \* what the depot directory holds
  shared,     \* projects whose process holds the depot lease, shared
  exclusive,  \* the one that holds it exclusively
  debris,     \* projects whose dead builder left a staging tree
  lake,       \* `.lake' of a project: missing, a directory or a link
  target,     \* projects whose managed build directory exists
  marker,     \* its record of who owns the package data
  intent,     \* the marker an attach under way will write
  packages,   \* `.lake/packages' of a project
  carried,    \* whose data a builder has moved out of the project
  attaching,  \* projects with an attach lock directory
  pc,         \* where the process of a project is
  deaths

vars == <<depot, shared, exclusive, debris, lake, target, marker, intent,
          attaching, packages, carried, pc, deaths>>

lease == <<shared, exclusive>>
tree == <<lake, target, marker, intent, attaching>>
data == <<packages, carried>>

Parts == {"packages", "manifest", "READY"}

\* What `.lake/packages' is: nothing, the user's own directory, one Lake made,
\* or a link into the depot.
Contents == {"none", "user", "lake", "link"}

Setup == {"claim", "looking", "contend", "found", "build", "built", "staged",
          "moved", "promoted", "undo", "ready", "turn"}

TypeOK ==
  /\ depot \subseteq Parts
  /\ shared \subseteq Projects /\ exclusive \in Projects \cup {None}
  /\ debris \subseteq Projects
  /\ lake \in [Projects -> {"none", "directory", "link"}]
  /\ target \subseteq Projects
  /\ marker \in [Projects -> {"none", "owned", "foreign"}]
  /\ intent \in [Projects -> {"owned", "foreign"}]
  /\ packages \in [Projects -> Contents]
  /\ carried \in [Projects -> {"none", "user", "lake"}]
  /\ attaching \subseteq Projects
  /\ pc \in [Projects -> {"idle", "attach", "linking", "marking", "verify"}
                           \cup Setup]
  /\ deaths \in 0..Deaths

Init ==
  /\ depot = {}
  /\ shared = {} /\ exclusive = None
  /\ debris = {}
  /\ lake = [p \in Projects |-> IF p \in Imported THEN "directory" ELSE "none"]
  /\ target = {}
  /\ marker = [p \in Projects |-> "none"]
  /\ intent = [p \in Projects |-> "owned"]
  /\ packages = [p \in Projects |-> IF p \in Imported THEN "user" ELSE "none"]
  /\ carried = [p \in Projects |-> "none"]
  /\ attaching = {}
  /\ pc = [p \in Projects |-> "idle"]
  /\ deaths = 0

Goto(p, next) == pc' = [pc EXCEPT ![p] = next]

\* The packages of a `.lake' directory: the user's own in a project brought
\* along, Lake's products in a project of the package.  Behind a link, or with
\* no `.lake', `packages' is what the managed target holds.
OwnPackages(p) == IF p \in Imported THEN "user" ELSE "lake"

\* dependency_depot_ready
DepotReady == depot = Parts
-----------------------------------------------------------------------------
(* attach_project_cache                                                    *)

\* The attach lock is a directory: whoever finds it gives up, and nobody
\* removes it for a process that died.
BeginAttach(p) ==
  /\ pc[p] = "idle"
  /\ p \notin attaching
  /\ attaching' = attaching \cup {p}
  /\ Goto(p, "attach")
  /\ UNCHANGED <<depot, lease, debris, lake, target, marker, intent, data, deaths>>

\* Mutant: a missing marker is written without asking who made the project.
AttachAgain_Owned(p) ==
  /\ pc[p] = "attach" /\ lake[p] = "link"
  /\ target' = target \cup {p}
  /\ marker' = [marker EXCEPT ![p] = IF @ # "none" THEN @ ELSE "owned"]
  /\ attaching' = attaching \ {p}
  /\ Goto(p, "claim")
  /\ UNCHANGED <<depot, lease, debris, lake, intent, data, deaths>>

\* The project is attached already: its target is made again if it was evicted,
\* and a target without a marker belongs to the package only in a project of
\* its own making.
AttachAgain(p) ==
  /\ pc[p] = "attach" /\ lake[p] = "link"
  /\ target' = target \cup {p}
  /\ marker' = [marker EXCEPT ![p] =
                 IF @ # "none" THEN @
                 ELSE IF p \in Imported THEN "foreign" ELSE "owned"]
  /\ attaching' = attaching \ {p}
  /\ Goto(p, "claim")
  /\ UNCHANGED <<depot, lease, debris, lake, intent, data, deaths>>

\* Both a directory and a target exist: merging is refused.
RefuseMerge(p) ==
  /\ pc[p] = "attach" /\ lake[p] = "directory" /\ p \in target
  /\ attaching' = attaching \ {p}
  /\ Goto(p, "idle")
  /\ UNCHANGED <<depot, lease, debris, lake, target, marker, intent, data, deaths>>

\* Who owns the package data of a project about to be attached: a directory
\* that moves in belongs to the package only in a project of its own making;
\* data found in a target without a marker is nobody's for sure.
Ownership(p) ==
  IF lake[p] = "directory" /\ p \in Imported THEN "foreign"
  ELSE IF lake[p] = "none" /\ p \in target /\ packages[p] # "none" THEN "foreign"
  ELSE "owned"

\* The directory moves into the cache, or an empty target is made.
MoveTree(p) ==
  /\ pc[p] = "attach" /\ lake[p] # "link"
  /\ lake[p] = "directory" => p \notin target
  /\ intent' = [intent EXCEPT ![p] = Ownership(p)]
  /\ lake' = [lake EXCEPT ![p] = "none"]
  /\ target' = target \cup {p}
  /\ Goto(p, "linking")
  /\ UNCHANGED <<depot, lease, debris, marker, attaching, data, deaths>>

LinkTree(p) ==
  /\ pc[p] = "linking"
  /\ lake' = [lake EXCEPT ![p] = "link"]
  /\ Goto(p, "marking")
  /\ UNCHANGED <<depot, lease, debris, target, marker, intent, attaching, data,
                 deaths>>

\* A marker that is there already is kept.
MarkTree(p) ==
  /\ pc[p] = "marking"
  /\ marker' = [marker EXCEPT ![p] = IF @ = "none" THEN intent[p] ELSE @]
  /\ attaching' = attaching \ {p}
  /\ Goto(p, "claim")
  /\ UNCHANGED <<depot, lease, debris, lake, target, intent, data, deaths>>
-----------------------------------------------------------------------------
(* claim_dependency_depot                                                  *)

TakeShared(p) ==
  /\ pc[p] = "claim"
  /\ exclusive = None
  /\ shared' = shared \cup {p}
  /\ Goto(p, "looking")
  /\ UNCHANGED <<depot, exclusive, debris, tree, data, deaths>>

\* Mutant: the lease is closed before the answer is used.
LookForReady_Closes(p) ==
  /\ pc[p] = "looking"
  /\ Goto(p, IF DepotReady THEN "found" ELSE "contend")
  /\ shared' = shared \ {p}
  /\ UNCHANGED <<depot, exclusive, debris, tree, data, deaths>>

\* A ready depot is kept under the shared lease; otherwise the lease is closed
\* and the builder's one is tried.
LookForReady(p) ==
  /\ pc[p] = "looking"
  /\ IF DepotReady
     THEN Goto(p, "found") /\ UNCHANGED shared
     ELSE Goto(p, "contend") /\ shared' = shared \ {p}
  /\ UNCHANGED <<depot, exclusive, debris, tree, data, deaths>>

\* The winner looks again: another builder may have published meanwhile.  An
\* unfinished depot is removed.
WinExclusive(p) ==
  /\ pc[p] = "contend"
  /\ exclusive = None /\ shared = {}
  /\ exclusive' = p
  /\ IF DepotReady
     THEN Goto(p, "found") /\ UNCHANGED depot
     ELSE Goto(p, "build") /\ depot' = {}
  /\ UNCHANGED <<shared, debris, tree, data, deaths>>

LoseExclusive(p) ==
  /\ pc[p] = "contend"
  /\ exclusive # None \/ shared # {}
  /\ Goto(p, "claim")
  /\ UNCHANGED <<depot, lease, debris, tree, data, deaths>>

ClaimTimesOut(p) ==
  /\ \/ pc[p] = "claim" /\ exclusive # None
     \/ pc[p] = "contend" /\ (exclusive # None \/ shared # {})
  /\ Goto(p, "idle")
  /\ UNCHANGED <<depot, lease, debris, tree, data, deaths>>

Downgraded(p) ==
  /\ shared' = shared \cup {p}
  /\ exclusive' = IF exclusive = p THEN None ELSE exclusive

Released(p) ==
  /\ shared' = shared \ {p}
  /\ exclusive' = IF exclusive = p THEN None ELSE exclusive

\* _attach_ready: packages of the project give way to the link if the package
\* owns them or there are none.
MayReplace(p) == packages[p] \in {"none", "link"} \/ marker[p] = "owned"

AttachReady(p) ==
  /\ pc[p] = "found"
  /\ MayReplace(p)
  /\ packages' = [packages EXCEPT ![p] = "link"]
  /\ Downgraded(p)
  /\ Goto(p, "ready")
  /\ UNCHANGED <<depot, debris, tree, carried, deaths>>

RefuseForeign(p) ==
  /\ pc[p] = "found"
  /\ ~MayReplace(p)
  /\ Released(p)
  /\ Goto(p, "idle")
  /\ UNCHANGED <<depot, debris, tree, data, deaths>>
-----------------------------------------------------------------------------
(* bootstrap_lean_workspace of the builder                                 *)

\* `lake update' makes the packages, or finds those that are there.
LakeUpdate(p) ==
  /\ pc[p] = "build"
  /\ packages' = [packages EXCEPT ![p] = IF @ = "none" THEN "lake" ELSE @]
  /\ Goto(p, "built")
  /\ UNCHANGED <<depot, lease, debris, tree, carried, deaths>>

\* A required command fails before anything is promoted, for one because it
\* cannot write through a link whose depot is gone; promote refuses the link.
BuildFails(p) ==
  /\ pc[p] = "build" \/ (pc[p] = "built" /\ packages[p] = "link")
  /\ Released(p)
  /\ Goto(p, "idle")
  /\ UNCHANGED <<depot, debris, tree, data, deaths>>

\* promote, step by step: the packages move to a staging tree, the tree takes
\* the place of the depot, the project links to it.
StagePackages(p) ==
  /\ pc[p] = "built" /\ packages[p] # "link"
  /\ carried' = [carried EXCEPT ![p] = packages[p]]
  /\ packages' = [packages EXCEPT ![p] = "none"]
  /\ Goto(p, "staged")
  /\ UNCHANGED <<depot, lease, debris, tree, deaths>>

PublishStaging(p) ==
  /\ pc[p] = "staged"
  /\ depot' = {"packages", "manifest"}
  /\ Goto(p, "moved")
  /\ UNCHANGED <<lease, debris, tree, data, deaths>>

LinkPromoted(p) ==
  /\ pc[p] = "moved"
  /\ packages' = [packages EXCEPT ![p] = "link"]
  /\ Goto(p, "promoted")
  /\ UNCHANGED <<depot, lease, debris, tree, carried, deaths>>

\* The relocated build and the project's own build succeed: commit writes READY
\* last and keeps the lease shared.
Commit(p) ==
  /\ pc[p] = "promoted"
  /\ depot' = Parts
  /\ carried' = [carried EXCEPT ![p] = "none"]
  /\ Downgraded(p)
  /\ Goto(p, "ready")
  /\ UNCHANGED <<debris, tree, packages, deaths>>

\* An exception in promote, or a failed build after it: the packages go back
\* into the project ...
MoveBack(p) ==
  /\ pc[p] \in {"staged", "moved", "promoted"}
  /\ packages' = [packages EXCEPT ![p] = carried[p]]
  /\ carried' = [carried EXCEPT ![p] = "none"]
  /\ depot' = depot \ {"packages"}
  /\ Goto(p, "undo")
  /\ UNCHANGED <<lease, debris, tree, deaths>>

\* ... and what is left of the depot and of the staging tree is removed.
RemoveUnfinished(p) ==
  /\ pc[p] = "undo"
  /\ depot' = {}
  /\ Released(p)
  /\ Goto(p, "idle")
  /\ UNCHANGED <<debris, tree, data, deaths>>
-----------------------------------------------------------------------------
(* The work that uses the depot, and what happens around it.               *)

\* A proof worker keeps its claim for the whole turn.
BeginTurn(p) ==
  /\ pc[p] = "ready"
  /\ Goto(p, "turn")
  /\ UNCHANGED <<depot, lease, debris, tree, data, deaths>>

EndTurn(p) ==
  /\ pc[p] = "turn"
  /\ Released(p)
  /\ Goto(p, "idle")
  /\ UNCHANGED <<depot, debris, tree, data, deaths>>

\* verify_project closes its claim as soon as the set-up is done; the audits
\* and builds of the verification come after.
BeginVerify(p) ==
  /\ pc[p] = "ready"
  /\ Released(p)
  /\ Goto(p, "verify")
  /\ UNCHANGED <<depot, debris, tree, data, deaths>>

EndVerify(p) ==
  /\ pc[p] = "verify"
  /\ Goto(p, "idle")
  /\ UNCHANGED <<depot, lease, debris, tree, data, deaths>>

\* Collection takes the depot when nobody leases it, a build when its project
\* is not in a session, and a staging tree when no session is active.
EvictDepot ==
  /\ depot # {}
  /\ shared = {} /\ exclusive = None
  /\ depot' = {}
  /\ UNCHANGED <<lease, debris, tree, data, pc, deaths>>

EvictBuild(p) ==
  /\ pc[p] = "idle" /\ p \in target
  /\ target' = target \ {p}
  /\ marker' = [marker EXCEPT ![p] = "none"]
  /\ packages' = [packages EXCEPT ![p] =
                   IF lake[p] = "directory" THEN OwnPackages(p) ELSE "none"]
  /\ UNCHANGED <<depot, lease, debris, lake, intent, attaching, carried, pc,
                 deaths>>

EvictDebris(p) ==
  /\ p \in debris
  /\ \A q \in Projects : pc[q] = "idle"
  /\ debris' = debris \ {p}
  /\ UNCHANGED <<depot, lease, tree, data, pc, deaths>>

\* The user deletes the `.lake' link, runs Lake without it, or removes a lock
\* directory nobody holds.
DropLink(p) ==
  /\ pc[p] = "idle" /\ lake[p] = "link"
  /\ lake' = [lake EXCEPT ![p] = "none"]
  /\ UNCHANGED <<depot, lease, debris, target, marker, intent, attaching, data,
                 pc, deaths>>

RunLake(p) ==
  /\ pc[p] = "idle" /\ lake[p] = "none"
  /\ lake' = [lake EXCEPT ![p] = "directory"]
  /\ packages' = [packages EXCEPT ![p] = IF p \in target THEN @ ELSE OwnPackages(p)]
  /\ UNCHANGED <<depot, lease, debris, target, marker, intent, attaching, carried,
                 pc, deaths>>

ClearAttachLock(p) ==
  /\ pc[p] = "idle" /\ p \in attaching
  /\ attaching' = attaching \ {p}
  /\ UNCHANGED <<depot, lease, debris, lake, target, marker, intent, data, pc,
                 deaths>>

\* A killed process loses its leases and nothing else.
Die(p) ==
  /\ pc[p] # "idle" /\ deaths < Deaths
  /\ deaths' = deaths + 1
  /\ Released(p)
  /\ debris' = IF pc[p] = "staged" THEN debris \cup {p} ELSE debris
  /\ carried' = [carried EXCEPT ![p] = "none"]
  /\ Goto(p, "idle")
  /\ UNCHANGED <<depot, tree, packages>>

Attach(p) ==
  \/ BeginAttach(p) \/ AttachAgain(p) \/ RefuseMerge(p) \/ MoveTree(p)
  \/ LinkTree(p) \/ MarkTree(p)

Claim(p) ==
  \/ TakeShared(p) \/ LookForReady(p) \/ WinExclusive(p) \/ LoseExclusive(p)
  \/ ClaimTimesOut(p) \/ AttachReady(p) \/ RefuseForeign(p)

Build(p) ==
  \/ LakeUpdate(p) \/ BuildFails(p) \/ StagePackages(p) \/ PublishStaging(p)
  \/ LinkPromoted(p) \/ Commit(p) \/ MoveBack(p) \/ RemoveUnfinished(p)

Use(p) == BeginTurn(p) \/ EndTurn(p) \/ BeginVerify(p) \/ EndVerify(p)

Around(p) ==
  \/ EvictBuild(p) \/ EvictDebris(p) \/ DropLink(p) \/ RunLake(p)
  \/ ClearAttachLock(p) \/ Die(p)

Next ==
  \/ EvictDepot
  \/ \E p \in Projects :
       Attach(p) \/ Claim(p) \/ Build(p) \/ Use(p) \/ Around(p)

Spec == Init /\ [][Next]_vars
-----------------------------------------------------------------------------
\* DependencyDepotClaim and claim_dependency_depot: while a project works under
\* its claim its packages are the link, and behind the link is a complete depot
\* that no builder replaces and no collection removes.
ClaimedDepotIsWhole ==
  \A p \in Projects :
    pc[p] \in {"ready", "turn"} => packages[p] = "link" /\ DepotReady

\* _replace_managed_packages and the ownership marker: whatever is interrupted
\* or deleted in between, a project's claim never puts the link in place of
\* packages the user brought; they leave the project only through the builder
\* that publishes them or the eviction of the build.
UserPackagesKept ==
  [][\A p \in Projects :
       packages[p] = "user" /\ packages'[p] # "user"
         => pc[p] = "built" \/ p \notin target']_vars

\* docs/CACHE_AND_STORAGE.md, "A running job holds shared leases for its
\* complete lifetime": the depot a job is using is there.
DepotKeptForJob ==
  \A p \in Projects : pc[p] = "verify" => DepotReady
=============================================================================
