------------------------- MODULE DependencyDepotProofs -------------------------
(***************************************************************************)
(* For any number of projects, of evictions and of deaths: a claimed depot *)
(* stays complete behind the project's link, and a claim never puts the    *)
(* link in place of packages the user brought.                             *)
(***************************************************************************)
EXTENDS DependencyDepot, TLAPS

Building == {"build", "built", "staged", "moved", "promoted", "undo"}

Shape ==
  /\ depot \subseteq Parts
  /\ shared \subseteq Projects
  /\ target \subseteq Projects
  /\ lake \in [Projects -> {"none", "directory", "link"}]
  /\ marker \in [Projects -> {"none", "owned", "foreign"}]
  /\ intent \in [Projects -> {"owned", "foreign"}]
  /\ packages \in [Projects -> Contents]
  /\ carried \in [Projects -> {"none", "user", "lake", "link"}]
  /\ pc \in [Projects -> {"idle", "attach", "linking", "marking", "verify"}
                           \cup Setup]

\* The depot lease has one exclusive holder or any number of shared ones.
LeaseExclusion == exclusive # None => shared = {}

\* Who looks at the depot or uses it holds the lease; a builder holds it
\* exclusively, so nobody looks while the depot is taken apart.
HoldsLease ==
  \A p \in Projects :
    /\ pc[p] \in {"looking", "ready", "turn"} => p \in shared
    /\ pc[p] = "found" => (p \in shared \/ exclusive = p) /\ DepotReady
    /\ pc[p] \in Building => exclusive = p

DepotInv == Shape /\ LeaseExclusion /\ HoldsLease /\ ClaimedDepotIsWhole

\* A target that is gone leaves no marker and, but for a directory, no
\* packages; past the attach every session has its target.
TargetInv ==
  \A p \in Projects :
    /\ p \notin target => marker[p] = "none"
    /\ p \notin target /\ lake[p] # "directory" => packages[p] = "none"
    /\ pc[p] \notin {"idle", "attach"} => p \in target

\* What a builder carries is out of the project, and only while it promotes.
CarryInv ==
  \A p \in Projects :
    /\ pc[p] \in {"staged", "moved"} => packages[p] = "none"
    /\ pc[p] = "promoted" => packages[p] = "link"
    /\ pc[p] \notin {"staged", "moved", "promoted"} => carried[p] = "none"

\* The user's packages are in a project the user brought, and neither the
\* marker nor the one about to be written claims them for the package.
UserInv ==
  \A p \in Projects :
    packages[p] = "user" \/ carried[p] = "user" =>
      /\ p \in Imported
      /\ marker[p] # "owned"
      /\ pc[p] \in {"linking", "marking"} => intent[p] = "foreign"

Inv == DepotInv /\ TargetInv /\ CarryInv /\ UserInv

LEMMA InitInv == Init => Inv
  BY DepotAssumption DEF Init, Inv, DepotInv, Shape, LeaseExclusion, HoldsLease,
     ClaimedDepotIsWhole, TargetInv, CarryInv, UserInv, Contents, Setup, Building,
     DepotReady, Parts

LEMMA StepDepot == Inv /\ [Next]_vars => DepotInv'
<1> SUFFICES ASSUME Inv, [Next]_vars PROVE DepotInv'
  OBVIOUS
<1>1. Inv
  OBVIOUS
<1>2. CASE UNCHANGED vars
  BY <1>1, <1>2 DEF vars, Inv, DepotInv, CarryInv, Shape, LeaseExclusion, HoldsLease,
     ClaimedDepotIsWhole, Contents, Setup, Building, DepotReady, Parts
<1>3. CASE EvictDepot
  BY <1>1, <1>3, DepotAssumption DEF EvictDepot, lease, tree, data, Inv, DepotInv, CarryInv,
     Shape, LeaseExclusion, HoldsLease, ClaimedDepotIsWhole, Contents, Setup,
     Building, DepotReady, Parts
<1>4. ASSUME NEW q \in Projects,
             Attach(q) \/ Claim(q) \/ Build(q) \/ Use(q) \/ Around(q)
      PROVE DepotInv'
  <2>1. CASE BeginAttach(q)
    BY <1>1, <2>1, DepotAssumption DEF BeginAttach, Goto, lease, tree, data,
       Inv, DepotInv, CarryInv, Shape, LeaseExclusion, HoldsLease, ClaimedDepotIsWhole,
       Contents, Setup, Building, DepotReady, Parts
  <2>2. CASE AttachAgain(q)
    BY <1>1, <2>2, DepotAssumption DEF AttachAgain, Goto, lease, tree, data,
       Inv, DepotInv, CarryInv, Shape, LeaseExclusion, HoldsLease, ClaimedDepotIsWhole,
       Contents, Setup, Building, DepotReady, Parts
  <2>3. CASE RefuseMerge(q)
    BY <1>1, <2>3, DepotAssumption DEF RefuseMerge, Goto, lease, tree, data,
       Inv, DepotInv, CarryInv, Shape, LeaseExclusion, HoldsLease, ClaimedDepotIsWhole,
       Contents, Setup, Building, DepotReady, Parts
  <2>4. CASE MoveTree(q)
    BY <1>1, <2>4, DepotAssumption DEF MoveTree, Ownership, Goto, lease, tree,
       data, Inv, DepotInv, CarryInv, Shape, LeaseExclusion, HoldsLease, ClaimedDepotIsWhole,
       Contents, Setup, Building, DepotReady, Parts
  <2>5. CASE LinkTree(q)
    BY <1>1, <2>5, DepotAssumption DEF LinkTree, Goto, lease, tree, data,
       Inv, DepotInv, CarryInv, Shape, LeaseExclusion, HoldsLease, ClaimedDepotIsWhole,
       Contents, Setup, Building, DepotReady, Parts
  <2>6. CASE MarkTree(q)
    BY <1>1, <2>6, DepotAssumption DEF MarkTree, Goto, lease, tree, data,
       Inv, DepotInv, CarryInv, Shape, LeaseExclusion, HoldsLease, ClaimedDepotIsWhole,
       Contents, Setup, Building, DepotReady, Parts
  <2>7. CASE TakeShared(q)
    BY <1>1, <2>7, DepotAssumption DEF TakeShared, Goto, lease, tree, data,
       Inv, DepotInv, CarryInv, Shape, LeaseExclusion, HoldsLease, ClaimedDepotIsWhole,
       Contents, Setup, Building, DepotReady, Parts
  <2>8. CASE LookForReady(q)
    BY <1>1, <2>8, DepotAssumption DEF LookForReady, Goto, lease, tree, data,
       Inv, DepotInv, CarryInv, Shape, LeaseExclusion, HoldsLease, ClaimedDepotIsWhole,
       Contents, Setup, Building, DepotReady, Parts
  <2>9. CASE WinExclusive(q)
    BY <1>1, <2>9, DepotAssumption DEF WinExclusive, Goto, lease, tree, data,
       Inv, DepotInv, CarryInv, Shape, LeaseExclusion, HoldsLease, ClaimedDepotIsWhole,
       Contents, Setup, Building, DepotReady, Parts
  <2>10. CASE LoseExclusive(q)
    BY <1>1, <2>10, DepotAssumption DEF LoseExclusive, Goto, lease, tree,
       data, Inv, DepotInv, CarryInv, Shape, LeaseExclusion, HoldsLease, ClaimedDepotIsWhole,
       Contents, Setup, Building, DepotReady, Parts
  <2>11. CASE ClaimTimesOut(q)
    BY <1>1, <2>11, DepotAssumption DEF ClaimTimesOut, Goto, lease, tree,
       data, Inv, DepotInv, CarryInv, Shape, LeaseExclusion, HoldsLease, ClaimedDepotIsWhole,
       Contents, Setup, Building, DepotReady, Parts
  <2>12. CASE AttachReady(q)
    BY <1>1, <2>12, DepotAssumption DEF AttachReady, MayReplace, Downgraded,
       Goto, lease, tree, data, Inv, DepotInv, CarryInv, Shape, LeaseExclusion, HoldsLease,
       ClaimedDepotIsWhole, Contents, Setup, Building, DepotReady, Parts
  <2>13. CASE RefuseForeign(q)
    BY <1>1, <2>13, DepotAssumption DEF RefuseForeign, Released, Goto, lease,
       tree, data, Inv, DepotInv, CarryInv, Shape, LeaseExclusion, HoldsLease,
       ClaimedDepotIsWhole, Contents, Setup, Building, DepotReady, Parts
  <2>14. CASE LakeUpdate(q)
    BY <1>1, <2>14, DepotAssumption DEF LakeUpdate, Goto, lease, tree, data,
       Inv, DepotInv, CarryInv, Shape, LeaseExclusion, HoldsLease, ClaimedDepotIsWhole,
       Contents, Setup, Building, DepotReady, Parts
  <2>15. CASE BuildFails(q)
    BY <1>1, <2>15, DepotAssumption DEF BuildFails, Released, Goto, lease,
       tree, data, Inv, DepotInv, CarryInv, Shape, LeaseExclusion, HoldsLease,
       ClaimedDepotIsWhole, Contents, Setup, Building, DepotReady, Parts
  <2>16. CASE StagePackages(q)
    BY <1>1, <2>16, DepotAssumption DEF StagePackages, Goto, lease, tree,
       data, Inv, DepotInv, CarryInv, Shape, LeaseExclusion, HoldsLease, ClaimedDepotIsWhole,
       Contents, Setup, Building, DepotReady, Parts
  <2>17. CASE PublishStaging(q)
    BY <1>1, <2>17, DepotAssumption DEF PublishStaging, Goto, lease, tree,
       data, Inv, DepotInv, CarryInv, Shape, LeaseExclusion, HoldsLease, ClaimedDepotIsWhole,
       Contents, Setup, Building, DepotReady, Parts
  <2>18. CASE LinkPromoted(q)
    BY <1>1, <2>18, DepotAssumption DEF LinkPromoted, Goto, lease, tree, data,
       Inv, DepotInv, CarryInv, Shape, LeaseExclusion, HoldsLease, ClaimedDepotIsWhole,
       Contents, Setup, Building, DepotReady, Parts
  <2>19. CASE Commit(q)
    BY <1>1, <2>19, DepotAssumption DEF Commit, Downgraded, Goto, lease, tree,
       data, Inv, DepotInv, CarryInv, Shape, LeaseExclusion, HoldsLease, ClaimedDepotIsWhole,
       Contents, Setup, Building, DepotReady, Parts
  <2>20. CASE MoveBack(q)
    BY <1>1, <2>20, DepotAssumption DEF MoveBack, Goto, lease, tree, data,
       Inv, DepotInv, CarryInv, Shape, LeaseExclusion, HoldsLease, ClaimedDepotIsWhole,
       Contents, Setup, Building, DepotReady, Parts
  <2>21. CASE RemoveUnfinished(q)
    BY <1>1, <2>21, DepotAssumption DEF RemoveUnfinished, Released, Goto,
       lease, tree, data, Inv, DepotInv, CarryInv, Shape, LeaseExclusion, HoldsLease,
       ClaimedDepotIsWhole, Contents, Setup, Building, DepotReady, Parts
  <2>22. CASE BeginTurn(q)
    BY <1>1, <2>22, DepotAssumption DEF BeginTurn, Goto, lease, tree, data,
       Inv, DepotInv, CarryInv, Shape, LeaseExclusion, HoldsLease, ClaimedDepotIsWhole,
       Contents, Setup, Building, DepotReady, Parts
  <2>23. CASE EndTurn(q)
    BY <1>1, <2>23, DepotAssumption DEF EndTurn, Released, Goto, lease, tree,
       data, Inv, DepotInv, CarryInv, Shape, LeaseExclusion, HoldsLease, ClaimedDepotIsWhole,
       Contents, Setup, Building, DepotReady, Parts
  <2>24. CASE BeginVerify(q)
    BY <1>1, <2>24, DepotAssumption DEF BeginVerify, Released, Goto, lease,
       tree, data, Inv, DepotInv, CarryInv, Shape, LeaseExclusion, HoldsLease,
       ClaimedDepotIsWhole, Contents, Setup, Building, DepotReady, Parts
  <2>25. CASE EndVerify(q)
    BY <1>1, <2>25, DepotAssumption DEF EndVerify, Goto, lease, tree, data,
       Inv, DepotInv, CarryInv, Shape, LeaseExclusion, HoldsLease, ClaimedDepotIsWhole,
       Contents, Setup, Building, DepotReady, Parts
  <2>26. CASE EvictBuild(q)
    BY <1>1, <2>26, DepotAssumption DEF EvictBuild, OwnPackages, Goto, lease,
       tree, data, Inv, DepotInv, CarryInv, Shape, LeaseExclusion, HoldsLease,
       ClaimedDepotIsWhole, Contents, Setup, Building, DepotReady, Parts
  <2>27. CASE EvictDebris(q)
    BY <1>1, <2>27, DepotAssumption DEF EvictDebris, Goto, lease, tree, data,
       Inv, DepotInv, CarryInv, Shape, LeaseExclusion, HoldsLease, ClaimedDepotIsWhole,
       Contents, Setup, Building, DepotReady, Parts
  <2>28. CASE DropLink(q)
    BY <1>1, <2>28, DepotAssumption DEF DropLink, Goto, lease, tree, data,
       Inv, DepotInv, CarryInv, Shape, LeaseExclusion, HoldsLease, ClaimedDepotIsWhole,
       Contents, Setup, Building, DepotReady, Parts
  <2>29. CASE RunLake(q)
    BY <1>1, <2>29, DepotAssumption DEF RunLake, OwnPackages, Goto, lease,
       tree, data, Inv, DepotInv, CarryInv, Shape, LeaseExclusion, HoldsLease,
       ClaimedDepotIsWhole, Contents, Setup, Building, DepotReady, Parts
  <2>30. CASE ClearAttachLock(q)
    BY <1>1, <2>30, DepotAssumption DEF ClearAttachLock, Goto, lease, tree,
       data, Inv, DepotInv, CarryInv, Shape, LeaseExclusion, HoldsLease, ClaimedDepotIsWhole,
       Contents, Setup, Building, DepotReady, Parts
  <2>31. CASE Die(q)
    BY <1>1, <2>31, DepotAssumption DEF Die, Released, Goto, lease, tree,
       data, Inv, DepotInv, CarryInv, Shape, LeaseExclusion, HoldsLease, ClaimedDepotIsWhole,
       Contents, Setup, Building, DepotReady, Parts
  <2> QED
    BY <1>4, <2>1, <2>2, <2>3, <2>4, <2>5, <2>6, <2>7, <2>8, <2>9, <2>10,
       <2>11, <2>12, <2>13, <2>14, <2>15, <2>16, <2>17, <2>18, <2>19, <2>20,
       <2>21, <2>22, <2>23, <2>24, <2>25, <2>26, <2>27, <2>28, <2>29, <2>30,
       <2>31 DEF Attach, Claim, Build, Use, Around
<1> QED
  BY <1>2, <1>3, <1>4 DEF Next

LEMMA StepTarget == Inv /\ [Next]_vars => TargetInv'
<1> SUFFICES ASSUME Inv, [Next]_vars PROVE TargetInv'
  OBVIOUS
<1>1. Inv
  OBVIOUS
<1>2. CASE UNCHANGED vars
  BY <1>1, <1>2 DEF vars, Inv, DepotInv, Shape, TargetInv, CarryInv, Contents,
     Setup
<1>3. CASE EvictDepot
  BY <1>1, <1>3, DepotAssumption DEF EvictDepot, lease, tree, data, Inv,
     DepotInv, Shape, TargetInv, CarryInv, Contents, Setup
<1>4. ASSUME NEW q \in Projects,
             Attach(q) \/ Claim(q) \/ Build(q) \/ Use(q) \/ Around(q)
      PROVE TargetInv'
  <2>1. CASE BeginAttach(q)
    BY <1>1, <2>1, DepotAssumption DEF BeginAttach, Goto, lease, tree, data,
       Inv, DepotInv, Shape, TargetInv, CarryInv, Contents, Setup
  <2>2. CASE AttachAgain(q)
    BY <1>1, <2>2, DepotAssumption DEF AttachAgain, Goto, lease, tree, data,
       Inv, DepotInv, Shape, TargetInv, CarryInv, Contents, Setup
  <2>3. CASE RefuseMerge(q)
    BY <1>1, <2>3, DepotAssumption DEF RefuseMerge, Goto, lease, tree, data,
       Inv, DepotInv, Shape, TargetInv, CarryInv, Contents, Setup
  <2>4. CASE MoveTree(q)
    BY <1>1, <2>4, DepotAssumption DEF MoveTree, Ownership, Goto, lease, tree,
       data, Inv, DepotInv, Shape, TargetInv, CarryInv, Contents, Setup
  <2>5. CASE LinkTree(q)
    BY <1>1, <2>5, DepotAssumption DEF LinkTree, Goto, lease, tree, data, Inv,
       DepotInv, Shape, TargetInv, CarryInv, Contents, Setup
  <2>6. CASE MarkTree(q)
    BY <1>1, <2>6, DepotAssumption DEF MarkTree, Goto, lease, tree, data, Inv,
       DepotInv, Shape, TargetInv, CarryInv, Contents, Setup
  <2>7. CASE TakeShared(q)
    BY <1>1, <2>7, DepotAssumption DEF TakeShared, Goto, lease, tree, data,
       Inv, DepotInv, Shape, TargetInv, CarryInv, Contents, Setup
  <2>8. CASE LookForReady(q)
    BY <1>1, <2>8, DepotAssumption DEF LookForReady, Goto, lease, tree, data,
       Inv, DepotInv, Shape, TargetInv, CarryInv, Contents, Setup
  <2>9. CASE WinExclusive(q)
    BY <1>1, <2>9, DepotAssumption DEF WinExclusive, Goto, lease, tree, data,
       Inv, DepotInv, Shape, TargetInv, CarryInv, Contents, Setup
  <2>10. CASE LoseExclusive(q)
    BY <1>1, <2>10, DepotAssumption DEF LoseExclusive, Goto, lease, tree,
       data, Inv, DepotInv, Shape, TargetInv, CarryInv, Contents, Setup
  <2>11. CASE ClaimTimesOut(q)
    BY <1>1, <2>11, DepotAssumption DEF ClaimTimesOut, Goto, lease, tree,
       data, Inv, DepotInv, Shape, TargetInv, CarryInv, Contents, Setup
  <2>12. CASE AttachReady(q)
    BY <1>1, <2>12, DepotAssumption DEF AttachReady, MayReplace, Downgraded,
       Goto, lease, tree, data, Inv, DepotInv, Shape, TargetInv, CarryInv,
       Contents, Setup
  <2>13. CASE RefuseForeign(q)
    BY <1>1, <2>13, DepotAssumption DEF RefuseForeign, Released, Goto, lease,
       tree, data, Inv, DepotInv, Shape, TargetInv, CarryInv, Contents, Setup
  <2>14. CASE LakeUpdate(q)
    BY <1>1, <2>14, DepotAssumption DEF LakeUpdate, Goto, lease, tree, data,
       Inv, DepotInv, Shape, TargetInv, CarryInv, Contents, Setup
  <2>15. CASE BuildFails(q)
    BY <1>1, <2>15, DepotAssumption DEF BuildFails, Released, Goto, lease,
       tree, data, Inv, DepotInv, Shape, TargetInv, CarryInv, Contents, Setup
  <2>16. CASE StagePackages(q)
    BY <1>1, <2>16, DepotAssumption DEF StagePackages, Goto, lease, tree,
       data, Inv, DepotInv, Shape, TargetInv, CarryInv, Contents, Setup
  <2>17. CASE PublishStaging(q)
    BY <1>1, <2>17, DepotAssumption DEF PublishStaging, Goto, lease, tree,
       data, Inv, DepotInv, Shape, TargetInv, CarryInv, Contents, Setup
  <2>18. CASE LinkPromoted(q)
    BY <1>1, <2>18, DepotAssumption DEF LinkPromoted, Goto, lease, tree, data,
       Inv, DepotInv, Shape, TargetInv, CarryInv, Contents, Setup
  <2>19. CASE Commit(q)
    BY <1>1, <2>19, DepotAssumption DEF Commit, Downgraded, Goto, lease, tree,
       data, Inv, DepotInv, Shape, TargetInv, CarryInv, Contents, Setup
  <2>20. CASE MoveBack(q)
    BY <1>1, <2>20, DepotAssumption DEF MoveBack, Goto, lease, tree, data,
       Inv, DepotInv, Shape, TargetInv, CarryInv, Contents, Setup
  <2>21. CASE RemoveUnfinished(q)
    BY <1>1, <2>21, DepotAssumption DEF RemoveUnfinished, Released, Goto,
       lease, tree, data, Inv, DepotInv, Shape, TargetInv, CarryInv, Contents,
       Setup
  <2>22. CASE BeginTurn(q)
    BY <1>1, <2>22, DepotAssumption DEF BeginTurn, Goto, lease, tree, data,
       Inv, DepotInv, Shape, TargetInv, CarryInv, Contents, Setup
  <2>23. CASE EndTurn(q)
    BY <1>1, <2>23, DepotAssumption DEF EndTurn, Released, Goto, lease, tree,
       data, Inv, DepotInv, Shape, TargetInv, CarryInv, Contents, Setup
  <2>24. CASE BeginVerify(q)
    BY <1>1, <2>24, DepotAssumption DEF BeginVerify, Released, Goto, lease,
       tree, data, Inv, DepotInv, Shape, TargetInv, CarryInv, Contents, Setup
  <2>25. CASE EndVerify(q)
    BY <1>1, <2>25, DepotAssumption DEF EndVerify, Goto, lease, tree, data,
       Inv, DepotInv, Shape, TargetInv, CarryInv, Contents, Setup
  <2>26. CASE EvictBuild(q)
    BY <1>1, <2>26, DepotAssumption DEF EvictBuild, OwnPackages, Goto, lease,
       tree, data, Inv, DepotInv, Shape, TargetInv, CarryInv, Contents, Setup
  <2>27. CASE EvictDebris(q)
    BY <1>1, <2>27, DepotAssumption DEF EvictDebris, Goto, lease, tree, data,
       Inv, DepotInv, Shape, TargetInv, CarryInv, Contents, Setup
  <2>28. CASE DropLink(q)
    BY <1>1, <2>28, DepotAssumption DEF DropLink, Goto, lease, tree, data,
       Inv, DepotInv, Shape, TargetInv, CarryInv, Contents, Setup
  <2>29. CASE RunLake(q)
    BY <1>1, <2>29, DepotAssumption DEF RunLake, OwnPackages, Goto, lease,
       tree, data, Inv, DepotInv, Shape, TargetInv, CarryInv, Contents, Setup
  <2>30. CASE ClearAttachLock(q)
    BY <1>1, <2>30, DepotAssumption DEF ClearAttachLock, Goto, lease, tree,
       data, Inv, DepotInv, Shape, TargetInv, CarryInv, Contents, Setup
  <2>31. CASE Die(q)
    BY <1>1, <2>31, DepotAssumption DEF Die, Released, Goto, lease, tree,
       data, Inv, DepotInv, Shape, TargetInv, CarryInv, Contents, Setup
  <2> QED
    BY <1>4, <2>1, <2>2, <2>3, <2>4, <2>5, <2>6, <2>7, <2>8, <2>9, <2>10,
       <2>11, <2>12, <2>13, <2>14, <2>15, <2>16, <2>17, <2>18, <2>19, <2>20,
       <2>21, <2>22, <2>23, <2>24, <2>25, <2>26, <2>27, <2>28, <2>29, <2>30,
       <2>31 DEF Attach, Claim, Build, Use, Around
<1> QED
  BY <1>2, <1>3, <1>4 DEF Next

LEMMA StepCarry == Inv /\ [Next]_vars => CarryInv'
<1> SUFFICES ASSUME Inv, [Next]_vars PROVE CarryInv'
  OBVIOUS
<1>1. Inv
  OBVIOUS
<1>2. CASE UNCHANGED vars
  BY <1>1, <1>2 DEF vars, Inv, DepotInv, Shape, TargetInv, CarryInv, Contents,
     Setup
<1>3. CASE EvictDepot
  BY <1>1, <1>3, DepotAssumption DEF EvictDepot, lease, tree, data, Inv,
     DepotInv, Shape, TargetInv, CarryInv, Contents, Setup
<1>4. ASSUME NEW q \in Projects,
             Attach(q) \/ Claim(q) \/ Build(q) \/ Use(q) \/ Around(q)
      PROVE CarryInv'
  <2>1. CASE BeginAttach(q)
    BY <1>1, <2>1, DepotAssumption DEF BeginAttach, Goto, lease, tree, data,
       Inv, DepotInv, Shape, TargetInv, CarryInv, Contents, Setup
  <2>2. CASE AttachAgain(q)
    BY <1>1, <2>2, DepotAssumption DEF AttachAgain, Goto, lease, tree, data,
       Inv, DepotInv, Shape, TargetInv, CarryInv, Contents, Setup
  <2>3. CASE RefuseMerge(q)
    BY <1>1, <2>3, DepotAssumption DEF RefuseMerge, Goto, lease, tree, data,
       Inv, DepotInv, Shape, TargetInv, CarryInv, Contents, Setup
  <2>4. CASE MoveTree(q)
    BY <1>1, <2>4, DepotAssumption DEF MoveTree, Ownership, Goto, lease, tree,
       data, Inv, DepotInv, Shape, TargetInv, CarryInv, Contents, Setup
  <2>5. CASE LinkTree(q)
    BY <1>1, <2>5, DepotAssumption DEF LinkTree, Goto, lease, tree, data, Inv,
       DepotInv, Shape, TargetInv, CarryInv, Contents, Setup
  <2>6. CASE MarkTree(q)
    BY <1>1, <2>6, DepotAssumption DEF MarkTree, Goto, lease, tree, data, Inv,
       DepotInv, Shape, TargetInv, CarryInv, Contents, Setup
  <2>7. CASE TakeShared(q)
    BY <1>1, <2>7, DepotAssumption DEF TakeShared, Goto, lease, tree, data,
       Inv, DepotInv, Shape, TargetInv, CarryInv, Contents, Setup
  <2>8. CASE LookForReady(q)
    BY <1>1, <2>8, DepotAssumption DEF LookForReady, Goto, lease, tree, data,
       Inv, DepotInv, Shape, TargetInv, CarryInv, Contents, Setup
  <2>9. CASE WinExclusive(q)
    BY <1>1, <2>9, DepotAssumption DEF WinExclusive, Goto, lease, tree, data,
       Inv, DepotInv, Shape, TargetInv, CarryInv, Contents, Setup
  <2>10. CASE LoseExclusive(q)
    BY <1>1, <2>10, DepotAssumption DEF LoseExclusive, Goto, lease, tree,
       data, Inv, DepotInv, Shape, TargetInv, CarryInv, Contents, Setup
  <2>11. CASE ClaimTimesOut(q)
    BY <1>1, <2>11, DepotAssumption DEF ClaimTimesOut, Goto, lease, tree,
       data, Inv, DepotInv, Shape, TargetInv, CarryInv, Contents, Setup
  <2>12. CASE AttachReady(q)
    BY <1>1, <2>12, DepotAssumption DEF AttachReady, MayReplace, Downgraded,
       Goto, lease, tree, data, Inv, DepotInv, Shape, TargetInv, CarryInv,
       Contents, Setup
  <2>13. CASE RefuseForeign(q)
    BY <1>1, <2>13, DepotAssumption DEF RefuseForeign, Released, Goto, lease,
       tree, data, Inv, DepotInv, Shape, TargetInv, CarryInv, Contents, Setup
  <2>14. CASE LakeUpdate(q)
    BY <1>1, <2>14, DepotAssumption DEF LakeUpdate, Goto, lease, tree, data,
       Inv, DepotInv, Shape, TargetInv, CarryInv, Contents, Setup
  <2>15. CASE BuildFails(q)
    BY <1>1, <2>15, DepotAssumption DEF BuildFails, Released, Goto, lease,
       tree, data, Inv, DepotInv, Shape, TargetInv, CarryInv, Contents, Setup
  <2>16. CASE StagePackages(q)
    BY <1>1, <2>16, DepotAssumption DEF StagePackages, Goto, lease, tree,
       data, Inv, DepotInv, Shape, TargetInv, CarryInv, Contents, Setup
  <2>17. CASE PublishStaging(q)
    BY <1>1, <2>17, DepotAssumption DEF PublishStaging, Goto, lease, tree,
       data, Inv, DepotInv, Shape, TargetInv, CarryInv, Contents, Setup
  <2>18. CASE LinkPromoted(q)
    BY <1>1, <2>18, DepotAssumption DEF LinkPromoted, Goto, lease, tree, data,
       Inv, DepotInv, Shape, TargetInv, CarryInv, Contents, Setup
  <2>19. CASE Commit(q)
    BY <1>1, <2>19, DepotAssumption DEF Commit, Downgraded, Goto, lease, tree,
       data, Inv, DepotInv, Shape, TargetInv, CarryInv, Contents, Setup
  <2>20. CASE MoveBack(q)
    BY <1>1, <2>20, DepotAssumption DEF MoveBack, Goto, lease, tree, data,
       Inv, DepotInv, Shape, TargetInv, CarryInv, Contents, Setup
  <2>21. CASE RemoveUnfinished(q)
    BY <1>1, <2>21, DepotAssumption DEF RemoveUnfinished, Released, Goto,
       lease, tree, data, Inv, DepotInv, Shape, TargetInv, CarryInv, Contents,
       Setup
  <2>22. CASE BeginTurn(q)
    BY <1>1, <2>22, DepotAssumption DEF BeginTurn, Goto, lease, tree, data,
       Inv, DepotInv, Shape, TargetInv, CarryInv, Contents, Setup
  <2>23. CASE EndTurn(q)
    BY <1>1, <2>23, DepotAssumption DEF EndTurn, Released, Goto, lease, tree,
       data, Inv, DepotInv, Shape, TargetInv, CarryInv, Contents, Setup
  <2>24. CASE BeginVerify(q)
    BY <1>1, <2>24, DepotAssumption DEF BeginVerify, Released, Goto, lease,
       tree, data, Inv, DepotInv, Shape, TargetInv, CarryInv, Contents, Setup
  <2>25. CASE EndVerify(q)
    BY <1>1, <2>25, DepotAssumption DEF EndVerify, Goto, lease, tree, data,
       Inv, DepotInv, Shape, TargetInv, CarryInv, Contents, Setup
  <2>26. CASE EvictBuild(q)
    BY <1>1, <2>26, DepotAssumption DEF EvictBuild, OwnPackages, Goto, lease,
       tree, data, Inv, DepotInv, Shape, TargetInv, CarryInv, Contents, Setup
  <2>27. CASE EvictDebris(q)
    BY <1>1, <2>27, DepotAssumption DEF EvictDebris, Goto, lease, tree, data,
       Inv, DepotInv, Shape, TargetInv, CarryInv, Contents, Setup
  <2>28. CASE DropLink(q)
    BY <1>1, <2>28, DepotAssumption DEF DropLink, Goto, lease, tree, data,
       Inv, DepotInv, Shape, TargetInv, CarryInv, Contents, Setup
  <2>29. CASE RunLake(q)
    BY <1>1, <2>29, DepotAssumption DEF RunLake, OwnPackages, Goto, lease,
       tree, data, Inv, DepotInv, Shape, TargetInv, CarryInv, Contents, Setup
  <2>30. CASE ClearAttachLock(q)
    BY <1>1, <2>30, DepotAssumption DEF ClearAttachLock, Goto, lease, tree,
       data, Inv, DepotInv, Shape, TargetInv, CarryInv, Contents, Setup
  <2>31. CASE Die(q)
    BY <1>1, <2>31, DepotAssumption DEF Die, Released, Goto, lease, tree,
       data, Inv, DepotInv, Shape, TargetInv, CarryInv, Contents, Setup
  <2> QED
    BY <1>4, <2>1, <2>2, <2>3, <2>4, <2>5, <2>6, <2>7, <2>8, <2>9, <2>10,
       <2>11, <2>12, <2>13, <2>14, <2>15, <2>16, <2>17, <2>18, <2>19, <2>20,
       <2>21, <2>22, <2>23, <2>24, <2>25, <2>26, <2>27, <2>28, <2>29, <2>30,
       <2>31 DEF Attach, Claim, Build, Use, Around
<1> QED
  BY <1>2, <1>3, <1>4 DEF Next

LEMMA StepUser == Inv /\ [Next]_vars => UserInv'
<1> SUFFICES ASSUME Inv, [Next]_vars PROVE UserInv'
  OBVIOUS
<1>1. Inv
  OBVIOUS
<1>2. CASE UNCHANGED vars
  BY <1>1, <1>2 DEF vars, Inv, DepotInv, Shape, TargetInv, CarryInv, UserInv,
     Contents, Setup
<1>3. CASE EvictDepot
  BY <1>1, <1>3, DepotAssumption DEF EvictDepot, lease, tree, data, Inv,
     DepotInv, Shape, TargetInv, CarryInv, UserInv, Contents, Setup
<1>4. ASSUME NEW q \in Projects,
             Attach(q) \/ Claim(q) \/ Build(q) \/ Use(q) \/ Around(q)
      PROVE UserInv'
  <2>1. CASE BeginAttach(q)
    BY <1>1, <2>1, DepotAssumption DEF BeginAttach, Goto, lease, tree, data,
       Inv, DepotInv, Shape, TargetInv, CarryInv, UserInv, Contents, Setup
  <2>2. CASE AttachAgain(q)
    BY <1>1, <2>2, DepotAssumption DEF AttachAgain, Goto, lease, tree, data,
       Inv, DepotInv, Shape, TargetInv, CarryInv, UserInv, Contents, Setup
  <2>3. CASE RefuseMerge(q)
    BY <1>1, <2>3, DepotAssumption DEF RefuseMerge, Goto, lease, tree, data,
       Inv, DepotInv, Shape, TargetInv, CarryInv, UserInv, Contents, Setup
  <2>4. CASE MoveTree(q)
    BY <1>1, <2>4, DepotAssumption DEF MoveTree, Ownership, Goto, lease, tree,
       data, Inv, DepotInv, Shape, TargetInv, CarryInv, UserInv, Contents,
       Setup
  <2>5. CASE LinkTree(q)
    BY <1>1, <2>5, DepotAssumption DEF LinkTree, Goto, lease, tree, data, Inv,
       DepotInv, Shape, TargetInv, CarryInv, UserInv, Contents, Setup
  <2>6. CASE MarkTree(q)
    BY <1>1, <2>6, DepotAssumption DEF MarkTree, Goto, lease, tree, data, Inv,
       DepotInv, Shape, TargetInv, CarryInv, UserInv, Contents, Setup
  <2>7. CASE TakeShared(q)
    BY <1>1, <2>7, DepotAssumption DEF TakeShared, Goto, lease, tree, data,
       Inv, DepotInv, Shape, TargetInv, CarryInv, UserInv, Contents, Setup
  <2>8. CASE LookForReady(q)
    BY <1>1, <2>8, DepotAssumption DEF LookForReady, Goto, lease, tree, data,
       Inv, DepotInv, Shape, TargetInv, CarryInv, UserInv, Contents, Setup
  <2>9. CASE WinExclusive(q)
    BY <1>1, <2>9, DepotAssumption DEF WinExclusive, Goto, lease, tree, data,
       Inv, DepotInv, Shape, TargetInv, CarryInv, UserInv, Contents, Setup
  <2>10. CASE LoseExclusive(q)
    BY <1>1, <2>10, DepotAssumption DEF LoseExclusive, Goto, lease, tree,
       data, Inv, DepotInv, Shape, TargetInv, CarryInv, UserInv, Contents,
       Setup
  <2>11. CASE ClaimTimesOut(q)
    BY <1>1, <2>11, DepotAssumption DEF ClaimTimesOut, Goto, lease, tree,
       data, Inv, DepotInv, Shape, TargetInv, CarryInv, UserInv, Contents,
       Setup
  <2>12. CASE AttachReady(q)
    BY <1>1, <2>12, DepotAssumption DEF AttachReady, MayReplace, Downgraded,
       Goto, lease, tree, data, Inv, DepotInv, Shape, TargetInv, CarryInv,
       UserInv, Contents, Setup
  <2>13. CASE RefuseForeign(q)
    BY <1>1, <2>13, DepotAssumption DEF RefuseForeign, Released, Goto, lease,
       tree, data, Inv, DepotInv, Shape, TargetInv, CarryInv, UserInv,
       Contents, Setup
  <2>14. CASE LakeUpdate(q)
    BY <1>1, <2>14, DepotAssumption DEF LakeUpdate, Goto, lease, tree, data,
       Inv, DepotInv, Shape, TargetInv, CarryInv, UserInv, Contents, Setup
  <2>15. CASE BuildFails(q)
    BY <1>1, <2>15, DepotAssumption DEF BuildFails, Released, Goto, lease,
       tree, data, Inv, DepotInv, Shape, TargetInv, CarryInv, UserInv,
       Contents, Setup
  <2>16. CASE StagePackages(q)
    BY <1>1, <2>16, DepotAssumption DEF StagePackages, Goto, lease, tree,
       data, Inv, DepotInv, Shape, TargetInv, CarryInv, UserInv, Contents,
       Setup
  <2>17. CASE PublishStaging(q)
    BY <1>1, <2>17, DepotAssumption DEF PublishStaging, Goto, lease, tree,
       data, Inv, DepotInv, Shape, TargetInv, CarryInv, UserInv, Contents,
       Setup
  <2>18. CASE LinkPromoted(q)
    BY <1>1, <2>18, DepotAssumption DEF LinkPromoted, Goto, lease, tree, data,
       Inv, DepotInv, Shape, TargetInv, CarryInv, UserInv, Contents, Setup
  <2>19. CASE Commit(q)
    BY <1>1, <2>19, DepotAssumption DEF Commit, Downgraded, Goto, lease, tree,
       data, Inv, DepotInv, Shape, TargetInv, CarryInv, UserInv, Contents,
       Setup
  <2>20. CASE MoveBack(q)
    BY <1>1, <2>20, DepotAssumption DEF MoveBack, Goto, lease, tree, data,
       Inv, DepotInv, Shape, TargetInv, CarryInv, UserInv, Contents, Setup
  <2>21. CASE RemoveUnfinished(q)
    BY <1>1, <2>21, DepotAssumption DEF RemoveUnfinished, Released, Goto,
       lease, tree, data, Inv, DepotInv, Shape, TargetInv, CarryInv, UserInv,
       Contents, Setup
  <2>22. CASE BeginTurn(q)
    BY <1>1, <2>22, DepotAssumption DEF BeginTurn, Goto, lease, tree, data,
       Inv, DepotInv, Shape, TargetInv, CarryInv, UserInv, Contents, Setup
  <2>23. CASE EndTurn(q)
    BY <1>1, <2>23, DepotAssumption DEF EndTurn, Released, Goto, lease, tree,
       data, Inv, DepotInv, Shape, TargetInv, CarryInv, UserInv, Contents,
       Setup
  <2>24. CASE BeginVerify(q)
    BY <1>1, <2>24, DepotAssumption DEF BeginVerify, Released, Goto, lease,
       tree, data, Inv, DepotInv, Shape, TargetInv, CarryInv, UserInv,
       Contents, Setup
  <2>25. CASE EndVerify(q)
    BY <1>1, <2>25, DepotAssumption DEF EndVerify, Goto, lease, tree, data,
       Inv, DepotInv, Shape, TargetInv, CarryInv, UserInv, Contents, Setup
  <2>26. CASE EvictBuild(q)
    BY <1>1, <2>26, DepotAssumption DEF EvictBuild, OwnPackages, Goto, lease,
       tree, data, Inv, DepotInv, Shape, TargetInv, CarryInv, UserInv,
       Contents, Setup
  <2>27. CASE EvictDebris(q)
    BY <1>1, <2>27, DepotAssumption DEF EvictDebris, Goto, lease, tree, data,
       Inv, DepotInv, Shape, TargetInv, CarryInv, UserInv, Contents, Setup
  <2>28. CASE DropLink(q)
    BY <1>1, <2>28, DepotAssumption DEF DropLink, Goto, lease, tree, data,
       Inv, DepotInv, Shape, TargetInv, CarryInv, UserInv, Contents, Setup
  <2>29. CASE RunLake(q)
    BY <1>1, <2>29, DepotAssumption DEF RunLake, OwnPackages, Goto, lease,
       tree, data, Inv, DepotInv, Shape, TargetInv, CarryInv, UserInv,
       Contents, Setup
  <2>30. CASE ClearAttachLock(q)
    BY <1>1, <2>30, DepotAssumption DEF ClearAttachLock, Goto, lease, tree,
       data, Inv, DepotInv, Shape, TargetInv, CarryInv, UserInv, Contents,
       Setup
  <2>31. CASE Die(q)
    BY <1>1, <2>31, DepotAssumption DEF Die, Released, Goto, lease, tree,
       data, Inv, DepotInv, Shape, TargetInv, CarryInv, UserInv, Contents,
       Setup
  <2> QED
    BY <1>4, <2>1, <2>2, <2>3, <2>4, <2>5, <2>6, <2>7, <2>8, <2>9, <2>10,
       <2>11, <2>12, <2>13, <2>14, <2>15, <2>16, <2>17, <2>18, <2>19, <2>20,
       <2>21, <2>22, <2>23, <2>24, <2>25, <2>26, <2>27, <2>28, <2>29, <2>30,
       <2>31 DEF Attach, Claim, Build, Use, Around
<1> QED
  BY <1>2, <1>3, <1>4 DEF Next

LEMMA InvHolds == Spec => []Inv
<1>1. Inv /\ [Next]_vars => Inv'
  BY StepDepot, StepTarget, StepCarry, StepUser DEF Inv
<1> QED
  BY InitInv, <1>1, PTL DEF Spec

\* Every step keeps the types.
LEMMA StepTypes == TypeOK /\ [Next]_vars => TypeOK'
<1> SUFFICES ASSUME TypeOK, [Next]_vars PROVE TypeOK'
  OBVIOUS
<1> USE DepotAssumption DEF TypeOK, Goto, lease, tree, data, Contents, Setup, Parts
<1>1. CASE UNCHANGED vars
  BY <1>1 DEF vars
<1>2. CASE EvictDepot
  BY <1>2 DEF EvictDepot
<1>3. ASSUME NEW q \in Projects,
             Attach(q) \/ Claim(q) \/ Build(q) \/ Use(q) \/ Around(q)
      PROVE TypeOK'
  <2>1. CASE BeginAttach(q)
    BY <2>1 DEF BeginAttach
  <2>2. CASE AttachAgain(q)
    BY <2>2 DEF AttachAgain
  <2>3. CASE RefuseMerge(q)
    BY <2>3 DEF RefuseMerge
  <2>4. CASE MoveTree(q)
    BY <2>4 DEF MoveTree, Ownership
  <2>5. CASE LinkTree(q)
    BY <2>5 DEF LinkTree
  <2>6. CASE MarkTree(q)
    BY <2>6 DEF MarkTree
  <2>7. CASE TakeShared(q)
    BY <2>7 DEF TakeShared
  <2>8. CASE LookForReady(q)
    BY <2>8 DEF LookForReady
  <2>9. CASE WinExclusive(q)
    BY <2>9, ZenonT(60) DEF WinExclusive
  <2>10. CASE LoseExclusive(q)
    BY <2>10 DEF LoseExclusive
  <2>11. CASE ClaimTimesOut(q)
    BY <2>11 DEF ClaimTimesOut
  <2>12. CASE AttachReady(q)
    BY <2>12 DEF AttachReady, Downgraded
  <2>13. CASE RefuseForeign(q)
    BY <2>13 DEF RefuseForeign, Released
  <2>14. CASE LakeUpdate(q)
    BY <2>14 DEF LakeUpdate
  <2>15. CASE BuildFails(q)
    BY <2>15 DEF BuildFails, Released
  <2>16. CASE StagePackages(q)
    BY <2>16 DEF StagePackages
  <2>17. CASE PublishStaging(q)
    BY <2>17 DEF PublishStaging
  <2>18. CASE LinkPromoted(q)
    BY <2>18 DEF LinkPromoted
  <2>19. CASE Commit(q)
    BY <2>19 DEF Commit, Downgraded
  <2>20. CASE MoveBack(q)
    BY <2>20 DEF MoveBack
  <2>21. CASE RemoveUnfinished(q)
    BY <2>21 DEF RemoveUnfinished, Released
  <2>22. CASE BeginTurn(q)
    BY <2>22 DEF BeginTurn
  <2>23. CASE EndTurn(q)
    BY <2>23 DEF EndTurn, Released
  <2>24. CASE BeginVerify(q)
    BY <2>24 DEF BeginVerify, Released
  <2>25. CASE EndVerify(q)
    BY <2>25 DEF EndVerify
  <2>26. CASE EvictBuild(q)
    BY <2>26 DEF EvictBuild, OwnPackages
  <2>27. CASE EvictDebris(q)
    BY <2>27 DEF EvictDebris
  <2>28. CASE DropLink(q)
    BY <2>28 DEF DropLink
  <2>29. CASE RunLake(q)
    BY <2>29 DEF RunLake, OwnPackages
  <2>30. CASE ClearAttachLock(q)
    BY <2>30 DEF ClearAttachLock
  <2>31. CASE Die(q)
    BY <2>31 DEF Die, Released
  <2> QED
    BY <1>3, <2>1, <2>2, <2>3, <2>4, <2>5, <2>6, <2>7, <2>8, <2>9, <2>10, <2>11,
       <2>12, <2>13, <2>14, <2>15, <2>16, <2>17, <2>18, <2>19, <2>20, <2>21, <2>22,
       <2>23, <2>24, <2>25, <2>26, <2>27, <2>28, <2>29, <2>30, <2>31 DEF
       Attach, Claim, Build, Use, Around
<1> QED
  BY <1>1, <1>2, <1>3 DEF Next

\* Every variable keeps its type (cache.py); in particular no builder carries a
\* link away as the packages of the depot.
THEOREM TypeCorrect == Spec => []TypeOK
<1>1. Init => TypeOK
  BY DepotAssumption DEF Init, TypeOK, Contents, Setup, Parts
<1> QED
  BY <1>1, StepTypes, PTL DEF Spec

\* claim_dependency_depot, promote, commit and the collection: under a claim
\* the project's packages are the link to a complete depot.
THEOREM ClaimsAreWhole == Spec => []ClaimedDepotIsWhole
<1>1. Inv => ClaimedDepotIsWhole
  BY DEF Inv, DepotInv
<1> QED
  BY <1>1, InvHolds, PTL

\* attach_project_cache and _replace_managed_packages: no interruption makes
\* the user's packages pass for disposable ones.
THEOREM UserPackagesStay == Spec => UserPackagesKept
<1> DEFINE Kept ==
      \A p \in Projects :
        packages[p] = "user" /\ packages'[p] # "user"
          => pc[p] = "built" \/ p \notin target'
<1>1. Inv /\ [Next]_vars => [Kept]_vars
  <2> SUFFICES ASSUME Inv, Next, NEW p \in Projects,
                      packages[p] = "user", packages'[p] # "user"
               PROVE  pc[p] = "built" \/ p \notin target'
    OBVIOUS
  <2>1. PICK q \in Projects :
          Attach(q) \/ Claim(q) \/ Build(q) \/ Use(q) \/ Around(q)
    BY DEF Next, EvictDepot, data
  <2>2. packages' # packages
    OBVIOUS
  <2>3. CASE AttachReady(q)
    BY <2>3 DEF AttachReady, MayReplace, Inv, DepotInv, Shape, UserInv
  <2>4. CASE LakeUpdate(q)
    BY <2>4 DEF LakeUpdate, Inv, DepotInv, Shape
  <2>5. CASE StagePackages(q)
    BY <2>5 DEF StagePackages, Inv, DepotInv, Shape
  <2>6. CASE LinkPromoted(q)
    BY <2>6 DEF LinkPromoted, Inv, DepotInv, Shape, CarryInv
  <2>7. CASE MoveBack(q)
    BY <2>7 DEF MoveBack, Inv, DepotInv, Shape, CarryInv
  <2>8. CASE EvictBuild(q)
    BY <2>8 DEF EvictBuild, Inv, DepotInv, Shape
  <2>9. CASE RunLake(q)
    BY <2>9 DEF RunLake, Inv, DepotInv, Shape, TargetInv
  <2> QED
    BY <2>1, <2>2, <2>3, <2>4, <2>5, <2>6, <2>7, <2>8, <2>9
    DEF Attach, Claim, Build, Use, Around, BeginAttach, AttachAgain, RefuseMerge,
        MoveTree, LinkTree, MarkTree, TakeShared, LookForReady, WinExclusive,
        LoseExclusive, ClaimTimesOut, RefuseForeign, BuildFails, PublishStaging,
        Commit, RemoveUnfinished, BeginTurn, EndTurn, BeginVerify, EndVerify,
        EvictDebris, DropLink, ClearAttachLock, Die, data
<1> QED
  BY <1>1, InvHolds, PTL DEF Spec, UserPackagesKept
=============================================================================
