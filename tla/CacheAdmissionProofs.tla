------------------------- MODULE CacheAdmissionProofs -------------------------
(***************************************************************************)
(* The promises of CacheAdmission for any number of sessions, any limits   *)
(* and any number of deaths: a live session keeps its reservation, a unit  *)
(* in use is never taken away, and the free-space reserve is kept.         *)
(*                                                                         *)
(* The first two are about the leases only.  The third is about sums: what *)
(* is free less what the sessions have still to write.  A sum is the       *)
(* number of the bytes it counts, so its laws are laws of cardinalities.   *)
(***************************************************************************)
EXTENDS CacheAdmission, FiniteSetTheorems, TLAPS

Stages == {"idle", "queued", "critical", "admitted", "global", "leased", "work",
           "finish", "bulk", "exit"}

Shape ==
  /\ reserved \in [Sessions -> Requests \cup {0}]
  /\ asked \in [Sessions -> Requests \cup {0}]
  /\ used \in [Sessions -> Nat]
  /\ pc \in [Sessions -> Stages]
  /\ held \subseteq Sessions
  /\ globals \subseteq Sessions
  /\ builds \subseteq Sessions

\* Only the holder of the admission lease is in the critical section, so a
\* reservation is dropped by nobody but the owner or the recovery.
OneCritical == \A s \in Sessions : admission = s <=> pc[s] = "critical"

\* A session that works on its trees still has both shared leases.
WorksUnderLeases ==
  \A s \in Sessions :
    /\ pc[s] \in {"global", "leased", "work"} => s \in globals
    /\ pc[s] \in {"leased", "work"} => s \in builds

\* Nothing is written before the leases are held, and a session outside one
\* has written nothing.
WritesOnlyInside ==
  \A s \in Sessions :
    pc[s] \in {"idle", "queued", "critical", "admitted", "global", "leased"}
      => used[s] = 0

LeaseInv ==
  /\ Shape
  /\ OneCritical
  /\ WorksUnderLeases
  /\ WritesOnlyInside
  /\ LiveSessionReserved

LEMMA InitLeases == Init => LeaseInv
  BY CacheAssumption DEF Init, LeaseInv, Shape, Stages, OneCritical,
     WorksUnderLeases, WritesOnlyInside, LiveSessionReserved

\* Reconciling the index concerns the index only.
LEMMA ReconcileFrame ==
  ASSUME NEW s, Reconcile(s)
  PROVE  /\ admission = s /\ stage \in {"reconcile", "index"} /\ stage' \in {"index", "clear"}
         /\ UNCHANGED <<size, present, held, globals, builds, reserved, admission, evicting,
                       usage, measured, used, asked, pc, deaths>>
<1> USE DEF disk, index, leases, local
<1>1. CASE ListUnits(s)
  BY <1>1 DEF ListUnits
<1>2. CASE MarkInUse(s)
  BY <1>2 DEF MarkInUse, Looks
<1>3. CASE MeasureUnit(s)
  BY <1>3 DEF MeasureUnit, Looks
<1>4. CASE RecordUnit(s)
  BY <1>4 DEF RecordUnit, Looks
<1>5. CASE DropUnlisted(s)
  BY <1>5 DEF DropUnlisted, Looks
<1> QED
  BY <1>1, <1>2, <1>3, <1>4, <1>5 DEF Reconcile

LEMMA StepLeases == LeaseInv /\ [Next]_vars => LeaseInv'
<1> SUFFICES ASSUME LeaseInv, [Next]_vars PROVE LeaseInv'
  OBVIOUS
<1>1. LeaseInv
  OBVIOUS
<1>2. CASE UNCHANGED vars
    BY <1>1, <1>2, CacheAssumption DEF LeaseInv, Shape, Stages, OneCritical,
       WorksUnderLeases, WritesOnlyInside, LiveSessionReserved, vars, disk,
       index, leases, local, gc
<1>3. ASSUME NEW s \in Sessions,
             \/ Ask(s) \/ TakeAdmission(s) \/ AdmissionTimesOut(s)
             \/ Critical(s) \/ Session(s) \/ Die(s)
      PROVE LeaseInv'
  <2>1. CASE Ask(s)
    BY <1>1, <2>1, CacheAssumption DEF Ask, LeaseInv, Shape, Stages,
       OneCritical, WorksUnderLeases, WritesOnlyInside, LiveSessionReserved,
       vars, disk, index, leases, local, gc
  <2>2. CASE TakeAdmission(s)
    BY <1>1, <2>2, CacheAssumption DEF TakeAdmission, LeaseInv, Shape,
       Stages, OneCritical, WorksUnderLeases, WritesOnlyInside,
       LiveSessionReserved, vars, disk, index, leases, local, gc
  <2>3. CASE AdmissionTimesOut(s)
    BY <1>1, <2>3, CacheAssumption DEF AdmissionTimesOut, LeaseInv, Shape,
       Stages, OneCritical, WorksUnderLeases, WritesOnlyInside,
       LiveSessionReserved, vars, disk, index, leases, local, gc
  <2>4. CASE Reconcile(s)
    BY <1>1, <2>4, CacheAssumption, ReconcileFrame DEF LeaseInv, Shape, Stages,
       OneCritical, WorksUnderLeases, WritesOnlyInside, LiveSessionReserved,
       vars, disk, index, leases, local, gc
  <2>28. CASE MeasuringTimesOut(s)
    BY <1>1, <2>28, CacheAssumption DEF MeasuringTimesOut, Looks, Leave, LeaseInv,
       Shape, Stages, OneCritical, WorksUnderLeases, WritesOnlyInside,
       LiveSessionReserved, vars, disk, index, leases, local, gc
  <2>5. CASE ClearStale(s)
    BY <1>1, <2>5, CacheAssumption DEF ClearStale, LeaseInv, Shape, Stages,
       OneCritical, WorksUnderLeases, WritesOnlyInside, LiveSessionReserved,
       vars, disk, index, leases, local, gc
  <2>6. CASE RefuseAtOnce(s)
    BY <1>1, <2>6, CacheAssumption DEF RefuseAtOnce, Leave, LeaseInv, Shape,
       Stages, OneCritical, WorksUnderLeases, WritesOnlyInside,
       LiveSessionReserved, vars, disk, index, leases, local, gc
  <2>7. CASE StartEviction(s)
    BY <1>1, <2>7, CacheAssumption DEF StartEviction, LeaseInv, Shape,
       Stages, OneCritical, WorksUnderLeases, WritesOnlyInside,
       LiveSessionReserved, vars, disk, index, leases, local, gc
  <2>8. CASE SkipCandidate(s)
    BY <1>1, <2>8, CacheAssumption DEF SkipCandidate, LeaseInv, Shape,
       Stages, OneCritical, WorksUnderLeases, WritesOnlyInside,
       LiveSessionReserved, vars, disk, index, leases, local, gc
  <2>9. CASE Quarantine(s)
    BY <1>1, <2>9, CacheAssumption DEF Quarantine, LeaseInv, Shape, Stages,
       OneCritical, WorksUnderLeases, WritesOnlyInside, LiveSessionReserved,
       vars, disk, index, leases, local, gc
  <2>10. CASE Discard(s)
    BY <1>1, <2>10, CacheAssumption DEF Discard, LeaseInv, Shape, Stages,
       OneCritical, WorksUnderLeases, WritesOnlyInside, LiveSessionReserved,
       vars, disk, index, leases, local, gc
  <2>11. CASE DeadlineExpires(s)
    BY <1>1, <2>11, CacheAssumption DEF DeadlineExpires, Leave,
       LeaveInTrash, LeaseInv, Shape, Stages, OneCritical, WorksUnderLeases,
       WritesOnlyInside, LiveSessionReserved, vars, disk, index, leases,
       local, gc
  <2>12. CASE Refuse(s)
    BY <1>1, <2>12, CacheAssumption DEF Refuse, Leave, LeaseInv, Shape,
       Stages, OneCritical, WorksUnderLeases, WritesOnlyInside,
       LiveSessionReserved, vars, disk, index, leases, local, gc
  <2>13. CASE CollectionDone(s)
    BY <1>1, <2>13, CacheAssumption DEF CollectionDone, Leave, LeaseInv,
       Shape, Stages, OneCritical, WorksUnderLeases, WritesOnlyInside,
       LiveSessionReserved, vars, disk, index, leases, local, gc
  <2>14. CASE Reserve(s)
    <3>1. asked' = asked /\ used' = used
      BY <1>1, <2>14 DEF Reserve, Leave, LeaseInv, Shape
    <3>2. reserved[s]' = asked[s] /\ pc'[s] = "admitted" /\ used[s] = 0
      BY <1>1, <2>14 DEF Reserve, Leave, LeaseInv, Shape, OneCritical,
         WritesOnlyInside, LiveSessionReserved
    <3>3. Shape'
      BY <1>1, <2>14, <3>1 DEF Reserve, Leave, LeaseInv, Shape, Stages
    <3>4. LiveSessionReserved'
      <4> SUFFICES ASSUME NEW r \in Sessions
                   PROVE  (pc[r] \in {"admitted", "global", "leased", "work",
                                      "finish", "bulk", "exit"}
                            => r \in held /\ reserved[r] = asked[r]
                               /\ used[r] <= reserved[r])'
        BY DEF LiveSessionReserved
      <4>1. CASE r = s
        <5>1. s \in held'
          BY <2>14 DEF Reserve
        <5>2. asked[s] \in Nat
          <6>1. asked[s] \in Requests \cup {0}
            BY <1>1 DEF LeaseInv, Shape
          <6>2. \A n \in Requests : n \in Nat
            BY CacheAssumption
          <6>3. CASE asked[s] = 0
            BY <6>3
          <6> QED
            BY <6>1, <6>2, <6>3
        <5>3. used[s] <= asked[s]
          BY <3>2, <5>2
        <5> QED
          BY <3>1, <3>2, <4>1, <5>1, <5>3
      <4>2. CASE r # s
        BY <1>1, <2>14, <3>1, <4>2 DEF Reserve, Leave, LeaseInv, Shape,
           LiveSessionReserved
      <4> QED
        BY <4>1, <4>2
    <3>5. OneCritical' /\ WorksUnderLeases' /\ WritesOnlyInside'
      BY <1>1, <2>14, <3>1, CacheAssumption DEF Reserve, Leave, LeaseInv, Shape,
         OneCritical, WorksUnderLeases, WritesOnlyInside
    <3> QED
      BY <3>3, <3>4, <3>5 DEF LeaseInv
  <2>15. CASE LeaseGlobal(s)
    BY <1>1, <2>15, CacheAssumption DEF LeaseGlobal, LeaseInv, Shape,
       Stages, OneCritical, WorksUnderLeases, WritesOnlyInside,
       LiveSessionReserved, vars, disk, index, leases, local, gc
  <2>16. CASE LeaseBuild(s)
    BY <1>1, <2>16, CacheAssumption DEF LeaseBuild, LeaseInv, Shape, Stages,
       OneCritical, WorksUnderLeases, WritesOnlyInside, LiveSessionReserved,
       vars, disk, index, leases, local, gc
  <2>17. CASE LeaseTimesOut(s)
    BY <1>1, <2>17, CacheAssumption DEF LeaseTimesOut, LeaseInv, Shape,
       Stages, OneCritical, WorksUnderLeases, WritesOnlyInside,
       LiveSessionReserved, vars, disk, index, leases, local, gc
  <2>18. CASE Attach(s)
    BY <1>1, <2>18, CacheAssumption DEF Attach, LeaseInv, Shape, Stages,
       OneCritical, WorksUnderLeases, WritesOnlyInside, LiveSessionReserved,
       vars, disk, index, leases, local, gc
  <2>19. CASE AttachFails(s)
    BY <1>1, <2>19, CacheAssumption DEF AttachFails, LeaseInv, Shape,
       Stages, OneCritical, WorksUnderLeases, WritesOnlyInside,
       LiveSessionReserved, vars, disk, index, leases, local, gc
  <2>20. CASE Grow(s)
    BY <1>1, <2>20, CacheAssumption DEF Grow, LeaseInv, Shape, Stages,
       OneCritical, WorksUnderLeases, WritesOnlyInside, LiveSessionReserved,
       vars, disk, index, leases, local, gc
  <2>21. CASE Finish(s)
    BY <1>1, <2>21, CacheAssumption DEF Finish, LeaseInv, Shape, Stages,
       OneCritical, WorksUnderLeases, WritesOnlyInside, LiveSessionReserved,
       vars, disk, index, leases, local, gc
  <2>22. CASE RefreshBuild(s)
    BY <1>1, <2>22, CacheAssumption DEF RefreshBuild, LeaseInv, Shape,
       Stages, OneCritical, WorksUnderLeases, WritesOnlyInside,
       LiveSessionReserved, vars, disk, index, leases, local, gc
  <2>23. CASE MeasureBulk(s)
    BY <1>1, <2>23, CacheAssumption DEF MeasureBulk, LeaseInv, Shape,
       Stages, OneCritical, WorksUnderLeases, WritesOnlyInside,
       LiveSessionReserved, vars, disk, index, leases, local, gc
  <2>24. CASE RecordBulk(s)
    BY <1>1, <2>24, CacheAssumption DEF RecordBulk, LeaseInv, Shape, Stages,
       OneCritical, WorksUnderLeases, WritesOnlyInside, LiveSessionReserved,
       vars, disk, index, leases, local, gc
  <2>25. CASE NoBulkToRecord(s)
    BY <1>1, <2>25, CacheAssumption DEF NoBulkToRecord, LeaseInv, Shape,
       Stages, OneCritical, WorksUnderLeases, WritesOnlyInside,
       LiveSessionReserved, vars, disk, index, leases, local, gc
  <2>26. CASE Release(s)
    BY <1>1, <2>26, CacheAssumption DEF Release, LeaseInv, Shape, Stages,
       OneCritical, WorksUnderLeases, WritesOnlyInside, LiveSessionReserved,
       vars, disk, index, leases, local, gc
  <2>27. CASE Die(s)
    BY <1>1, <2>27, CacheAssumption DEF Die, LeaveInTrash, LeaseInv, Shape,
       Stages, OneCritical, WorksUnderLeases, WritesOnlyInside,
       LiveSessionReserved, vars, disk, index, leases, local, gc
  <2> QED
    BY <1>3, <2>1, <2>2, <2>3, <2>4, <2>5, <2>6, <2>7, <2>8, <2>9, <2>10,
       <2>11, <2>12, <2>13, <2>14, <2>15, <2>16, <2>17, <2>18, <2>19, <2>20,
       <2>21, <2>22, <2>23, <2>24, <2>25, <2>26, <2>27, <2>28 DEF Critical, Session
<1> QED
  BY <1>2, <1>3 DEF Next

LEMMA LeasesHold == Spec => []LeaseInv
  BY InitLeases, StepLeases, PTL DEF Spec

\* reserve_cache_capacity and _clear_stale_reservations: no interleaving of
\* admissions, recoveries and deaths takes the reservation of a live session.
THEOREM ReservationsSurvive == Spec => []LiveSessionReserved
<1>1. LeaseInv => LiveSessionReserved
  BY DEF LeaseInv
<1> QED
  BY <1>1, LeasesHold, PTL

\* _garbage_collect_cache_locked and managed_project_session: no collection
\* takes away a tree some session is attaching or writing.
THEOREM ActiveUnitsStay == Spec => ActiveNotEvicted
<1> DEFINE Kept ==
      \A u \in Units : evicting' = u /\ evicting # u =>
        \A s \in Sessions : u \in {s, Bulk, Trash} =>
          pc[s] \notin {"leased", "work"}
<1>1. LeaseInv /\ [Next]_vars => [Kept]_vars
  <2> SUFFICES ASSUME LeaseInv, Next PROVE Kept
    OBVIOUS
  <2>1. PICK r \in Sessions :
          \/ Ask(r) \/ TakeAdmission(r) \/ AdmissionTimesOut(r)
          \/ Critical(r) \/ Session(r) \/ Die(r)
    BY DEF Next
  <2>2. CASE Quarantine(r)
    <3>1. PICK u \in NextCandidates : Leasable(u) /\ evicting' = u
      BY <2>2 DEF Quarantine
    <3>2. ASSUME NEW s \in Sessions, u \in {s, Bulk, Trash}
          PROVE pc[s] \notin {"leased", "work"}
      BY <3>1, <3>2, CacheAssumption
      DEF Leasable, LeaseInv, WorksUnderLeases
    <3> QED
      BY <3>1, <3>2
  <2>3. CASE ~Quarantine(r)
    <3>1. evicting' \in {evicting, None}
      BY <2>1, <2>3, ReconcileFrame DEF Ask, TakeAdmission, AdmissionTimesOut, Critical, Session,
         ClearStale, RefuseAtOnce, MeasuringTimesOut, StartEviction, SkipCandidate,
         Discard, DeadlineExpires, Refuse, CollectionDone, Reserve, Leave,
         LeaseGlobal, LeaseBuild, LeaseTimesOut, Attach, AttachFails, Grow,
         Finish, RefreshBuild, MeasureBulk, RecordBulk, NoBulkToRecord, Release,
         Die, gc
    <3> QED
      BY <3>1, CacheAssumption DEF Units
  <2> QED
    BY <2>2, <2>3
<1> QED
  BY <1>1, LeasesHold, PTL DEF Spec, ActiveNotEvicted

-----------------------------------------------------------------------------
(* Sums.                                                                   *)

LEMMA RowBytes ==
  ASSUME NEW x, NEW n \in Nat
  PROVE  IsFiniteSet({x} \X (1 .. n)) /\ Cardinality({x} \X (1 .. n)) = n
<1>1. IsFiniteSet({x}) /\ Cardinality({x}) = 1
  BY FS_Singleton
<1>2. IsFiniteSet(1 .. n) /\ Cardinality(1 .. n) = n
  BY FS_Interval
<1>3. Cardinality({x} \X (1 .. n)) = Cardinality({x}) * Cardinality(1 .. n)
  BY <1>1, <1>2, FS_Product
<1>4. IsFiniteSet({x} \X (1 .. n))
  BY <1>1, <1>2, FS_Product
<1> QED
  BY <1>1, <1>2, <1>3, <1>4

LEMMA BytesAreFinite ==
  ASSUME NEW S, IsFiniteSet(S), NEW f \in [S -> Nat]
  PROVE  IsFiniteSet(Bytes(f)) /\ Total(f) \in Nat
<1> DEFINE g == [x \in S |-> {x} \X (1 .. f[x])]
           T == {g[x] : x \in S}
<1>1. g \in Surjection(S, T)
  BY DEF Surjection
<1>2. IsFiniteSet(T)
  BY <1>1, FS_Surjection
<1>3. ASSUME NEW x \in S  PROVE IsFiniteSet({x} \X (1 .. f[x]))
  BY RowBytes
<1>4. \A t \in T : IsFiniteSet(t)
  BY <1>3
<1>5. Bytes(f) = UNION T
  BY DEF Bytes
<1> HIDE DEF T
<1>6. IsFiniteSet(Bytes(f))
  BY <1>2, <1>4, <1>5, FS_UNION
<1> QED
  BY <1>6, FS_CardinalityType DEF Total

\* What is counted for everybody but x.
OthersBytes(f, x) == UNION {{y} \X (1 .. f[y]) : y \in DOMAIN f \ {x}}

LEMMA TotalSplit ==
  ASSUME NEW S, IsFiniteSet(S), NEW f \in [S -> Nat], NEW x \in S
  PROVE  /\ Cardinality(OthersBytes(f, x)) \in Nat
         /\ Total(f) = Cardinality(OthersBytes(f, x)) + f[x]
<1> DEFINE R == OthersBytes(f, x)
           X == {x} \X (1 .. f[x])
<1>1. Bytes(f) = R \cup X /\ R \cap X = {}
  BY DEF Bytes, OthersBytes
<1>2. IsFiniteSet(X) /\ Cardinality(X) = f[x]
  BY RowBytes
<1>3. IsFiniteSet(Bytes(f))
  BY BytesAreFinite
<1> HIDE DEF R, X
<1>4. IsFiniteSet(R) /\ Cardinality(R) \in Nat
  <2>1. R \in SUBSET Bytes(f)
    BY <1>1
  <2> QED
    BY <1>3, <2>1, FS_Subset, FS_CardinalityType
<1>5. Cardinality(R \cup X) = Cardinality(R) + Cardinality(X) - Cardinality(R \cap X)
  BY <1>2, <1>4, FS_Union
<1>6. Cardinality(R \cap X) = 0
  BY <1>1, FS_EmptySet
<1>7. Total(f) = Cardinality(R) + f[x]
  BY <1>1, <1>2, <1>4, <1>5, <1>6 DEF Total
<1> QED
  BY <1>4, <1>7 DEF R

\* A sum changes by what one of its parts changes.
LEMMA TotalUpdate ==
  ASSUME NEW S, IsFiniteSet(S), NEW f \in [S -> Nat], NEW x \in S, NEW k \in Nat
  PROVE  Total([f EXCEPT ![x] = k]) = Total(f) - f[x] + k
<1> DEFINE g == [f EXCEPT ![x] = k]
<1>1. g \in [S -> Nat] /\ g[x] = k /\ \A y \in S \ {x} : g[y] = f[y]
  OBVIOUS
<1> HIDE DEF g
<1>2. OthersBytes(g, x) = OthersBytes(f, x)
  BY <1>1 DEF OthersBytes
<1>3. Total(g) = Cardinality(OthersBytes(g, x)) + g[x]
  BY <1>1, TotalSplit
<1>4. Total(f) = Cardinality(OthersBytes(f, x)) + f[x] /\ Cardinality(OthersBytes(f, x)) \in Nat
  BY TotalSplit
<1> QED
  BY <1>1, <1>2, <1>3, <1>4 DEF g

\* No part is more than the sum.
LEMMA PartOfTotal ==
  ASSUME NEW S, IsFiniteSet(S), NEW f \in [S -> Nat], NEW x \in S
  PROVE  f[x] <= Total(f)
BY TotalSplit

\* A sum grows with its parts.
LEMMA TotalMonotone ==
  ASSUME NEW S, IsFiniteSet(S), NEW f \in [S -> Nat], NEW g \in [S -> Nat],
         \A x \in S : f[x] <= g[x]
  PROVE  Total(f) <= Total(g)
<1>1. Bytes(f) \in SUBSET Bytes(g)
  BY DEF Bytes
<1>2. IsFiniteSet(Bytes(g))
  BY BytesAreFinite
<1> QED
  BY <1>1, <1>2, FS_Subset DEF Total

LEMMA TotalOfNothing ==
  ASSUME NEW S
  PROVE  Total([x \in S |-> 0]) = 0
<1>1. Bytes([x \in S |-> 0]) = {}
  BY DEF Bytes
<1> QED
  BY <1>1, FS_EmptySet DEF Total

-----------------------------------------------------------------------------
(* The free-space reserve.                                                 *)

Live == {"admitted", "global", "leased", "work", "finish", "bulk", "exit"}

\* What is still to be written by each session.
Owed == [s \in Sessions |-> IF s \in held THEN asked[s] - used[s] ELSE 0]

HeldByLiving == \A s \in held : pc[s] \in Live

\* The totals in memory are those of the holder of the admission lease, from the
\* moment it has recovered the reservations; a quarantined tree counts until it
\* is deleted.
SectionInv ==
  /\ admission = None <=> stage = "closed"
  /\ stage \notin {"judge", "evict"} => usage = NoUsage
  /\ evicting # None => stage = "evict"
  /\ evicting = None => usage.moved = 0

\* Since the totals were taken the sessions have only used up what they had
\* reserved, so what was free less what was reserved is still there.
JudgedInv ==
  stage \in {"judge", "evict"} =>
    /\ Outstanding <= usage.reserved
    /\ usage.free - usage.reserved <= Free - Outstanding

SpaceInv == HeldByLiving /\ SectionInv /\ JudgedInv /\ FreeSpaceKept

CacheInv == TypeOK /\ LeaseInv /\ SpaceInv

\* A session owes at most what it has reserved, and nothing without its lease.
LEMMA OwedFacts ==
  ASSUME LeaseInv, HeldByLiving
  PROVE  /\ Owed \in [Sessions -> Nat] /\ Outstanding = Total(Owed)
         /\ \A s \in Sessions : s \in held =>
              /\ Owed[s] = asked[s] - used[s] /\ Owed[s] <= reserved[s]
              /\ reserved[s] = asked[s] /\ pc[s] \in Live
         /\ \A s \in Sessions : s \notin held => Owed[s] = 0 /\ pc[s] \notin Live
         /\ \A s \in Sessions : asked[s] \in Nat /\ used[s] \in Nat /\ reserved[s] \in Nat
<1>1. \A n \in Requests \cup {0} : n \in Nat
  BY CacheAssumption
<1>2. \A s \in Sessions : asked[s] \in Nat /\ used[s] \in Nat /\ reserved[s] \in Nat
  BY <1>1 DEF LeaseInv, Shape
<1>3. ASSUME NEW s \in Sessions, s \in held
      PROVE  /\ pc[s] \in Live /\ reserved[s] = asked[s]
             /\ asked[s] - used[s] \in Nat /\ asked[s] - used[s] <= reserved[s]
  <2>1. pc[s] \in Live
    BY <1>3 DEF HeldByLiving
  <2>2. reserved[s] = asked[s] /\ used[s] <= reserved[s]
    BY <2>1 DEF LeaseInv, LiveSessionReserved, Live
  <2> QED
    BY <1>2, <2>1, <2>2
<1>4. ASSUME NEW s \in Sessions, s \notin held  PROVE pc[s] \notin Live
  BY <1>4 DEF LeaseInv, LiveSessionReserved, Live
<1>5. Outstanding = Total(Owed)
  BY DEF Outstanding, Owed
<1>6. Owed \in [Sessions -> Nat]
  BY <1>3 DEF Owed
<1> QED
  BY <1>2, <1>3, <1>4, <1>5, <1>6 DEF Owed

\* What a part of the disk becomes, with what is being deleted.
LEMMA FreeUnmoved ==
  ASSUME size' = size, usage'.moved = usage.moved
  PROVE  Free' = Free
BY DEF Free

LEMMA Sizes ==
  ASSUME TypeOK
  PROVE  /\ size \in [Units -> Nat] /\ IsFiniteSet(Units) /\ IsFiniteSet(Sessions)
         /\ Total(size) \in Nat /\ usage.moved \in Nat /\ Free \in Int
<1>1. size \in [Units -> Nat] /\ usage.moved \in Nat
  BY CacheAssumption DEF TypeOK
<1>2. IsFiniteSet(Sessions)
  BY CacheAssumption
<1>3. IsFiniteSet(Sessions \cup {Bulk, Trash})
  <2>1. IsFiniteSet((Sessions \cup {Bulk}) \cup {Trash})
    BY <1>2, FS_AddElement
  <2>2. (Sessions \cup {Bulk}) \cup {Trash} = Sessions \cup {Bulk, Trash}
    OBVIOUS
  <2> QED
    BY <2>1, <2>2
<1>4. Total(size) \in Nat
  BY <1>1, <1>3, BytesAreFinite DEF Units
<1> QED
  BY <1>1, <1>2, <1>3, <1>4, CacheAssumption DEF Free, Units

\* The reserve survives what neither takes from the free bytes nor owes more.
LEMMA NoMoreOwed ==
  ASSUME CacheInv, Owed' \in [Sessions -> Nat], \A s \in Sessions : Owed'[s] <= Owed[s]
  PROVE  /\ Outstanding' <= Outstanding /\ Outstanding \in Nat /\ Outstanding' \in Nat
<1>1. Owed \in [Sessions -> Nat] /\ Outstanding = Total(Owed)
  BY OwedFacts DEF CacheInv, SpaceInv
<1>2. Outstanding' = Total(Owed')
  BY DEF Outstanding, Owed
<1>3. IsFiniteSet(Sessions)
  BY CacheAssumption
<1> QED
  BY <1>1, <1>2, <1>3, TotalMonotone, BytesAreFinite

\* The steps that neither write, nor reserve, nor give back.
Quiet(s) ==
  \/ Ask(s) \/ TakeAdmission(s) \/ AdmissionTimesOut(s)
  \/ Reconcile(s) \/ MeasuringTimesOut(s) \/ RefuseAtOnce(s) \/ StartEviction(s)
  \/ SkipCandidate(s)
  \/ Refuse(s) \/ CollectionDone(s)
  \/ LeaseGlobal(s) \/ LeaseBuild(s) \/ LeaseTimesOut(s) \/ Attach(s)
  \/ AttachFails(s) \/ Finish(s) \/ RefreshBuild(s)
  \/ MeasureBulk(s) \/ RecordBulk(s) \/ NoBulkToRecord(s)

LEMMA OwedStays ==
  ASSUME CacheInv, held' = held, used' = used, \A s \in held : asked'[s] = asked[s]
  PROVE  Outstanding' = Outstanding
<1>1. held \subseteq Sessions
  BY DEF CacheInv, LeaseInv, Shape
<1>2. [s \in Sessions |-> IF s \in held' THEN asked'[s] - used'[s] ELSE 0]
        = [s \in Sessions |-> IF s \in held THEN asked[s] - used[s] ELSE 0]
  BY <1>1
<1> QED
  BY <1>2 DEF Outstanding

LEMMA QuietSteps ==
  ASSUME CacheInv, NEW s \in Sessions, Quiet(s)
  PROVE  Free' = Free /\ Outstanding' = Outstanding
<1>1. size' = size /\ held' = held /\ used' = used
  BY ReconcileFrame DEF Quiet, Ask, TakeAdmission, AdmissionTimesOut, RefuseAtOnce, MeasuringTimesOut, Looks,
     StartEviction, SkipCandidate, Refuse, CollectionDone, LeaseGlobal,
     LeaseBuild, LeaseTimesOut, Attach, AttachFails, Finish, RefreshBuild,
     MeasureBulk, RecordBulk, NoBulkToRecord, disk, leases, local
<1>2. usage'.moved = usage.moved
  <2>1. evicting = None => usage.moved = 0
    BY DEF CacheInv, SpaceInv, SectionInv
  <2>2. stage \in {"judge", "index"} => evicting = None
    BY DEF CacheInv, SpaceInv, SectionInv
  <2>3. \/ usage' = usage
        \/ usage' = NoUsage /\ evicting = None
        \/ \E u \in NextCandidates : usage' = [usage EXCEPT !.todo = @ \ {u}]
    BY <2>2, ReconcileFrame DEF Quiet, Ask, TakeAdmission, AdmissionTimesOut, RefuseAtOnce, MeasuringTimesOut, Looks,
       StartEviction, SkipCandidate, Refuse, CollectionDone, LeaseGlobal,
       LeaseBuild, LeaseTimesOut, Attach, AttachFails, Finish, RefreshBuild,
       MeasureBulk, RecordBulk, NoBulkToRecord, gc, Leave
  <2>4. usage \in [managed : Nat, free : 0..Disk, reserved : Nat,
                   dirty : SUBSET Units, todo : SUBSET Units, moved : 0..Disk]
    BY DEF CacheInv, TypeOK
  <2>5. NoUsage.moved = 0
    BY DEF NoUsage
  <2>6. \A u \in NextCandidates : [usage EXCEPT !.todo = @ \ {u}].moved = usage.moved
    BY <2>4
  <2> QED
    BY <2>1, <2>3, <2>5, <2>6
<1>3. \A r \in held : asked'[r] = asked[r]
  <2>1. \A r \in held : r \in Sessions /\ pc[r] \in Live
    BY DEF CacheInv, SpaceInv, HeldByLiving, LeaseInv, Shape
  <2>2. \A r \in Sessions : admission = r <=> pc[r] = "critical"
    BY DEF CacheInv, LeaseInv, OneCritical
  <2>3. asked \in [Sessions -> Requests \cup {0}]
    BY DEF CacheInv, TypeOK
  <2>4. asked' = asked \/ pc[s] \in {"idle", "queued", "critical"}
    BY <2>2, ReconcileFrame DEF Quiet, Ask, TakeAdmission, AdmissionTimesOut, RefuseAtOnce, MeasuringTimesOut, Looks,
       StartEviction, SkipCandidate, Refuse, CollectionDone, LeaseGlobal,
       LeaseBuild, LeaseTimesOut, Attach, AttachFails, Finish, RefreshBuild,
       MeasureBulk, RecordBulk, NoBulkToRecord, local
  <2>5. \A r \in Sessions \ {s} : asked'[r] = asked[r]
    BY <2>3, ReconcileFrame DEF Quiet, Ask, TakeAdmission, AdmissionTimesOut, RefuseAtOnce, MeasuringTimesOut, Looks,
       StartEviction, SkipCandidate, Refuse, CollectionDone, LeaseGlobal,
       LeaseBuild, LeaseTimesOut, Attach, AttachFails, Finish, RefreshBuild,
       MeasureBulk, RecordBulk, NoBulkToRecord, local, Leave
  <2> QED
    BY <2>1, <2>4, <2>5 DEF Live
<1> QED
  BY <1>1, <1>2, <1>3, FreeUnmoved, OwedStays

\* The reservation lease is taken on admission and lost on release or death.
LEMMA HeldStep ==
  ASSUME CacheInv, Next
  PROVE  HeldByLiving'
<1>1. held \subseteq Sessions /\ pc \in [Sessions -> Stages]
  BY DEF CacheInv, LeaseInv, Shape
<1>2. \A s \in held : pc[s] \in Live
  BY DEF CacheInv, SpaceInv, HeldByLiving
<1>3. \A s \in Sessions : admission = s <=> pc[s] = "critical"
  BY DEF CacheInv, LeaseInv, OneCritical
<1>4. PICK s \in Sessions :
        \/ Ask(s) \/ TakeAdmission(s) \/ AdmissionTimesOut(s)
        \/ Critical(s) \/ Session(s) \/ Die(s)
  BY DEF Next
<1>5. \A r \in Sessions \ {s} : pc'[r] = pc[r]
  BY <1>1, <1>4, ReconcileFrame DEF Critical, Session, Ask, TakeAdmission, AdmissionTimesOut,
     ClearStale, RefuseAtOnce, MeasuringTimesOut, StartEviction, SkipCandidate, Quarantine,
     Discard, DeadlineExpires, Refuse, CollectionDone, Reserve, Leave, LeaseGlobal,
     LeaseBuild, LeaseTimesOut, Attach, AttachFails, Grow, Finish, RefreshBuild,
     MeasureBulk, RecordBulk, NoBulkToRecord, Release, Die
<1>6. held' \subseteq held \cup {s}
  <2>1. Ask(s) \/ TakeAdmission(s) \/ AdmissionTimesOut(s) \/ Die(s) => held' \subseteq held
    BY DEF Ask, TakeAdmission, AdmissionTimesOut, Die, leases
  <2>2. Critical(s) => held' \subseteq held \cup {s}
    BY ReconcileFrame DEF Critical, ClearStale, RefuseAtOnce, MeasuringTimesOut,
       StartEviction, SkipCandidate, Quarantine, Discard, DeadlineExpires, Refuse,
       CollectionDone, Reserve, leases
  <2>3. Session(s) => held' \subseteq held
    BY DEF Session, LeaseGlobal, LeaseBuild, LeaseTimesOut, Attach, AttachFails, Grow,
       Finish, RefreshBuild, MeasureBulk, RecordBulk, NoBulkToRecord, Release, leases
  <2> QED
    BY <1>4, <2>1, <2>2, <2>3
<1>7. s \in held' => pc'[s] \in Live
  <2>1. CASE s \in held
    <3>1. pc[s] \in Live /\ admission # s
      BY <1>2, <1>3, <2>1 DEF Live
    <3>2. ~Critical(s)
      BY <3>1 DEF Critical, Reconcile, ListUnits, MarkInUse, MeasureUnit, RecordUnit,
         DropUnlisted, Looks, ClearStale, RefuseAtOnce, MeasuringTimesOut, StartEviction,
         SkipCandidate, Quarantine, Discard, DeadlineExpires, Refuse, CollectionDone,
         Reserve
    <3> QED
      BY <1>1, <1>4, <3>1, <3>2 DEF Live, Session, Ask, TakeAdmission, AdmissionTimesOut,
         LeaseGlobal, LeaseBuild, LeaseTimesOut, Attach, AttachFails, Grow, Finish,
         RefreshBuild, MeasureBulk, RecordBulk, NoBulkToRecord, Release, Die
  <2>2. CASE s \notin held
    <3>1. Reserve(s) \/ s \notin held'
      BY <1>4, <2>2, ReconcileFrame DEF Critical, Session, Ask, TakeAdmission, AdmissionTimesOut,
         ClearStale, RefuseAtOnce, MeasuringTimesOut, StartEviction, SkipCandidate, Quarantine,
         Discard, DeadlineExpires, Refuse, CollectionDone, LeaseGlobal,
         LeaseBuild, LeaseTimesOut, Attach, AttachFails, Grow, Finish, RefreshBuild,
         MeasureBulk, RecordBulk, NoBulkToRecord, Release, Die, leases
    <3> QED
      BY <1>1, <3>1 DEF Reserve, Leave, Live
  <2> QED
    BY <2>1, <2>2
<1>8. ASSUME NEW r \in held'  PROVE pc'[r] \in Live
  BY <1>1, <1>2, <1>5, <1>6, <1>7, <1>8
<1> QED
  BY <1>8 DEF HeldByLiving

LEMMA SectionStep ==
  ASSUME CacheInv, Next
  PROVE  SectionInv'
<1>1. PICK s \in Sessions :
        \/ Ask(s) \/ TakeAdmission(s) \/ AdmissionTimesOut(s)
        \/ Critical(s) \/ Session(s) \/ Die(s)
  BY DEF Next
<1>2. SectionInv
  BY DEF CacheInv, SpaceInv
<1>3. usage \in [managed : Nat, free : 0..Disk, reserved : Nat,
                 dirty : SUBSET Units, todo : SUBSET Units, moved : 0..Disk]
  BY DEF CacheInv, TypeOK
<1>4. None \notin Sessions
  BY CacheAssumption
<1>5. NoUsage.moved = 0
  BY DEF NoUsage
<1>6. CASE UNCHANGED <<admission, stage, evicting, usage>>
  BY <1>2, <1>6 DEF SectionInv
<1>7. CASE UNCHANGED evicting /\ UNCHANGED usage /\ (TakeAdmission(s) \/ StartEviction(s) \/ Reconcile(s))
  BY <1>2, <1>4, <1>7, ReconcileFrame DEF SectionInv, TakeAdmission, StartEviction
<1>8. CASE admission' = None /\ stage' = "closed" /\ evicting' = None /\ usage' = NoUsage
  BY <1>5, <1>8 DEF SectionInv
<1>9. CASE ClearStale(s)
  <2>1. usage'.moved = 0 /\ evicting' = evicting /\ stage' = "judge" /\ admission' = s
    BY <1>9 DEF ClearStale
  <2>2. evicting = None
    BY <1>2, <1>9 DEF SectionInv, ClearStale
  <2> QED
    BY <1>4, <2>1, <2>2 DEF SectionInv
<1>10. CASE SkipCandidate(s)
  <2>1. usage'.moved = usage.moved /\ UNCHANGED <<admission, stage, evicting>>
           /\ stage = "evict"
    BY <1>3, <1>10 DEF SkipCandidate
  <2> QED
    BY <1>2, <2>1 DEF SectionInv
<1>11. CASE Quarantine(s)
  <2>1. evicting' # None /\ UNCHANGED <<admission, stage>> /\ stage = "evict"
    <3>1. PICK u \in NextCandidates : evicting' = u
      BY <1>11 DEF Quarantine
    <3>2. NextCandidates \subseteq Units
      BY <1>3 DEF NextCandidates, Units
    <3> QED
      BY <1>11, <3>1, <3>2, CacheAssumption DEF Quarantine, Units
  <2> QED
    BY <1>2, <2>1 DEF SectionInv
<1>12. CASE Discard(s)
  <2>1. usage'.moved = 0 /\ evicting' = None /\ stage = "evict"
           /\ UNCHANGED <<admission, stage>>
    BY <1>2, <1>3, <1>12 DEF Discard, SectionInv
  <2> QED
    BY <1>2, <2>1 DEF SectionInv
<1> QED
  BY <1>1, <1>6, <1>7, <1>8, <1>9, <1>10, <1>11, <1>12, ReconcileFrame DEF Critical, Session, Ask,
     TakeAdmission, AdmissionTimesOut, RefuseAtOnce, MeasuringTimesOut, StartEviction,
     DeadlineExpires, Refuse, CollectionDone, Reserve, Leave, LeaseGlobal,
     LeaseBuild, LeaseTimesOut, Attach, AttachFails, Grow, Finish, RefreshBuild,
     MeasureBulk, RecordBulk, NoBulkToRecord, Release, Die, gc

\* What the other sessions owe is not changed by a step of one.
LEMMA OwedUpdate ==
  ASSUME CacheInv, NEW s \in Sessions, NEW k \in Nat,
         \A r \in Sessions \ {s} : (r \in held' <=> r \in held)
                                    /\ asked'[r] = asked[r] /\ used'[r] = used[r],
         (IF s \in held' THEN asked'[s] - used'[s] ELSE 0) = k
  PROVE  Outstanding' = Outstanding - Owed[s] + k /\ Outstanding \in Nat
<1>1. Owed \in [Sessions -> Nat] /\ Outstanding = Total(Owed)
  BY OwedFacts DEF CacheInv, SpaceInv
<1>2. [r \in Sessions |-> IF r \in held' THEN asked'[r] - used'[r] ELSE 0]
        = [Owed EXCEPT ![s] = k]
  BY DEF Owed
<1>3. Outstanding' = Total([Owed EXCEPT ![s] = k])
  BY <1>2 DEF Outstanding
<1>4. IsFiniteSet(Sessions)
  BY CacheAssumption
<1>5. Total([Owed EXCEPT ![s] = k]) = Total(Owed) - Owed[s] + k
  BY <1>1, <1>4, TotalUpdate, ZenonT(60)
<1>6. Total(Owed) \in Nat
  BY <1>1, <1>4, BytesAreFinite
<1> QED
  BY <1>1, <1>3, <1>5, <1>6

\* What one unit gains or loses is what the disk gains or loses.
LEMMA SizeUpdate ==
  ASSUME TypeOK, NEW u \in Units, NEW k \in Nat, size' = [size EXCEPT ![u] = k]
  PROVE  Total(size') = Total(size) - size[u] + k
<1>1. size \in [Units -> Nat] /\ IsFiniteSet(Units)
  BY Sizes
<1>2. Total([size EXCEPT ![u] = k]) = Total(size) - size[u] + k
  BY <1>1, TotalUpdate
<1> QED
  BY <1>2

\* A deletion cut short moves its bytes, it frees none.
LEMMA TrashKeepsTheBytes ==
  ASSUME CacheInv, LeaveInTrash, usage' = NoUsage
  PROVE  Free' = Free
<1>1. size \in [Units -> Nat] /\ IsFiniteSet(Units) /\ usage.moved \in Nat
        /\ Total(size) \in Nat
  BY Sizes DEF CacheInv
<1>2. Trash \in Units
  BY DEF Units
<1> DEFINE k == size[Trash] + usage.moved
<1>3. k \in Nat /\ size' = [size EXCEPT ![Trash] = k]
  BY <1>1, <1>2 DEF LeaveInTrash
<1>4. Total(size') = Total(size) - size[Trash] + k
  <2> HIDE DEF k
  <2>1. TypeOK
    BY DEF CacheInv
  <2> QED
    BY <1>2, <1>3, <2>1, SizeUpdate
<1>5. usage'.moved = 0
  BY DEF NoUsage
<1>6. Free' = Disk - Total(size') - usage'.moved
  BY DEF Free
<1> QED
  BY <1>1, <1>2, <1>4, <1>5, <1>6, CacheAssumption DEF Free

\* No step but an admission takes anything from what is free and not owed.
LEMMA BudgetStep ==
  ASSUME CacheInv, NEW s \in Sessions, ~Reserve(s),
         \/ Ask(s) \/ TakeAdmission(s) \/ AdmissionTimesOut(s)
         \/ Critical(s) \/ Session(s) \/ Die(s)
  PROVE  /\ Outstanding \in Nat /\ Outstanding' \in Nat /\ Free \in Int /\ Free' \in Int
         /\ Outstanding' <= Outstanding
         /\ Free - Outstanding <= Free' - Outstanding'
<1>1. /\ size \in [Units -> Nat] /\ IsFiniteSet(Units) /\ IsFiniteSet(Sessions)
      /\ Total(size) \in Nat /\ usage.moved \in Nat /\ Free \in Int
  BY Sizes DEF CacheInv
<1>2. /\ Owed \in [Sessions -> Nat] /\ Outstanding = Total(Owed)
      /\ \A r \in Sessions : r \in held =>
           /\ Owed[r] = asked[r] - used[r] /\ Owed[r] <= reserved[r]
           /\ reserved[r] = asked[r] /\ pc[r] \in Live
      /\ \A r \in Sessions : r \notin held => Owed[r] = 0 /\ pc[r] \notin Live
      /\ \A r \in Sessions : asked[r] \in Nat /\ used[r] \in Nat /\ reserved[r] \in Nat
  BY OwedFacts DEF CacheInv, SpaceInv
<1>3. Outstanding \in Nat
  BY <1>1, <1>2, BytesAreFinite
<1>4. usage \in [managed : Nat, free : 0..Disk, reserved : Nat,
                 dirty : SUBSET Units, todo : SUBSET Units, moved : 0..Disk]
  BY DEF CacheInv, TypeOK
<1>5. SectionInv
  BY DEF CacheInv, SpaceInv
<1>6. /\ asked \in [Sessions -> Requests \cup {0}] /\ used \in [Sessions -> Nat]
      /\ held \subseteq Sessions
  BY DEF CacheInv, LeaseInv, Shape
<1>7. CASE Quiet(s)
  BY <1>1, <1>3, <1>7, QuietSteps
<1>8. CASE ClearStale(s)
  <2>1. size' = size /\ held' = held /\ used' = used /\ asked' = asked
    BY <1>8 DEF ClearStale, disk, leases, local
  <2>2. usage'.moved = 0 /\ usage.moved = 0
    BY <1>5, <1>8 DEF ClearStale, SectionInv
  <2> QED
    BY <1>1, <1>3, <2>1, <2>2, FreeUnmoved, OwedStays
<1>9. CASE Quarantine(s)
  <2>1. held' = held /\ used' = used /\ asked' = asked
    BY <1>9 DEF Quarantine, leases, local
  <2>2. PICK u \in NextCandidates : /\ usage' = [usage EXCEPT !.moved = size[u]]
                                    /\ size' = [size EXCEPT ![u] = 0]
    BY <1>9 DEF Quarantine
  <2>3. u \in Units
    BY <1>4, <2>2 DEF NextCandidates, Units
  <2>4. usage.moved = 0
    BY <1>5, <1>9 DEF Quarantine, SectionInv
  <2>5. Total(size') = Total(size) - size[u] + 0
    <3>1. TypeOK
      BY DEF CacheInv
    <3> QED
      BY <2>2, <2>3, <3>1, SizeUpdate
  <2>6. usage'.moved = size[u]
    BY <1>4, <2>2
  <2>7. Free' = Disk - Total(size') - usage'.moved
    BY DEF Free
  <2>8. Free' = Free
    BY <1>1, <2>3, <2>4, <2>5, <2>6, <2>7, CacheAssumption DEF Free
  <2> QED
    BY <1>1, <1>3, <2>1, <2>8, OwedStays
<1>10. CASE Discard(s)
  <2>1. held' = held /\ used' = used /\ asked' = asked /\ size' = size
    BY <1>10 DEF Discard, disk, leases, local
  <2>2. usage'.moved = 0
    BY <1>4, <1>10 DEF Discard
  <2>3. Free' = Disk - Total(size) - 0
    BY <2>1, <2>2 DEF Free
  <2>4. Free <= Free' /\ Free' \in Int
    BY <1>1, <2>3, CacheAssumption DEF Free
  <2>5. Outstanding' = Outstanding
    BY <2>1, OwedStays
  <2>6. Free \in Int
    BY <1>1
  <2>7. \A a \in Int : \A b \in Int : \A c \in Nat : a <= b => a - c <= b - c
    OBVIOUS
  <2>8. Free - Outstanding <= Free' - Outstanding'
    BY <1>3, <2>4, <2>5, <2>6, <2>7
  <2>9. Outstanding' \in Nat /\ Outstanding' <= Outstanding
    BY <1>3, <2>5
  <2> QED
    BY <1>3, <2>4, <2>6, <2>8, <2>9
<1>11. CASE DeadlineExpires(s)
  <2>1. held' = held /\ used' = used
    BY <1>11 DEF DeadlineExpires, leases
  <2>2. \A r \in held : asked'[r] = asked[r]
    <3>1. s \notin held
      BY <1>2, <1>11 DEF DeadlineExpires, CacheInv, LeaseInv, OneCritical, Live
    <3> QED
      BY <1>6, <1>11, <3>1 DEF DeadlineExpires, Leave
  <2>3. Free' = Free
    BY <1>11, TrashKeepsTheBytes DEF DeadlineExpires, Leave
  <2> QED
    BY <1>1, <1>3, <2>1, <2>2, <2>3, OwedStays
<1>12. CASE Grow(s)
  <2>1. s \in held
    BY <1>12 DEF Grow, CacheInv, LeaseInv, LiveSessionReserved
  <2>2. PICK u \in {s, Bulk} : size' = [size EXCEPT ![u] = @ + 1]
    BY <1>12 DEF Grow
  <2>3. u \in Units
    BY <2>2 DEF Units
  <2>4. size' = [size EXCEPT ![u] = size[u] + 1] /\ size[u] + 1 \in Nat
    BY <1>1, <2>2, <2>3
  <2>5. Total(size') = Total(size) - size[u] + (size[u] + 1)
    <3>1. TypeOK
      BY DEF CacheInv
    <3> QED
      BY <2>3, <2>4, <3>1, SizeUpdate
  <2>6. Free' = Free - 1
    <3>1. usage' = usage
      BY <1>12 DEF Grow, gc
    <3>2. Free' = Disk - Total(size') - usage.moved
      BY <3>1 DEF Free
    <3> QED
      BY <1>1, <2>3, <2>5, <3>2, CacheAssumption DEF Free
  <2>7. /\ held' = held /\ asked' = asked /\ used' = [used EXCEPT ![s] = @ + 1]
        /\ used[s] < asked[s]
    BY <1>12 DEF Grow, leases
  <2> DEFINE k == asked[s] - used[s] - 1
  <2>8. k \in Nat /\ (IF s \in held' THEN asked'[s] - used'[s] ELSE 0) = k
    BY <1>2, <1>6, <2>1, <2>7
  <2>9. \A r \in Sessions \ {s} : (r \in held' <=> r \in held)
                                    /\ asked'[r] = asked[r] /\ used'[r] = used[r]
    BY <1>6, <2>7
  <2> HIDE DEF k
  <2>10. Outstanding' = Outstanding - Owed[s] + k
    BY <2>8, <2>9, OwedUpdate
  <2>11. Owed[s] = k + 1
    BY <1>2, <2>1 DEF k
  <2>12. Outstanding' = Outstanding - 1
    BY <1>3, <2>8, <2>10, <2>11
  <2>13. Outstanding >= Owed[s]
    BY <1>1, <1>2, PartOfTotal
  <2> QED
    BY <1>1, <1>3, <2>6, <2>8, <2>11, <2>12, <2>13
<1>13. CASE Release(s) \/ Die(s)
  <2>1. Free' = Free
    <3>1. CASE size' = size /\ usage' = usage
      BY <3>1, FreeUnmoved
    <3>2. CASE LeaveInTrash /\ usage' = NoUsage
      BY <3>2, TrashKeepsTheBytes
    <3> QED
      BY <1>13, <3>1, <3>2 DEF Release, Die, disk, gc
  <2>2. /\ held' = held \ {s} /\ asked' = [asked EXCEPT ![s] = 0]
        /\ used' = [used EXCEPT ![s] = 0]
    BY <1>13 DEF Release, Die
  <2>3. (IF s \in held' THEN asked'[s] - used'[s] ELSE 0) = 0
    BY <2>2
  <2>4. \A r \in Sessions \ {s} : (r \in held' <=> r \in held)
                                    /\ asked'[r] = asked[r] /\ used'[r] = used[r]
    BY <1>6, <2>2
  <2>5. Outstanding' = Outstanding - Owed[s] + 0
    BY <2>3, <2>4, OwedUpdate
  <2>6. Outstanding >= Owed[s] /\ Owed[s] \in Nat
    BY <1>1, <1>2, PartOfTotal
  <2> QED
    BY <1>1, <1>3, <2>1, <2>5, <2>6
<1> QED
  BY <1>7, <1>8, <1>9, <1>10, <1>11, <1>12, <1>13 DEF Quiet, Critical, Session

LEMMA AtMostIsTransitive ==
  \A a \in Int : \A b \in Int : \A c \in Int : a <= b /\ b <= c => a <= c
OBVIOUS

\* The totals are taken under the admission lease; what the other sessions do
\* meanwhile is within what they had reserved.
LEMMA JudgedStep ==
  ASSUME CacheInv, Next
  PROVE  JudgedInv'
<1>1. PICK s \in Sessions :
        \/ Ask(s) \/ TakeAdmission(s) \/ AdmissionTimesOut(s)
        \/ Critical(s) \/ Session(s) \/ Die(s)
  BY DEF Next
<1>2. /\ SectionInv
      /\ stage \in {"judge", "evict"} =>
           /\ Outstanding <= usage.reserved
           /\ usage.free - usage.reserved <= Free - Outstanding
  BY DEF CacheInv, SpaceInv, JudgedInv
<1>3. /\ usage \in [managed : Nat, free : 0..Disk, reserved : Nat,
                    dirty : SUBSET Units, todo : SUBSET Units, moved : 0..Disk]
      /\ usage.free \in Int /\ usage.reserved \in Nat
  BY CacheAssumption DEF CacheInv, TypeOK
<1>4. CASE stage' \notin {"judge", "evict"}
  BY <1>4 DEF JudgedInv
<1>5. CASE ClearStale(s)
  <2> DEFINE kept == [r \in Sessions |-> IF r \in held THEN reserved[r] ELSE 0]
  <2>1. usage'.free = Free /\ usage'.reserved = Total(kept)
    BY <1>5 DEF ClearStale
  <2>2. /\ Owed \in [Sessions -> Nat] /\ Outstanding = Total(Owed)
        /\ \A r \in Sessions : r \in held => Owed[r] <= reserved[r]
        /\ \A r \in Sessions : r \notin held => Owed[r] = 0
        /\ \A r \in Sessions : reserved[r] \in Nat
    BY OwedFacts DEF CacheInv, SpaceInv
  <2>3. kept \in [Sessions -> Nat] /\ \A r \in Sessions : Owed[r] <= kept[r]
    BY <2>2
  <2> HIDE DEF kept
  <2>4. IsFiniteSet(Sessions)
    BY CacheAssumption
  <2>5. Outstanding <= Total(kept) /\ Total(kept) \in Nat /\ Outstanding \in Nat
    BY <2>2, <2>3, <2>4, TotalMonotone, BytesAreFinite
  <2>6. Free' = Free
    <3>1. size' = size /\ usage'.moved = 0 /\ usage.moved = 0
      BY <1>2, <1>5 DEF ClearStale, SectionInv, disk
    <3> QED
      BY <3>1, FreeUnmoved
  <2>7. Outstanding' = Outstanding
    BY <1>5, OwedStays DEF ClearStale, leases, local
  <2>8. Free \in Int
    BY Sizes DEF CacheInv
  <2>9. Free - Total(kept) <= Free - Outstanding
    BY <2>5, <2>8
  <2> QED
    BY <2>1, <2>5, <2>6, <2>7, <2>9 DEF JudgedInv
<1>6. CASE stage' \in {"judge", "evict"} /\ ~ClearStale(s)
  <2>1. stage \in {"judge", "evict"} /\ ~Reserve(s)
    BY <1>1, <1>6, ReconcileFrame DEF Critical, Session, Ask, TakeAdmission, AdmissionTimesOut,
       RefuseAtOnce, MeasuringTimesOut, StartEviction, SkipCandidate, Quarantine,
       Discard, DeadlineExpires, Refuse, CollectionDone, Reserve, Leave, LeaseGlobal,
       LeaseBuild, LeaseTimesOut, Attach, AttachFails, Grow, Finish, RefreshBuild,
       MeasureBulk, RecordBulk, NoBulkToRecord, Release, Die, gc
  <2>2. /\ Outstanding \in Nat /\ Outstanding' \in Nat /\ Free \in Int /\ Free' \in Int
        /\ Outstanding' <= Outstanding
        /\ Free - Outstanding <= Free' - Outstanding'
    BY <1>1, <2>1, BudgetStep
  <2>3. Outstanding' <= usage.reserved
    BY <1>2, <1>3, <2>1, <2>2
  <2>4. CASE Discard(s)
    <3>1. usage'.reserved = usage.reserved /\ usage'.free = Disk - Total(size)
            /\ usage'.moved = 0 /\ size' = size
      BY <1>3, <2>4 DEF Discard, disk
    <3>2. Total(size) \in Nat
      BY Sizes DEF CacheInv
    <3>3. usage'.free = Free'
      BY <3>1, <3>2, CacheAssumption DEF Free
    <3>4. usage'.free - usage'.reserved <= Free' - Outstanding'
      BY <1>3, <2>2, <2>3, <3>1, <3>3
    <3> QED
      BY <2>3, <3>1, <3>4 DEF JudgedInv
  <2>5. CASE ~Discard(s)
    <3>1. usage'.reserved = usage.reserved /\ usage'.free = usage.free
      BY <1>1, <1>3, <1>6, <2>5, ReconcileFrame DEF Critical, Session, Ask, TakeAdmission, AdmissionTimesOut,
         RefuseAtOnce, MeasuringTimesOut, StartEviction, SkipCandidate, Quarantine,
         DeadlineExpires, Refuse, CollectionDone, Reserve, Leave, LeaseGlobal,
         LeaseBuild, LeaseTimesOut, Attach, AttachFails, Grow, Finish, RefreshBuild,
         MeasureBulk, RecordBulk, NoBulkToRecord, Release, Die, gc
    <3>2. usage.free - usage.reserved <= Free' - Outstanding'
      <4>1. usage.free - usage.reserved <= Free - Outstanding
        BY <1>2, <2>1
      <4>2. /\ usage.free - usage.reserved \in Int /\ Free - Outstanding \in Int
            /\ Free' - Outstanding' \in Int
        BY <1>3, <2>2
      <4> QED
        BY <2>2, <4>1, <4>2, AtMostIsTransitive
    <3> QED
      BY <2>3, <3>1, <3>2 DEF JudgedInv
  <2> QED
    BY <2>4, <2>5
<1> QED
  BY <1>4, <1>5, <1>6

\* The one step that owes more has just tested that there is room for it.
LEMMA ReserveStep ==
  ASSUME CacheInv, NEW s \in Sessions, Reserve(s)
  PROVE  FreeSpaceKept'
<1>1. /\ stage = "evict" /\ evicting = None /\ Safe(s) /\ admission = s
      /\ held' = held \cup {s} /\ used' = used /\ asked' = asked /\ size' = size
      /\ usage' = NoUsage
  <2>1. asked' = asked
    BY DEF Reserve, Leave, CacheInv, LeaseInv, Shape
  <2> QED
    BY <2>1 DEF Reserve, Leave, disk
<1>2. /\ \A r \in Sessions : asked[r] \in Nat /\ used[r] \in Nat
      /\ s \notin held => Owed[s] = 0
      /\ s \in held => pc[s] \in Live
  BY OwedFacts DEF CacheInv, SpaceInv
<1>3. pc[s] = "critical"
  BY <1>1 DEF CacheInv, LeaseInv, OneCritical
<1>4. s \notin held /\ Owed[s] = 0
  BY <1>2, <1>3 DEF Live
<1>5. used[s] = 0
  BY <1>3 DEF CacheInv, LeaseInv, WritesOnlyInside
<1>6. Outstanding' = Outstanding + asked[s] /\ Outstanding \in Nat
  <2>1. (IF s \in held' THEN asked'[s] - used'[s] ELSE 0) = asked[s] /\ asked[s] \in Nat
    BY <1>1, <1>2, <1>5
  <2>2. \A r \in Sessions \ {s} : (r \in held' <=> r \in held)
                                    /\ asked'[r] = asked[r] /\ used'[r] = used[r]
    BY <1>1
  <2>3. Outstanding' = Outstanding - Owed[s] + asked[s] /\ Outstanding \in Nat
    BY <2>1, <2>2, OwedUpdate
  <2> QED
    BY <1>4, <2>1, <2>3
<1>7. Free' = Free /\ Free \in Int
  <2>1. usage.moved = 0 /\ usage'.moved = 0
    BY <1>1 DEF CacheInv, SpaceInv, SectionInv, NoUsage
  <2> QED
    BY <1>1, <2>1, FreeUnmoved, Sizes DEF CacheInv
<1>8. usage.free - usage.reserved <= Free - Outstanding
  BY <1>1 DEF CacheInv, SpaceInv, JudgedInv
<1>9. usage.free \in Int /\ usage.reserved \in Nat
  BY CacheAssumption DEF CacheInv, TypeOK
<1>10. usage.free - (asked[s] + usage.reserved) >= MinFree
  BY <1>1 DEF Safe, Requested
<1>11. MinFree \in Int /\ asked[s] \in Nat
  BY <1>2, CacheAssumption
<1>12. Free - (Outstanding + asked[s]) >= MinFree
  BY <1>6, <1>7, <1>8, <1>9, <1>10, <1>11
<1> QED
  BY <1>6, <1>7, <1>12 DEF FreeSpaceKept

LEMMA SpaceStep ==
  ASSUME CacheInv, Next
  PROVE  SpaceInv'
<1>1. FreeSpaceKept'
  <2>1. PICK s \in Sessions :
          \/ Ask(s) \/ TakeAdmission(s) \/ AdmissionTimesOut(s)
          \/ Critical(s) \/ Session(s) \/ Die(s)
    BY DEF Next
  <2>2. CASE Reserve(s)
    BY <2>2, ReserveStep
  <2>3. CASE ~Reserve(s)
    <3>1. /\ Outstanding \in Nat /\ Outstanding' \in Nat /\ Free \in Int /\ Free' \in Int
          /\ Free - Outstanding <= Free' - Outstanding'
      BY <2>1, <2>3, BudgetStep
    <3>2. Free - Outstanding >= MinFree /\ MinFree \in Int
      BY CacheAssumption DEF CacheInv, SpaceInv, FreeSpaceKept
    <3>3. Free' - Outstanding' >= MinFree
      <4>1. Free - Outstanding \in Int /\ Free' - Outstanding' \in Int
        BY <3>1
      <4>2. MinFree <= Free - Outstanding
        BY <3>2, <4>1
      <4>3. MinFree <= Free' - Outstanding'
        BY <3>1, <3>2, <4>1, <4>2, AtMostIsTransitive
      <4> QED
        BY <3>2, <4>1, <4>3
    <3> QED
      BY <3>3 DEF FreeSpaceKept
  <2> QED
    BY <2>2, <2>3
<1> QED
  BY <1>1, HeldStep, SectionStep, JudgedStep DEF SpaceInv

\* What is free is a part of the disk, because the reserve is kept.
LEMMA FreeIsADiskPart ==
  ASSUME CacheInv
  PROVE  Free \in 0..Disk
<1>1. Free \in Int /\ Free = Disk - Total(size) - usage.moved
        /\ Total(size) \in Nat /\ usage.moved \in Nat
  BY Sizes DEF Free, CacheInv
<1>2. Outstanding \in Nat
  <2>1. Owed \in [Sessions -> Nat] /\ Outstanding = Total(Owed)
    BY OwedFacts DEF CacheInv, SpaceInv
  <2>2. IsFiniteSet(Sessions)
    BY CacheAssumption
  <2> QED
    BY <2>1, <2>2, BytesAreFinite
<1>3. Free - Outstanding >= MinFree /\ MinFree \in Nat
  BY CacheAssumption DEF CacheInv, SpaceInv, FreeSpaceKept
<1> QED
  BY <1>1, <1>2, <1>3, CacheAssumption

LEMMA UsageType ==
  ASSUME CacheInv, Next
  PROVE  usage' \in [managed : Nat, free : 0..Disk, reserved : Nat,
                     dirty : SUBSET Units, todo : SUBSET Units, moved : 0..Disk]
<1> DEFINE U == [managed : Nat, free : 0..Disk, reserved : Nat,
                 dirty : SUBSET Units, todo : SUBSET Units, moved : 0..Disk]
<1>1. PICK s \in Sessions :
        \/ Ask(s) \/ TakeAdmission(s) \/ AdmissionTimesOut(s)
        \/ Critical(s) \/ Session(s) \/ Die(s)
  BY DEF Next
<1>2. usage \in U /\ NoUsage \in U
  BY CacheAssumption DEF CacheInv, TypeOK, NoUsage
<1>3. size \in [Units -> 0..Disk]
  BY DEF CacheInv, TypeOK
<1>4. row \in [Units -> [state : {"none", "ready", "dirty", "deleting"}, bytes : 0..Disk]]
  BY DEF CacheInv, TypeOK
<1>5. CASE ClearStale(s)
  <2>1. Free \in 0..Disk
    BY FreeIsADiskPart
  <2>2. Recorded \in Nat
    <3>1. [u \in Units |-> row[u].bytes] \in [Units -> Nat] /\ IsFiniteSet(Units)
      BY <1>4, Sizes, CacheAssumption DEF CacheInv
    <3> QED
      BY <3>1, BytesAreFinite DEF Recorded
  <2>3. Total([r \in Sessions |-> IF r \in held THEN reserved[r] ELSE 0]) \in Nat
    <3>1. [r \in Sessions |-> IF r \in held THEN reserved[r] ELSE 0] \in [Sessions -> Nat]
      <4>1. \A n \in Requests \cup {0} : n \in Nat
        BY CacheAssumption
      <4> QED
        BY <4>1 DEF CacheInv, TypeOK
    <3>2. IsFiniteSet(Sessions)
      BY CacheAssumption
    <3> QED
      BY <3>1, <3>2, BytesAreFinite
  <2>4. 0 \in 0..Disk
    BY CacheAssumption
  <2> QED
    BY <1>5, <2>1, <2>2, <2>3, <2>4 DEF ClearStale
<1>6. CASE Quarantine(s)
  <2>1. PICK u \in NextCandidates : usage' = [usage EXCEPT !.moved = size[u]]
    BY <1>6 DEF Quarantine
  <2>2. u \in Units
    BY <1>2, <2>1 DEF NextCandidates, Units
  <2>3. size[u] \in 0..Disk
    BY <1>3, <2>2
  <2> QED
    BY <1>2, <2>1, <2>3
<1>7. CASE Discard(s)
  <2> DEFINE u == evicting
             m == Max({0, usage.managed - row[u].bytes})
             f == Disk - Total(size)
  <2>1. m \in Nat
    <3>1. u \in Units
      BY <1>7 DEF Discard, CacheInv, TypeOK
    <3>2. usage.managed - row[u].bytes \in Int
      BY <1>2, <1>4, <3>1, CacheAssumption
    <3>3. \A n \in Int : Max({0, n}) \in Nat
      <4> SUFFICES ASSUME NEW n \in Int PROVE Max({0, n}) \in Nat
        OBVIOUS
      <4>1. CASE n >= 0
        <5>1. n \in {0, n} /\ \A y \in {0, n} : n >= y
          BY <4>1
        <5>2. Max({0, n}) \in {0, n} /\ \A y \in {0, n} : Max({0, n}) >= y
          BY <5>1 DEF Max
        <5> QED
          BY <4>1, <5>2
      <4>2. CASE ~(n >= 0)
        <5>1. 0 \in {0, n} /\ \A y \in {0, n} : 0 >= y
          BY <4>2
        <5>2. Max({0, n}) \in {0, n} /\ \A y \in {0, n} : Max({0, n}) >= y
          BY <5>1 DEF Max
        <5> QED
          BY <4>2, <5>2
      <4> QED
        BY <4>1, <4>2
    <3> QED
      BY <3>2, <3>3
  <2>2. f \in 0..Disk
    <3>1. Free = Disk - Total(size) - usage.moved
            /\ Total(size) \in Nat /\ usage.moved \in Nat
      BY Sizes DEF Free, CacheInv
    <3> QED
      BY <3>1, FreeIsADiskPart, CacheAssumption
  <2>3. usage' = [usage EXCEPT !.moved = 0, !.todo = @ \ {u}, !.dirty = @ \ {u},
                               !.managed = m, !.free = f]
    BY <1>7 DEF Discard
  <2>4. 0 \in 0..Disk
    BY CacheAssumption
  <2> HIDE DEF m, f
  <2> QED
    BY <1>2, <2>1, <2>2, <2>3, <2>4
<1>8. CASE SkipCandidate(s)
  <2>1. PICK u \in NextCandidates : usage' = [usage EXCEPT !.todo = @ \ {u}]
    BY <1>8 DEF SkipCandidate
  <2> QED
    BY <1>2, <2>1
<1>9. CASE usage' \in {usage, NoUsage}
  BY <1>2, <1>9
<1>10. \/ ClearStale(s) \/ Quarantine(s) \/ Discard(s) \/ SkipCandidate(s)
       \/ usage' \in {usage, NoUsage}
  BY <1>1, ReconcileFrame DEF Critical, Session, Ask, TakeAdmission,
     AdmissionTimesOut, RefuseAtOnce, MeasuringTimesOut, StartEviction, DeadlineExpires,
     Refuse, CollectionDone, Reserve, Leave, LeaseGlobal, LeaseBuild,
     LeaseTimesOut, Attach, AttachFails, Grow, Finish, RefreshBuild, MeasureBulk,
     RecordBulk, NoBulkToRecord, Release, Die, gc
<1> QED
  BY <1>5, <1>6, <1>7, <1>8, <1>9, <1>10

\* No unit outgrows the disk: what is free never falls under zero.
LEMMA SizeType ==
  ASSUME CacheInv, Next
  PROVE  size' \in [Units -> 0..Disk]
<1>1. PICK s \in Sessions :
        \/ Ask(s) \/ TakeAdmission(s) \/ AdmissionTimesOut(s)
        \/ Critical(s) \/ Session(s) \/ Die(s)
  BY DEF Next
<1>2. size \in [Units -> Nat] /\ IsFiniteSet(Units) /\ usage.moved \in Nat
  BY Sizes DEF CacheInv
<1>3. size' \in [Units -> Nat]
  <2>1. CASE size' = size
    BY <1>2, <2>1
  <2>2. CASE LeaveInTrash
    BY <1>2, <2>2 DEF LeaveInTrash, Units
  <2>3. CASE Quarantine(s)
    <3>1. PICK u \in NextCandidates : size' = [size EXCEPT ![u] = 0]
      BY <2>3 DEF Quarantine
    <3> QED
      BY <1>2, <3>1
  <2>4. CASE Grow(s)
    BY <1>2, <2>4 DEF Grow, Units
  <2> QED
    BY <1>1, <2>1, <2>2, <2>3, <2>4, ReconcileFrame DEF Critical, Session, Ask, TakeAdmission,
       AdmissionTimesOut, ClearStale, RefuseAtOnce, MeasuringTimesOut, StartEviction,
       SkipCandidate, Discard, DeadlineExpires, Refuse, CollectionDone, Reserve,
       LeaseGlobal, LeaseBuild, LeaseTimesOut, Attach, AttachFails, Finish,
       RefreshBuild, MeasureBulk, RecordBulk, NoBulkToRecord, Release, Die, disk
<1>4. Total(size') \in Nat /\ \A u \in Units : size'[u] <= Total(size')
  BY <1>2, <1>3, BytesAreFinite, PartOfTotal
<1>5. Total(size') <= Disk
  <2>1. Free' = Disk - Total(size') - usage'.moved /\ usage'.moved \in Nat
    BY UsageType, CacheAssumption DEF Free
  <2>2. Outstanding' \in Nat
    <3>1. LeaseInv' /\ HeldByLiving'
      BY StepLeases, HeldStep DEF CacheInv
    <3>2. Owed' \in [Sessions -> Nat] /\ Outstanding' = Total(Owed')
      <4>1. \A r \in Sessions : asked'[r] \in Nat /\ used'[r] \in Nat /\ reserved'[r] \in Nat
        <5>1. \A n \in Requests \cup {0} : n \in Nat
          BY CacheAssumption
        <5> QED
          BY <3>1, <5>1 DEF LeaseInv, Shape
      <4>2. \A r \in Sessions : r \in held' => reserved'[r] = asked'[r] /\ used'[r] <= reserved'[r]
        BY <3>1 DEF HeldByLiving, LeaseInv, LiveSessionReserved, Live
      <4>3. \A r \in Sessions : r \in held' => asked'[r] - used'[r] \in Nat
        BY <4>1, <4>2
      <4> QED
        BY <4>3 DEF Owed, Outstanding
    <3>3. IsFiniteSet(Sessions)
      BY CacheAssumption
    <3> QED
      BY <3>2, <3>3, BytesAreFinite
  <2>3. Free' - Outstanding' >= MinFree
    BY SpaceStep DEF SpaceInv, FreeSpaceKept
  <2>4. Free' \in Int /\ MinFree \in Nat
    BY <1>4, <2>1, CacheAssumption
  <2>5. Free' >= 0
    <3>1. \A a \in Int : \A b \in Nat : \A c \in Nat : a - b >= c => a >= 0
      OBVIOUS
    <3> QED
      BY <2>2, <2>3, <2>4, <3>1
  <2> QED
    BY <1>4, <2>1, <2>5, CacheAssumption
<1> QED
  BY <1>3, <1>4, <1>5, CacheAssumption

RowType == [Units -> [state : {"none", "ready", "dirty", "deleting"}, bytes : 0..Disk]]

LEMMA RowStep ==
  ASSUME CacheInv, Next
  PROVE  row' \in RowType
<1>1. PICK s \in Sessions :
        \/ Ask(s) \/ TakeAdmission(s) \/ AdmissionTimesOut(s)
        \/ Critical(s) \/ Session(s) \/ Die(s)
  BY DEF Next
<1>2. /\ row \in RowType /\ size \in [Units -> 0..Disk]
      /\ NoRow \in [state : {"none", "ready", "dirty", "deleting"}, bytes : 0..Disk]
  BY CacheAssumption DEF CacheInv, TypeOK, RowType, NoRow
<1>3. measured \in [Sessions -> [taken : BOOLEAN, bytes : 0..Disk, moved : BOOLEAN]]
  BY DEF CacheInv, TypeOK
<1>4. s \in Units /\ Bulk \in Units
  BY DEF Units
<1> DEFINE Entries == [state : {"none", "ready", "dirty", "deleting"}, bytes : 0..Disk]
<1>5. CASE Reconcile(s)
  <2>1. scan \in [seen : SUBSET Units, unread : SUBSET Units, moved : SUBSET Units,
                  unit : Units \cup {None}, bytes : 0..Disk]
    BY DEF CacheInv, TypeOK
  <2>2. ASSUME NEW u, NEW e \in Entries, Stores(u, e)  PROVE row' \in RowType
    BY <1>2, <2>2 DEF Stores, RowType
  <2>3. \A u \in Units : Dirtied(u) \in Entries
    BY <1>2 DEF Dirtied, RowType
  <2>4. NextListed \subseteq Units
    BY <2>1 DEF NextListed, Units
  <2>5. MarkInUse(s) => row' \in RowType
    BY <2>2, <2>3, <2>4 DEF MarkInUse
  <2>6. RecordUnit(s) => row' \in RowType
    BY <2>1, <2>2 DEF RecordUnit
  <2>7. DropUnlisted(s) => row' \in RowType
    BY <1>2 DEF DropUnlisted, RowType
  <2>8. ListUnits(s) \/ MeasureUnit(s) => row' = row
    BY DEF ListUnits, MeasureUnit, index
  <2> QED
    BY <1>2, <1>5, <2>5, <2>6, <2>7, <2>8 DEF Reconcile
<1>6. CASE Quarantine(s)
  <2>1. PICK u \in NextCandidates : row' = [row EXCEPT ![u].state = "deleting"]
    BY <1>6 DEF Quarantine
  <2> QED
    BY <1>2, <2>1 DEF RowType
<1>7. CASE Discard(s)
  BY <1>2, <1>7 DEF Discard, RowType
<1>8. CASE Attach(s)
  <2>1. \A u \in Units : Dirtied(u) \in [state : {"none", "ready", "dirty", "deleting"},
                                         bytes : 0..Disk]
    BY <1>2 DEF Dirtied, RowType
  <2> QED
    BY <1>2, <1>4, <1>8, <2>1 DEF Attach, RowType
<1>9. CASE RefreshBuild(s)
  BY <1>2, <1>4, <1>9 DEF RefreshBuild, RowType
<1>10. CASE RecordBulk(s)
  BY <1>2, <1>3, <1>4, <1>10 DEF RecordBulk, RowType
<1>11. CASE row' = row
  BY <1>2, <1>11
<1> QED
  BY <1>1, <1>5, <1>6, <1>7, <1>8, <1>9, <1>10, <1>11 DEF Critical, Session, Ask,
     TakeAdmission, AdmissionTimesOut, ClearStale, RefuseAtOnce, MeasuringTimesOut,
     StartEviction, SkipCandidate, DeadlineExpires, Refuse, CollectionDone, Reserve,
     LeaseGlobal, LeaseBuild, LeaseTimesOut, AttachFails, Grow, Finish, MeasureBulk,
     NoBulkToRecord, Release, Die, index

\* What is listed are units, and what is measured is a part of the disk.
LEMMA ScanStep ==
  ASSUME CacheInv, Next
  PROVE  /\ touched' \subseteq Units
         /\ scan' \in [seen : SUBSET Units, unread : SUBSET Units, moved : SUBSET Units,
                      unit : Units \cup {None}, bytes : 0..Disk]
<1> DEFINE Scans == [seen : SUBSET Units, unread : SUBSET Units, moved : SUBSET Units,
                     unit : Units \cup {None}, bytes : 0..Disk]
<1>1. PICK s \in Sessions :
        \/ Ask(s) \/ TakeAdmission(s) \/ AdmissionTimesOut(s)
        \/ Critical(s) \/ Session(s) \/ Die(s)
  BY DEF Next
<1>2. /\ touched \subseteq Units /\ scan \in Scans /\ NoScan \in Scans
      /\ size \in [Units -> 0..Disk]
  BY CacheAssumption DEF CacheInv, TypeOK, NoScan
<1>3. Bulk \in Units /\ Trash \in Units /\ Sessions \subseteq Units
  BY DEF Units
<1>4. NextListed \subseteq Units
  BY <1>2 DEF NextListed, Units
<1>5. ASSUME NEW u \in Units, NEW e, Stores(u, e)  PROVE touched' \subseteq Units /\ scan' \in Scans
  <2>1. touched' \subseteq Units
    BY <1>2, <1>5 DEF Stores
  <2>2. scan' = [seen |-> scan.seen, unread |-> scan.unread \ {u},
                 moved |-> scan.moved \ {u}, unit |-> None, bytes |-> 0]
    BY <1>2, <1>5 DEF Stores
  <2>3. scan.seen \subseteq Units /\ scan.unread \subseteq Units /\ scan.moved \subseteq Units
    BY <1>2
  <2>4. scan' \in Scans
    BY <2>2, <2>3, CacheAssumption
  <2> QED
    BY <2>1, <2>4
<1>6. \A u : Moves(u) \in Scans
  BY <1>2 DEF Moves
<1>7. CASE ListUnits(s)
  <2> DEFINE listed == {u \in Units : OnDisk(u)}
             unread == {u \in listed : row[u].state # "ready" \/ u \in touched}
  <2>1. listed \subseteq Units /\ unread \subseteq Units
    OBVIOUS
  <2>2. scan' = [NoScan EXCEPT !.seen = listed, !.unread = unread]
    BY <1>7 DEF ListUnits
  <2> HIDE DEF listed, unread
  <2>3. scan' \in Scans
    BY <1>2, <2>1, <2>2
  <2> QED
    BY <1>2, <1>7, <2>3 DEF ListUnits, index
<1>8. CASE MarkInUse(s) \/ RecordUnit(s)
  BY <1>2, <1>4, <1>5, <1>8 DEF MarkInUse, RecordUnit
<1>9. CASE MeasureUnit(s)
  <2>1. PICK u \in NextListed : scan' = [scan EXCEPT !.unit = u, !.bytes = size[u]]
    BY <1>9 DEF MeasureUnit
  <2>2. u \in Units /\ size[u] \in 0..Disk
    BY <1>2, <1>4
  <2>3. scan' \in Scans
    BY <1>2, <2>1, <2>2
  <2> QED
    BY <1>2, <1>9, <2>3 DEF MeasureUnit, index
<1>10. CASE DropUnlisted(s)
  BY <1>2, <1>10 DEF DropUnlisted
<1>11. CASE Attach(s)
  BY <1>2, <1>3, <1>6, <1>11 DEF Attach
<1>12. CASE Grow(s)
  <2>1. PICK u \in {s, Bulk} : touched' \in {touched, touched \cup {u}} /\ scan' \in {scan, Moves(u)}
    BY <1>12 DEF Grow
  <2> QED
    BY <1>2, <1>3, <1>6, <2>1
<1>13. scan' \in {scan, NoScan} \/ Reconcile(s) \/ Attach(s) \/ Grow(s)
  BY <1>1 DEF Critical, Session, Ask, TakeAdmission, AdmissionTimesOut, ClearStale,
     RefuseAtOnce, MeasuringTimesOut, StartEviction, SkipCandidate, Quarantine,
     Discard, DeadlineExpires, Refuse, CollectionDone, Reserve, Leave, LeaseGlobal,
     LeaseBuild, LeaseTimesOut, AttachFails, Finish, RefreshBuild, MeasureBulk,
     RecordBulk, NoBulkToRecord, Release, Die, gc
<1>14. touched' \subseteq Units \/ Reconcile(s) \/ Attach(s) \/ Grow(s)
  BY <1>1, <1>2, <1>3 DEF Critical, Session, Ask, TakeAdmission, AdmissionTimesOut,
     ClearStale, RefuseAtOnce, MeasuringTimesOut, StartEviction, SkipCandidate,
     Quarantine, Discard, DeadlineExpires, Refuse, CollectionDone, Reserve,
     LeaseGlobal, LeaseBuild, LeaseTimesOut, AttachFails, Finish, RefreshBuild,
     MeasureBulk, RecordBulk, NoBulkToRecord, Release, Die, index, LeaveInTrash
<1> QED
  BY <1>2, <1>7, <1>8, <1>9, <1>10, <1>11, <1>12, <1>13, <1>14 DEF Reconcile

LEMMA MeasuredStep ==
  ASSUME CacheInv, Next
  PROVE  measured' \in [Sessions -> [taken : BOOLEAN, bytes : 0..Disk, moved : BOOLEAN]]
<1> DEFINE M == [taken : BOOLEAN, bytes : 0..Disk, moved : BOOLEAN]
<1>1. PICK s \in Sessions :
        \/ Ask(s) \/ TakeAdmission(s) \/ AdmissionTimesOut(s)
        \/ Critical(s) \/ Session(s) \/ Die(s)
  BY DEF Next
<1>2. measured \in [Sessions -> M]
  BY DEF CacheInv, TypeOK
<1>3. size[Bulk] \in 0..Disk /\ 0 \in 0..Disk
  BY CacheAssumption DEF CacheInv, TypeOK, Units
<1>4. NoMeasure \in M
  BY <1>3 DEF NoMeasure
<1>5. CASE Grow(s)
  <2>1. PICK u \in {s, Bulk} :
          \/ measured' = measured
          \/ measured' = [r \in Sessions |-> [measured[r] EXCEPT !.moved = @ \/ u = Bulk]]
    BY <1>5 DEF Grow
  <2>2. ASSUME NEW r \in Sessions
        PROVE  [measured[r] EXCEPT !.moved = @ \/ u = Bulk] \in M
    <3>1. measured[r] \in M
      BY <1>2
    <3>2. (measured[r].moved \/ u = Bulk) \in BOOLEAN
      BY Zenon
    <3>3. \A m \in M : \A b \in BOOLEAN : [m EXCEPT !.moved = b] \in M
      OBVIOUS
    <3> QED
      BY <3>1, <3>2, <3>3
  <2> QED
    BY <1>2, <2>1, <2>2
<1>6. CASE MeasureBulk(s)
  <2>1. [taken |-> TRUE, bytes |-> size[Bulk], moved |-> FALSE] \in M
    BY <1>3
  <2> HIDE DEF M
  <2>2. measured' \in [Sessions -> M]
    BY <1>2, <1>6, <2>1 DEF MeasureBulk
  <2> QED
    BY <2>2 DEF M
<1>7. CASE measured' = measured \/ measured' = [measured EXCEPT ![s] = NoMeasure]
  <2> HIDE DEF M
  <2>1. measured' \in [Sessions -> M]
    BY <1>2, <1>4, <1>7
  <2> QED
    BY <2>1 DEF M
<1>8. \/ Grow(s) \/ MeasureBulk(s)
      \/ measured' = measured \/ measured' = [measured EXCEPT ![s] = NoMeasure]
  BY <1>1, ReconcileFrame DEF Critical, Session, Ask, TakeAdmission, AdmissionTimesOut,
     ClearStale, RefuseAtOnce, MeasuringTimesOut, StartEviction, SkipCandidate, Quarantine,
     Discard, DeadlineExpires, Refuse, CollectionDone, Reserve, LeaseGlobal,
     LeaseBuild, LeaseTimesOut, Attach, AttachFails, Finish, RefreshBuild,
     RecordBulk, NoBulkToRecord, Release, Die, local
<1> QED
  BY <1>5, <1>6, <1>7, <1>8

LEMMA TypeStep ==
  ASSUME CacheInv, Next
  PROVE  TypeOK'
<1>1. PICK s \in Sessions :
        \/ Ask(s) \/ TakeAdmission(s) \/ AdmissionTimesOut(s)
        \/ Critical(s) \/ Session(s) \/ Die(s)
  BY DEF Next
<1>2. /\ present \subseteq Sessions /\ touched \subseteq Units
      /\ admission \in Sessions \cup {None} /\ evicting \in Units \cup {None}
      /\ stage \in {"closed", "reconcile", "index", "clear", "judge", "evict"}
      /\ deaths \in 0..Deaths
  BY DEF CacheInv, TypeOK
<1>3. size' \in [Units -> 0..Disk]
  BY SizeType
<1>4. row' \in [Units -> [state : {"none", "ready", "dirty", "deleting"}, bytes : 0..Disk]]
  BY RowStep DEF RowType
<1>5. Shape'
  BY StepLeases DEF CacheInv, LeaseInv
<1>6. present' \subseteq Sessions
  BY <1>1, <1>2, ReconcileFrame DEF Critical, Session, Ask, TakeAdmission, AdmissionTimesOut,
     ClearStale, RefuseAtOnce, MeasuringTimesOut, StartEviction, SkipCandidate, Quarantine,
     Discard, DeadlineExpires, Refuse, CollectionDone, Reserve, LeaseGlobal,
     LeaseBuild, LeaseTimesOut, Attach, AttachFails, Grow, Finish, RefreshBuild,
     MeasureBulk, RecordBulk, NoBulkToRecord, Release, Die, disk
<1>7. /\ admission' \in Sessions \cup {None} /\ evicting' \in Units \cup {None}
      /\ stage' \in {"closed", "reconcile", "index", "clear", "judge", "evict"}
  <2>1. NextCandidates \subseteq Units
    BY DEF CacheInv, TypeOK, NextCandidates, Units
  <2> QED
    BY <1>1, <1>2, <2>1, ReconcileFrame DEF Critical, Session, Ask, TakeAdmission, AdmissionTimesOut,
       ClearStale, RefuseAtOnce, MeasuringTimesOut, StartEviction, SkipCandidate, Quarantine,
       Discard, DeadlineExpires, Refuse, CollectionDone, Reserve, Leave, LeaseGlobal,
       LeaseBuild, LeaseTimesOut, Attach, AttachFails, Grow, Finish, RefreshBuild,
       MeasureBulk, RecordBulk, NoBulkToRecord, Release, Die, gc
<1>8. deaths' \in 0..Deaths
  BY <1>1, <1>2, CacheAssumption, ReconcileFrame DEF Critical, Session, Ask, TakeAdmission,
     AdmissionTimesOut, ClearStale, RefuseAtOnce, MeasuringTimesOut, StartEviction,
     SkipCandidate, Quarantine, Discard, DeadlineExpires, Refuse, CollectionDone,
     Reserve, LeaseGlobal, LeaseBuild, LeaseTimesOut, Attach, AttachFails, Grow,
     Finish, RefreshBuild, MeasureBulk, RecordBulk, NoBulkToRecord, Release, Die
<1> QED
  BY <1>3, <1>4, <1>5, <1>6, <1>7, <1>8, UsageType, ScanStep, MeasuredStep
  DEF TypeOK, Shape, Stages

LEMMA CacheInit == Init => CacheInv
<1> SUFFICES ASSUME Init PROVE CacheInv
  OBVIOUS
<1>1. LeaseInv
  BY InitLeases
<1>2. /\ 0 \in 0..Disk /\ 0 \in 0..Deaths
      /\ NoRow \in [state : {"none", "ready", "dirty", "deleting"}, bytes : 0..Disk]
      /\ NoMeasure \in [taken : BOOLEAN, bytes : 0..Disk, moved : BOOLEAN]
      /\ NoUsage \in [managed : Nat, free : 0..Disk, reserved : Nat,
                      dirty : SUBSET Units, todo : SUBSET Units, moved : 0..Disk]
      /\ NoScan \in [seen : SUBSET Units, unread : SUBSET Units, moved : SUBSET Units,
                     unit : Units \cup {None}, bytes : 0..Disk]
  BY CacheAssumption DEF NoRow, NoMeasure, NoUsage, NoScan
<1>3. TypeOK
  BY <1>2 DEF Init, TypeOK
<1>4. Free = Disk
  <2>1. Total(size) = 0
    BY TotalOfNothing DEF Init
  <2>2. usage.moved = 0
    BY DEF Init, NoUsage
  <2> QED
    BY <2>1, <2>2, CacheAssumption DEF Free
<1>5. Outstanding = 0
  <2>1. [s \in Sessions |-> IF s \in held THEN asked[s] - used[s] ELSE 0]
          = [s \in Sessions |-> 0]
    BY DEF Init
  <2> QED
    BY <2>1, TotalOfNothing DEF Outstanding
<1>6. FreeSpaceKept
  BY <1>4, <1>5, CacheAssumption DEF FreeSpaceKept
<1>7. HeldByLiving /\ SectionInv /\ JudgedInv
  BY DEF Init, HeldByLiving, SectionInv, JudgedInv, NoUsage
<1> QED
  BY <1>1, <1>3, <1>6, <1>7 DEF CacheInv, SpaceInv

LEMMA CacheStep == CacheInv /\ [Next]_vars => CacheInv'
<1>1. ASSUME CacheInv, Next  PROVE CacheInv'
  BY <1>1, TypeStep, StepLeases, SpaceStep DEF CacheInv
<1>2. ASSUME CacheInv, UNCHANGED vars  PROVE CacheInv'
  <2>1. TypeOK' /\ LeaseInv'
    BY <1>2, StepLeases DEF CacheInv, TypeOK, vars
  <2>2. Free' = Free /\ Outstanding' = Outstanding
    BY <1>2 DEF Free, Outstanding, vars
  <2>3. HeldByLiving' /\ SectionInv'
    BY <1>2 DEF CacheInv, SpaceInv, HeldByLiving, SectionInv, vars
  <2>4. JudgedInv' /\ FreeSpaceKept'
    BY <1>2, <2>2 DEF CacheInv, SpaceInv, JudgedInv, FreeSpaceKept, vars
  <2> QED
    BY <2>1, <2>3, <2>4 DEF CacheInv, SpaceInv
<1> QED
  BY <1>1, <1>2

LEMMA CacheHolds == Spec => []CacheInv
  BY CacheInit, CacheStep, PTL DEF Spec

\* reserve_cache_capacity and _garbage_collect_cache_locked: for any number of
\* sessions, whatever the index says, whoever dies and wherever a deletion is cut
\* short, what the live sessions have still to write fits on the disk beside the
\* free space the policy keeps.
THEOREM ReserveIsKept == Spec => []FreeSpaceKept
<1>1. CacheInv => FreeSpaceKept
  BY DEF CacheInv, SpaceInv
<1> QED
  BY <1>1, CacheHolds, PTL

\* The types of the cache, its index and its leases; that no unit outgrows the
\* disk follows from the reserve being kept.
THEOREM CacheTypes == Spec => []TypeOK
<1>1. CacheInv => TypeOK
  BY DEF CacheInv
<1> QED
  BY <1>1, CacheHolds, PTL

=============================================================================
