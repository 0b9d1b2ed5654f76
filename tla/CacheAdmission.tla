--------------------------- MODULE CacheAdmission ---------------------------
(***************************************************************************)
(* Disk accounting of the managed Lean cache (cache.py, cache_index.py).   *)
(*                                                                         *)
(* Sessions of different projects share one cache.  Each reserves the      *)
(* bytes it may add before it runs, in a critical section guarded by the   *)
(* admission lease; the section reconciles the SQLite index of eviction    *)
(* units with the disk, recovers the reservations of dead processes and    *)
(* evicts units nobody leases until the request fits.  The session then    *)
(* takes shared leases on its build and on the bulk caches, grows them,    *)
(* records what it measured, gives everything back and collects once more. *)
(*                                                                         *)
(* The unit named by a session is the build directory of its project;      *)
(* Bulk stands for the download and Lake-system caches and Trash for what  *)
(* was quarantined and not yet deleted.  Bytes are small numbers.          *)
(***************************************************************************)
EXTENDS Integers, FiniteSets, FiniteSetsExt

CONSTANTS
  Sessions,   \* concurrent managed operations, each on a project of its own
  Bulk,       \* the unit of the bulk caches
  Trash,      \* the unit of the quarantined trees
  None,
  Requests,   \* the reservations a session may ask for
  Ceiling,    \* policy.max_bytes
  Disk,       \* bytes of the filesystem, all of them the cache's or free
  MinFree,    \* policy.min_free_bytes
  Deaths      \* bound on the number of processes that are killed

ASSUME CacheAssumption ==
  /\ IsFiniteSet(Sessions)
  /\ Bulk \notin Sessions /\ Trash \notin Sessions /\ Bulk # Trash
  /\ None \notin Sessions \cup {Bulk, Trash}
  /\ Requests \subseteq Nat \ {0}
  /\ Ceiling \in Nat /\ Disk \in Nat /\ MinFree \in 0..Disk /\ Deaths \in Nat

Units == Sessions \cup {Bulk, Trash}

VARIABLES
  size,      \* bytes of each unit on disk
  present,   \* the builds that exist on disk
  row,       \* the index row of each unit: its state and recorded bytes
  touched,   \* units whose root no longer has the signature of their row
  reserved,  \* rows of the reservations table: bytes by session, 0 for none
  held,      \* sessions whose reservation lease is locked by a live process
  globals,   \* sessions holding the global-cache lease, shared
  builds,    \* sessions holding the lease of their build, shared
  admission, \* the holder of the admission lease
  stage,     \* how far its critical section is
  evicting,  \* the unit it holds exclusively and has taken away
  scan,      \* the units it has listed and those it has still to look at
  usage,     \* the totals and the candidates it keeps in memory
  measured,  \* the bulk measurement a session has taken and not yet recorded
  used,      \* bytes a session has added
  asked,     \* bytes a session asks for; 0 for a collection only
  pc,        \* where each session is
  deaths

vars == <<size, present, row, touched, reserved, held, globals, builds,
          admission, stage, evicting, scan, usage, measured, used, asked, pc,
          deaths>>

disk == <<size, present>>
index == <<row, touched>>
leases == <<held, globals, builds>>
gc == <<admission, stage, evicting, scan, usage>>
local == <<measured, used, asked>>

NoRow == [state |-> "none", bytes |-> 0]
NoScan == [seen |-> {}, unread |-> {}, moved |-> {}, unit |-> None, bytes |-> 0]
NoMeasure == [taken |-> FALSE, bytes |-> 0, moved |-> FALSE]
NoUsage == [managed |-> 0, free |-> 0, reserved |-> 0, dirty |-> {},
            todo |-> {}, moved |-> 0]

TypeOK ==
  /\ size \in [Units -> 0..Disk]
  /\ present \subseteq Sessions
  /\ row \in [Units -> [state : {"none", "ready", "dirty", "deleting"},
                        bytes : 0..Disk]]
  /\ touched \subseteq Units
  /\ reserved \in [Sessions -> Requests \cup {0}]
  /\ held \subseteq Sessions
  /\ globals \subseteq Sessions /\ builds \subseteq Sessions
  /\ admission \in Sessions \cup {None}
  /\ stage \in {"closed", "reconcile", "index", "clear", "judge", "evict"}
  /\ evicting \in Units \cup {None}
  /\ scan \in [seen : SUBSET Units, unread : SUBSET Units, moved : SUBSET Units,
               unit : Units \cup {None}, bytes : 0..Disk]
  /\ usage \in [managed : Nat, free : 0..Disk, reserved : Nat,
                dirty : SUBSET Units, todo : SUBSET Units, moved : 0..Disk]
  /\ measured \in [Sessions -> [taken : BOOLEAN, bytes : 0..Disk,
                                moved : BOOLEAN]]
  /\ used \in [Sessions -> Nat]
  /\ asked \in [Sessions -> Requests \cup {0}]
  /\ pc \in [Sessions -> {"idle", "queued", "critical", "admitted", "global",
                          "leased", "work", "finish", "bulk", "exit"}]
  /\ deaths \in 0..Deaths

Init ==
  /\ size = [u \in Units |-> 0]
  /\ present = {}
  /\ row = [u \in Units |-> NoRow]
  /\ touched = {}
  /\ reserved = [s \in Sessions |-> 0]
  /\ held = {} /\ globals = {} /\ builds = {}
  /\ admission = None /\ stage = "closed" /\ evicting = None
  /\ scan = NoScan /\ usage = NoUsage
  /\ measured = [s \in Sessions |-> NoMeasure]
  /\ used = [s \in Sessions |-> 0]
  /\ asked = [s \in Sessions |-> 0]
  /\ pc = [s \in Sessions |-> "idle"]
  /\ deaths = 0

-----------------------------------------------------------------------------
\* The bytes a table of sizes stands for, each with its owner; the sum of the
\* sizes is their number.
Bytes(f) == UNION {{x} \X (1 .. f[x]) : x \in DOMAIN f}
Total(f) == Cardinality(Bytes(f))

Recorded == Total([u \in Units |-> row[u].bytes])

\* Empty bulk caches and an empty trash are no entries of the index.
OnDisk(u) == IF u \in Sessions THEN u \in present ELSE size[u] > 0

\* What the filesystem has left, the tree being deleted still counted.
Free == Disk - Total(size) - usage.moved

\* Mutant: the bulk caches and the temporary trees are leased by nobody.
Leasable_BuildsOnly(u) ==
  /\ evicting = None
  /\ u \in Sessions => u \notin builds

\* An exclusive lease on the unit would be granted at once.  Temporary trees
\* and bulk caches share the global lease; the lease of a build is its own.
Leasable(u) ==
  /\ evicting = None
  /\ IF u \in Sessions THEN u \notin builds ELSE globals = {}

\* The leases a GC holds exclusively while it evicts.
GlobalTaken == evicting \in {Bulk, Trash}
BuildTaken(s) == evicting = s

----------------------------------------------------------------------------
(* The critical section: reconcile, recover reservations, evict, decide.   *)

\* managed_project_session asks for a reservation; `cache gc` for nothing.
Ask(s) ==
  /\ pc[s] = "idle"
  /\ \E r \in Requests \cup {0} : asked' = [asked EXCEPT ![s] = r]
  /\ pc' = [pc EXCEPT ![s] = "queued"]
  /\ UNCHANGED <<disk, index, leases, reserved, gc, measured, used, deaths>>

TakeAdmission(s) ==
  /\ pc[s] = "queued"
  /\ admission = None
  /\ admission' = s /\ stage' = "reconcile"
  /\ pc' = [pc EXCEPT ![s] = "critical"]
  /\ UNCHANGED <<disk, index, leases, reserved, evicting, scan, usage, local,
                 deaths>>

\* acquire_cache_lease gives up on the admission lease.
AdmissionTimesOut(s) ==
  /\ pc[s] = "queued"
  /\ admission # None
  /\ asked' = [asked EXCEPT ![s] = 0]
  /\ pc' = [pc EXCEPT ![s] = "idle"]
  /\ UNCHANGED <<disk, index, leases, reserved, gc, measured, used, deaths>>

\* reconcile_cache_index lists the units with their signatures. A ready row with
\* the signature of its unit is trusted, the others are looked at one by one.
ListUnits(s) ==
  /\ admission = s /\ stage = "reconcile"
  /\ scan' = LET listed == {u \in Units : OnDisk(u)} IN
       [NoScan EXCEPT !.seen = listed,
                      !.unread = {u \in listed : row[u].state # "ready" \/ u \in touched}]
  /\ stage' = "index"
  /\ UNCHANGED <<disk, index, leases, reserved, admission, evicting, usage, local, pc,
                 deaths>>

\* Builds first, the bulk caches last.
NextListed ==
  IF scan.unread \cap Sessions # {} THEN scan.unread \cap Sessions
  ELSE IF Trash \in scan.unread THEN {Trash}
  ELSE scan.unread

Looks(s) == admission = s /\ stage = "index"

\* The row of a unit that was looked at has the signature the unit was listed with.
Stores(u, entry) ==
  /\ row' = [row EXCEPT ![u] = entry]
  /\ touched' = IF u \in scan.moved THEN touched \cup {u} ELSE touched \ {u}
  /\ scan' = [scan EXCEPT !.unread = @ \ {u}, !.moved = @ \ {u},
                          !.unit = None, !.bytes = 0]

Dirtied(u) == [state |-> "dirty", bytes |-> row[u].bytes]

\* A unit in use keeps its known bytes and is dirty.
MarkInUse(s) ==
  /\ Looks(s) /\ scan.unit = None
  /\ \E u \in NextListed : ~Leasable(u) /\ Stores(u, Dirtied(u))
  /\ UNCHANGED <<disk, leases, reserved, admission, stage, evicting, usage, local, pc,
                 deaths>>

\* A leasable unit is measured under its lease, which is closed ...
MeasureUnit(s) ==
  /\ Looks(s) /\ scan.unit = None
  /\ \E u \in NextListed :
       Leasable(u) /\ scan' = [scan EXCEPT !.unit = u, !.bytes = size[u]]
  /\ UNCHANGED <<disk, index, leases, reserved, admission, stage, evicting, usage,
                 local, pc, deaths>>

\* ... before the row is stored, over whatever a session has stored meanwhile.
RecordUnit(s) ==
  /\ Looks(s) /\ scan.unit # None
  /\ Stores(scan.unit, [state |-> "ready", bytes |-> scan.bytes])
  /\ UNCHANGED <<disk, leases, reserved, admission, stage, evicting, usage, local, pc,
                 deaths>>

\* remove_entries_not_in: rows go that were not listed, those of a build attached
\* meanwhile included.
DropUnlisted(s) ==
  /\ Looks(s) /\ scan.unread = {}
  /\ row' = [u \in Units |-> IF u \in scan.seen THEN row[u] ELSE NoRow]
  /\ touched' = touched \cap scan.seen
  /\ scan' = NoScan /\ stage' = "clear"
  /\ UNCHANGED <<disk, leases, reserved, admission, evicting, usage, local, pc,
                 deaths>>

Reconcile(s) ==
  \/ ListUnits(s) \/ MarkInUse(s) \/ MeasureUnit(s) \/ RecordUnit(s)
  \/ DropUnlisted(s)

\* Mutant: recovery takes every row for stale without trying its lease.
ClearStale_Untested(s) ==
  /\ admission = s /\ stage = "clear"
  /\ reserved' = [r \in Sessions |-> 0]
  /\ stage' = "judge"
  /\ usage' = [managed |-> Recorded,
               free |-> Free,
               reserved |-> 0,
               dirty |-> {u \in Units : row[u].state = "dirty"},
               todo |-> {u \in Units : row[u].state # "none"},
               moved |-> 0]
  /\ UNCHANGED <<disk, index, leases, admission, evicting, scan, local, pc, deaths>>

\* _clear_stale_reservations drops the rows whose lease nobody holds; then
\* cache_usage sums the index and plans the candidates.
ClearStale(s) ==
  LET kept == [r \in Sessions |-> IF r \in held THEN reserved[r] ELSE 0]
  IN  /\ admission = s /\ stage = "clear"
      /\ reserved' = kept
      /\ stage' = "judge"
      /\ usage' = [managed |-> Recorded,
                   free |-> Free,
                   reserved |-> Total(kept),
                   dirty |-> {u \in Units : row[u].state = "dirty"},
                   todo |-> {u \in Units : row[u].state # "none"},
                   moved |-> 0]
      /\ UNCHANGED <<disk, index, leases, admission, evicting, scan, local, pc,
                     deaths>>

\* Mutant: what the other sessions have reserved is forgotten.
Requested_Own(s) == asked[s]

Requested(s) == asked[s] + usage.reserved

\* safe(usage)
Safe(s) ==
  /\ usage.dirty = {} \/ usage.reserved > 0
  /\ usage.managed + Requested(s) <= Ceiling
  /\ usage.free - Requested(s) >= MinFree

\* The post-run collection is the one that is not strict: it comes from "exit".
Leave(s, next) ==
  /\ admission' = None /\ stage' = "closed" /\ evicting' = None
  /\ scan' = NoScan /\ usage' = NoUsage
  /\ asked' = [asked EXCEPT ![s] = IF next = "idle" THEN 0 ELSE @]
  /\ pc' = [pc EXCEPT ![s] = next]

\* The time limit passes while a unit is measured.
MeasuringTimesOut(s) ==
  /\ Looks(s) /\ scan.unit = None
  /\ \E u \in NextListed : Leasable(u)
  /\ Leave(s, "idle")
  /\ UNCHANGED <<disk, index, leases, reserved, measured, used, deaths>>

\* Evicting everything would not make room: a strict request is refused with
\* nothing evicted.
Impossible(s) ==
  \/ Requested(s) > Ceiling
  \/ usage.free + usage.managed - Requested(s) < MinFree

RefuseAtOnce(s) ==
  /\ admission = s /\ stage = "judge"
  /\ asked[s] > 0 /\ Impossible(s)
  /\ Leave(s, "idle")
  /\ UNCHANGED <<disk, index, leases, reserved, measured, used, deaths>>

StartEviction(s) ==
  /\ admission = s /\ stage = "judge"
  /\ asked[s] = 0 \/ ~Impossible(s)
  /\ stage' = "evict"
  /\ UNCHANGED <<disk, index, leases, reserved, admission, evicting, scan, usage,
                 local, pc, deaths>>

\* Candidates go by tier: trash, builds, bulk caches.
NextCandidates ==
  IF Trash \in usage.todo THEN {Trash}
  ELSE IF usage.todo \cap Sessions # {} THEN usage.todo \cap Sessions
  ELSE usage.todo

\* The requested project's own build is protected, a leased unit is skipped.
SkipCandidate(s) ==
  /\ admission = s /\ stage = "evict" /\ evicting = None
  /\ ~Safe(s)
  /\ \E u \in NextCandidates :
       /\ (u = s /\ asked[s] > 0) \/ ~Leasable(u)
       /\ usage' = [usage EXCEPT !.todo = @ \ {u}]
  /\ UNCHANGED <<disk, index, leases, reserved, admission, stage, evicting, scan,
                 local, pc, deaths>>

\* mark_deleting, then one rename takes the whole unit out of reach.
Quarantine(s) ==
  /\ admission = s /\ stage = "evict" /\ evicting = None
  /\ ~Safe(s)
  /\ \E u \in NextCandidates :
       /\ ~(u = s /\ asked[s] > 0)
       /\ Leasable(u)
       /\ evicting' = u /\ usage' = [usage EXCEPT !.moved = size[u]]
       /\ row' = [row EXCEPT ![u].state = "deleting"]
       /\ size' = [size EXCEPT ![u] = 0]
       /\ present' = present \ {u}
  /\ UNCHANGED <<touched, leases, reserved, admission, stage, scan, local, pc, deaths>>

\* _delete_tree_bounded finishes: the row goes, and the totals kept in memory
\* shrink by what the index had recorded.
Discard(s) ==
  LET u == evicting
  IN  /\ admission = s /\ u # None
      /\ row' = [row EXCEPT ![u] = NoRow]
      /\ touched' = touched \ {u}
      /\ evicting' = None
      /\ usage' = [usage EXCEPT !.moved = 0,
                                !.todo = @ \ {u},
                                !.dirty = @ \ {u},
                                !.managed = Max({0, @ - row[u].bytes}),
                                !.free = Disk - Total(size)]
      /\ UNCHANGED <<disk, leases, reserved, admission, stage, scan, local, pc, deaths>>

\* A deletion cut short leaves its tree in the trash.
LeaveInTrash ==
  /\ size' = [size EXCEPT ![Trash] = @ + usage.moved]
  /\ touched' = IF usage.moved > 0 THEN touched \cup {Trash} ELSE touched

\* The deadline passes during a deletion or between two candidates.
DeadlineExpires(s) ==
  /\ admission = s /\ stage = "evict"
  /\ ~Safe(s)
  /\ LeaveInTrash
  /\ Leave(s, "idle")
  /\ UNCHANGED <<present, row, leases, reserved, measured, used, deaths>>

\* Candidates are exhausted and the request does not fit: a strict caller gets
\* CacheCapacityError, the post-run collection just ends.
Refuse(s) ==
  /\ admission = s /\ stage = "evict" /\ evicting = None
  /\ ~Safe(s) /\ usage.todo = {}
  /\ Leave(s, "idle")
  /\ UNCHANGED <<disk, index, leases, reserved, measured, used, deaths>>

\* The collection leaves enough room: nothing was asked for.
CollectionDone(s) ==
  /\ admission = s /\ stage = "evict" /\ evicting = None
  /\ Safe(s) /\ asked[s] = 0
  /\ Leave(s, "idle")
  /\ UNCHANGED <<disk, index, leases, reserved, measured, used, deaths>>

\* reserve_cache_capacity: the reservation lease, its row, then the admission
\* lease is given back.
Reserve(s) ==
  /\ admission = s /\ stage = "evict" /\ evicting = None
  /\ Safe(s) /\ asked[s] > 0
  /\ held' = held \cup {s}
  /\ reserved' = [reserved EXCEPT ![s] = asked[s]]
  /\ Leave(s, "admitted")
  /\ UNCHANGED <<disk, index, globals, builds, measured, used, deaths>>
----------------------------------------------------------------------------
(* The managed session.                                                    *)

LeaseGlobal(s) ==
  /\ pc[s] = "admitted"
  /\ ~GlobalTaken
  /\ globals' = globals \cup {s}
  /\ pc' = [pc EXCEPT ![s] = "global"]
  /\ UNCHANGED <<disk, index, reserved, held, builds, gc, local, deaths>>

LeaseBuild(s) ==
  /\ pc[s] = "global"
  /\ ~BuildTaken(s)
  /\ builds' = builds \cup {s}
  /\ pc' = [pc EXCEPT ![s] = "leased"]
  /\ UNCHANGED <<disk, index, reserved, held, globals, gc, local, deaths>>

\* A lease is not granted in time: the `finally' block runs all the same.
LeaseTimesOut(s) ==
  /\ \/ pc[s] = "admitted" /\ GlobalTaken
     \/ pc[s] = "global" /\ BuildTaken(s)
  /\ pc' = [pc EXCEPT ![s] = "finish"]
  /\ UNCHANGED <<disk, index, leases, reserved, gc, local, deaths>>

\* A root that changes after it was listed no longer has the signature listed.
Moves(u) == [scan EXCEPT !.moved = @ \cup ({u} \cap scan.unread)]

\* attach_project_cache makes the target, mark_dirty announces what may grow,
\* os.utime moves the signature of the target on.
Attach(s) ==
  /\ pc[s] = "leased"
  /\ present' = present \cup {s}
  /\ row' = [row EXCEPT ![s] = Dirtied(s), ![Bulk] = Dirtied(Bulk)]
  /\ touched' = (touched \ {Bulk}) \cup {s}
  /\ scan' = Moves(s)
  /\ pc' = [pc EXCEPT ![s] = "work"]
  /\ UNCHANGED <<size, leases, reserved, admission, stage, evicting, usage, local,
                 deaths>>

AttachFails(s) ==
  /\ pc[s] = "leased"
  /\ pc' = [pc EXCEPT ![s] = "finish"]
  /\ UNCHANGED <<disk, index, leases, reserved, gc, local, deaths>>

\* Lake and Lean write within what was reserved; a write at the root of a unit
\* changes its signature, a deeper one does not.
Grow(s) ==
  /\ pc[s] = "work"
  /\ used[s] < asked[s]
  /\ used' = [used EXCEPT ![s] = @ + 1]
  /\ \E u \in {s, Bulk} :
       /\ size' = [size EXCEPT ![u] = @ + 1]
       /\ \/ UNCHANGED <<touched, scan, measured>>
          \/ /\ touched' = touched \cup {u}
             /\ scan' = Moves(u)
             /\ measured' = [r \in Sessions |->
                               [measured[r] EXCEPT !.moved = @ \/ u = Bulk]]
  /\ UNCHANGED <<present, row, leases, reserved, admission, stage, evicting, usage,
                 asked, pc, deaths>>

Finish(s) ==
  /\ pc[s] = "work"
  /\ pc' = [pc EXCEPT ![s] = "finish"]
  /\ UNCHANGED <<disk, index, leases, reserved, gc, local, deaths>>

\* refresh_cache_index_entry of the build; nobody else writes there.
RefreshBuild(s) ==
  /\ pc[s] = "finish"
  /\ row' = [row EXCEPT ![s] = IF s \in present
                               THEN [state |-> "ready", bytes |-> size[s]]
                               ELSE NoRow]
  /\ touched' = touched \ {s}
  /\ pc' = [pc EXCEPT ![s] = "bulk"]
  /\ UNCHANGED <<disk, leases, reserved, gc, local, deaths>>

\* refresh_cache_index_entry of the bulk caches measures first ...
MeasureBulk(s) ==
  /\ pc[s] = "bulk"
  /\ size[Bulk] > 0 /\ ~measured[s].taken
  /\ measured' = [measured EXCEPT ![s] =
                    [taken |-> TRUE, bytes |-> size[Bulk], moved |-> FALSE]]
  /\ UNCHANGED <<disk, index, leases, reserved, gc, used, asked, pc, deaths>>

\* ... and stores the measurement in a transaction of its own.
RecordBulk(s) ==
  /\ pc[s] = "bulk"
  /\ measured[s].taken
  /\ row' = [row EXCEPT ![Bulk] =
               [state |-> "ready", bytes |-> measured[s].bytes]]
  /\ touched' = IF measured[s].moved THEN touched \cup {Bulk}
                                     ELSE touched \ {Bulk}
  /\ measured' = [measured EXCEPT ![s] = NoMeasure]
  /\ pc' = [pc EXCEPT ![s] = "exit"]
  /\ UNCHANGED <<disk, leases, reserved, gc, used, asked, deaths>>

NoBulkToRecord(s) ==
  /\ pc[s] = "bulk"
  /\ size[Bulk] = 0 /\ ~measured[s].taken
  /\ pc' = [pc EXCEPT ![s] = "exit"]
  /\ UNCHANGED <<disk, index, leases, reserved, gc, local, deaths>>

\* The leases are closed, the reservation is removed, and a collection that
\* asks for nothing follows.
Release(s) ==
  /\ pc[s] = "exit"
  /\ builds' = builds \ {s} /\ globals' = globals \ {s}
  /\ held' = held \ {s}
  /\ reserved' = [reserved EXCEPT ![s] = 0]
  /\ asked' = [asked EXCEPT ![s] = 0] /\ used' = [used EXCEPT ![s] = 0]
  /\ pc' = [pc EXCEPT ![s] = "queued"]
  /\ UNCHANGED <<disk, index, gc, measured, deaths>>

\* A killed process loses its leases; its rows and its trees stay.
Die(s) ==
  /\ pc[s] # "idle" /\ deaths < Deaths
  /\ deaths' = deaths + 1
  /\ IF admission = s
     THEN /\ LeaveInTrash
          /\ admission' = None /\ stage' = "closed" /\ evicting' = None
          /\ scan' = NoScan /\ usage' = NoUsage
     ELSE UNCHANGED <<size, touched, gc>>
  /\ held' = held \ {s}
  /\ globals' = globals \ {s} /\ builds' = builds \ {s}
  /\ measured' = [measured EXCEPT ![s] = NoMeasure]
  /\ asked' = [asked EXCEPT ![s] = 0] /\ used' = [used EXCEPT ![s] = 0]
  /\ pc' = [pc EXCEPT ![s] = "idle"]
  /\ UNCHANGED <<present, row, reserved>>

Critical(s) ==
  \/ Reconcile(s) \/ MeasuringTimesOut(s)
  \/ ClearStale(s) \/ RefuseAtOnce(s) \/ StartEviction(s)
  \/ SkipCandidate(s) \/ Quarantine(s) \/ Discard(s) \/ DeadlineExpires(s)
  \/ Refuse(s) \/ CollectionDone(s) \/ Reserve(s)

Session(s) ==
  \/ LeaseGlobal(s) \/ LeaseBuild(s) \/ LeaseTimesOut(s) \/ Attach(s)
  \/ AttachFails(s) \/ Grow(s) \/ Finish(s) \/ RefreshBuild(s)
  \/ MeasureBulk(s) \/ RecordBulk(s) \/ NoBulkToRecord(s) \/ Release(s)

Next ==
  \E s \in Sessions :
    \/ Ask(s) \/ TakeAdmission(s) \/ AdmissionTimesOut(s)
    \/ Critical(s) \/ Session(s) \/ Die(s)

Spec == Init /\ [][Next]_vars
-----------------------------------------------------------------------------
(* What the accounting promises.                                           *)

\* A session that may write holds its reservation: its row is in the table and
\* no recovery by another process has dropped it.
LiveSessionReserved ==
  \A s \in Sessions :
    pc[s] \in {"admitted", "global", "leased", "work", "finish", "bulk", "exit"}
      => s \in held /\ reserved[s] = asked[s] /\ used[s] <= reserved[s]

\* What the live sessions have still to write.
Outstanding == Total([s \in Sessions |-> IF s \in held THEN asked[s] - used[s] ELSE 0])

\* _garbage_collect_cache_locked: whatever dies and however stale the index
\* is, the sessions together never eat into the free-space reserve.
FreeSpaceKept == Free - Outstanding >= MinFree

\* _quarantine_and_delete: a unit is taken away only while no session uses it,
\* neither the build of a project being attached or verified nor, during any
\* session, the bulk caches and the temporary trees.
ActiveNotEvicted ==
  [][\A u \in Units : evicting' = u /\ evicting # u =>
       \A s \in Sessions : u \in {s, Bulk, Trash} =>
         pc[s] \notin {"leased", "work"}]_vars
=============================================================================
