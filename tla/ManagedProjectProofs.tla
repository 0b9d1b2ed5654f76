------------------------- MODULE ManagedProjectProofs -------------------------
(***************************************************************************)
(* The promises of ManagedProject for any number of processes, directories *)
(* and faults.  A lock that is held says nothing of the directory at the   *)
(* path, but while nothing lies in recovery storage only one directory can *)
(* ever have been at the path, and every lock file anybody has opened lies *)
(* in it.                                                                  *)
(***************************************************************************)
EXTENDS ManagedProject, TLAPS

Kinds == {"unborn", "staged", "project", "ghost", "removed"}

\* A directory that has been at the path stays there or in recovery storage.
Born(d) == kind[d] \in {"project", "ghost"}
Placed == \A d \in Dirs : Born(d) <=> d \in {here} \cup trash

\* Who has opened a lock file has opened it in such a directory.
Carrying == {"flock lease", "session", "flock session", "locked", "work", "move",
             "forget"}
Opened ==
  \A c \in Clients : pc[c] \in Carrying => file[c] \in Dirs /\ Born(file[c])

\* Who is past both locks has the session lock of the file it opened last.
Locked ==
  \A c \in Clients : pc[c] \in {"locked", "work", "move"} => session[file[c]] = c

\* A directory is staged by one process.
Staged ==
  /\ \A c \in Clients :
       pc[c] = "install" => file[c] \in Dirs /\ kind[file[c]] = "staged"
  /\ \A c, e \in Clients :
       pc[c] = "install" /\ pc[e] = "install" /\ file[c] = file[e] => c = e

Inv ==
  /\ TypeOK
  /\ kind[First] = "project"
  /\ Placed
  /\ Opened
  /\ Locked
  /\ Staged

\* The steps of a client that change neither the path nor a directory.
StaysPut(c) ==
  \/ Inspect(c) \/ LockLease(c) \/ LockSession(c) \/ Release(c) \/ Work(c)
  \/ WorkEnds(c) \/ Confirm(c) \/ Decline(c) \/ Reinspect(c) \/ MoveFails(c)
  \/ Forget(c) \/ Die(c)

Changes(c) ==
  OpenLock(c) \/ Move(c) \/ ForgetFails(c) \/ Stage(c) \/ Install(c) \/ Record(c)

\* The invariant holds when the project has been created.
LEMMA Start == Init => Inv
  BY ProjectAssumption
  DEF Init, Inv, TypeOK, Kinds, Placed, Born, Opened, Carrying, Locked, Staged

\* Which step a step of the system is.
LEMMA Steps ==
  ASSUME [Next]_vars
  PROVE  \/ \E c \in Clients : StaysPut(c) \/ Changes(c)
         \/ UNCHANGED vars
  BY DEF Next, StaysPut, Changes

\* A fault counts within its bound.
LEMMA OneMore ==
  ASSUME NEW n \in 0..MaxFaults, n < MaxFaults PROVE n + 1 \in 0..MaxFaults
  BY ProjectAssumption

\* A process that opens a file by its path leaves the path at that directory,
\* and makes it if nothing is there.
LEMMA Reached ==
  ASSUME Inv, NEW d \in Dirs, Reach(d)
  PROVE  /\ here' = d /\ here' \in Dirs \cup {None}
         /\ kind' \in [Dirs -> Kinds]
         /\ kind'[d] \in {"project", "ghost"}
         /\ \A e \in Dirs : kind'[e] # kind[e] => kind[e] = "unborn" /\ e = d
         /\ \A e \in Dirs : Born(e) => kind'[e] = kind[e]
         /\ \A e \in Dirs : e \in {here} \cup trash => e \in {d} \cup trash
         /\ d \in {here} \cup trash \/ (here = None /\ kind[d] = "unborn")
<1> USE DEF Inv, TypeOK, Kinds, Reach, Placed, Born
<1>1. CASE here = d /\ UNCHANGED <<here, kind>>
  BY <1>1
<1>2. CASE here = None /\ kind[d] = "unborn" /\ here' = d
           /\ kind' = [kind EXCEPT ![d] = "ghost"]
  BY <1>2, ProjectAssumption
<1> QED
  BY <1>1, <1>2

\* Every step keeps the types.
LEMMA StepTypes == Inv /\ [Next]_vars => TypeOK'
<1> SUFFICES ASSUME Inv, [Next]_vars PROVE TypeOK'
  OBVIOUS
<1> USE ProjectAssumption DEF Inv, TypeOK, Kinds
<1>1. CASE UNCHANGED vars
  BY <1>1 DEF vars, locks
<1>2. ASSUME NEW c \in Clients, StaysPut(c) PROVE TypeOK'
  <2>1. CASE Inspect(c)
    BY <2>1 DEF Inspect, Goto, locks
  <2>2. CASE LockLease(c)
    <3>1. file[c] \in Dirs
      BY <2>2 DEF LockLease, Opened, Carrying
    <3>2. lease' \in [Dirs -> Clients \cup {None}]
      BY <2>2, <3>1 DEF LockLease
    <3>3. pc' = [pc EXCEPT ![c] = "session"] \/ pc' = [pc EXCEPT ![c] = "release"]
      BY <2>2 DEF LockLease, Goto
    <3> QED
      BY <2>2, <3>2, <3>3 DEF LockLease, locks
  <2>3. CASE LockSession(c)
    <3>1. file[c] \in Dirs
      BY <2>3 DEF LockSession, Opened, Carrying
    <3>2. session' \in [Dirs -> Clients \cup {None}]
      BY <2>3, <3>1 DEF LockSession
    <3>3. pc' = [pc EXCEPT ![c] = "locked"] \/ pc' = [pc EXCEPT ![c] = "release"]
      BY <2>3 DEF LockSession, Goto
    <3> QED
      BY <2>3, <3>2, <3>3 DEF LockSession, locks
  <2>4. CASE Release(c)
    BY <2>4 DEF Release, Goto, locks, Without
  <2>5. CASE Work(c)
    BY <2>5 DEF Work, Goto, locks
  <2>6. CASE WorkEnds(c)
    BY <2>6 DEF WorkEnds, Goto, locks
  <2>7. CASE Confirm(c)
    BY <2>7 DEF Confirm, Goto, locks, Without
  <2>8. CASE Decline(c)
    BY <2>8 DEF Decline, Goto, locks
  <2>9. CASE Reinspect(c)
    BY <2>9 DEF Reinspect, Goto, locks
  <2>10. CASE MoveFails(c)
    BY <2>10 DEF MoveFails, Goto, locks
  <2>11. CASE Forget(c)
    BY <2>11 DEF Forget, Goto, locks
  <2>12. CASE Die(c)
    <3>1. faults' \in 0..MaxFaults
      <4>1. faults' = faults + 1 /\ faults < MaxFaults /\ faults \in 0..MaxFaults
        BY <2>12 DEF Die
      <4> QED
        BY <4>1, OneMore
    <3>2. /\ lease' \in [Dirs -> Clients \cup {None}]
          /\ session' \in [Dirs -> Clients \cup {None}]
      BY <2>12 DEF Die, Without
    <3>3. /\ goal' = [goal EXCEPT ![c] = "none"] /\ file' = [file EXCEPT ![c] = None]
          /\ pc' = [pc EXCEPT ![c] = "idle"]
      BY <2>12 DEF Die, Goto
    <3> QED
      BY <2>12, <3>1, <3>2, <3>3 DEF Die
  <2> QED
    BY <1>2, <2>1, <2>2, <2>3, <2>4, <2>5, <2>6, <2>7, <2>8, <2>9, <2>10,
       <2>11, <2>12 DEF StaysPut
<1>3. ASSUME NEW c \in Clients, Changes(c) PROVE TypeOK'
  <2>1. CASE OpenLock(c)
    <3>1. here' \in Dirs \cup {None} /\ kind' \in [Dirs -> Kinds]
      BY <2>1, Reached DEF OpenLock
    <3>2. file' \in [Clients -> Dirs \cup {None}]
      BY <2>1 DEF OpenLock
    <3>3. \/ pc' = [pc EXCEPT ![c] = "flock lease"]
          \/ pc' = [pc EXCEPT ![c] = "flock session"]
      BY <2>1 DEF OpenLock, Goto
    <3> QED
      BY <2>1, <3>1, <3>2, <3>3 DEF OpenLock, locks
  <2>2. CASE Move(c)
    BY <2>2 DEF Move, Goto, locks, Opened, Carrying
  <2>3. CASE ForgetFails(c)
    <3>1. faults' \in 0..MaxFaults
      <4>1. faults' = faults + 1 /\ faults < MaxFaults /\ faults \in 0..MaxFaults
        BY <2>3 DEF ForgetFails
      <4> QED
        BY <4>1, OneMore
    <3>2. here' \in Dirs \cup {None} /\ trash' \subseteq Dirs
      BY <2>3 DEF ForgetFails, Opened, Carrying
    <3>3. pc' = [pc EXCEPT ![c] = "release"]
      BY <2>3 DEF ForgetFails, Goto
    <3> QED
      BY <2>3, <3>1, <3>2, <3>3 DEF ForgetFails, locks
  <2>4. CASE Stage(c)
    <3>1. PICK d \in Dirs : /\ kind' = [kind EXCEPT ![d] = "staged"]
                            /\ file' = [file EXCEPT ![c] = d]
      BY <2>4 DEF Stage
    <3>2. goal' = [goal EXCEPT ![c] = "create"] /\ pc' = [pc EXCEPT ![c] = "install"]
      BY <2>4 DEF Stage, Goto
    <3> QED
      BY <2>4, <3>1, <3>2 DEF Stage, locks
  <2>5. CASE Install(c)
    <3>1. file[c] \in Dirs
      BY <2>5 DEF Install, Staged
    <3>2. CASE here = None
      BY <2>5, <3>1, <3>2 DEF Install, Goto, locks
    <3>3. CASE here # None
      BY <2>5, <3>1, <3>3 DEF Install, Goto, locks
    <3> QED
      BY <3>2, <3>3
  <2>6. CASE Record(c)
    <3>1. here' \in Dirs \cup {None} /\ kind' \in [Dirs -> Kinds]
      BY <2>6, Reached DEF Record
    <3>2. file' \in [Clients -> Dirs \cup {None}]
      BY <2>6 DEF Record
    <3>3. pc' = [pc EXCEPT ![c] = "release"]
      BY <2>6 DEF Record, Goto
    <3> QED
      BY <2>6, <3>1, <3>2, <3>3 DEF Record, locks
  <2> QED
    BY <1>3, <2>1, <2>2, <2>3, <2>4, <2>5, <2>6 DEF Changes
<1> QED
  BY <1>1, <1>2, <1>3, Steps

\* What has been at the path stays what it is, at the path or in recovery
\* storage.
LEMMA StepPlaced ==
  Inv /\ [Next]_vars => Placed' /\ \A d \in Dirs : Born(d) => kind'[d] = kind[d]
<1> DEFINE Goal == Placed' /\ \A d \in Dirs : Born(d) => kind'[d] = kind[d]
<1> SUFFICES ASSUME Inv, [Next]_vars PROVE Goal
  OBVIOUS
<1> USE ProjectAssumption
<1>1. CASE UNCHANGED <<here, kind, trash>>
  BY <1>1 DEF Inv, Placed, Born
<1>2. ASSUME NEW c \in Clients, StaysPut(c) PROVE Goal
  <2>1. UNCHANGED <<here, kind, trash>>
    BY <1>2 DEF StaysPut, Inspect, LockLease, LockSession, Release, Work, WorkEnds,
       Confirm, Decline, Reinspect, MoveFails, Forget, Die
  <2> QED
    BY <2>1, <1>1
<1>3. ASSUME NEW c \in Clients, Changes(c) PROVE Goal
  <2>1. CASE OpenLock(c) \/ Record(c)
    <3>1. PICK d \in Dirs : Reach(d)
      BY <2>1 DEF OpenLock, Record
    <3>2. trash' = trash
      BY <2>1 DEF OpenLock, Record
    <3>3. CASE here = d /\ UNCHANGED <<here, kind>>
      BY <3>2, <3>3, <1>1
    <3>4. CASE /\ here = None /\ kind[d] = "unborn"
               /\ here' = d /\ kind' = [kind EXCEPT ![d] = "ghost"]
      <4>1. \A e \in Dirs : kind'[e] = IF e = d THEN "ghost" ELSE kind[e]
        BY <3>4 DEF Inv, TypeOK
      <4>2. \A e \in Dirs : Born(e) <=> e \in trash
        BY <3>4 DEF Inv, Placed
      <4> QED
        BY <3>2, <3>4, <4>1, <4>2 DEF Placed, Born
    <3> QED
      BY <3>1, <3>3, <3>4 DEF Reach
  <2>2. CASE Move(c)
    BY <2>2 DEF Move, Inv, TypeOK, Placed, Born
  <2>3. CASE ForgetFails(c)
    <3>1. kind' = kind /\ file[c] \in Dirs /\ Born(file[c])
      BY <2>3 DEF ForgetFails, Inv, Opened, Carrying
    <3>2. CASE here = None
      <4>1. here' = file[c] /\ trash' = trash \ {file[c]}
        BY <2>3, <3>2 DEF ForgetFails
      <4>2. \A d \in Dirs : Born(d) <=> d \in trash
        BY <3>2 DEF Inv, Placed
      <4> QED
        BY <3>1, <4>1, <4>2 DEF Placed, Born
    <3>3. CASE here # None
      BY <2>3, <3>1, <3>3, <1>1 DEF ForgetFails
    <3> QED
      BY <3>2, <3>3
  <2>4. CASE Stage(c)
    <3>1. PICK d \in Dirs : kind[d] = "unborn" /\ kind' = [kind EXCEPT ![d] = "staged"]
      BY <2>4 DEF Stage
    <3> QED
      BY <2>4, <3>1 DEF Stage, Inv, TypeOK, Placed, Born
  <2>5. CASE Install(c)
    <3>1. file[c] \in Dirs /\ kind[file[c]] = "staged"
      BY <2>5 DEF Install, Inv, Staged
    <3>2. CASE here = None
      <4>1. \A d \in Dirs : kind'[d] = IF d = file[c] THEN "project" ELSE kind[d]
        BY <2>5, <3>1, <3>2 DEF Install, Inv, TypeOK
      <4>2. here' = file[c] /\ trash' = trash
        BY <2>5, <3>2 DEF Install
      <4>3. \A d \in Dirs : Born(d) <=> d \in trash
        BY <3>2 DEF Inv, Placed
      <4> QED
        BY <3>1, <4>1, <4>2, <4>3 DEF Placed, Born
    <3>3. CASE here # None
      BY <2>5, <3>1, <3>3 DEF Install, Inv, TypeOK, Placed, Born
    <3> QED
      BY <3>2, <3>3
  <2> QED
    BY <1>3, <2>1, <2>2, <2>3, <2>4, <2>5 DEF Changes
<1> QED
  BY <1>1, <1>2, <1>3, Steps DEF vars

\* A lock file is opened in the directory at the path.
LEMMA StepOpened == Inv /\ [Next]_vars => Opened'
<1> SUFFICES ASSUME Inv, [Next]_vars PROVE Opened'
  OBVIOUS
<1>1. \A d \in Dirs : Born(d) => Born(d)'
  BY StepPlaced DEF Born
<1>2. CASE UNCHANGED <<pc, file>>
  BY <1>1, <1>2 DEF Inv, Opened, Carrying
<1>3. ASSUME NEW c \in Clients,
             \A e \in Clients \ {c} : pc'[e] = pc[e] /\ file'[e] = file[e],
             pc'[c] \in Carrying => (file[c] \in Dirs /\ Born(file[c]))'
      PROVE Opened'
  BY <1>1, <1>3 DEF Inv, Opened
<1>4. ASSUME NEW c \in Clients, StaysPut(c) PROVE Opened'
  <2> USE DEF Inv, TypeOK, Goto
  <2>1. \A e \in Clients \ {c} : pc'[e] = pc[e] /\ file'[e] = file[e]
    BY <1>4 DEF StaysPut, Inspect, LockLease, LockSession, Release, Work, WorkEnds,
       Confirm, Decline, Reinspect, MoveFails, Forget, Die
  <2>2. pc'[c] \in Carrying => pc[c] \in Carrying /\ file'[c] = file[c]
    BY <1>4 DEF Carrying, StaysPut, Inspect, LockLease, LockSession, Release, Work,
       WorkEnds, Confirm, Decline, Reinspect, MoveFails, Forget, Die
  <2> QED
    BY <2>1, <2>2, <1>1, <1>3 DEF Opened
<1>5. ASSUME NEW c \in Clients, Changes(c) PROVE Opened'
  <2> USE DEF Inv, TypeOK, Goto
  <2>1. \A e \in Clients \ {c} : pc'[e] = pc[e] /\ file'[e] = file[e]
    BY <1>5 DEF Changes, OpenLock, Move, ForgetFails, Stage, Install, Record
  <2>2. CASE OpenLock(c)
    <3>1. PICK d \in Dirs : Reach(d) /\ file' = [file EXCEPT ![c] = d]
      BY <2>2 DEF OpenLock
    <3>2. file'[c] = d
      BY <3>1
    <3>3. Born(d)'
      <4>1. CASE here = d /\ UNCHANGED <<here, kind>>
        BY <4>1 DEF Placed, Born
      <4>2. CASE kind' = [kind EXCEPT ![d] = "ghost"]
        BY <4>2 DEF Born
      <4> QED
        BY <3>1, <4>1, <4>2 DEF Reach
    <3>4. (file[c] \in Dirs /\ Born(file[c]))'
      BY <3>2, <3>3 DEF Born
    <3> QED
      BY <3>4, <2>1, <1>3
  <2>3. CASE Move(c)
    BY <2>1, <2>3, <1>3, ProjectAssumption DEF Move, Placed, Born
  <2>4. CASE ForgetFails(c) \/ Stage(c) \/ Install(c) \/ Record(c)
    <3>1. pc'[c] \notin Carrying
      BY <2>4 DEF ForgetFails, Stage, Install, Record, Carrying
    <3> QED
      BY <3>1, <2>1, <1>3
  <2> QED
    BY <1>5, <2>2, <2>3, <2>4 DEF Changes
<1> QED
  BY <1>2, <1>4, <1>5, Steps DEF vars

\* The session lock of a directory is taken when it is free, and given back by
\* its owner.
LEMMA StepLocked == Inv /\ [Next]_vars => Locked'
<1> DEFINE Inside == {"locked", "work", "move"}
<1> SUFFICES ASSUME Inv, [Next]_vars PROVE Locked'
  OBVIOUS
<1>1. CASE UNCHANGED <<session, pc, file>>
  BY <1>1 DEF Inv, Locked
<1>2. ASSUME NEW c \in Clients, StaysPut(c) \/ Changes(c) PROVE Locked'
  <2> USE DEF Inv, TypeOK, Goto
  <2>1. \A e \in Clients \ {c} : pc'[e] = pc[e] /\ file'[e] = file[e]
    BY <1>2 DEF StaysPut, Inspect, LockLease, LockSession, Release, Work, WorkEnds,
       Confirm, Decline, Reinspect, MoveFails, Forget, Die, Changes, OpenLock, Move,
       ForgetFails, Stage, Install, Record
  <2>2. session' \in {session, Without(c, session), [session EXCEPT ![file[c]] = c]}
    BY <1>2 DEF StaysPut, Inspect, LockLease, LockSession, Release, Work, WorkEnds,
       Confirm, Decline, Reinspect, MoveFails, Forget, Die, Changes, OpenLock, Move,
       ForgetFails, Stage, Install, Record, locks
  <2>3. session' = [session EXCEPT ![file[c]] = c]
          => session' \in {session, Without(c, session)} \/ session[file[c]] = None
    BY <1>2 DEF StaysPut, Inspect, LockLease, LockSession, Release, Work, WorkEnds,
       Confirm, Decline, Reinspect, MoveFails, Forget, Die, Changes, OpenLock, Move,
       ForgetFails, Stage, Install, Record, locks, Free
  <2>4. ASSUME NEW e \in Clients \ {c}, pc'[e] \in Inside PROVE session'[file'[e]] = e
    <3>1. session[file[e]] = e /\ file[e] \in Dirs /\ file'[e] = file[e] /\ e # None
      BY <2>1, <2>4, ProjectAssumption DEF Locked, Opened, Carrying
    <3>2. CASE session' = session
      BY <3>1, <3>2
    <3>3. CASE session' = Without(c, session)
      BY <3>1, <3>3 DEF Without
    <3>4. CASE session' = [session EXCEPT ![file[c]] = c] /\ session[file[c]] = None
      BY <3>1, <3>4
    <3> QED
      BY <2>2, <2>3, <3>2, <3>3, <3>4
  <2>5. ASSUME pc'[c] \in Inside PROVE session'[file'[c]] = c
    <3>1. CASE LockSession(c)
      <4>1. file[c] \in Dirs
        BY <3>1 DEF LockSession, Opened, Carrying
      <4>2. Free(session, file[c])
        BY <2>5, <3>1 DEF LockSession
      <4> QED
        BY <3>1, <4>1, <4>2 DEF LockSession
    <3>2. CASE ~LockSession(c)
      <4>1. pc[c] \in Inside /\ file'[c] = file[c] /\ session' = session
        BY <1>2, <2>5, <3>2 DEF StaysPut, Inspect, LockLease, Release, Work, WorkEnds,
           Confirm, Decline, Reinspect, MoveFails, Forget, Die, Changes, OpenLock,
           Move, ForgetFails, Stage, Install, Record, locks
      <4> QED
        BY <4>1 DEF Locked
    <3> QED
      BY <3>1, <3>2
  <2> QED
    BY <2>4, <2>5 DEF Locked
<1> QED
  BY <1>1, <1>2, Steps DEF vars, locks

\* A directory is staged once, and leaves that state with its process.
LEMMA StepStaged == Inv /\ [Next]_vars => Staged'
<1> SUFFICES ASSUME Inv, [Next]_vars PROVE Staged'
  OBVIOUS
<1>1. Staged
  BY DEF Inv
<1>2. CASE UNCHANGED <<kind, pc, file>>
  BY <1>1, <1>2 DEF Staged
<1>3. ASSUME NEW c \in Clients, pc'[c] # "install",
             \A e \in Clients \ {c} : pc'[e] = pc[e] /\ file'[e] = file[e],
             \A e \in Clients \ {c} : pc[e] = "install" => kind'[file[e]] = "staged"
      PROVE Staged'
  <2>1. \A e \in Clients : pc'[e] = "install" => e # c /\ pc[e] = "install"
    BY <1>3
  <2> QED
    BY <1>1, <1>3, <2>1 DEF Staged
<1>4. ASSUME NEW c \in Clients, StaysPut(c) PROVE Staged'
  <2> USE DEF Inv, TypeOK, Goto
  <2>1. kind' = kind /\ pc'[c] # "install"
    BY <1>4 DEF StaysPut, Inspect, LockLease, LockSession, Release, Work, WorkEnds,
       Confirm, Decline, Reinspect, MoveFails, Forget, Die
  <2>2. \A e \in Clients \ {c} : pc'[e] = pc[e] /\ file'[e] = file[e]
    BY <1>4 DEF StaysPut, Inspect, LockLease, LockSession, Release, Work, WorkEnds,
       Confirm, Decline, Reinspect, MoveFails, Forget, Die
  <2>3. \A e \in Clients \ {c} : pc[e] = "install" => kind'[file[e]] = "staged"
    BY <1>1, <2>1 DEF Staged
  <2> QED
    BY <2>1, <2>2, <2>3, <1>3
<1>5. ASSUME NEW c \in Clients, Changes(c) PROVE Staged'
  <2>1. \A e \in Clients \ {c} : pc'[e] = pc[e] /\ file'[e] = file[e]
    BY <1>5 DEF Inv, TypeOK, Goto, Changes, OpenLock, Move, ForgetFails, Stage,
       Install, Record
  <2>2. CASE OpenLock(c) \/ Record(c)
    <3>1. pc'[c] # "install"
      BY <2>2 DEF OpenLock, Record, Goto, Inv, TypeOK
    <3>2. PICK d \in Dirs : Reach(d)
      BY <2>2 DEF OpenLock, Record
    <3>3. \A x \in Dirs : kind[x] = "staged" => kind'[x] = "staged"
      BY <3>2 DEF Reach, Inv, TypeOK
    <3>4. \A e \in Clients \ {c} : pc[e] = "install" => kind'[file[e]] = "staged"
      BY <1>1, <3>3 DEF Staged
    <3> QED
      BY <2>1, <3>1, <3>4, <1>3
  <2>3. CASE Move(c) \/ ForgetFails(c)
    <3>1. kind' = kind /\ pc'[c] # "install"
      BY <2>3 DEF Move, ForgetFails, Goto, Inv, TypeOK
    <3>2. \A e \in Clients \ {c} : pc[e] = "install" => kind'[file[e]] = "staged"
      BY <1>1, <3>1 DEF Staged
    <3> QED
      BY <2>1, <3>1, <3>2, <1>3
  <2>4. CASE Stage(c)
    <3>1. PICK d \in Dirs : /\ kind[d] = "unborn" /\ kind' = [kind EXCEPT ![d] = "staged"]
                            /\ file' = [file EXCEPT ![c] = d]
      BY <2>4 DEF Stage
    <3>2. file'[c] = d /\ kind'[d] = "staged"
      BY <3>1 DEF Inv, TypeOK
    <3>3. \A x \in Dirs : kind[x] = "staged" => x # d /\ kind'[x] = "staged"
      BY <3>1 DEF Inv, TypeOK
    <3>4. ASSUME NEW e \in Clients, pc'[e] = "install", e # c
          PROVE  /\ pc[e] = "install" /\ file'[e] = file[e]
                 /\ file'[e] \in Dirs /\ file'[e] # d /\ kind'[file'[e]] = "staged"
      BY <1>1, <2>1, <3>3, <3>4 DEF Staged
    <3>5. ASSUME NEW e \in Clients, NEW f \in Clients, pc'[e] = "install",
                 pc'[f] = "install", file'[e] = file'[f]
          PROVE  e = f
      BY <1>1, <3>2, <3>4, <3>5 DEF Staged
    <3> QED
      BY <3>2, <3>4, <3>5 DEF Staged
  <2>5. CASE Install(c)
    <3>1. pc'[c] # "install" /\ file[c] \in Dirs /\ pc[c] = "install"
      BY <1>1, <2>5 DEF Install, Staged, Goto, Inv, TypeOK
    <3>2. \A d \in Dirs \ {file[c]} : kind'[d] = kind[d]
      BY <2>5, <3>1 DEF Install, Inv, TypeOK
    <3>3. \A e \in Clients \ {c} : pc[e] = "install" => kind'[file[e]] = "staged"
      BY <1>1, <3>1, <3>2 DEF Staged
    <3> QED
      BY <2>1, <3>1, <3>3, <1>3
  <2> QED
    BY <1>5, <2>2, <2>3, <2>4, <2>5 DEF Changes
<1> QED
  BY <1>2, <1>4, <1>5, Steps DEF vars

\* The layers together are inductive.
LEMMA StepInv == Inv /\ [Next]_vars => Inv'
<1> SUFFICES ASSUME Inv, [Next]_vars PROVE Inv'
  OBVIOUS
<1>1. (kind[First] = "project")'
  BY StepPlaced, ProjectAssumption DEF Inv, Born
<1> QED
  BY <1>1, StepTypes, StepPlaced, StepOpened, StepLocked, StepStaged DEF Inv

LEMMA Invariance == Spec => []Inv
  BY Start, StepInv, PTL DEF Spec

\* As long as nothing lies in recovery storage, who is past both locks has the
\* session lock of the first project.
LEMMA OnlyFirst ==
  ASSUME Inv, trash = {}, NEW c \in Clients, pc[c] \in {"locked", "work", "move"}
  PROVE  file[c] = First /\ here = First /\ session[First] = c
<1>1. First = here
  BY ProjectAssumption DEF Inv, Placed, Born
<1>2. file[c] \in Dirs /\ Born(file[c])
  BY DEF Inv, Opened, Carrying
<1> QED
  BY <1>1, <1>2 DEF Inv, Placed, Locked

\* Every variable keeps its type (the processes of management.py and locking.py).
THEOREM TypeCorrect == Spec => []TypeOK
<1>1. Inv => TypeOK
  BY DEF Inv
<1> QED
  BY <1>1, Invariance, PTL

\* delete_project, _restore and initialize: a project that exists stays at its
\* path or in recovery storage, whatever fails and whoever interferes.
THEOREM ProjectsStay == Spec => ProjectsAreKept
<1>1. Inv /\ Inv' /\ [Next]_vars => [\A d \in Dirs : Kept(d) => Kept(d)']_vars
  <2> SUFFICES ASSUME Inv, Inv', [Next]_vars, NEW d \in Dirs, Kept(d) PROVE Kept(d)'
    OBVIOUS
  <2>1. kind'[d] = "project"
    BY StepPlaced DEF Kept, Born
  <2>2. Born(d)'
    BY <2>1 DEF Born
  <2> QED
    BY <2>1, <2>2 DEF Kept, Inv, Placed
<1> QED
  BY <1>1, Invariance, PTL DEF Spec, ProjectsAreKept

\* acquire_worker_lease and project_lock: until a project is taken away, one
\* verification at a time works on it.
THEOREM WorkersStayAlone == Spec => []WorkersAlone
<1>1. Inv => WorkersAlone
  BY OnlyFirst DEF WorkersAlone, Working
<1> QED
  BY <1>1, Invariance, PTL

\* delete_project: a project is taken away only while nobody works on it.
THEOREM MovedOnlyWhileIdle == Spec => MovedWhileIdle
<1>1. Inv /\ [Next]_vars => [trash = {} /\ trash' # {} => Working = {}]_vars
  <2> SUFFICES ASSUME Inv, [Next]_vars, trash = {}, trash' # {}, NEW e \in Clients,
                      pc[e] = "work"
               PROVE  FALSE
    BY DEF Working
  <2>1. PICK c \in Clients : Move(c)
    BY Steps DEF vars, StaysPut, Inspect, LockLease, LockSession, Release, Work,
       WorkEnds, Confirm, Decline, Reinspect, MoveFails, Forget, Die, Changes,
       OpenLock, ForgetFails, Stage, Install, Record
  <2>2. session[First] = c /\ session[First] = e
    BY <2>1, OnlyFirst DEF Move
  <2> QED
    BY <2>1, <2>2 DEF Move
<1> QED
  BY <1>1, Invariance, PTL DEF Spec, MovedWhileIdle
===============================================================================
