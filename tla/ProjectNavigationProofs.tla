----------------------- MODULE ProjectNavigationProofs -----------------------
(***************************************************************************)
(* Proofs about ProjectNavigation for any projects, any finite set of      *)
(* places for threads and any bounds on jobs and requests.                 *)
(*                                                                         *)
(* The argument.  What the user sees of a project is the first screen that *)
(* is no dialog. It can be cancelled only if it is the current watch and   *)
(* shows the job last observed for it (ShowsObserved); an observation is   *)
(* recorded on every watch with the identity it was made for, so           *)
(* identities must not be shared by two projects (OneProject): a new watch *)
(* takes one that no screen and no thread has. A watch becomes the current *)
(* one together with its observer, which supersedes the others, and an     *)
(* observer that gives up says so or clears the watch (Watched). A         *)
(* verification that was asked for is owed to one thread or to the answer  *)
(* the settings keep back, and is handed from one to the next (DebtInv).   *)
(*                                                                         *)
(* The invariants are about the record of the interface, not about the     *)
(* variable, so that each operator on it has one lemma, which every action *)
(* that calls it uses.                                                     *)
(***************************************************************************)
EXTENDS ProjectNavigation, FiniteSetTheorems, TLAPS

-----------------------------------------------------------------------------
(* The invariant.                                                          *)

Overlays == Modals \cup {"settings"}

\* What is on the screen under its dialogs: the first screen that is none.
Shown(u, n) == n \in DOMAIN u.stack /\ \A m \in 1 .. n - 1 : u.stack[m].kind \in Overlays

\* The bottom of the stack is a screen, and the settings are covered by help alone.
Rooted(u) == u.stack # <<>> /\ u.stack[Len(u.stack)].kind \notin Overlays

SettingsAbove(u) ==
    u.settings => \E n \in DOMAIN u.stack :
                    /\ u.stack[n].kind = "settings"
                    /\ \A m \in 1 .. n - 1 : u.stack[m].kind = "help"

\* A thread holds what its phase needs.
Watcher(t) == t.does \in {"observe", "cancel"}

Consistent(t) ==
    /\ t.does # "probe" => t.project \in Projects
    /\ t.phase = "working" => t.does # "observe"
    /\ t.phase = "answering" => ~Watcher(t) /\ t.nav \in Navs
    /\ t.phase \in {"submitting", "polling", "ending"} => t.does = "observe"
    /\ t.phase \in {"showing", "failing"} => Watcher(t)
    /\ t.phase \in {"showing", "polling"} \/ t.does = "cancel" => t.obs \in Obs
    /\ t.phase = "ending" => t.nav \in Navs /\ t.nav.to = "snapshot"
    /\ Watcher(t) => t.watch \in Nat

ThreadsOK(u) == \A i \in Slots : u.threads[i] # None => Consistent(u.threads[i])

\* The identities in use, on the screen or in a thread, are those of one project each.
Marks(u) ==
    {<<s.id, s.project>> : s \in Watches(u)}
    \cup {<<u.threads[i].watch, u.threads[i].project>> :
            i \in {j \in Slots : u.threads[j] # None /\ Watcher(u.threads[j])}}

OneProject(u) == \A x, y \in Marks(u) : x[1] = y[1] => x[2] = y[2]

\* A watch that can be cancelled shows the job last observed for it.
ShowsObserved(u) ==
    \A n \in DOMAIN u.stack :
      LET s == u.stack[n] IN
        Shown(u, n) /\ s.kind = "watch" /\ s.cancel /\ s.heeded /\ u.watch # None =>
          /\ s.id = u.watch /\ u.observed # None
          /\ u.observed.project = s.project /\ u.observed.obs.job = s.job

\* The current watch has an observer, or wherever it is says that it has none.
Watched(u) ==
    u.watch # None =>
      \/ \A s \in Watches(u) : s.id = u.watch => s.error
      \/ \E i \in Slots : /\ u.threads[i] # None /\ u.threads[i].does = "observe"
                          /\ u.threads[i].watch = u.watch /\ ~u.threads[i].cancelled

\* What each verification that is still owed is owed to: a thread, or an answer that
\* the settings keep back.
Starts(t, p) ==
    \/ t.does = "create" /\ t.phase = "working" /\ t.project = p
    \/ t.does = "observe" /\ t.phase = "submitting" /\ t.project = p
    \/ t.phase = "answering" /\ t.nav = Nav("created", p)

Debts(u, p) ==
    {i \in Slots : u.threads[i] # None /\ Starts(u.threads[i], p)}
    \cup (IF u.kept = Nav("created", p) THEN {None} ELSE {})

DebtInv == \A p \in Projects : Cardinality(Debts(ui, p)) <= owed[p]

Coherent(u) ==
    /\ Rooted(u) /\ SettingsAbove(u)
    /\ ThreadsOK(u) /\ OneProject(u) /\ ShowsObserved(u)

IInv == TypeOK /\ Coherent(ui) /\ Watched(ui) /\ DebtInv

-----------------------------------------------------------------------------
(* What the operators on the interface do, field by field.                 *)

\* Everything but the stack of screens.
Rest(u) == <<u.watch, u.observed, u.settings, u.kept, u.questions, u.threads>>

LEMMA SwitchFields ==
  ASSUME NEW u \in Uis, u.stack # <<>>, NEW s \in Screens
  PROVE  LET v == Switch(u, s) IN
         /\ v \in Uis /\ Rest(v) = Rest(u)
         /\ Len(v.stack) = Len(u.stack) /\ v.stack[1] = s
         /\ \A n \in 2 .. Len(u.stack) : v.stack[n] = u.stack[n]
<1> DEFINE q == <<s>> \o Tail(u.stack)
<1>1. u.stack \in Seq(Screens)
  BY DEF Uis
<1>2. q \in Seq(Screens) /\ Len(q) = Len(u.stack) /\ q[1] = s
      /\ \A n \in 2 .. Len(u.stack) : q[n] = u.stack[n]
  BY <1>1
<1> HIDE DEF q
<1>3. Switch(u, s) = [u EXCEPT !.stack = q]
  BY DEF Switch, q
<1> QED
  BY <1>1, <1>2, <1>3 DEF Uis, Rest

LEMMA PushFields ==
  ASSUME NEW u \in Uis, NEW s \in Screens
  PROVE  LET v == Push(u, s) IN
         /\ v \in Uis /\ Rest(v) = Rest(u)
         /\ Len(v.stack) = Len(u.stack) + 1 /\ v.stack[1] = s
         /\ \A n \in 1 .. Len(u.stack) : v.stack[n + 1] = u.stack[n]
<1> DEFINE q == <<s>> \o u.stack
<1>1. u.stack \in Seq(Screens)
  BY DEF Uis
<1>2. q \in Seq(Screens) /\ Len(q) = Len(u.stack) + 1 /\ q[1] = s
      /\ \A n \in 1 .. Len(u.stack) : q[n + 1] = u.stack[n]
  BY <1>1
<1> HIDE DEF q
<1>3. Push(u, s) = [u EXCEPT !.stack = q]
  BY DEF Push, q
<1> QED
  BY <1>1, <1>2, <1>3 DEF Uis, Rest

LEMMA PopFields ==
  ASSUME NEW u \in Uis, u.stack # <<>>
  PROVE  LET v == Pop(u) IN
         /\ v \in Uis /\ Rest(v) = Rest(u)
         /\ Len(v.stack) = Len(u.stack) - 1
         /\ \A n \in 1 .. Len(u.stack) - 1 : v.stack[n] = u.stack[n + 1]
<1> DEFINE q == Tail(u.stack)
<1>1. u.stack \in Seq(Screens)
  BY DEF Uis
<1>2. q \in Seq(Screens) /\ Len(q) = Len(u.stack) - 1
      /\ \A n \in 1 .. Len(u.stack) - 1 : q[n] = u.stack[n + 1]
  BY <1>1
<1> HIDE DEF q
<1>3. Pop(u) = [u EXCEPT !.stack = q]
  BY DEF Pop, q
<1> QED
  BY <1>1, <1>2, <1>3 DEF Uis, Rest

LEMMA SpawnFields ==
  ASSUME NEW u \in Uis, Room(u), NEW t \in Threads
  PROVE  \E i \in Slots :
           LET v == Spawn(u, t) IN
           /\ u.threads[i] = None /\ v = [u EXCEPT !.threads[i] = t]
           /\ v \in Uis /\ v.stack = u.stack /\ v.threads = [u.threads EXCEPT ![i] = t]
           /\ Rest(v) = <<u.watch, u.observed, u.settings, u.kept, u.questions, v.threads>>
<1> DEFINE i == Some(Slots \ Alive(u))
<1>1. i \in Slots \ Alive(u)
  BY DEF Room, Alive, Some
<1>2. Spawn(u, t) = [u EXCEPT !.threads[i] = t]
  BY DEF Spawn
<1> HIDE DEF i
<1>3. i \in Slots /\ u.threads[i] = None
  BY <1>1 DEF Alive
<1> DEFINE v == [u EXCEPT !.threads[i] = t]
<1>4. v.threads = [u.threads EXCEPT ![i] = t] /\ v.stack = u.stack
      /\ Rest(v) = <<u.watch, u.observed, u.settings, u.kept, u.questions, v.threads>>
  BY DEF Uis, Rest
<1>5. v \in Uis
  BY <1>3 DEF Uis
<1> QED
  BY <1>2, <1>3, <1>4, <1>5

-----------------------------------------------------------------------------
(* Screens that come and go.                                               *)

\* A change that disturbs nothing and owes nothing.
Keeps(u, v) ==
    /\ v \in Uis /\ Coherent(v) /\ (Watched(u) => Watched(v))
    /\ \A p \in Projects : Debts(v, p) \subseteq Debts(u, p)

LEMMA KeepsTwice ==
  ASSUME NEW u, NEW v, NEW w, Keeps(u, v), Keeps(v, w)
  PROVE  Keeps(u, w)
BY DEF Keeps

\* With the same threads, what matters is which watches are left.
LEMMA SameThreads ==
  ASSUME NEW u \in Uis, NEW v \in Uis, Coherent(u), v.threads = u.threads, v.watch = u.watch,
         v.kept = u.kept \/ v.kept = None, Watches(v) \subseteq Watches(u),
         Rooted(v), SettingsAbove(v), ShowsObserved(v)
  PROVE  Keeps(u, v)
<1>1. Marks(v) \subseteq Marks(u)
  BY DEF Marks
<1>2. Coherent(v)
  BY <1>1 DEF Coherent, ThreadsOK, OneProject
<1>3. Watched(u) => Watched(v)
  BY DEF Watched
<1>4. \A p \in Projects : Debts(v, p) \subseteq Debts(u, p)
  BY NoneIsNoRecord DEF Debts, Nav, Navs
<1> QED
  BY <1>2, <1>3, <1>4 DEF Keeps

LEMMA SwitchKeeps ==
  ASSUME NEW u \in Uis, Coherent(u), ~u.settings, NEW s \in Screens,
         s.kind \notin Overlays \cup {"watch"}
  PROVE  Keeps(u, Switch(u, s)) /\ Switch(u, s).settings = FALSE
                                /\ Rest(Switch(u, s)) = Rest(u)
<1> DEFINE v == Switch(u, s)
<1>1. u.stack # <<>> /\ u.stack \in Seq(Screens)
  BY DEF Coherent, Rooted, Uis
<1>2. /\ v \in Uis /\ Rest(v) = Rest(u)
      /\ Len(v.stack) = Len(u.stack) /\ v.stack[1] = s
      /\ \A n \in 2 .. Len(u.stack) : v.stack[n] = u.stack[n]
  BY <1>1, SwitchFields
<1> HIDE DEF v
<1>3. v.threads = u.threads /\ v.watch = u.watch /\ v.kept = u.kept /\ v.settings = FALSE
  BY <1>2 DEF Rest, Uis
<1>4. v.stack \in Seq(Screens) /\ Len(v.stack) \in Nat \ {0}
  BY <1>1, <1>2 DEF Uis
<1>5. Watches(v) \subseteq Watches(u)
  <2> SUFFICES ASSUME NEW n \in DOMAIN v.stack, v.stack[n].kind = "watch"
               PROVE  v.stack[n] \in Watches(u)
    BY DEF Watches
  <2>1. n \in 2 .. Len(u.stack)
    BY <1>2, <1>4
  <2> QED
    BY <1>1, <1>2, <2>1 DEF Watches
<1>6. Rooted(v)
  BY <1>1, <1>2, <1>4 DEF Coherent, Rooted
<1>7. SettingsAbove(v)
  BY <1>3 DEF SettingsAbove
<1>8. ShowsObserved(v)
  <2> SUFFICES ASSUME NEW n \in DOMAIN v.stack, Shown(v, n), v.stack[n].kind = "watch"
               PROVE  FALSE
    BY DEF ShowsObserved
  <2>1. n # 1 /\ 1 \in 1 .. n - 1
    BY <1>2, <1>4
  <2> QED
    BY <1>2, <2>1 DEF Shown
<1> QED
  BY <1>2, <1>3, <1>5, <1>6, <1>7, <1>8, SameThreads DEF v

\* A dialog or the settings above what is on the screen.
LEMMA PushKeeps ==
  ASSUME NEW u \in Uis, Coherent(u), NEW s \in Screens, s.kind \in Overlays,
         s.kind = "help" \/ ~u.settings
  PROVE  Keeps(u, Push(u, s)) /\ Rest(Push(u, s)) = Rest(u)
<1> DEFINE v == Push(u, s)
<1>1. u.stack # <<>> /\ u.stack \in Seq(Screens) /\ Len(u.stack) \in Nat \ {0}
  BY DEF Coherent, Rooted, Uis
<1>2. /\ v \in Uis /\ Rest(v) = Rest(u)
      /\ Len(v.stack) = Len(u.stack) + 1 /\ v.stack[1] = s
      /\ \A n \in 1 .. Len(u.stack) : v.stack[n + 1] = u.stack[n]
  BY PushFields
<1> HIDE DEF v
<1>3. /\ v.threads = u.threads /\ v.watch = u.watch /\ v.kept = u.kept
      /\ v.settings = u.settings /\ v.observed = u.observed
  BY <1>2 DEF Rest, Uis
<1>4. v.stack \in Seq(Screens) /\ Len(v.stack) \in Nat \ {0}
  BY <1>1, <1>2 DEF Uis
<1>5. \A n \in 2 .. Len(v.stack) : n - 1 \in 1 .. Len(u.stack) /\ v.stack[n] = u.stack[n - 1]
  <2> TAKE n \in 2 .. Len(v.stack)
  <2>1. n - 1 \in 1 .. Len(u.stack) /\ (n - 1) + 1 = n
    BY <1>1, <1>2
  <2> QED
    BY <1>2, <2>1
<1>6. Watches(v) \subseteq Watches(u)
  <2> SUFFICES ASSUME NEW n \in DOMAIN v.stack, v.stack[n].kind = "watch"
               PROVE  v.stack[n] \in Watches(u)
    BY DEF Watches
  <2>1. n \in 2 .. Len(v.stack)
    BY <1>2, <1>4 DEF Overlays, Modals
  <2> QED
    BY <1>1, <1>5, <2>1 DEF Watches
<1>7. Rooted(v)
  BY <1>1, <1>2, <1>4 DEF Coherent, Rooted
<1>8. SettingsAbove(v)
  <2> SUFFICES ASSUME v.settings, s.kind = "help"
               PROVE  SettingsAbove(v)
    BY <1>3 DEF SettingsAbove
  <2>1. PICK n \in DOMAIN u.stack : /\ u.stack[n].kind = "settings"
                                    /\ \A m \in 1 .. n - 1 : u.stack[m].kind = "help"
    BY <1>3 DEF Coherent, SettingsAbove
  <2>2. n \in 1 .. Len(u.stack) /\ n + 1 \in DOMAIN v.stack
    BY <1>1, <1>2, <1>4
  <2>3. \A m \in 1 .. (n + 1) - 1 : v.stack[m].kind = "help"
    <3> TAKE m \in 1 .. (n + 1) - 1
    <3>1. n \in Nat /\ n <= Len(u.stack) /\ m \in Nat /\ m >= 1 /\ m <= n
      BY <1>1, <2>2
    <3>2. m = 1 \/ (m \in 2 .. Len(v.stack) /\ m - 1 \in 1 .. n - 1)
      BY <1>1, <1>2, <3>1
    <3> QED
      BY <1>2, <1>5, <2>1, <3>2
  <2> QED
    BY <1>2, <2>1, <2>2, <2>3 DEF SettingsAbove
<1>9. ShowsObserved(v)
  <2> SUFFICES ASSUME NEW n \in DOMAIN v.stack, Shown(v, n), v.stack[n].kind = "watch"
               PROVE  v.stack[n] = u.stack[n - 1] /\ Shown(u, n - 1)
    BY <1>3 DEF ShowsObserved, Coherent, Shown
  <2>1. n \in 2 .. Len(v.stack)
    BY <1>2, <1>4 DEF Overlays, Modals
  <2>2. \A m \in 1 .. (n - 1) - 1 : u.stack[m].kind \in Overlays
    <3> TAKE m \in 1 .. (n - 1) - 1
    <3>1. m + 1 \in 1 .. n - 1 /\ m \in 1 .. Len(u.stack)
      BY <1>1, <1>2, <2>1
    <3> QED
      BY <1>2, <3>1 DEF Shown
  <2> QED
    BY <1>1, <1>5, <2>1, <2>2 DEF Shown
<1> QED
  BY <1>2, <1>3, <1>6, <1>7, <1>8, <1>9, SameThreads DEF v

\* A dialog is dismissed, or the settings are closed.
LEMMA PopKeeps ==
  ASSUME NEW u \in Uis, Coherent(u), Top(u).kind \in Overlays, NEW v \in Uis,
         v.stack = Pop(u).stack, v.watch = u.watch, v.observed = u.observed,
         v.threads = u.threads,
         \/ v.settings = u.settings /\ v.kept = u.kept /\ Top(u).kind # "settings"
         \/ v.settings = FALSE /\ v.kept = None
  PROVE  Keeps(u, v)
<1>1. u.stack # <<>> /\ u.stack \in Seq(Screens) /\ Len(u.stack) \in Nat \ {0}
  BY DEF Coherent, Rooted, Uis
<1>2. Top(u) = u.stack[1]
  BY <1>1 DEF Top
<1>3. /\ Len(v.stack) = Len(u.stack) - 1
      /\ \A n \in 1 .. Len(u.stack) - 1 : v.stack[n] = u.stack[n + 1]
  BY <1>1, PopFields
<1>4. Len(u.stack) > 1
  BY <1>1, <1>2 DEF Coherent, Rooted
<1>5. v.stack \in Seq(Screens) /\ Len(v.stack) \in Nat \ {0}
  BY <1>1, <1>3, <1>4 DEF Uis
<1>6. Watches(v) \subseteq Watches(u)
  <2> SUFFICES ASSUME NEW n \in DOMAIN v.stack, v.stack[n].kind = "watch"
               PROVE  v.stack[n] \in Watches(u)
    BY DEF Watches
  <2>1. n \in 1 .. Len(u.stack) - 1 /\ n + 1 \in DOMAIN u.stack
    BY <1>1, <1>3, <1>5
  <2> QED
    BY <1>3, <2>1 DEF Watches
<1>7. Rooted(v)
  BY <1>1, <1>3, <1>4, <1>5 DEF Coherent, Rooted
<1>8. SettingsAbove(v)
  <2> SUFFICES ASSUME v.settings
               PROVE  SettingsAbove(v)
    BY DEF SettingsAbove
  <2>1. u.settings /\ Top(u).kind # "settings"
    OBVIOUS
  <2>2. PICK n \in DOMAIN u.stack : /\ u.stack[n].kind = "settings"
                                    /\ \A m \in 1 .. n - 1 : u.stack[m].kind = "help"
    BY <2>1 DEF Coherent, SettingsAbove
  <2>3. n \in 2 .. Len(u.stack)
    BY <1>1, <1>2, <2>1, <2>2
  <2>4. n - 1 \in DOMAIN v.stack /\ n - 1 \in 1 .. Len(u.stack) - 1 /\ (n - 1) + 1 = n
    BY <1>1, <1>3, <1>5, <2>3
  <2>5. \A m \in 1 .. (n - 1) - 1 : v.stack[m].kind = "help"
    <3> TAKE m \in 1 .. (n - 1) - 1
    <3>1. m \in 1 .. Len(u.stack) - 1 /\ m + 1 \in 1 .. n - 1
      BY <1>1, <2>3
    <3> QED
      BY <1>3, <2>2, <3>1
  <2> QED
    BY <1>3, <2>2, <2>4, <2>5 DEF SettingsAbove
<1>9. ShowsObserved(v)
  <2> SUFFICES ASSUME NEW n \in DOMAIN v.stack, Shown(v, n)
               PROVE  v.stack[n] = u.stack[n + 1] /\ Shown(u, n + 1)
    BY DEF ShowsObserved, Coherent, Shown
  <2>1. n \in 1 .. Len(u.stack) - 1 /\ n + 1 \in DOMAIN u.stack
    BY <1>1, <1>3, <1>5
  <2>2. \A m \in 1 .. (n + 1) - 1 : u.stack[m].kind \in Overlays
    <3> TAKE m \in 1 .. (n + 1) - 1
    <3>1. m = 1 \/ (m - 1 \in 1 .. n - 1 /\ m - 1 \in 1 .. Len(u.stack) - 1 /\ (m - 1) + 1 = m)
      BY <1>1, <2>1
    <3> QED
      BY <1>2, <1>3, <3>1 DEF Shown
  <2> QED
    BY <1>3, <2>1, <2>2 DEF Shown
<1> QED
  BY <1>6, <1>7, <1>8, <1>9, SameThreads

-----------------------------------------------------------------------------
(* Threads that come and go.                                               *)

\* Threads that hold what their phase needs, and watch for no other project.
LEMMA ThreadsCoherent ==
  ASSUME NEW u \in Uis, Coherent(u), NEW T \in [Slots -> Threads \cup {None}],
         \A i \in Slots : T[i] # None => Consistent(T[i]),
         \A i \in Slots : T[i] # None /\ Watcher(T[i]) => <<T[i].watch, T[i].project>> \in Marks(u)
  PROVE  LET v == [u EXCEPT !.threads = T] IN
         /\ v \in Uis /\ Coherent(v) /\ v.threads = T /\ v.stack = u.stack
         /\ Rest(v) = <<u.watch, u.observed, u.settings, u.kept, u.questions, T>>
<1> DEFINE v == [u EXCEPT !.threads = T]
<1>1. /\ v \in Uis /\ v.threads = T /\ v.stack = u.stack
      /\ Rest(v) = <<u.watch, u.observed, u.settings, u.kept, u.questions, T>>
  BY DEF Uis, Rest
<1> HIDE DEF v
<1>2. v.watch = u.watch /\ v.observed = u.observed /\ v.settings = u.settings
  BY <1>1 DEF Rest, Uis
<1>3. Marks(v) \subseteq Marks(u)
  BY <1>1 DEF Marks, Watches
<1>4. Coherent(v)
  BY <1>1, <1>2, <1>3
     DEF Coherent, Rooted, SettingsAbove, ThreadsOK, OneProject, ShowsObserved, Shown
<1> QED
  BY <1>1, <1>4 DEF v

\* A thread goes on: what it is, is unchanged, and it owes nothing new.
LEMMA ThreadKeeps ==
  ASSUME NEW u \in Uis, Coherent(u), NEW i \in Slots, u.threads[i] # None, NEW t \in Threads,
         t.does = u.threads[i].does, t.project = u.threads[i].project,
         t.watch = u.threads[i].watch, t.cancelled = u.threads[i].cancelled,
         Consistent(t), \A p \in Projects : Starts(t, p) => Starts(u.threads[i], p)
  PROVE  LET v == [u EXCEPT !.threads[i] = t] IN
         Keeps(u, v) /\ v.threads[i] = t /\ Marks(v) = Marks(u)
<1> DEFINE T == [u.threads EXCEPT ![i] = t]
           v == [u EXCEPT !.threads = T]
<1>1. u.threads \in [Slots -> Threads \cup {None}] /\ None \notin Threads
  BY NoneIsNoRecord DEF Uis
<1>2. T \in [Slots -> Threads \cup {None}] /\ T[i] = t /\ t # None
      /\ \A j \in Slots \ {i} : T[j] = u.threads[j]
  BY <1>1
<1> HIDE DEF T
<1>3. \A j \in Slots : T[j] # None => Consistent(T[j])
  BY <1>2 DEF Coherent, ThreadsOK
<1>4. \A j \in Slots : T[j] # None /\ Watcher(T[j]) => <<T[j].watch, T[j].project>> \in Marks(u)
  BY <1>2 DEF Marks, Watcher
<1>5. /\ v \in Uis /\ Coherent(v) /\ v.threads = T /\ v.stack = u.stack
      /\ Rest(v) = <<u.watch, u.observed, u.settings, u.kept, u.questions, T>>
  BY <1>2, <1>3, <1>4, ThreadsCoherent
<1> HIDE DEF v
<1>6. v.watch = u.watch /\ v.kept = u.kept
  BY <1>5 DEF Rest, Uis
<1>7. Watched(u) => Watched(v)
  BY <1>2, <1>5, <1>6 DEF Watched, Watches
<1>8. \A p \in Projects : Debts(v, p) \subseteq Debts(u, p)
  BY <1>2, <1>5, <1>6 DEF Debts
<1>9. v = [u EXCEPT !.threads[i] = t]
  BY DEF v, T
<1>10. Marks(v) = Marks(u)
  <2>1. \A j \in Slots :
          /\ T[j] # None <=> u.threads[j] # None
          /\ T[j] # None => /\ T[j].does = u.threads[j].does /\ T[j].watch = u.threads[j].watch
                            /\ T[j].project = u.threads[j].project
    BY <1>2
  <2> QED
    BY <1>5, <2>1 DEF Marks, Watches, Watcher
<1> QED
  BY <1>2, <1>5, <1>7, <1>8, <1>9, <1>10 DEF Keeps

LEMMA SpawnCoherent ==
  ASSUME NEW u \in Uis, Coherent(u), Room(u), NEW t \in Threads, Consistent(t),
         Watcher(t) => <<t.watch, t.project>> \in Marks(u)
  PROVE  LET v == Spawn(u, t) IN
         /\ v \in Uis /\ Coherent(v) /\ (Watched(u) => Watched(v))
         /\ v.stack = u.stack /\ v.watch = u.watch
         /\ t.does = "observe" /\ ~t.cancelled /\ t.watch = u.watch => Watched(v)
         /\ \E i \in Slots : \A p \in Projects :
              Debts(v, p) \subseteq Debts(u, p) \cup (IF Starts(t, p) THEN {i} ELSE {})
<1> DEFINE v == Spawn(u, t)
<1>1. PICK i \in Slots :
           /\ u.threads[i] = None /\ v = [u EXCEPT !.threads[i] = t]
           /\ v \in Uis /\ v.stack = u.stack /\ v.threads = [u.threads EXCEPT ![i] = t]
           /\ Rest(v) = <<u.watch, u.observed, u.settings, u.kept, u.questions, v.threads>>
  BY SpawnFields
<1> DEFINE T == [u.threads EXCEPT ![i] = t]
<1>2. u.threads \in [Slots -> Threads \cup {None}] /\ None \notin Threads
  BY NoneIsNoRecord DEF Uis
<1>3. T \in [Slots -> Threads \cup {None}] /\ T[i] = t /\ t # None
      /\ \A j \in Slots \ {i} : T[j] = u.threads[j]
  BY <1>2
<1>4. v = [u EXCEPT !.threads = T] /\ v.threads = T
  BY <1>1
<1> HIDE DEF T, v
<1>5. \A j \in Slots : T[j] # None => Consistent(T[j])
  BY <1>3 DEF Coherent, ThreadsOK
<1>6. \A j \in Slots : T[j] # None /\ Watcher(T[j]) => <<T[j].watch, T[j].project>> \in Marks(u)
  BY <1>3 DEF Marks
<1>7. Coherent(v)
  BY <1>3, <1>4, <1>5, <1>6, ThreadsCoherent
<1>8. v.watch = u.watch /\ v.kept = u.kept
  BY <1>1 DEF Rest, Uis
<1>9. Watched(u) => Watched(v)
  BY <1>1, <1>3, <1>4, <1>8 DEF Watched, Watches
<1>10. t.does = "observe" /\ ~t.cancelled /\ t.watch = u.watch => Watched(v)
  BY <1>3, <1>4, <1>8 DEF Watched
<1>11. \A p \in Projects :
         Debts(v, p) \subseteq Debts(u, p) \cup (IF Starts(t, p) THEN {i} ELSE {})
  BY <1>3, <1>4, <1>8 DEF Debts
<1> QED
  BY <1>1, <1>7, <1>8, <1>9, <1>10, <1>11 DEF v

LEMMA SpawnKeeps ==
  ASSUME NEW u \in Uis, Coherent(u), Room(u), NEW t \in Threads, Consistent(t),
         Watcher(t) => <<t.watch, t.project>> \in Marks(u),
         \A p \in Projects : ~Starts(t, p)
  PROVE  Keeps(u, Spawn(u, t))
BY SpawnCoherent DEF Keeps

LEMMA EndedKeeps ==
  ASSUME NEW u \in Uis, Coherent(u), NEW i \in Slots, u.threads[i] # None
  PROVE  LET v == Ended(u, i) IN
         /\ v \in Uis /\ Coherent(v) /\ Room(v)
         /\ v.stack = u.stack
         /\ Rest(v) = <<u.watch, u.observed, u.settings, u.kept, u.questions, v.threads>>
         /\ \A j \in Slots \ {i} : v.threads[j] = u.threads[j]
         /\ Marks(v) \subseteq Marks(u)
         /\ Watched(u) /\ (\/ u.threads[i].does # "observe" \/ u.threads[i].cancelled
                           \/ u.threads[i].watch # u.watch) => Watched(v)
         /\ \A p \in Projects : Debts(v, p) \subseteq Debts(u, p) \ {i}
<1> DEFINE T == [u.threads EXCEPT ![i] = None]
           v == [u EXCEPT !.threads = T]
<1>1. u.threads \in [Slots -> Threads \cup {None}]
  BY DEF Uis
<1>2. T \in [Slots -> Threads \cup {None}] /\ T[i] = None
      /\ \A j \in Slots \ {i} : T[j] = u.threads[j]
  BY <1>1
<1>3. Ended(u, i) = v
  BY DEF Ended
<1> HIDE DEF T
<1>4. \A j \in Slots : T[j] # None => Consistent(T[j])
  BY <1>2 DEF Coherent, ThreadsOK
<1>5. \A j \in Slots : T[j] # None /\ Watcher(T[j]) => <<T[j].watch, T[j].project>> \in Marks(u)
  BY <1>2 DEF Marks
<1>6. /\ v \in Uis /\ Coherent(v) /\ v.threads = T /\ v.stack = u.stack
      /\ Rest(v) = <<u.watch, u.observed, u.settings, u.kept, u.questions, T>>
  BY <1>2, <1>4, <1>5, ThreadsCoherent
<1> HIDE DEF v
<1>7. v.watch = u.watch /\ v.kept = u.kept
  BY <1>6 DEF Rest, Uis
<1>8. Room(v)
  BY <1>2, <1>6 DEF Room, Alive
<1>9. Watched(u) /\ (\/ u.threads[i].does # "observe" \/ u.threads[i].cancelled
                     \/ u.threads[i].watch # u.watch) => Watched(v)
  BY <1>2, <1>6, <1>7 DEF Watched, Watches
<1>10. \A p \in Projects : Debts(v, p) \subseteq Debts(u, p) \ {i}
  BY <1>2, <1>6, <1>7, NavigationAssumption DEF Debts
<1>11. Marks(v) \subseteq Marks(u)
  BY <1>2, <1>6 DEF Marks, Watches
<1> QED
  BY <1>2, <1>3, <1>6, <1>8, <1>9, <1>10, <1>11

\* Cancelling threads changes their flags alone.
LEMMA CancelledKeeps ==
  ASSUME NEW u \in Uis, Coherent(u), NEW S \in SUBSET Alive(u)
  PROVE  LET v == Cancelled(u, S) IN
         /\ v \in Uis /\ Coherent(v) /\ v.stack = u.stack
         /\ Rest(v) = <<u.watch, u.observed, u.settings, u.kept, u.questions, v.threads>>
         /\ Alive(v) = Alive(u) /\ Marks(v) = Marks(u)
         /\ \A i \in Alive(u) : v.threads[i].watch = u.threads[i].watch
         /\ \A p \in Projects : Debts(v, p) = Debts(u, p)
<1> DEFINE T == [i \in Slots |-> IF i \in S THEN [u.threads[i] EXCEPT !.cancelled = TRUE]
                                 ELSE u.threads[i]]
           v == [u EXCEPT !.threads = T]
<1>1. u.threads \in [Slots -> Threads \cup {None}] /\ None \notin Threads
  BY NoneIsNoRecord DEF Uis
<1>2. Cancelled(u, S) = v
  BY DEF Cancelled
<1>3. \A i \in Slots : u.threads[i] = None => i \notin S /\ T[i] = None
  BY DEF Alive
<1>4. \A i \in Slots : u.threads[i] # None =>
        /\ T[i] \in Threads /\ T[i] # None
        /\ T[i].does = u.threads[i].does /\ T[i].project = u.threads[i].project
        /\ T[i].phase = u.threads[i].phase /\ T[i].watch = u.threads[i].watch
        /\ T[i].obs = u.threads[i].obs /\ T[i].nav = u.threads[i].nav
  <2> TAKE i \in Slots
  <2> HAVE u.threads[i] # None
  <2>1. u.threads[i] \in Threads
    BY <1>1
  <2>2. T[i] = u.threads[i] \/ T[i] = [u.threads[i] EXCEPT !.cancelled = TRUE]
    OBVIOUS
  <2> DEFINE t == [u.threads[i] EXCEPT !.cancelled = TRUE]
  <2>3. /\ t \in Threads /\ t.does = u.threads[i].does /\ t.project = u.threads[i].project
        /\ t.phase = u.threads[i].phase /\ t.watch = u.threads[i].watch
        /\ t.obs = u.threads[i].obs /\ t.nav = u.threads[i].nav
    BY <2>1 DEF Threads
  <2> HIDE DEF T, t
  <2>4. T[i] = u.threads[i] \/ T[i] = t
    BY <2>2 DEF t
  <2> QED
    BY <1>1, <2>1, <2>3, <2>4
<1>5. T \in [Slots -> Threads \cup {None}]
  BY <1>3, <1>4
<1> HIDE DEF T
<1>6. \A j \in Slots : T[j] # None => Consistent(T[j])
  BY <1>3, <1>4 DEF Coherent, ThreadsOK, Consistent, Watcher
<1>7. \A j \in Slots : T[j] # None /\ Watcher(T[j]) => <<T[j].watch, T[j].project>> \in Marks(u)
  BY <1>3, <1>4 DEF Marks, Watcher
<1>8. /\ v \in Uis /\ Coherent(v) /\ v.threads = T /\ v.stack = u.stack
      /\ Rest(v) = <<u.watch, u.observed, u.settings, u.kept, u.questions, T>>
  BY <1>5, <1>6, <1>7, ThreadsCoherent
<1> HIDE DEF v
<1>9. Alive(v) = Alive(u) /\ \A i \in Alive(u) : v.threads[i].watch = u.threads[i].watch
  BY <1>3, <1>4, <1>8 DEF Alive
<1>10. Marks(v) = Marks(u)
  BY <1>3, <1>4, <1>8 DEF Marks, Watches, Watcher
<1>11. v.kept = u.kept
  BY <1>8 DEF Rest, Uis
<1>12. \A p \in Projects : Debts(v, p) = Debts(u, p)
  BY <1>3, <1>4, <1>8, <1>11 DEF Debts, Starts
<1> QED
  BY <1>2, <1>8, <1>9, <1>10, <1>12

-----------------------------------------------------------------------------
(* What is shown on a watch.                                               *)

\* The same screen, whatever it shows of its job.
SameScreen(r, s) ==
    /\ s.kind = r.kind
    /\ r.kind = "watch" => /\ s.id = r.id /\ s.project = r.project /\ s.heeded = r.heeded
                           /\ (r.error => s.error)

LEMMA SameScreensKeep ==
  ASSUME NEW u \in Uis, NEW v \in Uis, Coherent(u), v.threads = u.threads, v.watch = u.watch,
         v.kept = u.kept, v.settings = u.settings, Len(v.stack) = Len(u.stack),
         \A n \in DOMAIN u.stack : SameScreen(u.stack[n], v.stack[n]), ShowsObserved(v)
  PROVE  Keeps(u, v) /\ Marks(v) = Marks(u)
<1>1. u.stack # <<>> /\ u.stack \in Seq(Screens) /\ v.stack \in Seq(Screens)
      /\ Len(u.stack) \in Nat \ {0} /\ DOMAIN v.stack = DOMAIN u.stack
  BY DEF Coherent, Rooted, Uis
<1>2. \A s \in Watches(v) : \E r \in Watches(u) :
         s.id = r.id /\ s.project = r.project /\ (r.error => s.error)
  BY <1>1 DEF Watches, SameScreen
<1>3. \A r \in Watches(u) : \E s \in Watches(v) : s.id = r.id /\ s.project = r.project
  BY <1>1 DEF Watches, SameScreen
<1>4. Marks(v) = Marks(u)
  BY <1>2, <1>3 DEF Marks
<1>5. Rooted(v)
  BY <1>1 DEF Coherent, Rooted, SameScreen
<1>6. SettingsAbove(v)
  <2> SUFFICES ASSUME v.settings
               PROVE  SettingsAbove(v)
    BY DEF SettingsAbove
  <2>1. PICK n \in DOMAIN u.stack : /\ u.stack[n].kind = "settings"
                                    /\ \A m \in 1 .. n - 1 : u.stack[m].kind = "help"
    BY DEF Coherent, SettingsAbove
  <2>2. \A m \in 1 .. n - 1 : m \in DOMAIN u.stack
    BY <1>1
  <2> QED
    BY <1>1, <2>1, <2>2 DEF SettingsAbove, SameScreen
<1>7. Coherent(v)
  BY <1>4, <1>5, <1>6 DEF Coherent, ThreadsOK, OneProject
<1>8. Watched(u) => Watched(v)
  BY <1>2 DEF Watched
<1>9. \A p \in Projects : Debts(v, p) \subseteq Debts(u, p)
  BY DEF Debts
<1> QED
  BY <1>4, <1>7, <1>8, <1>9 DEF Keeps

\* Screens that are the same are shown alike.
LEMMA SameShown ==
  ASSUME NEW u \in Uis, NEW v \in Uis, u.stack # <<>>, Len(v.stack) = Len(u.stack),
         \A n \in DOMAIN u.stack : SameScreen(u.stack[n], v.stack[n])
  PROVE  \A n \in DOMAIN v.stack : n \in DOMAIN u.stack /\ (Shown(v, n) => Shown(u, n))
<1>1. u.stack \in Seq(Screens) /\ v.stack \in Seq(Screens)
      /\ Len(u.stack) \in Nat /\ DOMAIN v.stack = DOMAIN u.stack
  BY DEF Uis
<1>2. \A n \in DOMAIN u.stack : \A m \in 1 .. n - 1 : m \in DOMAIN u.stack
  BY <1>1
<1> QED
  BY <1>1, <1>2 DEF Shown, SameScreen

\* What changes on a watch leaves it the same screen.
Touched(r) == {Reported(r), Uncancellable(r)}

LEMMA TouchedScreen ==
  ASSUME NEW r \in Screens, r.kind = "watch", NEW s \in Touched(r)
  PROVE  s \in Screens /\ SameScreen(r, s) /\ s.job = r.job /\ (s.cancel => r.cancel)
BY DEF Screens, SameScreen, Touched, Reported, Uncancellable

LEMMA RecordedScreen ==
  ASSUME NEW r \in Screens, r.kind = "watch", NEW obs \in Obs
  PROVE  LET s == Recorded(r, obs) IN
         s \in Screens /\ SameScreen(r, s) /\ s.job = obs.job
BY DEF Screens, SameScreen, Recorded, Obs

\* A change of the stack alone.
LEMMA StackFields ==
  ASSUME NEW u \in Uis, NEW Q \in Seq(Screens), Len(Q) = Len(u.stack)
  PROVE  LET v == [u EXCEPT !.stack = Q] IN v \in Uis /\ v.stack = Q /\ Rest(v) = Rest(u)
BY DEF Uis, Rest

LEMMA TouchedKeeps ==
  ASSUME NEW u \in Uis, Coherent(u), NEW id,
         NEW v \in {OnWatch(u, id, Reported), OnWatch(u, id, Uncancellable)}
  PROVE  /\ Keeps(u, v) /\ Rest(v) = Rest(u) /\ Marks(v) = Marks(u)
         /\ Len(v.stack) = Len(u.stack)
         /\ v = OnWatch(u, id, Reported) => \A s \in Watches(v) : s.id = id => s.error
<1>1. u.stack # <<>> /\ u.stack \in Seq(Screens) /\ Len(u.stack) \in Nat
      /\ DOMAIN u.stack = 1 .. Len(u.stack)
  BY DEF Coherent, Rooted, Uis
<1> DEFINE R == [n \in DOMAIN u.stack |-> IF IsWatch(u.stack[n], id) THEN Reported(u.stack[n])
                                          ELSE u.stack[n]]
           C == [n \in DOMAIN u.stack |-> IF IsWatch(u.stack[n], id) THEN Uncancellable(u.stack[n])
                                          ELSE u.stack[n]]
<1>2. OnWatch(u, id, Reported) = [u EXCEPT !.stack = R]
      /\ OnWatch(u, id, Uncancellable) = [u EXCEPT !.stack = C]
  BY DEF OnWatch
<1>3. \A n \in DOMAIN u.stack :
        /\ \/ IsWatch(u.stack[n], id) /\ R[n] \in Touched(u.stack[n]) /\ C[n] \in Touched(u.stack[n])
           \/ ~IsWatch(u.stack[n], id) /\ R[n] = u.stack[n] /\ C[n] = u.stack[n]
        /\ IsWatch(u.stack[n], id) => R[n] = Reported(u.stack[n])
  BY DEF Touched
<1>4. DOMAIN R = DOMAIN u.stack /\ DOMAIN C = DOMAIN u.stack
  OBVIOUS
<1> HIDE DEF R, C
<1>5. \A n \in DOMAIN u.stack : \A Q \in {R, C} :
        /\ Q[n] \in Screens /\ SameScreen(u.stack[n], Q[n])
        /\ Q[n].kind = "watch" => Q[n].job = u.stack[n].job /\ (Q[n].cancel => u.stack[n].cancel)
  <2> TAKE n \in DOMAIN u.stack
  <2> TAKE Q \in {R, C}
  <2>1. u.stack[n] \in Screens
    BY <1>1
  <2>2. CASE IsWatch(u.stack[n], id)
    BY <1>3, <2>1, <2>2, TouchedScreen DEF IsWatch
  <2>3. CASE ~IsWatch(u.stack[n], id)
    BY <1>3, <2>1, <2>3 DEF SameScreen
  <2> QED
    BY <2>2, <2>3
<1>6. \A Q \in {R, C} : Q \in Seq(Screens) /\ Len(Q) = Len(u.stack)
  <2> TAKE Q \in {R, C}
  <2>1. Q = [n \in 1 .. Len(u.stack) |-> Q[n]]
    BY <1>1, <1>4 DEF R, C
  <2>2. Q \in [1 .. Len(u.stack) -> Screens]
    BY <1>1, <1>5, <2>1
  <2> QED
    BY <1>1, <2>2
<1>7. PICK Q \in {R, C} : v = [u EXCEPT !.stack = Q]
                          /\ (v = OnWatch(u, id, Reported) => v.stack = R)
  <2>1. [u EXCEPT !.stack = R].stack = R /\ [u EXCEPT !.stack = C].stack = C
    BY DEF Uis
  <2> QED
    BY <1>2, <2>1
<1>8. v \in Uis /\ v.stack = Q /\ Rest(v) = Rest(u)
  BY <1>6, <1>7, StackFields
<1>9. /\ v.threads = u.threads /\ v.watch = u.watch /\ v.kept = u.kept
      /\ v.settings = u.settings /\ v.observed = u.observed
  BY <1>8 DEF Rest, Uis
<1>10. \A n \in DOMAIN u.stack : SameScreen(u.stack[n], v.stack[n])
  BY <1>5, <1>8
<1>11. ShowsObserved(v)
  <2> SUFFICES ASSUME NEW n \in DOMAIN v.stack, Shown(v, n), v.stack[n].kind = "watch",
                      v.stack[n].cancel, v.stack[n].heeded, v.watch # None
               PROVE  /\ v.stack[n].id = v.watch /\ v.observed # None
                      /\ v.observed.project = v.stack[n].project
                      /\ v.observed.obs.job = v.stack[n].job
    BY DEF ShowsObserved
  <2>1. n \in DOMAIN u.stack /\ Shown(u, n)
    BY <1>1, <1>6, <1>8, <1>10, SameShown
  <2>2. /\ u.stack[n].kind = "watch" /\ u.stack[n].cancel /\ u.stack[n].heeded
        /\ v.stack[n].id = u.stack[n].id /\ v.stack[n].project = u.stack[n].project
        /\ v.stack[n].job = u.stack[n].job
    BY <1>5, <1>8, <2>1 DEF SameScreen
  <2> QED
    BY <1>9, <2>1, <2>2 DEF Coherent, ShowsObserved
<1>12. Keeps(u, v) /\ Marks(v) = Marks(u)
  BY <1>6, <1>8, <1>9, <1>10, <1>11, SameScreensKeep
<1>13. v = OnWatch(u, id, Reported) => \A s \in Watches(v) : s.id = id => s.error
  <2> SUFFICES ASSUME v = OnWatch(u, id, Reported), NEW n \in DOMAIN u.stack,
                      R[n].kind = "watch", R[n].id = id
               PROVE  R[n].error
    BY <1>4, <1>7, <1>8 DEF Watches
  <2>1. u.stack[n] \in Screens /\ IsWatch(u.stack[n], id)
    BY <1>1, <1>5 DEF SameScreen, IsWatch
  <2> QED
    BY <1>3, <2>1 DEF Reported, Screens, IsWatch
<1> QED
  BY <1>6, <1>8, <1>12, <1>13

LEMMA ActivatedFields ==
  ASSUME NEW u \in Uis, NEW id \in Nat, u.watch = id, NEW p \in Projects, NEW obs \in Obs
  PROVE  LET v == Activated(u, id, p, obs) IN
         /\ v \in Uis /\ Len(v.stack) = Len(u.stack)
         /\ Rest(v) = <<u.watch, [project |-> p, obs |-> obs], u.settings, u.kept,
                        u.questions, u.threads>>
         /\ \A n \in DOMAIN u.stack :
              v.stack[n] = IF IsWatch(u.stack[n], id) THEN Recorded(u.stack[n], obs)
                           ELSE u.stack[n]
<1> DEFINE w == [u EXCEPT !.observed = [project |-> p, obs |-> obs]]
           Q == [n \in DOMAIN u.stack |-> IF IsWatch(u.stack[n], id) THEN Recorded(u.stack[n], obs)
                                          ELSE u.stack[n]]
<1>1. u.stack \in Seq(Screens) /\ Len(u.stack) \in Nat /\ DOMAIN u.stack = 1 .. Len(u.stack)
  BY DEF Uis
<1>2. w \in Uis /\ w.stack = u.stack
      /\ Rest(w) = <<u.watch, [project |-> p, obs |-> obs], u.settings, u.kept,
                     u.questions, u.threads>>
  BY DEF Uis, Rest, ObservedOf
<1>3. Activated(u, id, p, obs) = [w EXCEPT !.stack = Q]
  BY <1>2 DEF Activated, OnWatch
<1>4. \A n \in DOMAIN u.stack : Q[n] \in Screens
  <2> TAKE n \in DOMAIN u.stack
  <2>1. u.stack[n] \in Screens
    BY <1>1
  <2>2. CASE IsWatch(u.stack[n], id)
    BY <2>1, <2>2, RecordedScreen DEF IsWatch
  <2> QED
    BY <2>1, <2>2
<1>5. Q \in [1 .. Len(u.stack) -> Screens]
  BY <1>1, <1>4
<1>6. Q \in Seq(Screens) /\ Len(Q) = Len(u.stack)
  <2> HIDE DEF Q
  <2> QED
    BY <1>1, <1>5
<1>7. \A n \in DOMAIN u.stack :
        Q[n] = IF IsWatch(u.stack[n], id) THEN Recorded(u.stack[n], obs) ELSE u.stack[n]
  OBVIOUS
<1> HIDE DEF Q, w
<1> QED
  BY <1>2, <1>3, <1>6, <1>7, StackFields

LEMMA ActivatedKeeps ==
  ASSUME NEW u \in Uis, Coherent(u), NEW id \in Nat, NEW p \in Projects, NEW obs \in Obs,
         \A x \in Marks(u) : x[1] = id => x[2] = p
  PROVE  LET v == Activated(u, id, p, obs) IN
         /\ Keeps(u, v) /\ Marks(v) = Marks(u)
         /\ v.watch = u.watch /\ v.settings = u.settings /\ v.threads = u.threads
<1> DEFINE v == Activated(u, id, p, obs)
<1>1. CASE u.watch # id
  BY <1>1 DEF Activated, Keeps
<1>2. CASE u.watch = id
  <2>1. u.stack # <<>> /\ u.stack \in Seq(Screens) /\ Len(u.stack) \in Nat
        /\ DOMAIN u.stack = 1 .. Len(u.stack)
    BY DEF Coherent, Rooted, Uis
  <2>2. /\ v \in Uis /\ Len(v.stack) = Len(u.stack)
        /\ Rest(v) = <<u.watch, [project |-> p, obs |-> obs], u.settings, u.kept,
                       u.questions, u.threads>>
        /\ \A n \in DOMAIN u.stack :
             v.stack[n] = IF IsWatch(u.stack[n], id) THEN Recorded(u.stack[n], obs)
                          ELSE u.stack[n]
    BY <1>2, ActivatedFields
  <2> HIDE DEF v
  <2>3. /\ v.threads = u.threads /\ v.watch = u.watch /\ v.kept = u.kept
        /\ v.settings = u.settings /\ v.observed = [project |-> p, obs |-> obs]
    BY <2>2 DEF Rest, Uis
  <2>4. \A n \in DOMAIN u.stack :
          SameScreen(u.stack[n], v.stack[n])
          /\ (IsWatch(u.stack[n], id) => v.stack[n].job = obs.job)
    <3> TAKE n \in DOMAIN u.stack
    <3>1. u.stack[n] \in Screens
      BY <2>1
    <3>2. CASE IsWatch(u.stack[n], id)
      BY <2>2, <3>1, <3>2, RecordedScreen DEF IsWatch
    <3>3. CASE ~IsWatch(u.stack[n], id)
      BY <2>2, <3>1, <3>3 DEF SameScreen
    <3> QED
      BY <3>2, <3>3
  <2>5. ShowsObserved(v)
    <3> SUFFICES ASSUME NEW n \in DOMAIN v.stack, Shown(v, n), v.stack[n].kind = "watch",
                        v.stack[n].cancel, v.stack[n].heeded, v.watch # None
                 PROVE  /\ v.stack[n].id = v.watch /\ v.observed # None
                        /\ v.observed.project = v.stack[n].project
                        /\ v.observed.obs.job = v.stack[n].job
      BY DEF ShowsObserved
    <3>1. n \in DOMAIN u.stack /\ Shown(u, n)
      BY <2>1, <2>2, <2>4, SameShown
    <3>2. u.stack[n].kind = "watch" /\ u.stack[n].heeded
      BY <2>4, <3>1 DEF SameScreen
    <3>3. IsWatch(u.stack[n], id)
      <4> SUFFICES ASSUME u.stack[n].id # id
                   PROVE  FALSE
        BY <3>2 DEF IsWatch
      <4>1. v.stack[n] = u.stack[n]
        BY <2>2, <3>1 DEF IsWatch
      <4> QED
        BY <1>2, <2>3, <3>1, <4>1 DEF Coherent, ShowsObserved
    <3>4. v.stack[n].id = id /\ v.stack[n].project = u.stack[n].project /\ v.stack[n].job = obs.job
      BY <2>4, <3>1, <3>3 DEF SameScreen, IsWatch
    <3>5. u.stack[n].project = p
      <4>1. <<u.stack[n].id, u.stack[n].project>> \in Marks(u)
        BY <3>1, <3>3 DEF Marks, Watches, IsWatch
      <4> QED
        BY <3>3, <4>1 DEF IsWatch
    <3>6. v.observed # None
      BY <2>3, NoneIsNoRecord DEF ObservedOf
    <3> QED
      BY <1>2, <2>3, <3>4, <3>5, <3>6
  <2>6. Keeps(u, v) /\ Marks(v) = Marks(u)
    BY <2>2, <2>3, <2>4, <2>5, SameScreensKeep
  <2> QED
    BY <2>3, <2>6 DEF v
<1> QED
  BY <1>1, <1>2

\* The interface forgets its watch.
LEMMA ForgottenKeeps ==
  ASSUME NEW u \in Uis, Coherent(u)
  PROVE  LET v == [u EXCEPT !.watch = None, !.observed = None] IN
         Keeps(u, v) /\ v.watch = None /\ v.settings = u.settings /\ Room(v) = Room(u)
                     /\ v.stack = u.stack /\ v.threads = u.threads
<1> DEFINE v == [u EXCEPT !.watch = None, !.observed = None]
<1>1. /\ v \in Uis /\ v.watch = None /\ v.settings = u.settings /\ v.stack = u.stack
      /\ v.threads = u.threads /\ v.kept = u.kept
  BY DEF Uis
<1> HIDE DEF v
<1>2. Marks(v) = Marks(u)
  BY <1>1 DEF Marks, Watches
<1>3. Coherent(v)
  BY <1>1, <1>2
     DEF Coherent, Rooted, SettingsAbove, ThreadsOK, OneProject, ShowsObserved
<1>4. Watched(v)
  BY <1>1 DEF Watched
<1>5. \A p \in Projects : Debts(v, p) = Debts(u, p)
  BY <1>1 DEF Debts
<1>6. Room(v) = Room(u)
  BY <1>1 DEF Room, Alive
<1> QED
  BY <1>1, <1>3, <1>4, <1>5, <1>6 DEF Keeps, v

LEMMA DetachedKeeps ==
  ASSUME NEW u \in Uis, Coherent(u)
  PROVE  Keeps(u, Detached(u)) /\ Detached(u).settings = u.settings /\ Detached(u).watch = None
<1> DEFINE own == {i \in Observers(u) : u.threads[i].watch = u.watch}
           c == Cancelled(u, own)
           f == [c EXCEPT !.watch = None, !.observed = None]
           v == OnWatch(f, u.watch, Uncancellable)
<1>1. v = Detached(u)
  BY DEF Detached
<1>2. own \in SUBSET Alive(u)
  BY DEF Observers
<1>3. /\ c \in Uis /\ Coherent(c) /\ \A p \in Projects : Debts(c, p) = Debts(u, p)
      /\ Rest(c) = <<u.watch, u.observed, u.settings, u.kept, u.questions, c.threads>>
  BY <1>2, CancelledKeeps
<1> HIDE DEF c
<1>4. Keeps(c, f) /\ f.watch = None /\ f.settings = c.settings /\ c.settings = u.settings
  BY <1>3, ForgottenKeeps DEF Rest
<1> HIDE DEF f
<1>5. Keeps(f, v) /\ Rest(v) = Rest(f)
  BY <1>4, TouchedKeeps DEF Keeps
<1>6. v.watch = None /\ v.settings = u.settings
  BY <1>4, <1>5 DEF Rest
<1> HIDE DEF v
<1>7. Watched(v)
  BY <1>6 DEF Watched
<1> QED
  BY <1>1, <1>3, <1>4, <1>5, <1>6, <1>7 DEF Keeps

LEMMA ShowWelcomeKeeps ==
  ASSUME NEW u \in Uis, Coherent(u), ~u.settings
  PROVE  Keeps(u, ShowWelcome(u))
<1>1. Keeps(u, Detached(u)) /\ Detached(u).settings = u.settings
  BY DetachedKeeps
<1>2. Welcome \in Screens /\ Welcome.kind = "welcome"
  BY DEF Welcome, Screen, Screens
<1>3. Keeps(Detached(u), Switch(Detached(u), Welcome))
  BY <1>1, <1>2, SwitchKeeps DEF Keeps, Overlays, Modals
<1> QED
  BY <1>1, <1>3, KeepsTwice DEF ShowWelcome

-----------------------------------------------------------------------------
(* A new watch and its observer.                                           *)

\* There is always an identity that no screen and no thread has.
LEMMA FreshIdIsUnused ==
  ASSUME NEW u \in Uis
  PROVE  FreshId(u) \in Nat \ Used(u)
<1> DEFINE D == DOMAIN u.stack
           A == Alive(u)
           I == {u.stack[n].id : n \in D}
           W == {u.threads[i].watch : i \in A}
           f == [n \in D |-> u.stack[n].id]
           g == [i \in A |-> u.threads[i].watch]
           c == Cardinality(Used(u))
<1>1. IsFiniteSet(D)
  <2>1. D = 1 .. Len(u.stack) /\ Len(u.stack) \in Nat
    BY DEF Uis
  <2> QED
    BY <2>1, FS_Interval
<1>2. IsFiniteSet(A)
  BY NavigationAssumption, FS_Subset DEF Alive
<1>3. IsFiniteSet(I)
  <2>1. f \in Surjection(D, I)
    BY DEF Surjection
  <2> QED
    BY <1>1, <2>1, FS_Surjection
<1>4. IsFiniteSet(W)
  <2>1. g \in Surjection(A, W)
    BY DEF Surjection
  <2> QED
    BY <1>2, <2>1, FS_Surjection
<1>5. Used(u) \subseteq ({u.watch} \cup I) \cup W
  BY DEF Used, Watches
<1> HIDE DEF I, W
<1>6. IsFiniteSet(Used(u))
  <2>1. IsFiniteSet({u.watch})
    BY FS_Singleton
  <2>2. IsFiniteSet(({u.watch} \cup I) \cup W)
    BY <1>3, <1>4, <2>1, FS_Union
  <2> QED
    BY <1>5, <2>2, FS_Subset
<1>7. c \in Nat
  BY <1>6, FS_CardinalityType
<1>8. ~(1 .. c + 1 \subseteq Used(u))
  <2>1. Cardinality(1 .. c + 1) = c + 1
    BY <1>7, FS_Interval
  <2> QED
    BY <1>6, <1>7, <2>1, FS_Subset
<1>9. FreshId(u) \in (1 .. c + 1) \ Used(u)
  BY <1>8 DEF FreshId, Some
<1> HIDE DEF c
<1> QED
  BY <1>7, <1>9

LEMMA MarksAreUsed ==
  ASSUME NEW u, NEW x \in Marks(u)
  PROVE  x[1] \in Used(u)
BY DEF Marks, Used, Alive

\* A watch that has just come is the current one, and cannot be cancelled yet.
LEMMA NewWatch ==
  ASSUME NEW u \in Uis, Coherent(u), ~u.settings, NEW p \in Projects, NEW heeded \in BOOLEAN
  PROVE  LET id == FreshId(u)
             v == [Switch(u, Watch(p, id, heeded)) EXCEPT !.watch = id] IN
         /\ v \in Uis /\ Coherent(v) /\ v.watch = id /\ v.settings = FALSE
         /\ v.threads = u.threads /\ <<id, p>> \in Marks(v)
         /\ \A q \in Projects : Debts(v, q) = Debts(u, q)
<1> DEFINE id == FreshId(u)
           s == Watch(p, id, heeded)
           w == Switch(u, s)
           v == [w EXCEPT !.watch = id]
<1>1. id \in Nat /\ id \notin Used(u)
  BY FreshIdIsUnused
<1>2. s \in Screens /\ s.kind = "watch" /\ s.id = id /\ s.project = p /\ ~s.cancel
  BY <1>1 DEF Watch, Screens
<1>3. u.stack # <<>> /\ u.stack \in Seq(Screens) /\ Len(u.stack) \in Nat \ {0}
  BY DEF Coherent, Rooted, Uis
<1> HIDE DEF s
<1>4. /\ w \in Uis /\ Rest(w) = Rest(u)
      /\ Len(w.stack) = Len(u.stack) /\ w.stack[1] = s
      /\ \A n \in 2 .. Len(u.stack) : w.stack[n] = u.stack[n]
  BY <1>2, <1>3, SwitchFields
<1> HIDE DEF w
<1>5. /\ v \in Uis /\ v.watch = id /\ v.stack = w.stack /\ v.settings = FALSE
      /\ v.threads = u.threads /\ v.kept = u.kept
  BY <1>1, <1>4 DEF Rest, Uis
<1> HIDE DEF v, id
<1>6. /\ v.stack \in Seq(Screens) /\ Len(v.stack) = Len(u.stack) /\ v.stack[1] = s
      /\ DOMAIN v.stack = 1 .. Len(u.stack)
      /\ \A n \in 2 .. Len(u.stack) : v.stack[n] = u.stack[n]
  BY <1>4, <1>5 DEF Uis
<1>7. Watches(v) \subseteq Watches(u) \cup {s} /\ s \in Watches(v)
  <2>1. s \in Watches(v)
    BY <1>2, <1>3, <1>6 DEF Watches
  <2>2. ASSUME NEW n \in DOMAIN v.stack, v.stack[n].kind = "watch", n # 1
        PROVE  v.stack[n] \in Watches(u)
    <3>1. n \in 2 .. Len(u.stack) /\ n \in DOMAIN u.stack
      BY <1>3, <1>6, <2>2
    <3> QED
      BY <1>6, <2>2, <3>1 DEF Watches
  <2> QED
    BY <1>6, <2>1, <2>2 DEF Watches
<1>8. Marks(v) \subseteq Marks(u) \cup {<<id, p>>} /\ <<id, p>> \in Marks(v)
  BY <1>2, <1>5, <1>7 DEF Marks
<1>9. OneProject(v)
  <2>1. \A x \in Marks(u) : x[1] # id
    BY <1>1, MarksAreUsed
  <2> QED
    BY <1>8, <2>1 DEF OneProject, Coherent
<1>10. Rooted(v) /\ SettingsAbove(v) /\ ThreadsOK(v)
  <2>1. v.stack # <<>>
    BY <1>3, <1>6
  <2>2. v.stack[Len(v.stack)].kind \notin Overlays
    BY <1>2, <1>3, <1>6 DEF Coherent, Rooted, Overlays, Modals
  <2> QED
    BY <1>5, <2>1, <2>2 DEF Coherent, Rooted, SettingsAbove, ThreadsOK
<1>11. ShowsObserved(v)
  <2> SUFFICES ASSUME NEW n \in DOMAIN v.stack, Shown(v, n), v.stack[n].cancel
               PROVE  FALSE
    BY DEF ShowsObserved
  <2>1. n # 1 /\ 1 \in 1 .. n - 1
    BY <1>2, <1>3, <1>6
  <2> QED
    BY <1>2, <1>6, <2>1 DEF Shown, Overlays, Modals
<1>12. \A q \in Projects : Debts(v, q) = Debts(u, q)
  BY <1>5 DEF Debts
<1> QED
  BY <1>5, <1>8, <1>9, <1>10, <1>11, <1>12 DEF v, w, s, id, Coherent

\* Its observer supersedes the others.
LEMMA ObserveKeeps ==
  ASSUME NEW u \in Uis, Coherent(u), Room(u), NEW t \in Threads, Consistent(t),
         t.does = "observe", ~t.cancelled, t.watch = u.watch,
         <<t.watch, t.project>> \in Marks(u)
  PROVE  LET v == Observe(u, t) IN
         /\ v \in Uis /\ Coherent(v) /\ Watched(v)
         /\ \E i \in Slots : \A p \in Projects :
              Debts(v, p) \subseteq Debts(u, p) \cup (IF Starts(t, p) THEN {i} ELSE {})
<1> DEFINE c == Cancelled(u, Observers(u))
<1>1. Observers(u) \in SUBSET Alive(u)
  BY DEF Observers
<1>2. /\ c \in Uis /\ Coherent(c) /\ Alive(c) = Alive(u) /\ Marks(c) = Marks(u)
      /\ Rest(c) = <<u.watch, u.observed, u.settings, u.kept, u.questions, c.threads>>
      /\ \A p \in Projects : Debts(c, p) = Debts(u, p)
  BY <1>1, CancelledKeeps
<1> HIDE DEF c
<1>3. Room(c) /\ c.watch = u.watch
  BY <1>2 DEF Room, Rest
<1>4. Observe(u, t) = Spawn(c, t)
  BY DEF Observe, c
<1> QED
  BY <1>2, <1>3, <1>4, SpawnCoherent

LEMMA StartKeeps ==
  ASSUME NEW u \in Uis, Coherent(u), ~u.settings, Room(u), NEW p \in Projects
  PROVE  LET v == StartVerification(u, p) IN
         /\ v \in Uis /\ Coherent(v) /\ Watched(v)
         /\ \E i \in Slots : \A q \in Projects :
              Debts(v, q) \subseteq Debts(u, q) \cup (IF q = p THEN {i} ELSE {})
<1> DEFINE id == FreshId(u)
           w == [Switch(u, Watch(p, id, TRUE)) EXCEPT !.watch = id]
           t == Observer(p, id, "submitting", None)
<1>1. /\ w \in Uis /\ Coherent(w) /\ w.watch = id
      /\ w.threads = u.threads /\ <<id, p>> \in Marks(w)
      /\ \A q \in Projects : Debts(w, q) = Debts(u, q)
  BY NewWatch
<1>2. id \in Nat
  BY FreshIdIsUnused
<1>3. /\ t \in Threads /\ Consistent(t) /\ t.does = "observe" /\ ~t.cancelled
      /\ t.watch = id /\ t.project = p
      /\ \A q \in Projects : Starts(t, q) => q = p
  BY <1>2, NoneIsNoRecord DEF Observer, Thread, Threads, Phases, Consistent, Watcher, Starts, Obs
<1>4. StartVerification(u, p) = Observe(w, t)
  BY DEF StartVerification
<1> HIDE DEF id, w, t
<1>5. Room(w)
  BY <1>1 DEF Room, Alive
<1>6. PICK i \in Slots : /\ Observe(w, t) \in Uis /\ Coherent(Observe(w, t)) /\ Watched(Observe(w, t))
                         /\ \A q \in Projects :
                              Debts(Observe(w, t), q)
                                \subseteq Debts(w, q) \cup (IF Starts(t, q) THEN {i} ELSE {})
  BY <1>1, <1>3, <1>5, ObserveKeeps
<1>7. \A q \in Projects :
        Debts(Observe(w, t), q) \subseteq Debts(u, q) \cup (IF q = p THEN {i} ELSE {})
  BY <1>1, <1>3, <1>6
<1> QED
  BY <1>4, <1>6, <1>7

LEMMA AttachKeeps ==
  ASSUME NEW u \in Uis, Coherent(u), ~u.settings, Room(u), NEW p \in Projects, NEW obs \in Obs
  PROVE  Keeps(u, AttachToVerification(u, p, obs))
<1> DEFINE id == FreshId(u)
           w == [Switch(u, Watch(p, id, obs.state # "session")) EXCEPT !.watch = id]
           a == Activated(w, id, p, obs)
           t == Observer(p, id, "polling", obs)
<1>1. /\ w \in Uis /\ Coherent(w) /\ w.watch = id
      /\ w.threads = u.threads /\ <<id, p>> \in Marks(w)
      /\ \A q \in Projects : Debts(w, q) = Debts(u, q)
  <2>1. (obs.state # "session") \in BOOLEAN
    OBVIOUS
  <2> QED
    BY <2>1, NewWatch, ZenonT(60)
<1>2. id \in Nat
  BY FreshIdIsUnused
<1>3. /\ t \in Threads /\ Consistent(t) /\ t.does = "observe" /\ ~t.cancelled
      /\ t.watch = id /\ t.project = p
      /\ \A q \in Projects : ~Starts(t, q)
  BY <1>2, NoneIsNoRecord DEF Observer, Thread, Threads, Phases, Consistent, Watcher, Starts, Obs
<1>4. AttachToVerification(u, p, obs) = Observe(a, t)
  BY DEF AttachToVerification
<1> HIDE DEF id, w, t
<1>5. \A x \in Marks(w) : x[1] = id => x[2] = p
  BY <1>1 DEF Coherent, OneProject
<1>6. Keeps(w, a) /\ Marks(a) = Marks(w) /\ a.watch = w.watch /\ a.threads = w.threads
  BY <1>1, <1>2, <1>5, ActivatedKeeps
<1> HIDE DEF a
<1>7. a \in Uis /\ Coherent(a) /\ Room(a) /\ a.watch = id /\ <<id, p>> \in Marks(a)
      /\ \A q \in Projects : Debts(a, q) \subseteq Debts(u, q)
  BY <1>1, <1>6 DEF Keeps, Room, Alive
<1>8. /\ Observe(a, t) \in Uis /\ Coherent(Observe(a, t)) /\ Watched(Observe(a, t))
      /\ \A q \in Projects : Debts(Observe(a, t), q) \subseteq Debts(a, q)
  BY <1>3, <1>7, ObserveKeeps
<1> QED
  BY <1>4, <1>7, <1>8 DEF Keeps

-----------------------------------------------------------------------------
(* Answers.                                                                *)

LEMMA NotedKeeps ==
  ASSUME NEW u \in Uis, Coherent(u), NEW nav \in Navs
  PROVE  LET v == Noted(u, nav) IN
         /\ Keeps(u, v) /\ v.settings = u.settings /\ v.threads = u.threads /\ v.kept = u.kept
<1> DEFINE v == Noted(u, nav)
<1>1. nav.to = "snapshot" => nav.project \in Projects
  BY DEF Navs
<1>2. v = u \/ \E q \in Projects \cup {None} : v = [u EXCEPT !.questions = q]
  BY <1>1 DEF Noted
<1> HIDE DEF v
<1>3. /\ v \in Uis /\ v.stack = u.stack /\ v.watch = u.watch /\ v.observed = u.observed
      /\ v.settings = u.settings /\ v.kept = u.kept /\ v.threads = u.threads
  BY <1>2 DEF Uis
<1>4. Watches(v) = Watches(u) /\ Rooted(v) /\ SettingsAbove(v) /\ ShowsObserved(v)
  BY <1>3 DEF Watches, Coherent, Rooted, SettingsAbove, ShowsObserved, Shown
<1>5. Keeps(u, v)
  BY <1>3, <1>4, SameThreads
<1> QED
  BY <1>3, <1>5 DEF v

\* A request that shows its progress screen.
LEMMA WaitingKeeps ==
  ASSUME NEW u \in Uis, Coherent(u), ~u.settings, Room(u), NEW p \in Projects,
         NEW does \in Inquiries \cup {"delete", "create"}
  PROVE  LET v == Spawn(Switch(u, Screen("waiting", p)), Thread(does, p)) IN
         /\ v \in Uis /\ Coherent(v) /\ (Watched(u) => Watched(v))
         /\ does # "create" => Keeps(u, v)
         /\ \E i \in Slots : \A q \in Projects :
              Debts(v, q) \subseteq Debts(u, q) \cup (IF q = p THEN {i} ELSE {})
<1> DEFINE w == Switch(u, Screen("waiting", p))
           t == Thread(does, p)
<1>1. Screen("waiting", p) \in Screens /\ Screen("waiting", p).kind = "waiting"
  BY DEF Screen, Screens
<1>2. Keeps(u, w) /\ Rest(w) = Rest(u)
  BY <1>1, SwitchKeeps DEF Overlays, Modals
<1>3. /\ t \in Threads /\ Consistent(t) /\ ~Watcher(t)
      /\ \A q \in Projects : Starts(t, q) => q = p /\ does = "create"
  BY DEF Thread, Threads, Phases, Inquiries, Consistent, Watcher, Starts
<1> HIDE DEF w, t
<1>4. w \in Uis /\ Coherent(w) /\ Room(w) /\ (Watched(u) => Watched(w))
      /\ \A q \in Projects : Debts(w, q) \subseteq Debts(u, q)
  BY <1>2 DEF Keeps, Rest, Room, Alive
<1> DEFINE v == Spawn(w, t)
<1>5. /\ v \in Uis /\ Coherent(v) /\ (Watched(w) => Watched(v))
      /\ \E i \in Slots : \A q \in Projects :
           Debts(v, q) \subseteq Debts(w, q) \cup (IF Starts(t, q) THEN {i} ELSE {})
  BY <1>3, <1>4, SpawnCoherent
<1> HIDE DEF v
<1>6. \E i \in Slots : \A q \in Projects :
        Debts(v, q) \subseteq Debts(u, q) \cup (IF q = p THEN {i} ELSE {})
  BY <1>3, <1>4, <1>5
<1>7. does # "create" => Keeps(u, v)
  BY <1>3, <1>4, <1>5 DEF Keeps
<1> QED
  BY <1>4, <1>5, <1>6, <1>7 DEF v, w, t

LEMMA PlainScreen ==
  ASSUME NEW p \in Projects \cup {None},
         NEW kind \in {"welcome", "gate", "form", "removed", "waiting", "project", "review"},
         p \in Projects \/ kind \in {"welcome", "gate", "form"}
  PROVE  Screen(kind, p) \in Screens /\ Screen(kind, p).kind \notin Overlays \cup {"watch"}
BY DEF Screen, Screens, Overlays, Modals

LEMMA ArriveKeeps ==
  ASSUME NEW u \in Uis, Coherent(u), ~u.settings, Room(u), NEW nav \in Navs, nav.to # "created"
  PROVE  Keeps(u, Arrive(u, nav))
<1>1. CASE nav.to = "snapshot"
  <2>1. nav.project \in Projects /\ Arrive(u, nav) = ShowSnapshot(u, nav.project, nav.state)
    BY <1>1 DEF Navs, Arrive
  <2>2. CASE nav.state = "verifying"
    BY <2>1, <2>2, WaitingKeeps DEF ShowSnapshot, DiscoverActivity, Inquiries
  <2>3. CASE nav.state # "verifying"
    <3>1. PICK kind \in {"project", "review"} :
               Arrive(u, nav) = Switch(u, Screen(kind, nav.project))
      BY <2>1, <2>3 DEF ShowSnapshot
    <3> QED
      BY <2>1, <3>1, PlainScreen, SwitchKeeps
  <2> QED
    BY <2>2, <2>3
<1>2. CASE nav.to = "attach"
  <2>1. nav.project \in Projects /\ nav.obs \in Obs
        /\ Arrive(u, nav) = AttachToVerification(u, nav.project, nav.obs)
    BY <1>2 DEF Navs, Arrive
  <2> QED
    BY <2>1, AttachKeeps
<1>3. CASE nav.to = "planned"
  <2>1. nav.project \in Projects /\ Arrive(u, nav) = AfterPlan(u, nav.project, nav.changed)
    BY <1>3 DEF Navs, Arrive
  <2>2. CASE nav.changed
    <3> DEFINE w == [u EXCEPT !.questions = None]
    <3>1. /\ w \in Uis /\ w.stack = u.stack /\ w.watch = u.watch /\ w.observed = u.observed
          /\ w.settings = u.settings /\ w.kept = u.kept /\ w.threads = u.threads
      BY DEF Uis
    <3>2. Arrive(u, nav) = Switch(w, Screen("review", nav.project))
      BY <2>1, <2>2 DEF AfterPlan
    <3> HIDE DEF w
    <3>3. Watches(w) = Watches(u) /\ Rooted(w) /\ SettingsAbove(w) /\ ShowsObserved(w)
      BY <3>1 DEF Watches, Coherent, Rooted, SettingsAbove, ShowsObserved, Shown
    <3>4. Keeps(u, w)
      BY <3>1, <3>3, SameThreads
    <3>5. Keeps(w, Arrive(u, nav))
      BY <2>1, <3>1, <3>2, <3>4, PlainScreen, SwitchKeeps DEF Keeps
    <3> QED
      BY <3>4, <3>5, KeepsTwice
  <2>3. CASE ~nav.changed
    <3>1. PICK p \in Projects : Arrive(u, nav) = Switch(u, Screen("project", p))
      BY <2>1, <2>3 DEF AfterPlan, Uis
    <3> QED
      BY <3>1, PlainScreen, SwitchKeeps
  <2> QED
    BY <2>2, <2>3
<1>4. CASE nav.to = "setup"
  <2>1. Arrive(u, nav) = u \/ Arrive(u, nav) = Switch(u, Screen("gate", None))
    BY <1>4 DEF Arrive, RouteAfterProbe
  <2> QED
    BY <2>1, PlainScreen, SwitchKeeps DEF Keeps
<1>5. CASE nav.to = "confirm"
  <2>1. nav.project \in Projects /\ Arrive(u, nav) = Push(u, Screen("confirm", nav.project))
    BY <1>5 DEF Navs, Arrive, ConfirmAbove
  <2>2. Screen("confirm", nav.project) \in Screens
        /\ Screen("confirm", nav.project).kind \in Overlays
    BY <2>1 DEF Screen, Screens, Overlays, Modals
  <2> QED
    BY <2>1, <2>2, PushKeeps
<1>6. CASE nav.to \in {"form", "removed", "error", "unattachable"}
  <2>1. nav.project \in Projects
    BY <1>6 DEF Navs
  <2>2. PICK kind \in {"form", "removed", "project"} :
             Arrive(u, nav) = Switch(u, Screen(kind, nav.project))
    BY <1>6 DEF Arrive
  <2> QED
    BY <2>1, <2>2, PlainScreen, SwitchKeeps
<1>7. nav.to \in {"form", "confirm", "removed", "error", "unattachable", "snapshot", "attach",
                  "planned", "setup"}
  BY DEF Navs
<1> QED
  BY <1>1, <1>2, <1>3, <1>4, <1>5, <1>6, <1>7

\* An answer is applied or kept back; if it starts a verification, it is owed to that
\* answer alone.
Passes(u, v, nav) ==
    /\ v \in Uis /\ Coherent(v) /\ (Watched(u) => Watched(v))
    /\ \E x \in Slots \cup {None} : \A p \in Projects :
         Debts(v, p) \subseteq Debts(u, p) \cup (IF nav = Nav("created", p) THEN {x} ELSE {})

LEMMA KeepsPasses ==
  ASSUME NEW u, NEW v, NEW nav, Keeps(u, v)
  PROVE  Passes(u, v, nav)
BY DEF Keeps, Passes

LEMMA ArrivePasses ==
  ASSUME NEW u \in Uis, Coherent(u), ~u.settings, Room(u), NEW nav \in Navs
  PROVE  Passes(u, Arrive(u, nav), nav)
<1>1. CASE nav.to # "created"
  BY <1>1, ArriveKeeps, KeepsPasses
<1>2. CASE nav.to = "created"
  <2>1. /\ nav.project \in Projects /\ nav = Nav("created", nav.project)
        /\ Arrive(u, nav) = StartVerification(u, nav.project)
    BY <1>2 DEF Navs, Arrive, Nav
  <2> DEFINE v == StartVerification(u, nav.project)
  <2>2. /\ v \in Uis /\ Coherent(v) /\ Watched(v)
        /\ \E i \in Slots : \A q \in Projects :
             Debts(v, q) \subseteq Debts(u, q) \cup (IF q = nav.project THEN {i} ELSE {})
    BY <2>1, StartKeeps
  <2> HIDE DEF v
  <2>3. \A q \in Projects : q = nav.project => nav = Nav("created", q)
    BY <2>1
  <2>4. \E i \in Slots : \A q \in Projects :
          Debts(v, q) \subseteq Debts(u, q) \cup (IF nav = Nav("created", q) THEN {i} ELSE {})
    BY <2>2, <2>3
  <2> QED
    BY <2>1, <2>2, <2>4 DEF Passes, v
<1> QED
  BY <1>1, <1>2

LEMMA DeliverPasses ==
  ASSUME NEW u \in Uis, Coherent(u), Room(u) \/ u.settings, NEW nav \in Navs
  PROVE  Passes(u, Deliver(u, nav), nav)
<1> DEFINE w == Noted(u, nav)
<1>1. Keeps(u, w) /\ w.settings = u.settings /\ w.threads = u.threads /\ w.kept = u.kept
  BY NotedKeeps
<1>2. w \in Uis /\ Coherent(w) /\ (Watched(u) => Watched(w))
      /\ \A p \in Projects : Debts(w, p) \subseteq Debts(u, p)
  BY <1>1 DEF Keeps
<1>3. CASE ~u.settings
  <2>1. Deliver(u, nav) = Arrive(w, nav)
    BY <1>3 DEF Deliver
  <2> HIDE DEF w
  <2>2. Passes(w, Arrive(w, nav), nav)
    BY <1>1, <1>2, <1>3, ArrivePasses DEF Room, Alive
  <2> QED
    BY <1>2, <2>1, <2>2 DEF Passes
<1>4. CASE u.settings
  <2> DEFINE v == [w EXCEPT !.kept = nav]
  <2>1. Deliver(u, nav) = v
    BY <1>4 DEF Deliver
  <2> HIDE DEF w
  <2>2. /\ v \in Uis /\ v.stack = w.stack /\ v.watch = w.watch /\ v.observed = w.observed
        /\ v.settings = w.settings /\ v.kept = nav /\ v.threads = w.threads
    BY <1>2 DEF Uis
  <2> HIDE DEF v
  <2>3. Marks(v) = Marks(w) /\ Watches(v) = Watches(w)
    BY <2>2 DEF Marks, Watches
  <2>4. Coherent(v) /\ (Watched(w) => Watched(v))
    BY <1>2, <2>2, <2>3
       DEF Coherent, Rooted, SettingsAbove, ThreadsOK, OneProject, ShowsObserved, Shown, Watched
  <2>5. \A p \in Projects :
          Debts(v, p) \subseteq Debts(u, p) \cup (IF nav = Nav("created", p) THEN {None} ELSE {})
    BY <1>2, <2>2 DEF Debts
  <2> QED
    BY <1>2, <2>1, <2>2, <2>4, <2>5 DEF Passes
<1> QED
  BY <1>3, <1>4

-----------------------------------------------------------------------------
(* What is owed, and the three ways a step preserves the invariant.        *)

LEMMA DebtsAreFinite ==
  ASSUME NEW u \in Uis, NEW p \in Projects
  PROVE  IsFiniteSet(Debts(u, p)) /\ Cardinality(Debts(u, p)) \in Nat
<1>1. IsFiniteSet(Slots \cup {None})
  BY NavigationAssumption, FS_AddElement
<1>2. Debts(u, p) \subseteq Slots \cup {None}
  BY DEF Debts
<1> QED
  BY <1>1, <1>2, FS_Subset, FS_CardinalityType

LEMMA MoreIsOwed ==
  ASSUME NEW A, IsFiniteSet(A), NEW x, NEW B \in SUBSET (A \cup {x})
  PROVE  /\ Cardinality(B) <= Cardinality(A) + 1
         /\ B \subseteq A => Cardinality(B) <= Cardinality(A)
<1>1. IsFiniteSet(A \cup {x}) /\ Cardinality(A \cup {x}) <= Cardinality(A) + 1
      /\ Cardinality(A) \in Nat
  BY FS_AddElement, FS_CardinalityType
<1>2. Cardinality(B) <= Cardinality(A \cup {x}) /\ Cardinality(B) \in Nat
      /\ Cardinality(A \cup {x}) \in Nat
  BY <1>1, FS_Subset, FS_CardinalityType
<1>3. B \subseteq A => Cardinality(B) <= Cardinality(A)
  BY FS_Subset
<1> QED
  BY <1>1, <1>2, <1>3

\* One debt is paid, or handed on.
LEMMA OneIsPaid ==
  ASSUME NEW A, IsFiniteSet(A), NEW x \in A, NEW y, NEW B \in SUBSET ((A \ {x}) \cup {y})
  PROVE  /\ Cardinality(B) <= Cardinality(A)
         /\ B \subseteq A \ {x} => Cardinality(B) <= Cardinality(A) - 1
<1>1. IsFiniteSet(A \ {x}) /\ Cardinality(A \ {x}) = Cardinality(A) - 1
      /\ Cardinality(A) \in Nat
  BY FS_RemoveElement, FS_CardinalityType
<1>2. /\ Cardinality(B) <= Cardinality(A \ {x}) + 1
      /\ B \subseteq A \ {x} => Cardinality(B) <= Cardinality(A \ {x})
  BY <1>1, MoreIsOwed
<1>3. Cardinality(B) \in Nat
  <2>1. IsFiniteSet((A \ {x}) \cup {y})
    BY <1>1, FS_AddElement
  <2> QED
    BY <2>1, FS_Subset, FS_CardinalityType
<1> QED
  BY <1>1, <1>2, <1>3

\* What the backend and the bounds are.
Others == /\ backend \in [Projects -> [exists : {"no", "yes", "deleted"}, job : Nat,
                                       state : {"active", "cancelling", "ended", "session"}]]
          /\ asks \in Nat

LEMMA StepKeeps ==
  ASSUME IInv, Keeps(ui, ui'), UNCHANGED owed, Others'
  PROVE  IInv'
<1>1. ui \in Uis /\ owed \in [Projects -> Int] /\ Watched(ui)
  BY DEF IInv, TypeOK
<1>2. ui' \in Uis /\ Coherent(ui') /\ Watched(ui')
  BY <1>1 DEF Keeps
<1>3. \A p \in Projects : Cardinality(Debts(ui', p)) <= owed'[p]
  <2> TAKE p \in Projects
  <2>1. Debts(ui', p) \subseteq Debts(ui, p) /\ Cardinality(Debts(ui, p)) <= owed[p]
    BY DEF Keeps, IInv, DebtInv
  <2>2. IsFiniteSet(Debts(ui, p)) /\ Cardinality(Debts(ui, p)) \in Nat
    BY <1>1, DebtsAreFinite
  <2>3. Cardinality(Debts(ui', p)) <= Cardinality(Debts(ui, p))
    BY <2>1, <2>2, MoreIsOwed
  <2>4. Cardinality(Debts(ui', p)) \in Nat /\ owed[p] \in Int
    BY <1>1, <1>2, DebtsAreFinite
  <2> QED
    BY <2>1, <2>2, <2>3, <2>4
<1> QED
  BY <1>1, <1>2, <1>3 DEF IInv, TypeOK, DebtInv, Others

LEMMA StepOwes ==
  ASSUME IInv, NEW p \in Projects, Owe(p), Others',
         ui' \in Uis, Coherent(ui'), Watched(ui'), NEW i,
         \A q \in Projects : Debts(ui', q) \subseteq Debts(ui, q) \cup (IF q = p THEN {i} ELSE {})
  PROVE  IInv'
<1>1. ui \in Uis /\ owed \in [Projects -> Int]
  BY DEF IInv, TypeOK
<1>2. owed' \in [Projects -> Int] /\ owed'[p] = owed[p] + 1
      /\ \A q \in Projects \ {p} : owed'[q] = owed[q]
  BY <1>1 DEF Owe
<1>3. \A q \in Projects : Cardinality(Debts(ui', q)) <= owed'[q]
  <2> TAKE q \in Projects
  <2>1. IsFiniteSet(Debts(ui, q)) /\ Cardinality(Debts(ui, q)) \in Nat
        /\ Cardinality(Debts(ui', q)) \in Nat
    BY <1>1, DebtsAreFinite
  <2>2. /\ Cardinality(Debts(ui', q)) <= Cardinality(Debts(ui, q)) + 1
        /\ q # p => Cardinality(Debts(ui', q)) <= Cardinality(Debts(ui, q))
    BY <2>1, MoreIsOwed
  <2>3. Cardinality(Debts(ui, q)) <= owed[q] /\ owed[q] \in Int
    BY <1>1 DEF IInv, DebtInv
  <2> QED
    BY <1>2, <2>1, <2>2, <2>3
<1> QED
  BY <1>2, <1>3 DEF IInv, TypeOK, DebtInv, Others

LEMMA StepPays ==
  ASSUME IInv, NEW p \in Projects, owed' = [owed EXCEPT ![p] = @ - 1], Others',
         Keeps(ui, ui'), NEW i \in Debts(ui, p), i \notin Debts(ui', p)
  PROVE  IInv'
<1>1. ui \in Uis /\ owed \in [Projects -> Int] /\ Watched(ui)
  BY DEF IInv, TypeOK
<1>2. ui' \in Uis /\ Coherent(ui') /\ Watched(ui')
  BY <1>1 DEF Keeps
<1>3. owed' \in [Projects -> Int] /\ owed'[p] = owed[p] - 1
      /\ \A q \in Projects \ {p} : owed'[q] = owed[q]
  BY <1>1
<1>4. \A q \in Projects : Cardinality(Debts(ui', q)) <= owed'[q]
  <2> TAKE q \in Projects
  <2>1. IsFiniteSet(Debts(ui, q)) /\ Cardinality(Debts(ui, q)) \in Nat
        /\ Cardinality(Debts(ui', q)) \in Nat
    BY <1>1, <1>2, DebtsAreFinite
  <2>2. Debts(ui', q) \subseteq Debts(ui, q)
    BY DEF Keeps
  <2>3. Cardinality(Debts(ui', q)) <= Cardinality(Debts(ui, q))
    BY <2>1, <2>2, MoreIsOwed
  <2>4. Cardinality(Debts(ui, q)) <= owed[q] /\ owed[q] \in Int
    BY <1>1 DEF IInv, DebtInv
  <2>5. q = p => Cardinality(Debts(ui', q)) <= Cardinality(Debts(ui, q)) - 1
    BY <2>1, <2>2, OneIsPaid
  <2> QED
    BY <1>3, <2>1, <2>3, <2>4, <2>5
<1> QED
  BY <1>2, <1>3, <1>4 DEF IInv, TypeOK, DebtInv, Others

\* The answer of x is passed on: what was owed to x is owed to where it went.
LEMMA StepPasses ==
  ASSUME IInv, UNCHANGED owed, Others', NEW nav, NEW u, Passes(u, ui', nav),
         Watched(ui'), NEW x,
         \A p \in Projects : /\ Debts(u, p) \subseteq Debts(ui, p) \ {x}
                             /\ nav = Nav("created", p) => x \in Debts(ui, p)
  PROVE  IInv'
<1>1. ui \in Uis /\ owed \in [Projects -> Int]
  BY DEF IInv, TypeOK
<1>2. ui' \in Uis /\ Coherent(ui')
  BY DEF Passes
<1>3. PICK y \in Slots \cup {None} : \A p \in Projects :
           Debts(ui', p) \subseteq Debts(u, p) \cup (IF nav = Nav("created", p) THEN {y} ELSE {})
  BY DEF Passes
<1>4. \A p \in Projects : Cardinality(Debts(ui', p)) <= owed'[p]
  <2> TAKE p \in Projects
  <2>1. IsFiniteSet(Debts(ui, p)) /\ Cardinality(Debts(ui, p)) \in Nat
        /\ Cardinality(Debts(ui', p)) \in Nat
    BY <1>1, <1>2, DebtsAreFinite
  <2>2. Cardinality(Debts(ui', p)) <= Cardinality(Debts(ui, p))
    <3>1. CASE nav = Nav("created", p)
      <4>1. x \in Debts(ui, p) /\ Debts(ui', p) \subseteq (Debts(ui, p) \ {x}) \cup {y}
        BY <1>3, <3>1
      <4> QED
        BY <2>1, <4>1, OneIsPaid
    <3>2. CASE nav # Nav("created", p)
      <4>1. Debts(ui', p) \subseteq Debts(ui, p)
        BY <1>3, <3>2
      <4> QED
        BY <2>1, <4>1, MoreIsOwed
    <3> QED
      BY <3>1, <3>2
  <2>3. Cardinality(Debts(ui, p)) <= owed[p] /\ owed[p] \in Int
    BY <1>1 DEF IInv, DebtInv
  <2> QED
    BY <2>1, <2>2, <2>3
<1> QED
  BY <1>1, <1>2, <1>4 DEF IInv, TypeOK, DebtInv, Others

-----------------------------------------------------------------------------
(* The user.                                                               *)

\* Only the settings and the help above them are on top while the settings are open.
LEMMA SettingsOnTop ==
  ASSUME NEW u \in Uis, Coherent(u)
  PROVE  /\ Top(u) = u.stack[1] /\ Top(u) \in Screens
         /\ u.settings => Top(u).kind \in {"settings", "help"}
<1>1. u.stack # <<>> /\ u.stack \in Seq(Screens) /\ Len(u.stack) \in Nat \ {0}
  BY DEF Coherent, Rooted, Uis
<1>2. Top(u) = u.stack[1] /\ Top(u) \in Screens
  BY <1>1 DEF Top
<1>3. ASSUME u.settings
      PROVE  u.stack[1].kind \in {"settings", "help"}
  <2>1. PICK n \in DOMAIN u.stack : /\ u.stack[n].kind = "settings"
                                    /\ \A m \in 1 .. n - 1 : u.stack[m].kind = "help"
    BY <1>3 DEF Coherent, SettingsAbove
  <2>2. n = 1 \/ 1 \in 1 .. n - 1
    BY <1>1
  <2> QED
    BY <2>1, <2>2
<1> QED
  BY <1>2, <1>3

\* What every step of the user starts from.
LEMMA UserFacts ==
  ASSUME IInv
  PROVE  /\ ui \in Uis /\ Coherent(ui) /\ Watched(ui)
         /\ Top(ui) \in Screens
         /\ ui.settings => Top(ui).kind \in {"settings", "help"}
         /\ asks \in Nat /\ Others
BY SettingsOnTop DEF IInv, TypeOK, Others

LEMMA OthersUnmoved ==
  ASSUME Others, UNCHANGED backend, asks' = asks \/ asks' = asks + 1
  PROVE  Others'
BY DEF Others

LEMMA RequestInductive ==
  ASSUME IInv, NEW p \in Projects, NEW does \in Inquiries, ~ui.settings,
         Request(does, p), UNCHANGED owed
  PROVE  IInv'
<1>1. ui \in Uis /\ Coherent(ui) /\ Others
  BY UserFacts
<1>2. Others'
  BY <1>1, OthersUnmoved DEF Request, Ask
<1>3. Keeps(ui, ui')
  <2>1. does # "create" /\ does \in Inquiries \cup {"delete", "create"}
    BY DEF Inquiries
  <2> QED
    BY <1>1, <2>1, WaitingKeeps DEF Request
<1> QED
  BY <1>2, <1>3, StepKeeps

LEMMA CreateProjectInductive ==
  ASSUME IInv, NEW p \in Projects, CreateProject(p)
  PROVE  IInv'
<1>1. ui \in Uis /\ Coherent(ui) /\ Watched(ui) /\ Others /\ ~ui.settings
  BY UserFacts DEF CreateProject, At
<1>2. Others'
  BY <1>1, OthersUnmoved DEF CreateProject, Request, Ask
<1> DEFINE v == Spawn(Switch(ui, Screen("waiting", p)), Thread("create", p))
<1>3. ui' = v
  BY DEF CreateProject, Request
<1>4. PICK i \in Slots : /\ v \in Uis /\ Coherent(v) /\ (Watched(ui) => Watched(v))
                         /\ \A q \in Projects :
                              Debts(v, q) \subseteq Debts(ui, q) \cup (IF q = p THEN {i} ELSE {})
  BY <1>1, WaitingKeeps DEF CreateProject, Request
<1> HIDE DEF v
<1> QED
  BY <1>1, <1>2, <1>3, <1>4, StepOwes DEF CreateProject

LEMMA VerifyInductive ==
  ASSUME IInv, NEW p \in Projects, Verify(p)
  PROVE  IInv'
<1>1. ui \in Uis /\ Coherent(ui) /\ Watched(ui) /\ Others /\ ~ui.settings
  BY UserFacts DEF Verify, Screen
<1>2. Others'
  BY <1>1, OthersUnmoved DEF Verify, Ask
<1>3. CASE ui' = StartVerification(ui, p) /\ Owe(p)
  <2> DEFINE v == StartVerification(ui, p)
  <2>1. PICK i \in Slots : /\ v \in Uis /\ Coherent(v) /\ Watched(v)
                           /\ \A q \in Projects :
                                Debts(v, q) \subseteq Debts(ui, q) \cup (IF q = p THEN {i} ELSE {})
    BY <1>1, StartKeeps DEF Verify
  <2> HIDE DEF v
  <2>2. ui' = v
    BY <1>3 DEF v
  <2> QED
    BY <1>2, <1>3, <2>1, <2>2, StepOwes
<1>4. CASE ui' = Switch(ui, Screen("project", p)) /\ UNCHANGED owed
  <2>1. Keeps(ui, ui')
    BY <1>1, <1>4, PlainScreen, SwitchKeeps
  <2> QED
    BY <1>2, <1>4, <2>1, StepKeeps
<1> QED
  BY <1>3, <1>4 DEF Verify

LEMMA RequestDeletionInductive ==
  ASSUME IInv, NEW p \in Projects, RequestDeletion(p)
  PROVE  IInv'
<1>1. ui \in Uis /\ Coherent(ui) /\ Others
  BY UserFacts
<1>2. Others'
  BY <1>1, OthersUnmoved DEF RequestDeletion, Ask
<1> DEFINE t == Thread("preflight", p)
<1>3. t \in Threads /\ Consistent(t) /\ ~Watcher(t) /\ \A q \in Projects : ~Starts(t, q)
  BY DEF Thread, Threads, Phases, Inquiries, Consistent, Watcher, Starts
<1>4. ui' = Spawn(ui, t) /\ Room(ui) /\ UNCHANGED owed
  BY DEF RequestDeletion
<1> HIDE DEF t
<1>5. Keeps(ui, ui')
  BY <1>1, <1>3, <1>4, SpawnKeeps
<1> QED
  BY <1>2, <1>4, <1>5, StepKeeps

\* A step that asks for nothing and moves the screens alone.
LEMMA FreeInductive ==
  ASSUME IInv, Free, Keeps(ui, ui')
  PROVE  IInv'
<1>1. Others'
  BY UserFacts, OthersUnmoved DEF Free
<1> QED
  BY <1>1, StepKeeps DEF Free

LEMMA ConfirmDeletionInductive ==
  ASSUME IInv, ConfirmDeletion
  PROVE  IInv'
<1>1. /\ ui \in Uis /\ Coherent(ui) /\ Top(ui) \in Screens /\ Top(ui).kind = "confirm"
      /\ ~ui.settings /\ ui.stack # <<>>
  BY UserFacts DEF ConfirmDeletion, At, Coherent, Rooted
<1> DEFINE p == Top(ui).project
           w == Pop(ui)
<1>2. p \in Projects
  BY <1>1 DEF Screens
<1>3. w \in Uis /\ Rest(w) = Rest(ui)
  BY <1>1, PopFields
<1>4. /\ w.stack = Pop(ui).stack /\ w.watch = ui.watch /\ w.observed = ui.observed
      /\ w.threads = ui.threads /\ w.settings = ui.settings /\ w.kept = ui.kept
  BY <1>3 DEF Rest
<1>5. Keeps(ui, w)
  BY <1>1, <1>3, <1>4, PopKeeps DEF Overlays, Modals
<1>6. ui' = Spawn(Switch(w, Screen("waiting", p)), Thread("delete", p)) /\ Room(ui) /\ Free
  BY DEF ConfirmDeletion
<1> HIDE DEF w, p
<1>7. Keeps(w, ui')
  <2>1. w \in Uis /\ Coherent(w) /\ ~w.settings /\ Room(w)
    BY <1>1, <1>4, <1>5, <1>6 DEF Keeps, Room, Alive
  <2> QED
    BY <1>2, <1>6, <2>1, WaitingKeeps
<1> QED
  BY <1>5, <1>6, <1>7, KeepsTwice, FreeInductive

LEMMA DismissInductive ==
  ASSUME IInv, Dismiss
  PROVE  IInv'
<1>1. /\ ui \in Uis /\ Coherent(ui) /\ Top(ui).kind \in Modals /\ ui.stack # <<>>
      /\ ui' = Pop(ui) /\ Free
  BY UserFacts DEF Dismiss, At, Coherent, Rooted
<1> DEFINE w == Pop(ui)
<1>2. w \in Uis /\ Rest(w) = Rest(ui)
  BY <1>1, PopFields
<1>3. /\ w.stack = Pop(ui).stack /\ w.watch = ui.watch /\ w.observed = ui.observed
      /\ w.threads = ui.threads /\ w.settings = ui.settings /\ w.kept = ui.kept
  BY <1>2 DEF Rest
<1>4. Keeps(ui, w)
  BY <1>1, <1>2, <1>3, PopKeeps DEF Overlays, Modals
<1> QED
  BY <1>1, <1>4, FreeInductive

LEMMA HelpInductive ==
  ASSUME IInv, Help
  PROVE  IInv'
<1>1. ui \in Uis /\ Coherent(ui) /\ Others
  BY UserFacts
<1>2. Others'
  BY <1>1, OthersUnmoved DEF Help, Ask
<1>3. Screen("help", None) \in Screens /\ Screen("help", None).kind = "help"
  BY DEF Screen, Screens
<1>4. Keeps(ui, ui')
  BY <1>1, <1>3, PushKeeps DEF Help, Overlays, Modals
<1> QED
  BY <1>2, <1>4, StepKeeps DEF Help

\* The settings are taken off the stack, with what they have kept back.
LEMMA SettingsClosed ==
  ASSUME NEW u \in Uis, Coherent(u), Top(u).kind = "settings"
  PROVE  LET v == [Pop(u) EXCEPT !.settings = FALSE, !.kept = None] IN
         /\ Keeps(u, v) /\ v.settings = FALSE /\ v.watch = u.watch /\ v.threads = u.threads
         /\ \A p \in Projects : None \notin Debts(v, p)
<1> DEFINE w == Pop(u)
           v == [w EXCEPT !.settings = FALSE, !.kept = None]
<1>1. u.stack # <<>>
  BY DEF Coherent, Rooted
<1>2. w \in Uis /\ Rest(w) = Rest(u)
  BY <1>1, PopFields
<1>3. w.watch = u.watch /\ w.observed = u.observed /\ w.threads = u.threads
  BY <1>2 DEF Rest
<1> HIDE DEF w
<1>4. /\ v \in Uis /\ v.stack = w.stack /\ v.watch = u.watch /\ v.observed = u.observed
      /\ v.threads = u.threads /\ v.settings = FALSE /\ v.kept = None
  BY <1>2, <1>3 DEF Uis
<1> HIDE DEF v
<1>5. Keeps(u, v)
  BY <1>4, PopKeeps DEF Overlays, w
<1>6. \A p \in Projects : None \notin Debts(v, p)
  BY <1>4, NoneIsNoRecord, NavigationAssumption DEF Debts, Nav, Navs
<1> QED
  BY <1>4, <1>5, <1>6 DEF v, w

LEMMA LeaveInductive ==
  ASSUME IInv, Leave
  PROVE  IInv'
<1>1. /\ ui \in Uis /\ Coherent(ui) /\ Top(ui).kind \notin Modals /\ Free
      /\ ui.settings => Top(ui).kind = "settings"
  BY UserFacts DEF Leave, At, Modals
<1>2. CASE ui.settings
  <2> DEFINE v == [Pop(ui) EXCEPT !.settings = FALSE, !.kept = None]
  <2>1. Keeps(ui, v) /\ v.settings = FALSE
    BY <1>1, <1>2, SettingsClosed
  <2>2. ui' = ShowWelcome(v)
    BY <1>2 DEF Leave
  <2> HIDE DEF v
  <2>3. Keeps(v, ui')
    BY <2>1, <2>2, ShowWelcomeKeeps DEF Keeps
  <2> QED
    BY <1>1, <2>1, <2>3, KeepsTwice, FreeInductive
<1>3. CASE ~ui.settings
  <2>1. Keeps(ui, ui')
    BY <1>1, <1>3, ShowWelcomeKeeps DEF Leave
  <2> QED
    BY <1>1, <2>1, FreeInductive
<1> QED
  BY <1>2, <1>3

LEMMA OpenSettingsInductive ==
  ASSUME IInv, OpenSettings
  PROVE  IInv'
<1>1. ui \in Uis /\ Coherent(ui) /\ ~ui.settings /\ Free
  BY UserFacts DEF OpenSettings, At, Modals
<1> DEFINE w == Push(ui, Settings)
           v == [w EXCEPT !.settings = TRUE]
<1>2. Settings \in Screens /\ Settings.kind = "settings"
  BY DEF Settings, Screen, Screens
<1>3. Keeps(ui, w)
  BY <1>1, <1>2, PushKeeps DEF Overlays
<1>4. w \in Uis /\ w.stack[1].kind = "settings" /\ w.stack # <<>>
  <2>1. ui.stack # <<>> /\ Len(ui.stack) \in Nat
    BY <1>1 DEF Coherent, Rooted, Uis
  <2>2. w \in Uis /\ Len(w.stack) = Len(ui.stack) + 1 /\ w.stack[1] = Settings
    BY <1>1, <1>2, PushFields
  <2> QED
    BY <1>2, <2>1, <2>2
<1>5. ui' = v
  BY DEF OpenSettings
<1> HIDE DEF w
<1>6. /\ v \in Uis /\ v.stack = w.stack /\ v.watch = w.watch /\ v.observed = w.observed
      /\ v.threads = w.threads /\ v.kept = w.kept
  BY <1>4 DEF Uis
<1> HIDE DEF v
<1>7. SettingsAbove(v)
  <2>1. 1 \in DOMAIN v.stack
    BY <1>4, <1>6 DEF Uis
  <2> QED
    BY <1>4, <1>6, <2>1 DEF SettingsAbove
<1>8. Coherent(w)
  BY <1>3 DEF Keeps
<1>9. Watches(v) = Watches(w) /\ Rooted(v) /\ ShowsObserved(v)
  BY <1>6, <1>8 DEF Watches, Coherent, Rooted, ShowsObserved, Shown
<1>10. Keeps(w, v)
  BY <1>4, <1>6, <1>7, <1>8, <1>9, SameThreads
<1> QED
  BY <1>1, <1>3, <1>5, <1>10, KeepsTwice, FreeInductive

LEMMA CloseSettingsInductive ==
  ASSUME IInv, CloseSettings
  PROVE  IInv'
<1> DEFINE v == [Pop(ui) EXCEPT !.settings = FALSE, !.kept = None]
<1>1. ui \in Uis /\ Coherent(ui) /\ Watched(ui) /\ Others /\ Free /\ Top(ui).kind = "settings"
  BY UserFacts DEF CloseSettings, At
<1>2. /\ Keeps(ui, v) /\ v.settings = FALSE /\ v.threads = ui.threads
      /\ \A p \in Projects : None \notin Debts(v, p)
  BY <1>1, SettingsClosed
<1>3. /\ ui.kept # None => Room(ui)
      /\ ui' = IF ui.kept = None THEN v ELSE Deliver(v, ui.kept)
  BY DEF CloseSettings
<1> HIDE DEF v
<1>4. CASE ui.kept = None
  BY <1>1, <1>2, <1>3, <1>4, FreeInductive
<1>5. CASE ui.kept # None
  <2>1. v \in Uis /\ Coherent(v) /\ Watched(v) /\ Room(v) /\ ui.kept \in Navs
    BY <1>1, <1>2, <1>3, <1>5 DEF Keeps, Room, Alive, Uis
  <2>2. Passes(v, ui', ui.kept)
    BY <1>3, <1>5, <2>1, DeliverPasses
  <2>3. \A p \in Projects : /\ Debts(v, p) \subseteq Debts(ui, p) \ {None}
                            /\ ui.kept = Nav("created", p) => None \in Debts(ui, p)
    BY <1>2 DEF Keeps, Debts
  <2>4. Others' /\ UNCHANGED owed
    BY <1>1, OthersUnmoved DEF Free
  <2> QED
    BY <2>1, <2>2, <2>3, <2>4, StepPasses DEF Passes
<1> QED
  BY <1>4, <1>5

LEMMA CancelVerificationInductive ==
  ASSUME IInv, CancelVerification
  PROVE  IInv'
<1> DEFINE o == ui.observed
           t == [Thread("cancel", o.project) EXCEPT !.watch = ui.watch, !.obs = o.obs]
           w == OnWatch(ui, ui.watch, Uncancellable)
<1>1. /\ ui \in Uis /\ Coherent(ui) /\ Free /\ Room(ui) /\ ui.watch # None /\ o # None
      /\ Top(ui) = ui.stack[1] /\ ui.stack # <<>>
      /\ Top(ui).kind = "watch" /\ Top(ui).cancel /\ Top(ui).heeded
  BY UserFacts, SettingsOnTop DEF CancelVerification, At, Coherent, Rooted
<1>2. o.project \in Projects /\ o.obs \in Obs /\ ui.watch \in Nat
  BY <1>1 DEF Uis, ObservedOf
<1>3. Top(ui).id = ui.watch /\ o.project = Top(ui).project /\ Top(ui) \in Watches(ui)
  <2>1. 1 \in DOMAIN ui.stack /\ Shown(ui, 1)
    BY <1>1 DEF Uis, Shown
  <2> QED
    BY <1>1, <2>1 DEF Coherent, ShowsObserved, Watches
<1>4. <<ui.watch, o.project>> \in Marks(ui)
  BY <1>3 DEF Marks
<1>5. /\ t \in Threads /\ Consistent(t) /\ t.watch = ui.watch /\ t.project = o.project
      /\ \A p \in Projects : ~Starts(t, p)
  BY <1>2, NoneIsNoRecord DEF Thread, Threads, Phases, Consistent, Watcher, Starts
<1>6. ui' = Spawn(w, t)
  BY DEF CancelVerification
<1>7. Keeps(ui, w) /\ Rest(w) = Rest(ui) /\ Marks(w) = Marks(ui)
  BY <1>1, TouchedKeeps
<1> HIDE DEF w, t, o
<1>8. w \in Uis /\ Coherent(w) /\ Room(w)
  BY <1>1, <1>7 DEF Keeps, Room, Alive, Rest
<1>9. Keeps(w, ui')
  BY <1>4, <1>5, <1>6, <1>7, <1>8, SpawnKeeps
<1> QED
  BY <1>1, <1>7, <1>9, KeepsTwice, FreeInductive

-----------------------------------------------------------------------------
(* The threads.                                                            *)

LEMMA ThreadFacts ==
  ASSUME IInv, NEW i \in Slots, i \in Alive(ui)
  PROVE  /\ ui \in Uis /\ Coherent(ui) /\ Watched(ui) /\ Others
         /\ ui.threads[i] # None /\ ui.threads[i] \in Threads /\ Consistent(ui.threads[i])
         /\ owed \in [Projects -> Int]
BY DEF IInv, TypeOK, Others, Uis, Alive, Coherent, ThreadsOK

\* A thread that goes on, with what it then holds.
GoesOn(t, phase, obs, nav) == [t EXCEPT !.phase = phase, !.obs = obs, !.nav = nav]

LEMMA GoesOnFields ==
  ASSUME NEW t \in Threads,
         NEW phase \in Phases,
         NEW obs \in Obs \cup {None}, NEW nav \in Navs \cup {None}
  PROVE  LET s == GoesOn(t, phase, obs, nav) IN
         /\ s \in Threads /\ s.does = t.does /\ s.project = t.project /\ s.watch = t.watch
         /\ s.cancelled = t.cancelled /\ s.phase = phase /\ s.obs = obs /\ s.nav = nav
BY DEF GoesOn, Threads

LEMMA GoesOnKeeps ==
  ASSUME NEW u \in Uis, Coherent(u), NEW i \in Slots, u.threads[i] # None,
         NEW phase \in Phases,
         NEW obs \in Obs \cup {None}, NEW nav \in Navs \cup {None},
         Consistent(GoesOn(u.threads[i], phase, obs, nav)),
         \A p \in Projects : Starts(GoesOn(u.threads[i], phase, obs, nav), p)
                               => Starts(u.threads[i], p)
  PROVE  LET v == [u EXCEPT !.threads[i] = GoesOn(u.threads[i], phase, obs, nav)] IN
         /\ Keeps(u, v) /\ Marks(v) = Marks(u)
         /\ \A p \in Projects : ~Starts(GoesOn(u.threads[i], phase, obs, nav), p)
                                  => i \notin Debts(v, p)
<1> DEFINE t == GoesOn(u.threads[i], phase, obs, nav)
           v == [u EXCEPT !.threads[i] = t]
<1>1. u.threads[i] \in Threads
  BY DEF Uis
<1>2. /\ t \in Threads /\ t.does = u.threads[i].does /\ t.project = u.threads[i].project
      /\ t.watch = u.threads[i].watch /\ t.cancelled = u.threads[i].cancelled
  BY <1>1, GoesOnFields
<1> HIDE DEF t
<1>3. Consistent(t) /\ \A p \in Projects : Starts(t, p) => Starts(u.threads[i], p)
  BY DEF t
<1>4. Keeps(u, v) /\ Marks(v) = Marks(u) /\ v.threads[i] = t
  BY <1>2, <1>3, ThreadKeeps
<1>5. \A p \in Projects : ~Starts(t, p) => i \notin Debts(v, p)
  <2> HIDE DEF v
  <2> QED
    BY <1>4, NavigationAssumption DEF Debts
<1> QED
  BY <1>4, <1>5 DEF t

\* The request of a thread is answered: nothing is started that was not to be.
LEMMA AnswersKeeps ==
  ASSUME IInv, NEW i \in Slots, i \in Alive(ui), ~Watcher(ui.threads[i]), NEW nav \in Navs,
         Answers(i, nav),
         \A p \in Projects : nav = Nav("created", p) => Starts(ui.threads[i], p)
  PROVE  /\ Keeps(ui, ui')
         /\ \A p \in Projects : nav # Nav("created", p) => i \notin Debts(ui', p)
<1> DEFINE t == ui.threads[i]
           phase == "answering"
           obs == t.obs
           s == GoesOn(t, phase, obs, nav)
<1>1. ui \in Uis /\ Coherent(ui) /\ t # None /\ t \in Threads /\ Consistent(t)
  BY ThreadFacts
<1>2. phase \in Phases /\ obs \in Obs \cup {None}
  BY <1>1 DEF Phases, Threads
<1>3. ui' = [ui EXCEPT !.threads[i] = [t EXCEPT !.phase = phase, !.nav = nav]]
  BY DEF Answers
<1> HIDE DEF phase, obs
<1>4. s.does = t.does /\ s.project = t.project /\ s.phase = phase /\ s.obs = obs
      /\ s.nav = nav /\ s.watch = t.watch
  <2> HIDE DEF t
  <2> QED
    BY <1>1, <1>2 DEF GoesOn, Threads
<1>5. ui' = [ui EXCEPT !.threads[i] = s]
  <2>1. [t EXCEPT !.phase = phase, !.nav = nav] = s
    <3> HIDE DEF t
    <3> QED
      BY <1>1 DEF Threads, GoesOn, obs
  <2> QED
    BY <1>3, <2>1
<1> HIDE DEF s
<1>6. Consistent(s)
  BY <1>1, <1>4 DEF Consistent, Watcher, phase
<1>7. \A p \in Projects : Starts(s, p) <=> nav = Nav("created", p)
  BY <1>4 DEF Starts, phase
<1> QED
  BY <1>1, <1>2, <1>5, <1>6, <1>7, GoesOnKeeps DEF s

\* What threads answer.
LEMMA AnswerTypes ==
  ASSUME NEW p \in Projects
  PROVE  /\ \A to \in {"form", "confirm", "removed", "error", "unattachable", "created"} :
              Nav(to, p) \in Navs /\ Nav(to, p).to = to /\ Nav(to, p).project = p
         /\ \A s \in {"verifying", "review", "clarify", "other"} :
              Snapshot(p, s) \in Navs /\ Snapshot(p, s).to = "snapshot"
         /\ \A obs \in Obs : AttachTo(p, obs) \in Navs /\ AttachTo(p, obs).to = "attach"
         /\ \A c \in BOOLEAN : Planned(p, c) \in Navs /\ Planned(p, c).to = "planned"
BY DEF Nav, Snapshot, AttachTo, Planned, Navs

LEMMA NotCreated ==
  ASSUME NEW nav, nav.to # "created"
  PROVE  \A p \in Projects : nav # Nav("created", p)
BY DEF Nav

LEMMA RefusalType ==
  ASSUME NEW t, t.project \in Projects
  PROVE  Refusal(t) \in Navs /\ Refusal(t).to # "created"
BY AnswerTypes DEF Refusal

LEMMA ObservedType ==
  ASSUME Others, NEW p \in Projects
  PROVE  Observed(p) \in Obs \cup {None} /\ (Busy(p) => Observed(p) \in Obs)
BY NoneIsNoRecord DEF Others, Observed, Busy, Obs

LEMMA InquiryType ==
  ASSUME Others, NEW t, t.project \in Projects, NEW nav \in Inquiry(t)
  PROVE  nav \in Navs /\ nav.to # "created"
<1> DEFINE p == t.project
<1>1. Observed(p) \in Obs \cup {None}
  BY ObservedType
<1>2. \A s \in SnapshotStates(p) : Snapshot(p, s) \in Navs /\ Snapshot(p, s).to # "created"
  BY AnswerTypes DEF SnapshotStates
<1>3. CASE t.does \in {"resume", "discover"}
  <2>1. \/ Observed(p) # None /\ nav = AttachTo(p, Observed(p))
        \/ nav = Nav("unattachable", p)
        \/ \E s \in SnapshotStates(p) : nav = Snapshot(p, s)
    BY <1>3 DEF Inquiry
  <2> QED
    BY <1>1, <1>2, <2>1, AnswerTypes
<1>4. CASE t.does = "select"
  BY <1>2, <1>4 DEF Inquiry
<1>5. CASE t.does = "plan"
  BY <1>5, AnswerTypes DEF Inquiry
<1>6. CASE t.does = "preflight"
  BY <1>6, AnswerTypes DEF Inquiry
<1> QED
  BY <1>3, <1>4, <1>5, <1>6 DEF Inquiry

LEMMA InquireInductive ==
  ASSUME IInv, NEW i \in Slots, Inquire(i)
  PROVE  IInv'
<1> DEFINE t == ui.threads[i]
<1>1. i \in Alive(ui) /\ t.does \in Inquiries /\ UNCHANGED <<backend, owed, asks>>
  BY DEF Inquire, Works
<1>2. Others /\ Consistent(t)
  BY <1>1, ThreadFacts
<1>3. ~Watcher(t) /\ t.project \in Projects
  BY <1>1, <1>2 DEF Inquiries, Watcher, Consistent
<1>4. PICK nav : /\ Answers(i, nav)
                 /\ nav = Refusal(t) \/ nav \in Inquiry(t) \/ nav = Nav("form", t.project)
  BY DEF Inquire
<1>5. nav \in Navs /\ nav.to # "created"
  BY <1>2, <1>3, <1>4, RefusalType, InquiryType, AnswerTypes
<1> HIDE DEF t
<1>6. \A p \in Projects : nav # Nav("created", p)
  BY <1>5, NotCreated
<1>7. Keeps(ui, ui')
  BY <1>1, <1>3, <1>4, <1>5, <1>6, AnswersKeeps DEF t
<1> QED
  BY <1>1, <1>7, FreeInductive DEF Free

LEMMA CreateInductive ==
  ASSUME IInv, NEW i \in Slots, Create(i)
  PROVE  IInv'
<1> DEFINE t == ui.threads[i]
           p == t.project
<1>1. i \in Alive(ui) /\ t.does = "create" /\ t.phase = "working" /\ UNCHANGED asks
  BY DEF Create, Works
<1>2. ui \in Uis /\ Others /\ Consistent(t) /\ t # None
  BY <1>1, ThreadFacts
<1>3. ~Watcher(t) /\ p \in Projects /\ Starts(t, p) /\ i \in Debts(ui, p)
  BY <1>1, <1>2 DEF Watcher, Consistent, Starts, Debts
<1>4. backend' = backend \/ backend' = [backend EXCEPT ![p].exists = "yes"]
  BY DEF Create
<1>5. Others'
  BY <1>1, <1>2, <1>3, <1>4 DEF Others
<1>6. CASE Answers(i, Nav("created", p)) /\ UNCHANGED owed
  <2> DEFINE nav == Nav("created", p)
  <2>1. nav \in Navs /\ \A q \in Projects : nav = Nav("created", q) => q = p
    BY <1>3, AnswerTypes
  <2>2. Keeps(ui, ui')
    BY <1>1, <1>3, <1>6, <2>1, AnswersKeeps
  <2> QED
    BY <1>5, <1>6, <2>2, StepKeeps
<1>7. CASE Answers(i, Refusal(t)) /\ owed' = [owed EXCEPT ![p] = @ - 1]
  <2> DEFINE nav == Refusal(t)
  <2>1. nav \in Navs /\ nav.to # "created"
    BY <1>3, RefusalType
  <2>2. \A q \in Projects : nav # Nav("created", q)
    BY <2>1, NotCreated
  <2>3. Keeps(ui, ui') /\ i \notin Debts(ui', p)
    BY <1>1, <1>3, <1>7, <2>1, <2>2, AnswersKeeps
  <2> QED
    BY <1>3, <1>5, <1>7, <2>3, StepPays
<1> QED
  BY <1>6, <1>7 DEF Create

LEMMA DeleteInductive ==
  ASSUME IInv, NEW i \in Slots, Delete(i)
  PROVE  IInv'
<1> DEFINE t == ui.threads[i]
           p == t.project
           nav == Nav("removed", p)
<1>1. i \in Alive(ui) /\ t.does = "delete" /\ UNCHANGED <<owed, asks>> /\ Answers(i, nav)
  BY DEF Delete, Works
<1>2. ui \in Uis /\ Others /\ Consistent(t)
  BY <1>1, ThreadFacts
<1>3. ~Watcher(t) /\ p \in Projects
  BY <1>1, <1>2 DEF Watcher, Consistent
<1>4. backend' = backend \/ backend' = [backend EXCEPT ![p].exists = "deleted"]
  BY DEF Delete
<1>5. Others'
  BY <1>1, <1>2, <1>3, <1>4 DEF Others
<1>6. nav \in Navs /\ nav.to # "created"
  BY <1>3, AnswerTypes
<1>7. Keeps(ui, ui')
  BY <1>1, <1>3, <1>6, AnswersKeeps, NotCreated
<1> QED
  BY <1>1, <1>5, <1>7, StepKeeps

LEMMA ProbeInductive ==
  ASSUME IInv, NEW i \in Slots, Probe(i)
  PROVE  IInv'
<1>1. i \in Alive(ui) /\ ~Watcher(ui.threads[i]) /\ UNCHANGED <<backend, owed, asks>>
  BY DEF Probe, Works, Watcher
<1>2. PICK gate \in BOOLEAN : Answers(i, Setup(gate))
  BY DEF Probe
<1>3. Setup(gate) \in Navs /\ Setup(gate).to # "created"
  BY DEF Setup, Navs
<1>4. Keeps(ui, ui')
  BY <1>1, <1>2, <1>3, AnswersKeeps, NotCreated
<1> QED
  BY <1>1, <1>4, FreeInductive DEF Free

LEMMA AnswerInductive ==
  ASSUME IInv, NEW i \in Slots, Answer(i)
  PROVE  IInv'
<1> DEFINE t == ui.threads[i]
           v == Ended(ui, i)
<1>1. i \in Alive(ui) /\ t.phase = "answering" /\ Free /\ ui' = Deliver(v, t.nav)
  BY DEF Answer
<1>2. ui \in Uis /\ Coherent(ui) /\ Watched(ui) /\ Others /\ Consistent(t) /\ t # None
  BY <1>1, ThreadFacts
<1>3. t.nav \in Navs /\ t.does # "observe"
  BY <1>1, <1>2 DEF Consistent, Watcher
<1>4. /\ v \in Uis /\ Coherent(v) /\ Room(v) /\ Watched(v)
      /\ \A p \in Projects : Debts(v, p) \subseteq Debts(ui, p) \ {i}
  BY <1>2, <1>3, EndedKeeps
<1> HIDE DEF v
<1>5. Passes(v, ui', t.nav)
  BY <1>1, <1>3, <1>4, DeliverPasses
<1>6. \A p \in Projects : t.nav = Nav("created", p) => i \in Debts(ui, p)
  BY <1>1, <1>2 DEF Debts, Starts
<1>7. Others' /\ UNCHANGED owed
  BY <1>1, <1>2, OthersUnmoved DEF Free
<1>8. Watched(ui')
  BY <1>4, <1>5 DEF Passes
<1> HIDE DEF t
<1> QED
  BY <1>4, <1>5, <1>6, <1>7, <1>8, StepPasses

-----------------------------------------------------------------------------
(* The observers of detached jobs, and the requests to cancel them.        *)

LEMMA WatcherGoesOn ==
  ASSUME IInv, NEW i \in Slots, i \in Alive(ui), Watcher(ui.threads[i]),
         NEW phase \in {"showing", "failing", "polling", "ending"},
         NEW obs \in Obs \cup {None}, NEW nav \in Navs \cup {None},
         ui.threads[i].does = "observe" \/ (phase \in {"showing", "failing"} /\ obs \in Obs),
         phase \in {"showing", "polling"} => obs \in Obs,
         phase = "ending" => nav \in Navs /\ nav.to = "snapshot"
  PROVE  LET v == [ui EXCEPT !.threads[i] = GoesOn(ui.threads[i], phase, obs, nav)] IN
         Keeps(ui, v) /\ Marks(v) = Marks(ui) /\ \A p \in Projects : i \notin Debts(v, p)
<1> DEFINE t == ui.threads[i]
           s == GoesOn(t, phase, obs, nav)
<1>1. ui \in Uis /\ Coherent(ui) /\ t # None /\ t \in Threads /\ Consistent(t)
  BY ThreadFacts
<1>2. phase \in Phases
  BY DEF Phases
<1>3. s.does = t.does /\ s.project = t.project /\ s.phase = phase /\ s.obs = obs
      /\ s.nav = nav /\ s.watch = t.watch
  <2> HIDE DEF t
  <2> QED
    BY <1>1, <1>2 DEF GoesOn, Threads
<1> HIDE DEF s
<1>4. Consistent(s)
  <2>1. t.does \in {"observe", "cancel"} /\ t.watch \in Nat /\ t.project \in Projects
    BY <1>1 DEF Consistent, Watcher
  <2> QED
    BY <1>3, <2>1 DEF Consistent, Watcher
<1>5. \A p \in Projects : ~Starts(s, p)
  BY <1>3 DEF Starts, Watcher
<1> DEFINE v == [ui EXCEPT !.threads[i] = s]
<1>6. /\ Keeps(ui, v) /\ Marks(v) = Marks(ui)
      /\ \A p \in Projects : ~Starts(s, p) => i \notin Debts(v, p)
  <2>1. \A p \in Projects : Starts(s, p) => Starts(t, p)
    BY <1>5
  <2> QED
    BY <1>1, <1>2, <1>4, <2>1, GoesOnKeeps DEF s
<1> HIDE DEF v
<1>7. Keeps(ui, v) /\ Marks(v) = Marks(ui) /\ \A p \in Projects : i \notin Debts(v, p)
  BY <1>5, <1>6
<1> QED
  BY <1>7 DEF v, s

LEMMA ShowingKeeps ==
  ASSUME IInv, NEW i \in Slots, i \in Alive(ui), Watcher(ui.threads[i]), NEW obs \in Obs,
         Continue(i, "showing", obs)
  PROVE  Keeps(ui, ui') /\ \A p \in Projects : i \notin Debts(ui', p)
<1> DEFINE t == ui.threads[i]
           phase == "showing"
<1>1. t \in Threads
  BY ThreadFacts
<1>2. ui' = [ui EXCEPT !.threads[i] = [t EXCEPT !.phase = phase, !.obs = obs]]
  BY DEF Continue
<1>3. [t EXCEPT !.phase = phase, !.obs = obs] = GoesOn(t, phase, obs, t.nav)
      /\ t.nav \in Navs \cup {None}
  <2> HIDE DEF t
  <2> QED
    BY <1>1 DEF Threads, GoesOn
<1> QED
  BY <1>2, <1>3, WatcherGoesOn

LEMMA FailsKeeps ==
  ASSUME IInv, NEW i \in Slots, i \in Alive(ui), Watcher(ui.threads[i]), Fails(i)
  PROVE  Keeps(ui, ui') /\ \A p \in Projects : i \notin Debts(ui', p)
<1> DEFINE t == ui.threads[i]
           phase == "failing"
<1>1. t \in Threads /\ Consistent(t)
  BY ThreadFacts
<1>2. ui' = [ui EXCEPT !.threads[i] = [t EXCEPT !.phase = phase]]
  BY DEF Fails
<1>3. [t EXCEPT !.phase = phase] = GoesOn(t, phase, t.obs, t.nav)
      /\ t.nav \in Navs \cup {None} /\ t.obs \in Obs \cup {None}
  <2> HIDE DEF t
  <2> QED
    BY <1>1 DEF Threads, GoesOn
<1>4. t.does = "observe" \/ t.obs \in Obs
  BY <1>1 DEF Consistent, Watcher
<1> QED
  BY <1>2, <1>3, <1>4, WatcherGoesOn, ZenonT(60)

\* The backend numbers its jobs.
LEMMA OthersNextJob ==
  ASSUME Others, NEW p \in Projects, NextJob(p), UNCHANGED asks
  PROVE  Others'
<1> DEFINE B == [exists : {"no", "yes", "deleted"}, job : Nat,
                 state : {"active", "cancelling", "ended", "session"}]
           f == [backend EXCEPT ![p].job = @ + 1]
<1>1. backend \in [Projects -> B] /\ backend[p] \in B
  BY DEF Others
<1>2. f \in [Projects -> B] /\ f[p] \in B
  <2>1. backend[p].job + 1 \in Nat
    BY <1>1
  <2>2. [backend[p] EXCEPT !.job = @ + 1] \in B
    BY <1>1, <2>1
  <2> QED
    BY <1>1, <2>2
<1>3. [f[p] EXCEPT !.state = "active"] \in B
  BY <1>2
<1>4. backend' = [f EXCEPT ![p].state = "active"]
  BY <1>1 DEF NextJob
<1> HIDE DEF f
<1>5. backend' \in [Projects -> B]
  BY <1>2, <1>3, <1>4
<1> QED
  BY <1>5 DEF Others

LEMMA SubmitInductive ==
  ASSUME IInv, NEW i \in Slots, Submit(i)
  PROVE  IInv'
<1> DEFINE t == ui.threads[i]
           p == t.project
<1>1. /\ i \in Alive(ui) /\ t.does = "observe" /\ t.phase = "submitting" /\ UNCHANGED asks
      /\ owed' = [owed EXCEPT ![p] = @ - 1]
  BY DEF Submit, Is
<1>2. ui \in Uis /\ Others /\ Consistent(t) /\ t # None
  BY <1>1, ThreadFacts
<1>3. Watcher(t) /\ p \in Projects /\ i \in Debts(ui, p)
  BY <1>1, <1>2 DEF Watcher, Consistent, Starts, Debts
<1>4. backend[p].job \in Nat
  BY <1>2, <1>3 DEF Others
<1>5. CASE NextJob(p) /\ Continue(i, "showing", [job |-> backend[p].job + 1, state |-> "active"])
  <2>1. [job |-> backend[p].job + 1, state |-> "active"] \in Obs
    BY <1>4 DEF Obs
  <2>2. Keeps(ui, ui') /\ i \notin Debts(ui', p)
    BY <1>1, <1>3, <1>5, <2>1, ShowingKeeps
  <2>3. Others'
    BY <1>1, <1>2, <1>3, <1>5, OthersNextJob
  <2> QED
    BY <1>1, <1>3, <2>2, <2>3, StepPays
<1>6. CASE Busy(p) /\ Continue(i, "showing", Observed(p)) /\ UNCHANGED backend
  <2>1. Observed(p) \in Obs
    BY <1>2, <1>3, <1>6, ObservedType
  <2>2. Keeps(ui, ui') /\ i \notin Debts(ui', p)
    BY <1>1, <1>3, <1>6, <2>1, ShowingKeeps
  <2> QED
    BY <1>1, <1>2, <1>3, <1>6, <2>2, OthersUnmoved, StepPays
<1>7. CASE Fails(i) /\ UNCHANGED backend
  <2>1. Keeps(ui, ui') /\ i \notin Debts(ui', p)
    BY <1>1, <1>3, <1>7, FailsKeeps
  <2> QED
    BY <1>1, <1>2, <1>3, <1>7, <2>1, OthersUnmoved, StepPays
<1> QED
  BY <1>5, <1>6, <1>7 DEF Submit

\* The identity of a thread is that of watches of its project.
LEMMA ThreadMarks ==
  ASSUME IInv, NEW i \in Slots, i \in Alive(ui), Watcher(ui.threads[i])
  PROVE  \A x \in Marks(ui) : x[1] = ui.threads[i].watch => x[2] = ui.threads[i].project
<1> DEFINE y == <<ui.threads[i].watch, ui.threads[i].project>>
<1>1. y \in Marks(ui) /\ OneProject(ui)
  BY ThreadFacts DEF Marks, Coherent
<1> QED
  BY <1>1 DEF OneProject

LEMMA ShowInductive ==
  ASSUME IInv, NEW i \in Slots, Show(i)
  PROVE  IInv'
<1> DEFINE t == ui.threads[i]
           id == t.watch
           p == t.project
           obs == t.obs
<1>1. i \in Alive(ui) /\ Watcher(t) /\ t.phase = "showing" /\ Free
  BY DEF Show, Is, Watcher
<1>2. ui \in Uis /\ Coherent(ui) /\ t # None /\ t \in Threads /\ Consistent(t)
  BY <1>1, ThreadFacts
<1>3. id \in Nat /\ p \in Projects /\ obs \in Obs
  BY <1>1, <1>2 DEF Consistent, Watcher
<1>4. \A x \in Marks(ui) : x[1] = id => x[2] = p
  BY <1>1, ThreadMarks
<1>5. CASE t.does = "cancel"
  <2> DEFINE v == Ended(ui, i)
  <2>1. v \in Uis /\ Coherent(v) /\ Watched(v) /\ Marks(v) \subseteq Marks(ui)
        /\ \A q \in Projects : Debts(v, q) \subseteq Debts(ui, q)
    BY <1>1, <1>2, <1>5, EndedKeeps, ThreadFacts
  <2>2. ui' = Activated(v, id, p, obs)
    BY <1>5 DEF Show
  <2> HIDE DEF v, id, p, obs
  <2>3. Keeps(v, ui')
    BY <1>3, <1>4, <2>1, <2>2, ActivatedKeeps
  <2>4. Keeps(ui, v)
    BY <2>1 DEF Keeps
  <2> QED
    BY <1>1, <2>3, <2>4, KeepsTwice, FreeInductive
<1>6. CASE t.does = "observe"
  <2> DEFINE phase == "polling"
             nav == t.nav
             s == GoesOn(t, phase, obs, nav)
             v == [ui EXCEPT !.threads[i] = s]
  <2>1. [t EXCEPT !.phase = phase] = s /\ nav \in Navs \cup {None}
    <3> HIDE DEF t
    <3> QED
      BY <1>2 DEF Threads, GoesOn
  <2>2. ui' = Activated([ui EXCEPT !.threads[i] = [t EXCEPT !.phase = phase]], id, p, obs)
    BY <1>6 DEF Show
  <2>3. ui' = Activated(v, id, p, obs)
    BY <2>1, <2>2
  <2>4. phase \in {"showing", "failing", "polling", "ending"} /\ phase # "ending"
    OBVIOUS
  <2> HIDE DEF phase, nav, id, p, obs
  <2>5. Keeps(ui, v) /\ Marks(v) = Marks(ui)
    BY <1>1, <1>3, <1>6, <2>1, <2>4, WatcherGoesOn
  <2> HIDE DEF v
  <2>6. v \in Uis /\ Coherent(v)
    BY <2>5 DEF Keeps
  <2>7. Keeps(v, ui')
    BY <1>3, <1>4, <2>3, <2>5, <2>6, ActivatedKeeps
  <2> QED
    BY <1>1, <2>5, <2>7, KeepsTwice, FreeInductive
<1> QED
  BY <1>1, <1>5, <1>6 DEF Watcher

LEMMA PollInductive ==
  ASSUME IInv, NEW i \in Slots, Poll(i)
  PROVE  IInv'
<1> DEFINE t == ui.threads[i]
           p == t.project
<1>1. i \in Alive(ui) /\ t.does = "observe" /\ Free
  BY DEF Poll, Polling, Is
<1>2. Watcher(t) /\ p \in Projects /\ Others
  BY <1>1, ThreadFacts DEF Consistent, Watcher
<1>3. CASE Observed(p) # None /\ Continue(i, "showing", Observed(p))
  <2>1. Observed(p) \in Obs
    BY <1>2, <1>3, ObservedType
  <2> QED
    BY <1>1, <1>2, <1>3, <2>1, ShowingKeeps, FreeInductive
<1>4. CASE Fails(i)
  BY <1>1, <1>2, <1>4, FailsKeeps, FreeInductive
<1> QED
  BY <1>3, <1>4 DEF Poll

LEMMA LoadResultInductive ==
  ASSUME IInv, NEW i \in Slots, LoadResult(i)
  PROVE  IInv'
<1> DEFINE t == ui.threads[i]
           p == t.project
<1>1. i \in Alive(ui) /\ t.does = "observe" /\ Free
  BY DEF LoadResult, Polling, Is
<1>2. Watcher(t) /\ p \in Projects /\ t \in Threads
  BY <1>1, ThreadFacts DEF Consistent, Watcher
<1>3. CASE Fails(i)
  BY <1>1, <1>2, <1>3, FailsKeeps, FreeInductive
<1>4. ASSUME NEW s \in SnapshotStates(p),
             ui' = [ui EXCEPT !.threads[i] = [@ EXCEPT !.phase = "ending", !.nav = Snapshot(p, s)]]
      PROVE  IInv'
  <2> DEFINE phase == "ending"
             nav == Snapshot(p, s)
             obs == t.obs
  <2>1. nav \in Navs /\ nav.to = "snapshot"
    BY <1>2, AnswerTypes DEF SnapshotStates
  <2>2. ui' = [ui EXCEPT !.threads[i] = [t EXCEPT !.phase = phase, !.nav = nav]]
    BY <1>4
  <2>3. phase \in {"showing", "failing", "polling", "ending"} /\ phase \notin {"showing", "polling"}
    OBVIOUS
  <2> HIDE DEF phase, nav
  <2>4. [t EXCEPT !.phase = phase, !.nav = nav] = GoesOn(t, phase, obs, nav)
        /\ obs \in Obs \cup {None}
    <3> HIDE DEF t
    <3> QED
      BY <1>2 DEF Threads, GoesOn
  <2> HIDE DEF obs
  <2>5. Keeps(ui, [ui EXCEPT !.threads[i] = GoesOn(t, phase, obs, nav)])
    BY <1>1, <1>2, <2>1, <2>3, <2>4, WatcherGoesOn
  <2>6. Keeps(ui, ui')
    BY <2>2, <2>4, <2>5
  <2> QED
    BY <1>1, <2>6, FreeInductive
<1> QED
  BY <1>3, <1>4 DEF LoadResult

LEMMA FinishInductive ==
  ASSUME IInv, NEW i \in Slots, Finish(i)
  PROVE  IInv'
<1> DEFINE t == ui.threads[i]
           id == t.watch
           v == Ended(ui, i)
           w == [v EXCEPT !.watch = None, !.observed = None]
<1>1. /\ i \in Alive(ui) /\ t.does = "observe" /\ t.phase = "ending" /\ Free
      /\ ui' = FinishObserved(v, id, t.nav)
  BY DEF Finish, Is
<1>2. ui \in Uis /\ Coherent(ui) /\ Watched(ui) /\ Others /\ t # None /\ Consistent(t)
  BY <1>1, ThreadFacts
<1>3. t.nav \in Navs /\ t.nav.to # "created"
  BY <1>1, <1>2 DEF Consistent
<1>4. /\ v \in Uis /\ Coherent(v) /\ Room(v) /\ v.watch = ui.watch
      /\ id # ui.watch => Watched(v)
      /\ \A p \in Projects : Debts(v, p) \subseteq Debts(ui, p) \ {i}
  BY <1>2, EndedKeeps DEF Rest
<1>5. CASE ui.watch # id
  <2>1. ui' = v
    BY <1>1, <1>4, <1>5 DEF FinishObserved
  <2>2. Keeps(ui, v)
    BY <1>4, <1>5 DEF Keeps
  <2> QED
    BY <1>1, <2>1, <2>2, FreeInductive
<1>6. CASE ui.watch = id
  <2>1. ui' = Deliver(w, t.nav)
    BY <1>1, <1>4, <1>6 DEF FinishObserved
  <2> HIDE DEF v
  <2>2. Keeps(v, w) /\ w.watch = None /\ Room(w)
    BY <1>4, ForgottenKeeps
  <2> HIDE DEF w
  <2>3. w \in Uis /\ Coherent(w) /\ Watched(w)
    BY <2>2 DEF Keeps, Watched
  <2>4. Passes(w, ui', t.nav)
    BY <1>3, <2>1, <2>2, <2>3, DeliverPasses
  <2>5. \A p \in Projects : t.nav # Nav("created", p)
    BY <1>3, NotCreated
  <2> HIDE DEF t
  <2>6. Keeps(ui, ui')
    BY <1>4, <2>2, <2>3, <2>4, <2>5 DEF Keeps, Passes
  <2> QED
    BY <1>1, <2>6, FreeInductive
<1> QED
  BY <1>5, <1>6

LEMMA ReportErrorInductive ==
  ASSUME IInv, NEW i \in Slots, ReportError(i)
  PROVE  IInv'
<1> DEFINE t == ui.threads[i]
           id == t.watch
           v == Ended(ui, i)
<1>1. i \in Alive(ui) /\ Free /\ ui' = PollingError(v, id)
  BY DEF ReportError, Is
<1>2. ui \in Uis /\ Coherent(ui) /\ Watched(ui) /\ t # None
  BY <1>1, ThreadFacts
<1>3. /\ v \in Uis /\ Coherent(v) /\ v.watch = ui.watch
      /\ id # ui.watch => Watched(v)
      /\ \A p \in Projects : Debts(v, p) \subseteq Debts(ui, p)
  BY <1>2, EndedKeeps DEF Rest
<1>4. CASE ui.watch # id
  <2>1. ui' = v
    BY <1>1, <1>3, <1>4 DEF PollingError
  <2>2. Keeps(ui, v)
    BY <1>3, <1>4 DEF Keeps
  <2> QED
    BY <1>1, <2>1, <2>2, FreeInductive
<1>5. CASE ui.watch = id
  <2> DEFINE w == OnWatch(v, id, Reported)
  <2>1. ui' = w
    BY <1>1, <1>3, <1>5 DEF PollingError
  <2> HIDE DEF v, id
  <2>2. Keeps(v, w) /\ Rest(w) = Rest(v) /\ \A s \in Watches(w) : s.id = id => s.error
    BY <1>3, TouchedKeeps
  <2> HIDE DEF w
  <2>3. Watched(w)
    BY <1>3, <1>5, <2>2 DEF Watched, Rest
  <2>4. Keeps(ui, w)
    BY <1>3, <2>2, <2>3 DEF Keeps
  <2> QED
    BY <1>1, <2>1, <2>4, FreeInductive
<1> QED
  BY <1>4, <1>5

LEMMA StopPollingInductive ==
  ASSUME IInv, NEW i \in Slots, StopPolling(i)
  PROVE  IInv'
<1>1. i \in Alive(ui) /\ ui.threads[i].cancelled /\ Free /\ ui' = Ended(ui, i)
  BY DEF StopPolling, Is
<1>2. ui \in Uis /\ Coherent(ui) /\ Watched(ui) /\ ui.threads[i] # None
  BY <1>1, ThreadFacts
<1>3. Keeps(ui, ui')
  BY <1>1, <1>2, EndedKeeps DEF Keeps
<1> QED
  BY <1>1, <1>3, FreeInductive

LEMMA RequestCancelInductive ==
  ASSUME IInv, NEW i \in Slots, RequestCancel(i)
  PROVE  IInv'
<1> DEFINE t == ui.threads[i]
           p == t.project
           n == t.obs.job
<1>1. i \in Alive(ui) /\ t.does = "cancel" /\ UNCHANGED <<owed, asks>>
  BY DEF RequestCancel, Works
<1>2. Others /\ Watcher(t) /\ p \in Projects /\ n \in Nat
  BY <1>1, ThreadFacts DEF Consistent, Watcher, Obs
<1>3. backend' = backend \/ backend' = [backend EXCEPT ![p].state = "cancelling"]
  BY DEF RequestCancel
<1>4. Others'
  BY <1>1, <1>2, <1>3 DEF Others
<1>5. CASE Fails(i)
  BY <1>1, <1>2, <1>4, <1>5, FailsKeeps, StepKeeps
<1>6. ASSUME NEW state \in {"cancelling", "ended"},
             Continue(i, "showing", [job |-> n, state |-> state])
      PROVE  IInv'
  <2>1. [job |-> n, state |-> state] \in Obs
    BY <1>2 DEF Obs
  <2> QED
    BY <1>1, <1>2, <1>4, <1>6, <2>1, ShowingKeeps, StepKeeps
<1>7. \/ Fails(i)
      \/ \E state \in {"cancelling", "ended"} :
           Continue(i, "showing", [job |-> n, state |-> state])
  BY DEF RequestCancel
<1> QED
  BY <1>5, <1>6, <1>7

-----------------------------------------------------------------------------
(* The invariant.                                                          *)

LEMMA UserInductive ==
  ASSUME IInv, UserActs
  PROVE  IInv'
<1>1. ASSUME NEW p \in Projects, InspectSource(p) PROVE IInv'
  <2>1. ~ui.settings
    BY <1>1, UserFacts DEF InspectSource, At
  <2> QED
    BY <1>1, <2>1, RequestInductive DEF InspectSource, Inquiries
<1>2. ASSUME NEW p \in Projects, ResumeProject(p) PROVE IInv'
  <2>1. ~ui.settings
    BY <1>2, UserFacts DEF ResumeProject, At, Screen
  <2> QED
    BY <1>2, <2>1, RequestInductive DEF ResumeProject, Inquiries
<1>3. ASSUME NEW p \in Projects, SelectMainFile(p) PROVE IInv'
  <2>1. ~ui.settings
    BY <1>3, UserFacts DEF SelectMainFile, At
  <2> QED
    BY <1>3, <2>1, RequestInductive DEF SelectMainFile, Inquiries
<1>4. ASSUME NEW p \in Projects, CheckForChanges(p) PROVE IInv'
  <2>1. ~ui.settings
    BY <1>4, UserFacts DEF CheckForChanges, Screen
  <2> QED
    BY <1>4, <2>1, RequestInductive DEF CheckForChanges, Inquiries
<1>5. ASSUME NEW p \in Projects, ViewReport(p) PROVE IInv'
  <2>1. ~ui.settings
    BY <1>5, UserFacts DEF ViewReport, Screen
  <2> QED
    BY <1>5, <2>1, RequestInductive DEF ViewReport, Inquiries
<1>6. CASE NewProject
  <2>1. ui \in Uis /\ Coherent(ui) /\ ~ui.settings
    BY <1>6, UserFacts DEF NewProject, At
  <2>2. Keeps(ui, ui')
    BY <1>6, <2>1, PlainScreen, SwitchKeeps DEF NewProject
  <2> QED
    BY <1>6, <2>2, FreeInductive DEF NewProject
<1>7. CASE KeepWaiting
  <2>1. ui \in Uis /\ Coherent(ui) /\ ~ui.settings /\ Top(ui).project \in Projects
    BY <1>7, UserFacts DEF KeepWaiting, At, Screens
  <2>2. Keeps(ui, ui')
    BY <1>7, <2>1, PlainScreen, SwitchKeeps DEF KeepWaiting
  <2> QED
    BY <1>7, <2>2, FreeInductive DEF KeepWaiting
<1>8. CASE PassGate
  <2>1. ui \in Uis /\ Coherent(ui) /\ ~ui.settings
    BY <1>8, UserFacts DEF PassGate, At
  <2>2. Keeps(ui, ui')
    BY <1>8, <2>1, ShowWelcomeKeeps DEF PassGate
  <2> QED
    BY <1>8, <2>2, FreeInductive DEF PassGate
<1> QED
  BY <1>1, <1>2, <1>3, <1>4, <1>5, <1>6, <1>7, <1>8, CreateProjectInductive, VerifyInductive,
     RequestDeletionInductive, ConfirmDeletionInductive, DismissInductive, HelpInductive,
     LeaveInductive, OpenSettingsInductive, CloseSettingsInductive, CancelVerificationInductive
     DEF UserActs

LEMMA InterfaceUnmoved ==
  ASSUME IInv, UNCHANGED <<ui, owed>>, Others'
  PROVE  IInv'
<1>1. Keeps(ui, ui')
  BY UserFacts DEF Keeps
<1> QED
  BY <1>1, StepKeeps

LEMMA OthersInductive ==
  ASSUME IInv, NEW p \in Projects, OthersStart(p) \/ ActivityEnds(p)
  PROVE  IInv'
<1>1. UNCHANGED <<ui, owed>> /\ Others
  BY UserFacts DEF OthersStart, ActivityEnds
<1>2. asks' = asks \/ asks' = asks + 1
  BY DEF OthersStart, ActivityEnds, Ask
<1>3. \/ backend' = [backend EXCEPT ![p].job = @ + 1, ![p].state = "active"]
      \/ \E state \in {"session", "ended"} : backend' = [backend EXCEPT ![p].state = state]
  BY DEF OthersStart, ActivityEnds, NextJob
<1>4. Others'
  BY <1>1, <1>2, <1>3 DEF Others
<1> QED
  BY <1>1, <1>4, InterfaceUnmoved

LEMMA InitInvariant ==
  ASSUME Init
  PROVE  IInv
<1> DEFINE t == Thread("probe", None)
<1>1. /\ ui.stack = <<Welcome>> /\ ui.watch = None /\ ui.observed = None /\ ui.settings = FALSE
      /\ ui.kept = None /\ ui.questions = None
      /\ ui.threads = [i \in Slots |-> IF i = Some(Slots) THEN t ELSE None]
      /\ owed = [p \in Projects |-> 0] /\ asks = 0
  BY DEF Init
<1>2. Welcome \in Screens /\ Welcome.kind = "welcome"
  BY DEF Welcome, Screen, Screens
<1>3. t \in Threads /\ Consistent(t) /\ ~Watcher(t) /\ \A p \in Projects : ~Starts(t, p)
  BY DEF Thread, Threads, Phases, Consistent, Watcher, Starts
<1> HIDE DEF t
<1>4. \A i \in Slots : ui.threads[i] \in {t, None}
  BY <1>1
<1>5. ui.threads \in [Slots -> Threads \cup {None}] /\ ui.stack \in Seq(Screens)
  BY <1>1, <1>2, <1>3
<1>6. ui \in Uis
  BY <1>1, <1>5 DEF Init, Uis, t
<1>7. Watches(ui) = {} /\ Len(ui.stack) = 1 /\ DOMAIN ui.stack = {1} /\ ui.stack[1] = Welcome
  BY <1>1, <1>2 DEF Watches
<1>8. Marks(ui) = {}
  BY <1>3, <1>4, <1>7 DEF Marks
<1>9. Coherent(ui)
  <2>1. Rooted(ui)
    BY <1>1, <1>2, <1>7 DEF Rooted, Overlays, Modals
  <2>2. SettingsAbove(ui) /\ ShowsObserved(ui) /\ OneProject(ui)
    BY <1>1, <1>8 DEF SettingsAbove, ShowsObserved, OneProject
  <2>3. ThreadsOK(ui)
    BY <1>3, <1>4 DEF ThreadsOK
  <2> QED
    BY <2>1, <2>2, <2>3 DEF Coherent
<1>10. Watched(ui)
  BY <1>1 DEF Watched
<1>11. DebtInv
  <2> SUFFICES ASSUME NEW p \in Projects
               PROVE  Cardinality(Debts(ui, p)) <= owed[p]
    BY DEF DebtInv
  <2>1. Debts(ui, p) = {}
    BY <1>1, <1>3, <1>4, NoneIsNoRecord DEF Debts, Nav, Navs
  <2> QED
    BY <1>1, <2>1, FS_EmptySet
<1>12. TypeOK
  <2>1. backend \in [Projects -> [exists : {"no", "yes", "deleted"}, job : Nat,
                                  state : {"active", "cancelling", "ended", "session"}]]
    BY DEF Init
  <2> QED
    BY <1>1, <1>6, <2>1 DEF TypeOK
<1> QED
  BY <1>9, <1>10, <1>11, <1>12 DEF IInv

\* The interface, its threads and what is owed stay as the invariant says.
THEOREM NavigationInductive == Spec => []IInv
<1>1. Init => IInv
  BY InitInvariant
<1>2. IInv /\ [Next]_vars => IInv'
  <2> SUFFICES ASSUME IInv, [Next]_vars
               PROVE  IInv'
    OBVIOUS
  <2>1. CASE UserActs
    BY <2>1, UserInductive
  <2>2. ASSUME NEW i \in Slots, ThreadStep(i)
        PROVE  IInv'
    BY <2>2, InquireInductive, CreateInductive, DeleteInductive, ProbeInductive, AnswerInductive,
       StopPollingInductive, RequestCancelInductive DEF ThreadStep
  <2>3. ASSUME NEW i \in Slots, ObserverStep(i)
        PROVE  IInv'
    BY <2>3, SubmitInductive, ShowInductive, PollInductive, LoadResultInductive, FinishInductive,
       ReportErrorInductive DEF ObserverStep
  <2>4. ASSUME NEW p \in Projects, OthersStart(p) \/ ActivityEnds(p)
        PROVE  IInv'
    BY <2>4, OthersInductive
  <2>5. CASE UNCHANGED vars
    BY <2>5, InterfaceUnmoved, UserFacts DEF vars, Others
  <2> QED
    BY <2>1, <2>2, <2>3, <2>4, <2>5 DEF Next
<1> QED
  BY <1>1, <1>2, PTL DEF Spec

\* Screens, threads, observations and answers have the types TypeOK gives them,
\* whichever order the threads answer in and the user acts in.
THEOREM NavigationTypes == Spec => []TypeOK
<1>1. IInv => TypeOK
  BY DEF IInv
<1> QED
  BY <1>1, NavigationInductive, PTL

\* No verification is submitted that was not asked for: each that is still owed is
\* owed to one thread, or to the one answer the settings keep back.
THEOREM StartedWhenAsked == Spec => []NeverStartedUnasked
<1>1. IInv => NeverStartedUnasked
  <2> SUFFICES ASSUME IInv, NEW p \in Projects
               PROVE  owed[p] >= 0
    BY DEF NeverStartedUnasked
  <2>1. ui \in Uis /\ owed[p] \in Int /\ Cardinality(Debts(ui, p)) <= owed[p]
    BY DEF IInv, TypeOK, DebtInv
  <2>2. Cardinality(Debts(ui, p)) \in Nat
    BY <2>1, DebtsAreFinite
  <2> QED
    BY <2>1, <2>2
<1> QED
  BY <1>1, NavigationInductive, PTL

\* The current watch keeps an observer that was not superseded, until the watch is
\* forgotten or says that it is no longer observed.
THEOREM WatchIsObserved == Spec => []ObservedUntilTheEnd
<1>1. IInv => ObservedUntilTheEnd
  BY DEF IInv, Watched, ObservedUntilTheEnd, OnScreen, HasError, Observers, Alive
<1> QED
  BY <1>1, NavigationInductive, PTL

\* What is cancelled is the job on the screen when the user asked for it: identities
\* are never shared by watches of two projects, and a request names its job.
THEOREM CancelsWhatIsShown == Spec => CancelsTheShownJob
<1> DEFINE Shows == CancelVerification => /\ ui.observed.project = Top(ui).project
                                          /\ ui.observed.obs.job = Top(ui).job
           Names == \A i \in Slots : RequestCancel(i) /\ backend' # backend =>
                      backend[ui.threads[i].project].job = ui.threads[i].obs.job
<1>1. IInv => Shows
  <2> SUFFICES ASSUME IInv, CancelVerification
               PROVE  /\ ui.observed.project = Top(ui).project
                      /\ ui.observed.obs.job = Top(ui).job
    OBVIOUS
  <2>1. /\ ui \in Uis /\ Coherent(ui) /\ ui.watch # None /\ Top(ui) = ui.stack[1]
        /\ Top(ui).kind = "watch" /\ Top(ui).cancel /\ Top(ui).heeded /\ ui.stack # <<>>
    BY UserFacts, SettingsOnTop DEF CancelVerification, At, Coherent, Rooted
  <2>2. 1 \in DOMAIN ui.stack /\ Shown(ui, 1)
    BY <2>1 DEF Uis, Shown
  <2> QED
    BY <2>1, <2>2 DEF Coherent, ShowsObserved
<1>2. Names
  BY DEF RequestCancel
<1>3. IInv /\ [Next]_vars => [Shows /\ Names]_vars
  BY <1>1, <1>2
<1> QED
  BY <1>3, NavigationInductive, PTL DEF Spec, CancelsTheShownJob
=============================================================================
