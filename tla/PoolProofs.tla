----------------------------- MODULE PoolProofs -----------------------------
(***************************************************************************)
(* What the runs of WorkerPool check on two workers and two universes,     *)
(* proved for any finite number of workers and any set of slots.           *)
(***************************************************************************)
EXTENDS WorkerPool, FiniteSetTheorems, TLAPS

(* Who holds the pool's lock is who stands in a critical section of it.    *)
PoolLockInv ==
    /\ \A w \in Workers : poolLock = w <=> pc[w] \in {"loop", "leased"}
    /\ \A s \in Slots : poolLock = s <=> ctl[s] \in {"joining", "unhooking", "removed", "draining"}
    /\ poolLock = Owner <=> owner \in {"telling", "bumping"}
    /\ \A s \in telling : ctl[s] \in {"joining", "changing", "removed"}
    /\ stopping <=> owner # "up"

(* A scheduler's lock is held by a worker that collects the members' locks *)
(* or releases an ant of that scheduler, or by the slot's own controller.  *)
SchedLockInv ==
    /\ \A w \in Workers, s \in Slots : schedLock[s] = w =>
         \/ pc[w] = "loop" /\ ~stopping /\ member[s]
         \/ pc[w] \in {"notify", "bump"} /\ slot[w] = s
    /\ \A w \in Workers : pc[w] \in {"notify", "bump"} => schedLock[slot[w]] = w
    /\ \A s, r \in Slots : schedLock[s] = r => s = r
    /\ \A s \in Slots : schedLock[s] = s <=> ctl[s] = "changing"

(* A worker has a slot exactly while it has a lease of it.                 *)
SlotInv ==
    /\ \A w \in Workers : slot[w] \in Slots <=> pc[w] \in {"leased", "run", "notify", "bump", "count"}
    /\ \A w \in Workers : pc[w] = "leased" => member[slot[w]]

(* The counters count.                                                     *)
Borrowers(s) == {w \in Workers : slot[w] = s /\ pc[w] # "leased"}
Registered == {w \in Workers : registered[w]}
CountInv ==
    /\ \A s \in Slots : inflight[s] = Cardinality(Borrowers(s))
    /\ waiters = Cardinality(Registered)

(* What a controller's place says of its slot.                             *)
PhaseInv ==
    \A s \in Slots :
      /\ member[s] <=> ctl[s] \in {"joining", "on", "changing", "changed"}
      /\ hooked[s] <=> ctl[s] \in {"joining", "on", "changing", "changed", "unhooking"}
      /\ ctl[s] = "off" => inflight[s] = 0
      /\ ctl[s] = "waiting" => inflight[s] > 0

(* What a worker that looked at the current generation after registering   *)
(* may rely on when it goes to sleep, and while it sleeps.                 *)
Resting(w) == registered[w] /\ w \in seen /\ pc[w] \in {"idle", "asleep"}
Announced(s) == \/ ctl[s] \in {"joining", "changing", "changed"}
                \/ \E v \in Workers : pc[v] \in {"notify", "bump"} /\ slot[v] = s
WakeInv ==
    \A w \in Workers :
      /\ pc[w] = "asleep" => Resting(w)
      /\ Resting(w) => (stopping => owner \in {"telling", "bumping"})
      /\ Resting(w) /\ ~timed[w] =>
           \A s \in Slots : member[s] /\ (ready[s] > 0 \/ soon[s]) => Announced(s)

PoolInv == PoolTypeOK /\ PoolLockInv /\ SchedLockInv /\ SlotInv /\ CountInv /\ PhaseInv /\ WakeInv

-----------------------------------------------------------------------------
(* The counts under the counters are counts of finite sets.                *)
LEMMA Listening ==
  ASSUME PoolTypeOK, CountInv
  PROVE  /\ IsFiniteSet(Registered)
         /\ waiters > 0 <=> \E w \in Workers : registered[w]
<1>1. IsFiniteSet(Registered)
    BY PoolAssumption, FS_Subset DEF Registered
<1>2. Cardinality(Registered) = 0 <=> Registered = {}
    BY <1>1, FS_EmptySet
<1> QED
    BY <1>1, <1>2 DEF Registered, CountInv, PoolTypeOK

(* A lease is out exactly while somebody has it.                           *)
LEMMA Lent ==
  ASSUME PoolTypeOK, CountInv, NEW s \in Slots
  PROVE  /\ IsFiniteSet(Borrowers(s))
         /\ inflight[s] > 0 <=> \E w \in Workers : w \in Borrowers(s)
<1>1. IsFiniteSet(Borrowers(s))
    BY PoolAssumption, FS_Subset DEF Borrowers
<1>2. Cardinality(Borrowers(s)) = 0 <=> Borrowers(s) = {}
    BY <1>1, FS_EmptySet
<1> QED
    BY <1>1, <1>2 DEF Borrowers, CountInv, PoolTypeOK

(* Whether an ant ripens by itself is a yes or a no.                       *)
LEMMA DeadlinesBoolean == Deadlines \subseteq BOOLEAN
    BY DEF Deadlines

(* The pool starts in the invariant.                                       *)
LEMMA PoolInit == Init => PoolInv
<1> SUFFICES ASSUME Init PROVE PoolInv
    OBVIOUS
<1> USE PoolAssumption DEF Init, NoSlot
<1>1. PoolTypeOK
  <2>1. 0 \in 0..MaxReady
      OBVIOUS
  <2>2. /\ ready \in [Slots -> 0..MaxReady] /\ soon \in [Slots -> BOOLEAN]
        /\ waiters \in Nat /\ inflight \in [Slots -> Nat]
      BY <2>1
  <2> QED
      BY <2>2 DEF PoolTypeOK
<1>2. PoolLockInv
    BY DEF PoolLockInv
<1>3. SchedLockInv
    BY DEF SchedLockInv
<1>4. SlotInv
    BY DEF SlotInv
<1>5. CountInv
  <2>1. Registered = {} /\ \A s \in Slots : Borrowers(s) = {}
      BY DEF Registered, Borrowers
  <2> QED
      BY <2>1, FS_EmptySet DEF CountInv
<1>6. PhaseInv
    BY DEF PhaseInv
<1>7. WakeInv
    BY DEF WakeInv, Resting
<1> QED
    BY <1>1, <1>2, <1>3, <1>4, <1>5, <1>6, <1>7 DEF PoolInv

(* A look at the waiters either announces a new generation or ends.        *)
LEMMA TellCases ==
  ASSUME NEW s \in Slots, Tell(s)
  PROVE  \/ /\ Audible /\ telling' = telling \cup {s}
            /\ UNCHANGED <<ctl, poolLock, schedLock>>
         \/ /\ ~(Audible /\ (ctl[s] = "changing" => hooked[s]))
            /\ Told(s) /\ UNCHANGED telling
    BY Zenon DEF Tell

(* scheduler_release tells the event only if it may and is heard.          *)
LEMMA NotifyCases ==
  ASSUME NEW w \in Workers, Notify(w)
  PROVE  \/ /\ hooked[slot[w]] /\ Audible
            /\ pc' = [pc EXCEPT ![w] = "bump"] /\ UNCHANGED schedLock
         \/ /\ ~(hooked[slot[w]] /\ Audible)
            /\ pc' = [pc EXCEPT ![w] = "count"]
            /\ schedLock' = [schedLock EXCEPT ![slot[w]] = Unheld]
    BY Zenon DEF Notify, Goto
(* Where Told leaves the controller and the locks it gives up.             *)
LEMMA ToldMeans ==
  ASSUME PoolTypeOK, NEW s \in Slots, Told(s)
  PROVE  /\ \A r \in Slots :
              ctl'[r] = IF r # s THEN ctl[r] ELSE IF ctl[s] = "removed" THEN "draining" ELSE "on"
         /\ ctl[s] = "joining" => poolLock' = Unheld
         /\ ctl[s] # "joining" => poolLock' = poolLock
         /\ \A r \in Slots : schedLock'[r] = IF r = s /\ ctl[s] = "changing" THEN Unheld ELSE schedLock[r]
    BY DEF Told, Steer, PoolTypeOK
(* A controller that lets go of its scheduler's lock, if it held it.       *)
LEMMA ControllerLetsGo ==
  ASSUME SchedLockInv, SlotInv, NEW s \in Slots,
         UNCHANGED <<stopping, member, pc, slot>>,
         \A r \in Slots : schedLock'[r] = IF r = s /\ ctl[s] = "changing" THEN Unheld ELSE schedLock[r],
         \A r \in Slots : ctl'[r] = "changing" <=> ctl[r] = "changing" /\ r # s
  PROVE  SchedLockInv'
<1>1. \A v \in Workers : v \notin Slots /\ v # Unheld
    BY PoolAssumption
<1>2. Unheld \notin Slots
    BY PoolAssumption
<1>3. \A r \in Slots : schedLock'[r] = schedLock[r] \/ (schedLock'[r] = Unheld /\ schedLock[r] = r)
    BY DEF SchedLockInv
<1>4. \A w \in Workers, r \in Slots : schedLock'[r] = w <=> schedLock[r] = w
    BY <1>1, <1>3
<1>5. \A w \in Workers : pc[w] \in {"notify", "bump"} => schedLock'[slot[w]] = w
    BY <1>4 DEF SchedLockInv, SlotInv
<1>6. \A q, r \in Slots : schedLock'[q] = r => q = r
    BY <1>2, <1>3 DEF SchedLockInv
<1>7. \A r \in Slots : schedLock'[r] = r <=> ctl'[r] = "changing"
    BY <1>2 DEF SchedLockInv
<1> QED
    BY <1>4, <1>5, <1>6, <1>7 DEF SchedLockInv

(* The counters stay right while nobody borrows, returns or registers.     *)
LEMMA CountFrame ==
  ASSUME CountInv, UNCHANGED <<inflight, waiters, registered>>,
         \A w \in Workers, s \in Slots :
            slot'[w] = s /\ pc'[w] # "leased" <=> slot[w] = s /\ pc[w] # "leased"
  PROVE  CountInv'
<1>1. \A s \in Slots : Borrowers(s)' = Borrowers(s)
    BY DEF Borrowers
<1>2. Registered' = Registered
    BY DEF Registered
<1> QED
    BY <1>1, <1>2 DEF CountInv

(* One worker more, or one less, among the finitely many.                  *)
LEMMA OneMore ==
  ASSUME NEW A \in SUBSET Workers, NEW w \in Workers \ A
  PROVE  Cardinality(A \cup {w}) = Cardinality(A) + 1
<1>1. IsFiniteSet(A)
    BY PoolAssumption, FS_Subset
<1> QED
    BY <1>1, FS_AddElement

(* The same for one worker less.                                           *)
LEMMA OneLess ==
  ASSUME NEW A \in SUBSET Workers, NEW w \in A
  PROVE  Cardinality(A \ {w}) = Cardinality(A) - 1
<1>1. IsFiniteSet(A)
    BY PoolAssumption, FS_Subset
<1> QED
    BY <1>1, FS_RemoveElement

(* unregister_waiter takes one waiter off the count, or none.              *)
LEMMA WaiterLeaves ==
  ASSUME PoolTypeOK, CountInv, NEW w \in Workers,
         waiters' = Deregistered(w), registered' = [registered EXCEPT ![w] = FALSE]
  PROVE  waiters' = Cardinality(Registered')
<1>1. Registered' = Registered \ {w}
    BY DEF Registered, PoolTypeOK
<1>2. CASE registered[w]
  <2>1. Cardinality(Registered \ {w}) = Cardinality(Registered) - 1
      BY <1>2, OneLess DEF Registered
  <2> QED
      BY <1>1, <1>2, <2>1 DEF CountInv, Deregistered
<1>3. CASE ~registered[w]
  <2>1. Registered \ {w} = Registered
      BY <1>3 DEF Registered
  <2> QED
      BY <1>1, <1>3, <2>1 DEF CountInv, Deregistered
<1> QED
    BY <1>2, <1>3

(* Every step keeps the types: the counters never go below zero.           *)
LEMMA TypeStep == PoolInv /\ [Next]_vars => PoolTypeOK'
<1> SUFFICES ASSUME PoolInv, [Next]_vars PROVE PoolTypeOK'
    OBVIOUS
<1> USE PoolAssumption DEF PoolInv, PoolTypeOK, pool, event, scheds, worker,
        Goto, Steer, NoSlot
<1>1. ASSUME NEW w \in Workers, Enter(w) PROVE PoolTypeOK'
    BY <1>1 DEF Enter
<1>2. ASSUME NEW w \in Workers, Exit(w) PROVE PoolTypeOK'
  <2>1. waiters' \in Nat
      BY <1>2, Listening DEF Exit, Deregistered
  <2> QED
      BY <1>2, <2>1 DEF Exit
<1>3. ASSUME NEW w \in Workers, Depart(w) PROVE PoolTypeOK'
  <2>1. waiters' \in Nat
      BY <1>3, Listening DEF Depart, Deregistered
  <2>2. inflight' \in [Slots -> Nat]
    <3>1. slot[w] \in Slots
        BY <1>3 DEF Depart, SlotInv
    <3>2. inflight[slot[w]] \in Nat
        BY <3>1
    <3>3. inflight[slot[w]] + 1 \in Nat
        BY <3>2
    <3> QED
        BY <1>3, <3>1, <3>3 DEF Depart
  <2> QED
      BY <1>3, <2>1, <2>2 DEF Depart
<1>4. ASSUME NEW w \in Workers, NEW s \in Slots, LockMember(w, s) PROVE PoolTypeOK'
    BY <1>4 DEF LockMember, Unlocked
<1>5. ASSUME NEW w \in Workers, NEW s \in Slots, Lease(w, s) PROVE PoolTypeOK'
    BY <1>5 DEF Lease, Scanning, Unlocked, Released
<1>6. ASSUME NEW w \in Workers, FindNone(w) PROVE PoolTypeOK'
    BY <1>6 DEF FindNone, Scanning, Unlocked, Released, Deadline
<1>7. ASSUME NEW w \in Workers, Doze(w) PROVE PoolTypeOK'
    BY <1>7 DEF Doze, Settles
<1>8. ASSUME NEW w \in Workers, TimeOut(w) PROVE PoolTypeOK'
    BY <1>8 DEF TimeOut
<1>9. ASSUME NEW w \in Workers, Spurious(w) PROVE PoolTypeOK'
    BY <1>9 DEF Spurious
<1>10. ASSUME NEW w \in Workers, Reread(w) PROVE PoolTypeOK'
    BY <1>10 DEF Reread
<1>11. ASSUME NEW w \in Workers, Release(w) PROVE PoolTypeOK'
  <2>1. slot[w] \in Slots
      BY <1>11 DEF Release, SlotInv
  <2>2. ready' \in [Slots -> 0..MaxReady]
    <3>1. PICK n \in {0, 1} : /\ ready[slot[w]] + n <= MaxReady
                              /\ ready' = [ready EXCEPT ![slot[w]] = @ + n]
        BY <1>11 DEF Release
    <3>2. ready[slot[w]] \in 0..MaxReady
        BY <2>1
    <3>3. ready[slot[w]] + n \in 0..MaxReady
        BY <3>1, <3>2
    <3> QED
        BY <2>1, <3>1, <3>3
  <2>3. soon' \in [Slots -> BOOLEAN]
      BY <1>11, <2>1, DeadlinesBoolean DEF Release
  <2> QED
      BY <1>11, <2>1, <2>2, <2>3 DEF Release
<1>12. ASSUME NEW w \in Workers, Notify(w) PROVE PoolTypeOK'
    BY <1>12 DEF Notify, Audible
<1>13. ASSUME NEW w \in Workers, Bump(w) PROVE PoolTypeOK'
    BY <1>13 DEF Bump, SeenAfterBump, Roused
<1>14. ASSUME NEW w \in Workers, Count(w) PROVE PoolTypeOK'
  <2>1. slot[w] \in Slots /\ w \in Borrowers(slot[w])
      BY <1>14 DEF Count, SlotInv, Borrowers
  <2>3. inflight[slot[w]] > 0 /\ inflight[slot[w]] \in Nat
      BY <2>1, Lent
  <2>4. inflight[slot[w]] - 1 \in Nat
      BY <2>3
  <2>2. inflight' \in [Slots -> Nat]
      BY <1>14, <2>1, <2>4 DEF Count
  <2> QED
      BY <1>14, <2>2 DEF Count, Awakened, NoSlot
<1>15. ASSUME NEW s \in Slots, Enable(s) PROVE PoolTypeOK'
  <2>1. soon' \in [Slots -> BOOLEAN] /\ ready' \in [Slots -> 0..MaxReady]
      BY <1>15, DeadlinesBoolean DEF Enable
  <2> QED
      BY <1>15, <2>1 DEF Enable
<1>16. ASSUME NEW s \in Slots, ChangeLocked(s) PROVE PoolTypeOK'
  <2>1. soon' \in [Slots -> BOOLEAN] /\ ready' \in [Slots -> 0..MaxReady]
      BY <1>16, DeadlinesBoolean DEF ChangeLocked, Changed
  <2> QED
      BY <1>16, <2>1 DEF ChangeLocked
<1>17. ASSUME NEW s \in Slots, ChangeSetting(s) PROVE PoolTypeOK'
  <2>1. soon' \in [Slots -> BOOLEAN] /\ ready' \in [Slots -> 0..MaxReady]
      BY <1>17, DeadlinesBoolean DEF ChangeSetting, Changed
  <2> QED
      BY <1>17, <2>1 DEF ChangeSetting
<1>18. ASSUME NEW s \in Slots, WakeAll(s) PROVE PoolTypeOK'
    BY <1>18 DEF WakeAll
<1>19. ASSUME NEW s \in Slots, Tell(s) PROVE PoolTypeOK'
  <2>1. CASE Audible /\ (ctl[s] = "changing" => hooked[s])
    <3>1. telling' = telling \cup {s} /\ UNCHANGED <<ctl, poolLock, schedLock>>
        BY <1>19, <2>1, Zenon DEF Tell
    <3> QED
        BY <1>19, <3>1 DEF Tell
  <2>2. CASE ~(Audible /\ (ctl[s] = "changing" => hooked[s]))
    <3>1. Told(s) /\ UNCHANGED telling
        BY <1>19, <2>2, Zenon DEF Tell
    <3> QED
        BY <1>19, <3>1 DEF Tell, Told
  <2> QED
      BY <2>1, <2>2
<1>20. ASSUME NEW s \in Slots, TellBump(s) PROVE PoolTypeOK'
    BY <1>20 DEF TellBump, SeenAfterBump, Roused, Told
<1>21. ASSUME NEW s \in Slots, SuspendRemove(s) PROVE PoolTypeOK'
    BY <1>21 DEF SuspendRemove
<1>22. ASSUME NEW s \in Slots, SuspendUnhook(s) PROVE PoolTypeOK'
    BY <1>22 DEF SuspendUnhook
<1>23. ASSUME NEW s \in Slots, SuspendWait(s) PROVE PoolTypeOK'
    BY <1>23 DEF SuspendWait, Quiescent
<1>24. ASSUME NEW s \in Slots, StirSuspended(s) PROVE PoolTypeOK'
    BY <1>24 DEF StirSuspended
<1>25. ASSUME NEW s \in Slots, Ripen(s) PROVE PoolTypeOK'
  <2>1. soon' \in [Slots -> BOOLEAN]
      BY <1>25, DeadlinesBoolean DEF Ripen
  <2>2. ready' \in [Slots -> 0..MaxReady]
      BY <1>25 DEF Ripen
  <2> QED
      BY <1>25, <2>1, <2>2 DEF Ripen
<1>26. CASE Destroy
    BY <1>26 DEF Destroy
<1>27. CASE DestroyTell
    BY <1>27 DEF DestroyTell, StopHeard, Audible
<1>28. CASE DestroyBump
    BY <1>28 DEF DestroyBump, SeenAfterBump, Roused
<1>29. CASE Join
    BY <1>29 DEF Join
<1>30. CASE UNCHANGED vars
    BY <1>30 DEF vars
<1> QED
    BY <1>1, <1>2, <1>3, <1>4, <1>5, <1>6, <1>7, <1>8, <1>9, <1>10, <1>11,
       <1>12, <1>13, <1>14, <1>15, <1>16, <1>17, <1>18, <1>19, <1>20, <1>21,
       <1>22, <1>23, <1>24, <1>25, <1>26, <1>27, <1>28, <1>29, <1>30
       DEF Next, Work, Controller, OwnerStep, Destroyed

(* Every step hands the pool's lock over as the code does.                 *)
LEMMA PoolLockStep == PoolInv /\ [Next]_vars => PoolLockInv'
<1> SUFFICES ASSUME PoolInv, [Next]_vars PROVE PoolLockInv'
    OBVIOUS
<1> USE PoolAssumption DEF PoolInv, PoolTypeOK, PoolLockInv, pool, event,
        scheds, worker, Goto, Steer, NoSlot
<1>1. ASSUME NEW w \in Workers, Enter(w) PROVE PoolLockInv'
    BY <1>1 DEF Enter
<1>2. ASSUME NEW w \in Workers, Exit(w) PROVE PoolLockInv'
    BY <1>2 DEF Exit, Deregistered
<1>3. ASSUME NEW w \in Workers, Depart(w) PROVE PoolLockInv'
    BY <1>3 DEF Depart, Deregistered
<1>4. ASSUME NEW w \in Workers, NEW s \in Slots, LockMember(w, s) PROVE PoolLockInv'
    BY <1>4 DEF LockMember, Unlocked
<1>5. ASSUME NEW w \in Workers, NEW s \in Slots, Lease(w, s) PROVE PoolLockInv'
    BY <1>5 DEF Lease, Scanning, Unlocked, Released
<1>6. ASSUME NEW w \in Workers, FindNone(w) PROVE PoolLockInv'
    BY <1>6 DEF FindNone, Scanning, Unlocked, Released, Deadline
<1>7. ASSUME NEW w \in Workers, Doze(w) PROVE PoolLockInv'
    BY <1>7 DEF Doze, Settles
<1>8. ASSUME NEW w \in Workers, TimeOut(w) PROVE PoolLockInv'
    BY <1>8 DEF TimeOut
<1>9. ASSUME NEW w \in Workers, Spurious(w) PROVE PoolLockInv'
    BY <1>9 DEF Spurious
<1>10. ASSUME NEW w \in Workers, Reread(w) PROVE PoolLockInv'
    BY <1>10 DEF Reread
<1>11. ASSUME NEW w \in Workers, Release(w) PROVE PoolLockInv'
    BY <1>11 DEF Release
<1>12. ASSUME NEW w \in Workers, Notify(w) PROVE PoolLockInv'
    BY <1>12 DEF Notify, Audible
<1>13. ASSUME NEW w \in Workers, Bump(w) PROVE PoolLockInv'
    BY <1>13 DEF Bump, SeenAfterBump, Roused
<1>14. ASSUME NEW w \in Workers, Count(w) PROVE PoolLockInv'
    BY <1>14 DEF Count, Awakened
<1>15. ASSUME NEW s \in Slots, Enable(s) PROVE PoolLockInv'
    BY <1>15 DEF Enable
<1>16. ASSUME NEW s \in Slots, ChangeLocked(s) PROVE PoolLockInv'
    BY <1>16 DEF ChangeLocked, Changed
<1>17. ASSUME NEW s \in Slots, ChangeSetting(s) PROVE PoolLockInv'
    BY <1>17 DEF ChangeSetting, Changed
<1>18. ASSUME NEW s \in Slots, WakeAll(s) PROVE PoolLockInv'
    BY <1>18 DEF WakeAll
<1>19. ASSUME NEW s \in Slots, Tell(s) PROVE PoolLockInv'
  <2>1. CASE telling' = telling \cup {s} /\ UNCHANGED <<ctl, poolLock, schedLock>>
      BY <1>19, <2>1 DEF Tell
  <2>2. CASE Told(s) /\ UNCHANGED telling
      BY <1>19, <2>2, ToldMeans DEF Tell
  <2> QED
      BY <1>19, <2>1, <2>2, TellCases
<1>20. ASSUME NEW s \in Slots, TellBump(s) PROVE PoolLockInv'
    BY <1>20 DEF TellBump, SeenAfterBump, Roused, Told
<1>21. ASSUME NEW s \in Slots, SuspendRemove(s) PROVE PoolLockInv'
    BY <1>21 DEF SuspendRemove
<1>22. ASSUME NEW s \in Slots, SuspendUnhook(s) PROVE PoolLockInv'
    BY <1>22 DEF SuspendUnhook
<1>23. ASSUME NEW s \in Slots, SuspendWait(s) PROVE PoolLockInv'
    BY <1>23 DEF SuspendWait, Quiescent
<1>24. ASSUME NEW s \in Slots, StirSuspended(s) PROVE PoolLockInv'
    BY <1>24 DEF StirSuspended
<1>25. ASSUME NEW s \in Slots, Ripen(s) PROVE PoolLockInv'
    BY <1>25 DEF Ripen
<1>26. CASE Destroy
    BY <1>26 DEF Destroy
<1>27. CASE DestroyTell
    BY <1>27 DEF DestroyTell, StopHeard, Audible
<1>28. CASE DestroyBump
    BY <1>28 DEF DestroyBump, SeenAfterBump, Roused
<1>29. CASE Join
    BY <1>29 DEF Join
<1>30. CASE UNCHANGED vars
    BY <1>30 DEF vars
<1> QED
    BY <1>1, <1>2, <1>3, <1>4, <1>5, <1>6, <1>7, <1>8, <1>9, <1>10, <1>11,
       <1>12, <1>13, <1>14, <1>15, <1>16, <1>17, <1>18, <1>19, <1>20, <1>21,
       <1>22, <1>23, <1>24, <1>25, <1>26, <1>27, <1>28, <1>29, <1>30
       DEF Next, Work, Controller, OwnerStep, Destroyed

(* No step leaves a scheduler's lock with somebody who left its section.   *)
LEMMA SchedLockStep == PoolInv /\ [Next]_vars => SchedLockInv'
<1> SUFFICES ASSUME PoolInv, [Next]_vars PROVE SchedLockInv'
    OBVIOUS
<1> USE PoolAssumption DEF PoolInv, PoolTypeOK, SchedLockInv, PoolLockInv,
        SlotInv, pool, event, scheds, worker, Goto, Steer, NoSlot
<1>1. ASSUME NEW w \in Workers, Enter(w) PROVE SchedLockInv'
    BY <1>1 DEF Enter
<1>2. ASSUME NEW w \in Workers, Exit(w) PROVE SchedLockInv'
    BY <1>2 DEF Exit, Deregistered
<1>3. ASSUME NEW w \in Workers, Depart(w) PROVE SchedLockInv'
    BY <1>3 DEF Depart, Deregistered
<1>4. ASSUME NEW w \in Workers, NEW s \in Slots, LockMember(w, s) PROVE SchedLockInv'
    BY <1>4 DEF LockMember, Unlocked
<1>5. ASSUME NEW w \in Workers, NEW s \in Slots, Lease(w, s) PROVE SchedLockInv'
    BY <1>5 DEF Lease, Scanning, Unlocked, Released
<1>6. ASSUME NEW w \in Workers, FindNone(w) PROVE SchedLockInv'
    BY <1>6 DEF FindNone, Scanning, Unlocked, Released, Deadline
<1>7. ASSUME NEW w \in Workers, Doze(w) PROVE SchedLockInv'
    BY <1>7 DEF Doze, Settles
<1>8. ASSUME NEW w \in Workers, TimeOut(w) PROVE SchedLockInv'
    BY <1>8 DEF TimeOut
<1>9. ASSUME NEW w \in Workers, Spurious(w) PROVE SchedLockInv'
    BY <1>9 DEF Spurious
<1>10. ASSUME NEW w \in Workers, Reread(w) PROVE SchedLockInv'
    BY <1>10 DEF Reread
<1>11. ASSUME NEW w \in Workers, Release(w) PROVE SchedLockInv'
    BY <1>11 DEF Release
<1>12. ASSUME NEW w \in Workers, Notify(w) PROVE SchedLockInv'
  <2>1. CASE pc' = [pc EXCEPT ![w] = "bump"] /\ UNCHANGED schedLock
      BY <1>12, <2>1 DEF Notify
  <2>2. CASE /\ pc' = [pc EXCEPT ![w] = "count"]
             /\ schedLock' = [schedLock EXCEPT ![slot[w]] = Unheld]
      BY <1>12, <2>2 DEF Notify
  <2> QED
      BY <1>12, <2>1, <2>2, NotifyCases
<1>13. ASSUME NEW w \in Workers, Bump(w) PROVE SchedLockInv'
    BY <1>13 DEF Bump, SeenAfterBump, Roused
<1>14. ASSUME NEW w \in Workers, Count(w) PROVE SchedLockInv'
    BY <1>14 DEF Count, Awakened
<1>15. ASSUME NEW s \in Slots, Enable(s) PROVE SchedLockInv'
    BY <1>15 DEF Enable
<1>16. ASSUME NEW s \in Slots, ChangeLocked(s) PROVE SchedLockInv'
    BY <1>16 DEF ChangeLocked, Changed
<1>17. ASSUME NEW s \in Slots, ChangeSetting(s) PROVE SchedLockInv'
    BY <1>17 DEF ChangeSetting, Changed
<1>18. ASSUME NEW s \in Slots, WakeAll(s) PROVE SchedLockInv'
    BY <1>18 DEF WakeAll
<1>19. ASSUME NEW s \in Slots, Tell(s) PROVE SchedLockInv'
  <2>1. CASE telling' = telling \cup {s} /\ UNCHANGED <<ctl, poolLock, schedLock>>
      BY <1>19, <2>1 DEF Tell
  <2>2. CASE Told(s) /\ UNCHANGED telling
    <3>1. ctl[s] \in {"joining", "changing", "removed"} /\ UNCHANGED <<stopping, member, pc, slot>>
        BY <1>19 DEF Tell
    <3>2. \A r \in Slots : ctl'[r] = "changing" <=> ctl[r] = "changing" /\ r # s
        BY <2>2, <3>1, ToldMeans
    <3>3. \A r \in Slots : schedLock'[r] = IF r = s /\ ctl[s] = "changing" THEN Unheld ELSE schedLock[r]
        BY <2>2, ToldMeans
    <3> HIDE DEF PoolTypeOK, SchedLockInv, SlotInv
    <3> QED
        BY <3>1, <3>2, <3>3, ControllerLetsGo
  <2> QED
      BY <1>19, <2>1, <2>2, TellCases
<1>20. ASSUME NEW s \in Slots, TellBump(s) PROVE SchedLockInv'
    BY <1>20 DEF TellBump, SeenAfterBump, Roused, Told
<1>21. ASSUME NEW s \in Slots, SuspendRemove(s) PROVE SchedLockInv'
    BY <1>21 DEF SuspendRemove
<1>22. ASSUME NEW s \in Slots, SuspendUnhook(s) PROVE SchedLockInv'
    BY <1>22 DEF SuspendUnhook
<1>23. ASSUME NEW s \in Slots, SuspendWait(s) PROVE SchedLockInv'
    BY <1>23 DEF SuspendWait, Quiescent
<1>24. ASSUME NEW s \in Slots, StirSuspended(s) PROVE SchedLockInv'
    BY <1>24 DEF StirSuspended
<1>25. ASSUME NEW s \in Slots, Ripen(s) PROVE SchedLockInv'
    BY <1>25 DEF Ripen
<1>26. CASE Destroy
    BY <1>26 DEF Destroy
<1>27. CASE DestroyTell
    BY <1>27 DEF DestroyTell, StopHeard, Audible
<1>28. CASE DestroyBump
    BY <1>28 DEF DestroyBump, SeenAfterBump, Roused
<1>29. CASE Join
    BY <1>29 DEF Join
<1>30. CASE UNCHANGED vars
    BY <1>30 DEF vars
<1> QED
    BY <1>1, <1>2, <1>3, <1>4, <1>5, <1>6, <1>7, <1>8, <1>9, <1>10, <1>11,
       <1>12, <1>13, <1>14, <1>15, <1>16, <1>17, <1>18, <1>19, <1>20, <1>21,
       <1>22, <1>23, <1>24, <1>25, <1>26, <1>27, <1>28, <1>29, <1>30
       DEF Next, Work, Controller, OwnerStep, Destroyed

(* A worker's slot comes with its lease and goes with it.                  *)
LEMMA SlotStep == PoolInv /\ [Next]_vars => SlotInv'
<1> SUFFICES ASSUME PoolInv, [Next]_vars PROVE SlotInv'
    OBVIOUS
<1> USE PoolAssumption DEF PoolInv, PoolTypeOK, SlotInv, PoolLockInv, pool,
        event, scheds, worker, Goto, Steer, NoSlot
<1>1. ASSUME NEW w \in Workers, Enter(w) PROVE SlotInv'
    BY <1>1 DEF Enter
<1>2. ASSUME NEW w \in Workers, Exit(w) PROVE SlotInv'
    BY <1>2 DEF Exit, Deregistered
<1>3. ASSUME NEW w \in Workers, Depart(w) PROVE SlotInv'
    BY <1>3 DEF Depart, Deregistered
<1>4. ASSUME NEW w \in Workers, NEW s \in Slots, LockMember(w, s) PROVE SlotInv'
    BY <1>4 DEF LockMember, Unlocked
<1>5. ASSUME NEW w \in Workers, NEW s \in Slots, Lease(w, s) PROVE SlotInv'
    BY <1>5 DEF Lease, Scanning, Unlocked, Released
<1>6. ASSUME NEW w \in Workers, FindNone(w) PROVE SlotInv'
    BY <1>6 DEF FindNone, Scanning, Unlocked, Released, Deadline
<1>7. ASSUME NEW w \in Workers, Doze(w) PROVE SlotInv'
    BY <1>7 DEF Doze, Settles
<1>8. ASSUME NEW w \in Workers, TimeOut(w) PROVE SlotInv'
    BY <1>8 DEF TimeOut
<1>9. ASSUME NEW w \in Workers, Spurious(w) PROVE SlotInv'
    BY <1>9 DEF Spurious
<1>10. ASSUME NEW w \in Workers, Reread(w) PROVE SlotInv'
    BY <1>10 DEF Reread
<1>11. ASSUME NEW w \in Workers, Release(w) PROVE SlotInv'
    BY <1>11 DEF Release
<1>12. ASSUME NEW w \in Workers, Notify(w) PROVE SlotInv'
    BY <1>12 DEF Notify, Audible
<1>13. ASSUME NEW w \in Workers, Bump(w) PROVE SlotInv'
    BY <1>13 DEF Bump, SeenAfterBump, Roused
<1>14. ASSUME NEW w \in Workers, Count(w) PROVE SlotInv'
    BY <1>14 DEF Count, Awakened
<1>15. ASSUME NEW s \in Slots, Enable(s) PROVE SlotInv'
    BY <1>15 DEF Enable
<1>16. ASSUME NEW s \in Slots, ChangeLocked(s) PROVE SlotInv'
    BY <1>16 DEF ChangeLocked, Changed
<1>17. ASSUME NEW s \in Slots, ChangeSetting(s) PROVE SlotInv'
    BY <1>17 DEF ChangeSetting, Changed
<1>18. ASSUME NEW s \in Slots, WakeAll(s) PROVE SlotInv'
    BY <1>18 DEF WakeAll
<1>19. ASSUME NEW s \in Slots, Tell(s) PROVE SlotInv'
    BY <1>19 DEF Tell, Told
<1>20. ASSUME NEW s \in Slots, TellBump(s) PROVE SlotInv'
    BY <1>20 DEF TellBump, SeenAfterBump, Roused, Told
<1>21. ASSUME NEW s \in Slots, SuspendRemove(s) PROVE SlotInv'
    BY <1>21 DEF SuspendRemove
<1>22. ASSUME NEW s \in Slots, SuspendUnhook(s) PROVE SlotInv'
    BY <1>22 DEF SuspendUnhook
<1>23. ASSUME NEW s \in Slots, SuspendWait(s) PROVE SlotInv'
    BY <1>23 DEF SuspendWait, Quiescent
<1>24. ASSUME NEW s \in Slots, StirSuspended(s) PROVE SlotInv'
    BY <1>24 DEF StirSuspended
<1>25. ASSUME NEW s \in Slots, Ripen(s) PROVE SlotInv'
    BY <1>25 DEF Ripen
<1>26. CASE Destroy
    BY <1>26 DEF Destroy
<1>27. CASE DestroyTell
    BY <1>27 DEF DestroyTell, StopHeard, Audible
<1>28. CASE DestroyBump
    BY <1>28 DEF DestroyBump, SeenAfterBump, Roused
<1>29. CASE Join
    BY <1>29 DEF Join
<1>30. CASE UNCHANGED vars
    BY <1>30 DEF vars
<1> QED
    BY <1>1, <1>2, <1>3, <1>4, <1>5, <1>6, <1>7, <1>8, <1>9, <1>10, <1>11,
       <1>12, <1>13, <1>14, <1>15, <1>16, <1>17, <1>18, <1>19, <1>20, <1>21,
       <1>22, <1>23, <1>24, <1>25, <1>26, <1>27, <1>28, <1>29, <1>30
       DEF Next, Work, Controller, OwnerStep, Destroyed

(* The two counters keep counting.                                         *)
LEMMA CountStep == PoolInv /\ [Next]_vars => CountInv'
<1> SUFFICES ASSUME PoolInv, [Next]_vars PROVE CountInv'
    OBVIOUS
<1> USE PoolAssumption DEF PoolInv, PoolTypeOK, SlotInv, pool, event, scheds,
        worker, Goto, Steer, NoSlot
<1>1. ASSUME NEW w \in Workers, Enter(w) PROVE CountInv'
    BY <1>1, CountFrame DEF Enter
<1>2. ASSUME NEW w \in Workers, Exit(w) PROVE CountInv'
  <2>1. \A s \in Slots : Borrowers(s)' = Borrowers(s)
      BY <1>2 DEF Exit, Borrowers
  <2>2. waiters' = Cardinality(Registered')
      BY <1>2, WaiterLeaves DEF Exit
  <2> QED
      BY <1>2, <2>1, <2>2 DEF Exit, CountInv
<1>3. ASSUME NEW w \in Workers, Depart(w) PROVE CountInv'
  <2>1. slot[w] \in Slots /\ w \notin Borrowers(slot[w])
      BY <1>3 DEF Depart, Borrowers
  <2>2. \A s \in Slots : Borrowers(s)' = IF s = slot[w] THEN Borrowers(s) \cup {w} ELSE Borrowers(s)
      BY <1>3, <2>1 DEF Depart, Borrowers
  <2>3. Cardinality(Borrowers(slot[w]) \cup {w}) = Cardinality(Borrowers(slot[w])) + 1
      BY <2>1, OneMore DEF Borrowers
  <2>4. \A s \in Slots : inflight'[s] = IF s = slot[w] THEN inflight[s] + 1 ELSE inflight[s]
      BY <1>3, <2>1 DEF Depart
  <2>5. \A s \in Slots : inflight'[s] = Cardinality(Borrowers(s)')
    <3> SUFFICES ASSUME NEW s \in Slots PROVE inflight'[s] = Cardinality(Borrowers(s)')
        OBVIOUS
    <3>1. inflight[s] = Cardinality(Borrowers(s))
        BY DEF CountInv
    <3>2. CASE s = slot[w]
        BY <2>2, <2>3, <2>4, <3>1, <3>2
    <3>3. CASE s # slot[w]
        BY <2>2, <2>4, <3>1, <3>3
    <3> QED
        BY <3>2, <3>3
  <2>6. waiters' = Cardinality(Registered')
      BY <1>3, WaiterLeaves DEF Depart
  <2> QED
      BY <2>5, <2>6 DEF CountInv
<1>4. ASSUME NEW w \in Workers, NEW s \in Slots, LockMember(w, s) PROVE CountInv'
    BY <1>4, CountFrame DEF LockMember, Unlocked
<1>5. ASSUME NEW w \in Workers, NEW s \in Slots, Lease(w, s) PROVE CountInv'
    BY <1>5, CountFrame DEF Lease, Scanning, Unlocked, Released
<1>6. ASSUME NEW w \in Workers, FindNone(w) PROVE CountInv'
    BY <1>6, CountFrame DEF FindNone, Scanning, Unlocked, Released, Deadline
<1>7. ASSUME NEW w \in Workers, Doze(w) PROVE CountInv'
  <2>1. \A s \in Slots : Borrowers(s)' = Borrowers(s)
      BY <1>7 DEF Doze, Borrowers
  <2>2. CASE registered[w]
    <3>1. Registered' = Registered
        BY <1>7, <2>2 DEF Doze, Registered
    <3> QED
        BY <1>7, <2>1, <2>2, <3>1 DEF Doze, CountInv
  <2>3. CASE ~registered[w]
    <3>1. Registered' = Registered \cup {w}
        BY <1>7, <2>3 DEF Doze, Registered
    <3>2. Cardinality(Registered \cup {w}) = Cardinality(Registered) + 1
        BY <2>3, OneMore DEF Registered
    <3> QED
        BY <1>7, <2>1, <2>3, <3>1, <3>2 DEF Doze, CountInv
  <2> QED
      BY <2>2, <2>3
<1>8. ASSUME NEW w \in Workers, TimeOut(w) PROVE CountInv'
    BY <1>8, CountFrame DEF TimeOut
<1>9. ASSUME NEW w \in Workers, Spurious(w) PROVE CountInv'
    BY <1>9, CountFrame DEF Spurious
<1>10. ASSUME NEW w \in Workers, Reread(w) PROVE CountInv'
    BY <1>10, CountFrame DEF Reread
<1>11. ASSUME NEW w \in Workers, Release(w) PROVE CountInv'
    BY <1>11, CountFrame DEF Release
<1>12. ASSUME NEW w \in Workers, Notify(w) PROVE CountInv'
    BY <1>12, CountFrame DEF Notify, Audible
<1>13. ASSUME NEW w \in Workers, Bump(w) PROVE CountInv'
    BY <1>13, CountFrame DEF Bump, SeenAfterBump, Roused
<1>14. ASSUME NEW w \in Workers, Count(w) PROVE CountInv'
  <2>1. slot[w] \in Slots /\ w \in Borrowers(slot[w])
      BY <1>14 DEF Count, Borrowers
  <2>2. \A s \in Slots : Borrowers(s)' = IF s = slot[w] THEN Borrowers(s) \ {w} ELSE Borrowers(s)
      BY <1>14, <2>1 DEF Count, Borrowers
  <2>3. Cardinality(Borrowers(slot[w]) \ {w}) = Cardinality(Borrowers(slot[w])) - 1
      BY <2>1, OneLess DEF Borrowers
  <2>4. \A s \in Slots : inflight'[s] = IF s = slot[w] THEN inflight[s] - 1 ELSE inflight[s]
      BY <1>14, <2>1 DEF Count
  <2>5. \A s \in Slots : inflight'[s] = Cardinality(Borrowers(s)')
    <3> SUFFICES ASSUME NEW s \in Slots PROVE inflight'[s] = Cardinality(Borrowers(s)')
        OBVIOUS
    <3>1. inflight[s] = Cardinality(Borrowers(s))
        BY DEF CountInv
    <3>2. CASE s = slot[w]
        BY <2>2, <2>3, <2>4, <3>1, <3>2
    <3>3. CASE s # slot[w]
        BY <2>2, <2>4, <3>1, <3>3
    <3> QED
        BY <3>2, <3>3
  <2>6. Registered' = Registered /\ waiters' = waiters
      BY <1>14 DEF Count, Registered
  <2> QED
      BY <2>5, <2>6 DEF CountInv
<1>15. ASSUME NEW s \in Slots, Enable(s) PROVE CountInv'
    BY <1>15, CountFrame DEF Enable
<1>16. ASSUME NEW s \in Slots, ChangeLocked(s) PROVE CountInv'
    BY <1>16, CountFrame DEF ChangeLocked, Changed
<1>17. ASSUME NEW s \in Slots, ChangeSetting(s) PROVE CountInv'
    BY <1>17, CountFrame DEF ChangeSetting, Changed
<1>18. ASSUME NEW s \in Slots, WakeAll(s) PROVE CountInv'
    BY <1>18, CountFrame DEF WakeAll
<1>19. ASSUME NEW s \in Slots, Tell(s) PROVE CountInv'
    BY <1>19, CountFrame DEF Tell, Told
<1>20. ASSUME NEW s \in Slots, TellBump(s) PROVE CountInv'
    BY <1>20, CountFrame DEF TellBump, SeenAfterBump, Roused, Told
<1>21. ASSUME NEW s \in Slots, SuspendRemove(s) PROVE CountInv'
    BY <1>21, CountFrame DEF SuspendRemove
<1>22. ASSUME NEW s \in Slots, SuspendUnhook(s) PROVE CountInv'
    BY <1>22, CountFrame DEF SuspendUnhook
<1>23. ASSUME NEW s \in Slots, SuspendWait(s) PROVE CountInv'
    BY <1>23, CountFrame DEF SuspendWait, Quiescent
<1>24. ASSUME NEW s \in Slots, StirSuspended(s) PROVE CountInv'
    BY <1>24, CountFrame DEF StirSuspended
<1>25. ASSUME NEW s \in Slots, Ripen(s) PROVE CountInv'
    BY <1>25, CountFrame DEF Ripen
<1>26. CASE Destroy
    BY <1>26, CountFrame DEF Destroy
<1>27. CASE DestroyTell
    BY <1>27, CountFrame DEF DestroyTell, StopHeard, Audible
<1>28. CASE DestroyBump
    BY <1>28, CountFrame DEF DestroyBump, SeenAfterBump, Roused
<1>29. CASE Join
    BY <1>29, CountFrame DEF Join
<1>30. CASE UNCHANGED vars
    BY <1>30, CountFrame DEF vars
<1> QED
    BY <1>1, <1>2, <1>3, <1>4, <1>5, <1>6, <1>7, <1>8, <1>9, <1>10, <1>11,
       <1>12, <1>13, <1>14, <1>15, <1>16, <1>17, <1>18, <1>19, <1>20, <1>21,
       <1>22, <1>23, <1>24, <1>25, <1>26, <1>27, <1>28, <1>29, <1>30
       DEF Next, Work, Controller, OwnerStep, Destroyed

(* Membership, the wake pointer and the leases follow the controller.      *)
LEMMA PhaseStep == PoolInv /\ [Next]_vars => PhaseInv'
<1> SUFFICES ASSUME PoolInv, [Next]_vars PROVE PhaseInv'
    OBVIOUS
<1> USE PoolAssumption DEF PoolInv, PoolTypeOK, PhaseInv, PoolLockInv, pool,
        event, scheds, worker, Goto, Steer, NoSlot
<1>1. ASSUME NEW w \in Workers, Enter(w) PROVE PhaseInv'
    BY <1>1 DEF Enter
<1>2. ASSUME NEW w \in Workers, Exit(w) PROVE PhaseInv'
    BY <1>2 DEF Exit, Deregistered
<1>3. ASSUME NEW w \in Workers, Depart(w) PROVE PhaseInv'
  <2>1. slot[w] \in Slots /\ member[slot[w]]
      BY <1>3 DEF Depart, SlotInv
  <2>2. \A s \in Slots : inflight[s] \in Nat
      OBVIOUS
  <2>3. \A s \in Slots : inflight'[s] = IF s = slot[w] THEN inflight[s] + 1 ELSE inflight[s]
      BY <1>3, <2>1 DEF Depart
  <2> QED
      BY <1>3, <2>1, <2>2, <2>3 DEF Depart
<1>4. ASSUME NEW w \in Workers, NEW s \in Slots, LockMember(w, s) PROVE PhaseInv'
    BY <1>4 DEF LockMember, Unlocked
<1>5. ASSUME NEW w \in Workers, NEW s \in Slots, Lease(w, s) PROVE PhaseInv'
    BY <1>5 DEF Lease, Scanning, Unlocked, Released
<1>6. ASSUME NEW w \in Workers, FindNone(w) PROVE PhaseInv'
    BY <1>6 DEF FindNone, Scanning, Unlocked, Released, Deadline
<1>7. ASSUME NEW w \in Workers, Doze(w) PROVE PhaseInv'
    BY <1>7 DEF Doze, Settles
<1>8. ASSUME NEW w \in Workers, TimeOut(w) PROVE PhaseInv'
    BY <1>8 DEF TimeOut
<1>9. ASSUME NEW w \in Workers, Spurious(w) PROVE PhaseInv'
    BY <1>9 DEF Spurious
<1>10. ASSUME NEW w \in Workers, Reread(w) PROVE PhaseInv'
    BY <1>10 DEF Reread
<1>11. ASSUME NEW w \in Workers, Release(w) PROVE PhaseInv'
    BY <1>11 DEF Release
<1>12. ASSUME NEW w \in Workers, Notify(w) PROVE PhaseInv'
    BY <1>12 DEF Notify, Audible
<1>13. ASSUME NEW w \in Workers, Bump(w) PROVE PhaseInv'
    BY <1>13 DEF Bump, SeenAfterBump, Roused
<1>14. ASSUME NEW w \in Workers, Count(w) PROVE PhaseInv'
  <2>1. slot[w] \in Slots /\ w \in Borrowers(slot[w])
      BY <1>14 DEF Count, SlotInv, Borrowers
  <2>2. \A s \in Slots : inflight[s] \in Nat
      OBVIOUS
  <2>3. inflight[slot[w]] > 0
      BY <2>1, Lent
  <2>4. \A s \in Slots : inflight'[s] = IF s = slot[w] THEN inflight[s] - 1 ELSE inflight[s]
      BY <1>14, <2>1 DEF Count
  <2>5. CASE inflight[slot[w]] = 1 /\ ~member[slot[w]]
    <3>1. \A s \in Slots : ctl'[s] = IF ctl[s] = "waiting" THEN "recheck" ELSE ctl[s]
        BY <1>14, <2>5, Zenon DEF Count, Awakened
    <3> QED
        BY <1>14, <2>2, <2>3, <2>4, <3>1 DEF Count
  <2>6. CASE ~(inflight[slot[w]] = 1 /\ ~member[slot[w]])
    <3>1. ctl' = ctl
        BY <1>14, <2>6, Zenon DEF Count
    <3> QED
        BY <1>14, <2>2, <2>3, <2>4, <2>6, <3>1 DEF Count
  <2> QED
      BY <2>5, <2>6
<1>15. ASSUME NEW s \in Slots, Enable(s) PROVE PhaseInv'
    BY <1>15 DEF Enable
<1>16. ASSUME NEW s \in Slots, ChangeLocked(s) PROVE PhaseInv'
    BY <1>16 DEF ChangeLocked, Changed
<1>17. ASSUME NEW s \in Slots, ChangeSetting(s) PROVE PhaseInv'
    BY <1>17 DEF ChangeSetting, Changed
<1>18. ASSUME NEW s \in Slots, WakeAll(s) PROVE PhaseInv'
    BY <1>18 DEF WakeAll
<1>19. ASSUME NEW s \in Slots, Tell(s) PROVE PhaseInv'
    BY <1>19 DEF Tell, Told
<1>20. ASSUME NEW s \in Slots, TellBump(s) PROVE PhaseInv'
    BY <1>20 DEF TellBump, SeenAfterBump, Roused, Told
<1>21. ASSUME NEW s \in Slots, SuspendRemove(s) PROVE PhaseInv'
    BY <1>21 DEF SuspendRemove
<1>22. ASSUME NEW s \in Slots, SuspendUnhook(s) PROVE PhaseInv'
    BY <1>22 DEF SuspendUnhook
<1>23. ASSUME NEW s \in Slots, SuspendWait(s) PROVE PhaseInv'
    BY <1>23 DEF SuspendWait, Quiescent
<1>24. ASSUME NEW s \in Slots, StirSuspended(s) PROVE PhaseInv'
    BY <1>24 DEF StirSuspended
<1>25. ASSUME NEW s \in Slots, Ripen(s) PROVE PhaseInv'
    BY <1>25 DEF Ripen
<1>26. CASE Destroy
    BY <1>26 DEF Destroy
<1>27. CASE DestroyTell
    BY <1>27 DEF DestroyTell, StopHeard, Audible
<1>28. CASE DestroyBump
    BY <1>28 DEF DestroyBump, SeenAfterBump, Roused
<1>29. CASE Join
    BY <1>29 DEF Join
<1>30. CASE UNCHANGED vars
    BY <1>30 DEF vars
<1> QED
    BY <1>1, <1>2, <1>3, <1>4, <1>5, <1>6, <1>7, <1>8, <1>9, <1>10, <1>11,
       <1>12, <1>13, <1>14, <1>15, <1>16, <1>17, <1>18, <1>19, <1>20, <1>21,
       <1>22, <1>23, <1>24, <1>25, <1>26, <1>27, <1>28, <1>29, <1>30
       DEF Next, Work, Controller, OwnerStep, Destroyed

(* No step breaks what a resting worker relies on.                         *)
LEMMA WakeStep == PoolInv /\ [Next]_vars => WakeInv'
<1> SUFFICES ASSUME PoolInv, [Next]_vars PROVE WakeInv'
    OBVIOUS
<1> USE PoolAssumption DEF PoolInv, PoolTypeOK, WakeInv, Announced, Resting,
        PhaseInv, PoolLockInv, SlotInv, pool, event, scheds, worker, Goto,
        Steer, NoSlot
<1>0. Audible <=> \E w \in Workers : registered[w]
    BY Listening DEF Audible
<1>1. ASSUME NEW w \in Workers, Enter(w) PROVE WakeInv'
    BY <1>1 DEF Enter
<1>2. ASSUME NEW w \in Workers, Exit(w) PROVE WakeInv'
    BY <1>2 DEF Exit, Deregistered
<1>3. ASSUME NEW w \in Workers, Depart(w) PROVE WakeInv'
    BY <1>3 DEF Depart, Deregistered
<1>4. ASSUME NEW w \in Workers, NEW s \in Slots, LockMember(w, s) PROVE WakeInv'
    BY <1>4 DEF LockMember, Unlocked
<1>5. ASSUME NEW w \in Workers, NEW s \in Slots, Lease(w, s) PROVE WakeInv'
    BY <1>5 DEF Lease, Scanning, Unlocked, Released
<1>6. ASSUME NEW w \in Workers, FindNone(w) PROVE WakeInv'
    BY <1>6 DEF FindNone, Scanning, Unlocked, Released, Deadline
<1>7. ASSUME NEW w \in Workers, Doze(w) PROVE WakeInv'
    BY <1>7 DEF Doze, Settles
<1>8. ASSUME NEW w \in Workers, TimeOut(w) PROVE WakeInv'
    BY <1>8 DEF TimeOut
<1>9. ASSUME NEW w \in Workers, Spurious(w) PROVE WakeInv'
    BY <1>9 DEF Spurious
<1>10. ASSUME NEW w \in Workers, Reread(w) PROVE WakeInv'
    BY <1>10 DEF Reread
<1>11. ASSUME NEW w \in Workers, Release(w) PROVE WakeInv'
    BY <1>11 DEF Release
<1>12. ASSUME NEW w \in Workers, Notify(w) PROVE WakeInv'
    BY <1>0, <1>12, NotifyCases DEF Notify
<1>13. ASSUME NEW w \in Workers, Bump(w) PROVE WakeInv'
    BY <1>13 DEF Bump, SeenAfterBump, Roused
<1>14. ASSUME NEW w \in Workers, Count(w) PROVE WakeInv'
    BY <1>14 DEF Count, Awakened
<1>15. ASSUME NEW s \in Slots, Enable(s) PROVE WakeInv'
    BY <1>15 DEF Enable
<1>16. ASSUME NEW s \in Slots, ChangeLocked(s) PROVE WakeInv'
    BY <1>16 DEF ChangeLocked, Changed
<1>17. ASSUME NEW s \in Slots, ChangeSetting(s) PROVE WakeInv'
    BY <1>17 DEF ChangeSetting, Changed
<1>18. ASSUME NEW s \in Slots, WakeAll(s) PROVE WakeInv'
    BY <1>18 DEF WakeAll
<1>19. ASSUME NEW s \in Slots, Tell(s) PROVE WakeInv'
    BY <1>0, <1>19, TellCases DEF Tell, Told
<1>20. ASSUME NEW s \in Slots, TellBump(s) PROVE WakeInv'
    BY <1>20 DEF TellBump, SeenAfterBump, Roused, Told
<1>21. ASSUME NEW s \in Slots, SuspendRemove(s) PROVE WakeInv'
    BY <1>21 DEF SuspendRemove
<1>22. ASSUME NEW s \in Slots, SuspendUnhook(s) PROVE WakeInv'
    BY <1>22 DEF SuspendUnhook
<1>23. ASSUME NEW s \in Slots, SuspendWait(s) PROVE WakeInv'
    BY <1>23 DEF SuspendWait, Quiescent
<1>24. ASSUME NEW s \in Slots, StirSuspended(s) PROVE WakeInv'
    BY <1>24 DEF StirSuspended
<1>25. ASSUME NEW s \in Slots, Ripen(s) PROVE WakeInv'
    BY <1>25 DEF Ripen
<1>26. CASE Destroy
    BY <1>26 DEF Destroy
<1>27. CASE DestroyTell
    BY <1>0, <1>27 DEF DestroyTell, StopHeard
<1>28. CASE DestroyBump
    BY <1>28 DEF DestroyBump, SeenAfterBump, Roused
<1>29. CASE Join
    BY <1>29 DEF Join
<1>30. CASE UNCHANGED vars
    BY <1>30 DEF vars
<1> QED
    BY <1>1, <1>2, <1>3, <1>4, <1>5, <1>6, <1>7, <1>8, <1>9, <1>10, <1>11,
       <1>12, <1>13, <1>14, <1>15, <1>16, <1>17, <1>18, <1>19, <1>20, <1>21,
       <1>22, <1>23, <1>24, <1>25, <1>26, <1>27, <1>28, <1>29, <1>30
       DEF Next, Work, Controller, OwnerStep, Destroyed

(* Every step keeps the invariant.                                         *)
LEMMA PoolStep == PoolInv /\ [Next]_vars => PoolInv'
    BY TypeStep, PoolLockStep, SchedLockStep, SlotStep, CountStep, PhaseStep, WakeStep DEF PoolInv

(* The inductive invariant holds in every reachable state.                 *)
THEOREM PoolInvariant == Spec => []PoolInv
    BY PoolInit, PoolStep, PTL DEF Spec

(* The variables keep their types: in particular the counters of waiters   *)
(* and leases, which the code only increments and decrements, stay at or   *)
(* above zero, for any number of workers and universes.                    *)
THEOREM PoolTypeCorrect == Spec => []PoolTypeOK
<1>1. PoolInv => PoolTypeOK
    BY DEF PoolInv
<1> QED
    BY <1>1, PoolInvariant, PTL

(* No wake-up is lost, however looks at the waiter count, announcements of *)
(* a new generation and workers that fall asleep interleave.               *)
THEOREM WakeupsAreNotLost == Spec => []NoLostWakeup
<1>1. PoolInv => NoLostWakeup
  <2> SUFFICES ASSUME PoolInv, \A w \in Workers : pc[w] = "asleep", ~Telling
               PROVE  /\ ~stopping
                      /\ \A s \in Slots : member[s] /\ (ready[s] > 0 \/ soon[s]) =>
                           \E w \in Workers : timed[w]
      BY DEF NoLostWakeup
  <2>1. PICK w \in Workers : TRUE
      BY PoolAssumption
  <2>2. Resting(w)
      BY DEF PoolInv, WakeInv
  <2>3. ~stopping
      BY <2>2 DEF PoolInv, WakeInv, Telling
  <2>4. \A s \in Slots : ~Announced(s)
      BY DEF Announced, Telling
  <2>5. \A s \in Slots : member[s] /\ (ready[s] > 0 \/ soon[s]) => timed[w]
      BY <2>2, <2>4 DEF PoolInv, WakeInv
  <2> QED
      BY <2>3, <2>5
<1> QED
    BY <1>1, PoolInvariant, PTL

(* When nobody has a lease of a slot counted, nobody borrows it.           *)
LEMMA NobodyLeft ==
  ASSUME PoolInv, NEW s \in Slots, ~member[s], inflight[s] = 0
  PROVE  \A w \in Workers : slot[w] # s
<1>1. \A w \in Workers : w \notin Borrowers(s)
    BY Lent DEF PoolInv
<1> QED
    BY <1>1 DEF Borrowers, PoolInv, SlotInv

(* A suspended universe is left alone: no lease, no lock, no pointer to    *)
(* the pool's event.                                                       *)
THEOREM SuspendedIsUntouched == Spec => []SuspendedUntouched
<1>1. PoolInv => SuspendedUntouched
  <2> SUFFICES ASSUME PoolInv, NEW s \in Slots, ctl[s] = "off"
               PROVE  /\ schedLock[s] = Unheld /\ ~hooked[s] /\ inflight[s] = 0
                      /\ \A w \in Workers : slot[w] # s
      BY DEF SuspendedUntouched
  <2>1. ~hooked[s] /\ inflight[s] = 0 /\ ~member[s]
      BY DEF PoolInv, PhaseInv
  <2>2. \A w \in Workers : slot[w] # s
      BY <2>1, NobodyLeft
  <2>3. \A w \in Workers : schedLock[s] # w
      BY <2>1, <2>2 DEF PoolInv, SchedLockInv
  <2>4. \A r \in Slots : schedLock[s] # r
      BY DEF PoolInv, SchedLockInv
  <2>5. schedLock[s] \in Workers \cup Slots \cup {Unheld}
      BY DEF PoolInv, PoolTypeOK
  <2> QED
      BY <2>1, <2>2, <2>3, <2>4, <2>5
<1> QED
    BY <1>1, PoolInvariant, PTL

(* A controller that waits on the shared condition always has a lease of   *)
(* its own slot to wait for.                                               *)
THEOREM SuspensionsAreNotForgotten == Spec => []NoForgottenSuspension
<1>1. PoolInv => NoForgottenSuspension
  <2> SUFFICES ASSUME PoolInv, NEW s \in Slots, ctl[s] = "waiting"
               PROVE  \E w \in Workers : slot[w] = s /\ inflight[s] > 0
      BY DEF NoForgottenSuspension
  <2>1. inflight[s] > 0
      BY DEF PoolInv, PhaseInv
  <2> QED
      BY <2>1, Lent DEF PoolInv, Borrowers
<1> QED
    BY <1>1, PoolInvariant, PTL

-----------------------------------------------------------------------------
(* The pool keeps its contract.                                            *)

Users == [s \in Slots |-> {w \in Workers : slot[w] = s}]

(* Steps of the pool that the contract does not see.                       *)
LEMMA Unseen ==
  ASSUME UNCHANGED slot, \A s \in Slots : Phase'[s] = Phase[s]
  PROVE  UNCHANGED Contract!vars
<1>1. Phase' = Phase
    BY DEF Phase
<1> QED
    BY <1>1 DEF Contract!vars

(* Nor those that leave leases and controllers as they are.                *)
LEMMA UnseenCtl ==
  ASSUME UNCHANGED slot, UNCHANGED ctl
  PROVE  UNCHANGED Contract!vars
    BY DEF Contract!vars, Phase

(* A controller moves on: its slot's phase follows.                        *)
LEMMA PhaseMoves ==
  ASSUME PoolTypeOK, NEW s \in Slots, NEW l, Steer(s, l),
         NEW p, p = CASE l = "off" -> "off"
                      [] l \in {"joining", "on", "changing", "changed"} -> "open"
                      [] OTHER -> "closing"
  PROVE  Phase' = [Phase EXCEPT ![s] = p]
<1>1. \A r \in Slots : ctl'[r] = IF r = s THEN l ELSE ctl[r]
    BY DEF PoolTypeOK, Steer
<1> QED
    BY <1>1 DEF Phase

(* What each step of the pool is in the contract.                          *)
LEMMA ContractStep == PoolInv /\ [Next]_vars => [Contract!Next]_(Contract!vars)
<1> SUFFICES ASSUME PoolInv, [Next]_vars PROVE Contract!Next \/ UNCHANGED Contract!vars
    OBVIOUS
<1> USE DEF PoolInv, worker, pool, event, scheds
<1>1. ASSUME NEW w \in Workers, NEW s \in Slots, Lease(w, s) PROVE Contract!Use(w, s)
  <2>1. member[s] /\ pc[w] = "loop" /\ slot[w] \notin Slots
      BY <1>1 DEF Lease, Scanning, SlotInv
  <2>2. Phase[s] = "open"
      BY <2>1 DEF Phase, PhaseInv
  <2>3. slot' = [slot EXCEPT ![w] = s] /\ UNCHANGED ctl
      BY <1>1 DEF Lease
  <2>4. Users' = [Users EXCEPT ![s] = @ \cup {w}]
    <3>1. \A v \in Workers : slot'[v] = IF v = w THEN s ELSE slot[v]
        BY <2>3 DEF PoolTypeOK
    <3>2. \A r \in Slots : {v \in Workers : slot'[v] = r} =
                             IF r = s THEN {v \in Workers : slot[v] = r} \cup {w}
                             ELSE {v \in Workers : slot[v] = r}
        BY <2>1, <3>1
    <3> QED
        BY <3>2 DEF Users
  <2>5. Phase' = Phase
      BY <2>3 DEF Phase
  <2>6. \A r \in Slots : w \notin Users[r]
      BY <2>1 DEF Users
  <2> QED
      BY <2>2, <2>4, <2>5, <2>6 DEF Contract!Use, Users
<1>2. ASSUME NEW w \in Workers, Count(w) PROVE \E s \in Slots : Contract!Leave(w, s)
  <2>1. PICK s \in Slots : s = slot[w]
      BY <1>2 DEF Count, SlotInv
  <2>2. Users' = [Users EXCEPT ![s] = @ \ {w}]
    <3>1. \A v \in Workers : slot'[v] = IF v = w THEN NoSlot ELSE slot[v]
        BY <1>2 DEF Count, PoolTypeOK
    <3>2. NoSlot \notin Slots
        BY PoolAssumption DEF NoSlot
    <3>3. \A r \in Slots : {v \in Workers : slot'[v] = r} =
                             IF r = s THEN {v \in Workers : slot[v] = r} \ {w}
                             ELSE {v \in Workers : slot[v] = r}
        BY <2>1, <3>1, <3>2
    <3> QED
        BY <3>3 DEF Users
  <2>3. ctl' = Awakened \/ ctl' = ctl
      BY <1>2, Zenon DEF Count
  <2>4. Phase' = Phase
      BY <2>3 DEF Phase, Awakened
  <2>5. w \in Users[s]
      BY <2>1 DEF Users
  <2>6. Contract!Leave(w, s)
      BY <2>2, <2>4, <2>5 DEF Contract!Leave, Users
  <2> QED
      BY <2>6
<1>3. ASSUME NEW s \in Slots, Enable(s) PROVE Contract!Open(s)
  <2>1. ctl[s] = "off" /\ Steer(s, "joining") /\ UNCHANGED slot
      BY <1>3 DEF Enable
  <2>2. Phase' = [Phase EXCEPT ![s] = "open"]
      BY <2>1, PhaseMoves
  <2> QED
      BY <2>1, <2>2 DEF Contract!Open, Phase
<1>4. ASSUME NEW s \in Slots, SuspendRemove(s) PROVE Contract!Close(s)
  <2>1. ctl[s] = "on" /\ Steer(s, "unhooking") /\ UNCHANGED slot
      BY <1>4 DEF SuspendRemove
  <2>2. Phase' = [Phase EXCEPT ![s] = "closing"]
      BY <2>1, PhaseMoves
  <2> QED
      BY <2>1, <2>2 DEF Contract!Close, Phase
<1>5. ASSUME NEW s \in Slots, SuspendWait(s) PROVE Contract!Free(s) \/ UNCHANGED Contract!vars
  <2>1. ctl[s] \in {"draining", "recheck"} /\ UNCHANGED slot
      BY <1>5 DEF SuspendWait
  <2>2. CASE Quiescent(s)
    <3>1. Steer(s, "off")
        BY <1>5, <2>2 DEF SuspendWait
    <3>2. Phase' = [Phase EXCEPT ![s] = "off"]
        BY <3>1, PhaseMoves
    <3>3. ~member[s] /\ inflight[s] = 0
        BY <2>1, <2>2 DEF PhaseInv, Quiescent
    <3>4. Users[s] = {}
        BY <3>3, NobodyLeft DEF Users
    <3> QED
        BY <2>1, <3>2, <3>4 DEF Contract!Free, Phase, Users
  <2>3. CASE ~Quiescent(s)
    <3>1. Steer(s, "waiting")
        BY <1>5, <2>3 DEF SuspendWait
    <3> QED
        BY <2>1, <3>1, Unseen DEF PoolTypeOK, Steer, Phase
  <2> QED
      BY <2>2, <2>3
<1>6. ASSUME NEW s \in Slots, NEW l, Steer(s, l), UNCHANGED slot,
             \/ ctl[s] \in {"joining", "on", "changing", "changed"} /\ l \in {"on", "changing", "changed"}
             \/ ctl[s] \in {"unhooking", "removed", "waiting"} /\ l \in {"removed", "draining", "recheck"}
      PROVE  UNCHANGED Contract!vars
    BY <1>6, Unseen DEF PoolTypeOK, Steer, Phase
<1>7. ASSUME NEW s \in Slots, ChangeLocked(s) \/ ChangeSetting(s) \/ WakeAll(s)
                              \/ SuspendUnhook(s) \/ StirSuspended(s)
      PROVE  UNCHANGED Contract!vars
    BY <1>6, <1>7, Zenon DEF ChangeLocked, ChangeSetting, WakeAll, SuspendUnhook, StirSuspended
<1>8. ASSUME NEW s \in Slots, Told(s), UNCHANGED slot, ctl[s] \in {"joining", "changing", "removed"}
      PROVE  UNCHANGED Contract!vars
  <2>1. CASE ctl[s] = "removed"
      BY <1>6, <1>8, <2>1 DEF Told
  <2>2. CASE ctl[s] \in {"joining", "changing"}
      BY <1>6, <1>8, <2>2 DEF Told
  <2> QED
      BY <1>8, <2>1, <2>2
<1>9. ASSUME NEW s \in Slots, Tell(s) PROVE UNCHANGED Contract!vars
  <2>1. ctl[s] \in {"joining", "changing", "removed"} /\ UNCHANGED slot
      BY <1>9 DEF Tell
  <2> QED
      BY <1>8, <1>9, <2>1, TellCases, UnseenCtl
<1>10. ASSUME NEW s \in Slots, TellBump(s) PROVE UNCHANGED Contract!vars
  <2>1. Told(s) /\ UNCHANGED slot /\ ctl[s] \in {"joining", "changing", "removed"}
      BY <1>10 DEF TellBump, PoolLockInv
  <2> QED
      BY <1>8, <2>1
<1>11. ASSUME NEW w \in Workers, NEW s \in Slots, LockMember(w, s) \/ Ripen(s)
       PROVE  UNCHANGED Contract!vars
    BY <1>11, UnseenCtl DEF LockMember, Ripen
<1>12. ASSUME NEW w \in Workers,
              Enter(w) \/ Exit(w) \/ Depart(w) \/ FindNone(w) \/ Doze(w) \/ Reread(w) \/ Release(w)
              \/ Notify(w) \/ Bump(w) \/ TimeOut(w) \/ Spurious(w)
       PROVE  UNCHANGED Contract!vars
    BY <1>12, UnseenCtl DEF Enter, Exit, Depart, FindNone, Doze, Reread, Release, Notify, Bump, TimeOut, Spurious
<1>13. CASE OwnerStep \/ UNCHANGED vars
    BY <1>13, UnseenCtl DEF OwnerStep, Destroy, DestroyTell, DestroyBump, Join, vars
<1>14. ASSUME NEW s \in Slots, Controller(s) \/ Ripen(s) PROVE Contract!Next \/ UNCHANGED Contract!vars
  <2>1. PICK w \in Workers : TRUE
      BY PoolAssumption
  <2> QED
      BY <1>3, <1>4, <1>5, <1>7, <1>9, <1>10, <1>11, <1>14, <2>1 DEF Controller, Contract!Next
<1>15. ASSUME NEW w \in Workers, Work(w) \/ TimeOut(w) \/ Spurious(w)
       PROVE  Contract!Next \/ UNCHANGED Contract!vars
    BY <1>1, <1>2, <1>11, <1>12, <1>15 DEF Work, Contract!Next
<1> QED
    BY <1>13, <1>14, <1>15 DEF Next, Destroyed

(* The pool keeps the promise of its header: suspension returns only when  *)
(* the last worker has left the universe, for any workers and universes.   *)
THEOREM PoolKeepsContract == Spec => ContractSpec
<1>1. Init => Contract!Init
    BY PoolAssumption DEF Init, Contract!Init, Phase, NoSlot
<1> QED
    BY <1>1, ContractStep, PoolInvariant, PTL DEF Spec, ContractSpec, Contract!Spec

=============================================================================
