----------------------------- MODULE WorkerPool -----------------------------
(***************************************************************************)
(* The worker pool (worker_pool.c) over the schedulers of several          *)
(* universes: group acquisition (scheduler_acquire_group), the wake event  *)
(* that idle workers sleep on (scheduler_wake_event), and registration,    *)
(* suspension and destruction by other threads.                            *)
(*                                                                         *)
(* A universe's ants are abstracted to how many of them could be leased    *)
(* now and whether some ant becomes leasable by itself at a deadline.  The *)
(* wake lock is held only inside single actions; the pool lock and the     *)
(* schedulers' locks are held across actions wherever the code holds them. *)
(* Generations are only ever compared with the current one, so instead of  *)
(* the number the model keeps who has seen the current generation.         *)
(***************************************************************************)
EXTENDS Integers, FiniteSets

CONSTANTS Workers,   \* pool threads
          Slots,     \* universes, in registration order
          MaxReady,  \* most ants of a universe that are leasable at once
          Events,    \* what happens in this instance
          Owner,     \* the thread that destroys the pool
          Unheld       \* nobody, as the holder of a lock

(* worker_pool_create refuses zero workers, and more than it has room for. *)
ASSUME PoolAssumption ==
    /\ IsFiniteSet(Workers) /\ Workers # {}
    /\ Slots \subseteq Nat \ {0} /\ MaxReady \in Nat \ {0}
    /\ Events \subseteq {"locked", "setting", "suspend", "deadline", "spurious"}
    /\ Owner # Unheld /\ {Owner, Unheld} \cap (Workers \cup Slots) = {} /\ Workers \cap Slots = {}

VARIABLES
    stopping,   \* pool->stopping
    member,     \* members[slot] is not NULL
    inflight,   \* leases of a slot that are out
    poolLock, schedLock,
    hooked,     \* scheduler->wake points at the pool's event
    waiters,    \* registered waiters of the event
    seen,       \* workers whose local generation is the current one
    ready,      \* leasable ants of a universe
    soon,       \* an ant of it becomes leasable at a finite deadline
    pc, slot, registered, timed,   \* a worker's locals
    ctl,        \* what the controller of a slot is doing
    telling,    \* controllers that saw waiters and will bump the generation
    owner       \* what the pool's owner is doing

pool   == <<stopping, member, inflight, poolLock>>
event  == <<waiters, seen>>
scheds == <<schedLock, hooked, ready, soon>>
worker == <<pc, slot, registered, timed>>
vars   == <<pool, event, scheds, worker, ctl, telling, owner>>

NoSlot == 0
Deadlines == {FALSE} \cup {b \in BOOLEAN : "deadline" \in Events}

Init ==
    /\ stopping = FALSE
    /\ member = [s \in Slots |-> FALSE] /\ inflight = [s \in Slots |-> 0]
    /\ poolLock = Unheld /\ schedLock = [s \in Slots |-> Unheld]
    /\ hooked = [s \in Slots |-> FALSE]
    /\ waiters = 0 /\ seen = Workers
    /\ ready = [s \in Slots |-> 0] /\ soon = [s \in Slots |-> FALSE]
    /\ pc = [w \in Workers |-> "top"] /\ slot = [w \in Workers |-> NoSlot]
    /\ registered = [w \in Workers |-> FALSE] /\ timed = [w \in Workers |-> FALSE]
    /\ ctl = [s \in Slots |-> "off"] /\ telling = {} /\ owner = "up"

Goto(w, label) == pc' = [pc EXCEPT ![w] = label]
Steer(s, label) == ctl' = [ctl EXCEPT ![s] = label]

-----------------------------------------------------------------------------
(* scheduler_wake_event: one look at the waiter count, then, if there are  *)
(* waiters, a new generation for everybody and a broadcast to sleepers.    *)

Audible == waiters > 0
SeenAfterBump == {}
Roused == [w \in Workers |-> IF pc[w] = "asleep" THEN "woken" ELSE pc[w]]

-----------------------------------------------------------------------------
(* run_worker                                                              *)

Enter(w) ==
    /\ pc[w] = "top" /\ poolLock = Unheld
    /\ poolLock' = w /\ Goto(w, "loop")
    /\ UNCHANGED <<stopping, member, inflight, event, scheds, slot, registered, timed, ctl, telling, owner>>

(* unregister_waiter, by a worker that is registered.                      *)
Deregistered(w) == IF registered[w] THEN waiters - 1 ELSE waiters

Exit(w) ==
    /\ pc[w] = "loop" /\ stopping
    /\ waiters' = Deregistered(w)
    /\ registered' = [registered EXCEPT ![w] = FALSE]
    /\ poolLock' = Unheld /\ Goto(w, "exited")
    /\ UNCHANGED <<stopping, member, inflight, seen, scheds, slot, timed, ctl, telling, owner>>

(* scheduler_acquire_group takes the members' locks in registration order, *)
(* scans them all, and releases them.                                      *)
Unlocked(w) == {s \in Slots : member[s] /\ schedLock[s] # w}

LockMember(w, s) ==
    /\ pc[w] = "loop" /\ ~stopping
    /\ s \in Unlocked(w) /\ \A r \in Unlocked(w) : s <= r
    /\ schedLock[s] = Unheld
    /\ schedLock' = [schedLock EXCEPT ![s] = w]
    /\ UNCHANGED <<pool, event, hooked, ready, soon, worker, ctl, telling, owner>>

Scanning(w) == pc[w] = "loop" /\ ~stopping /\ Unlocked(w) = {}
Released(w) == [s \in Slots |-> IF schedLock[s] = w THEN Unheld ELSE schedLock[s]]

Lease(w, s) ==
    /\ Scanning(w) /\ member[s] /\ ready[s] > 0
    /\ ready' = [ready EXCEPT ![s] = @ - 1]
    /\ slot' = [slot EXCEPT ![w] = s]
    /\ schedLock' = Released(w) /\ Goto(w, "leased")
    /\ UNCHANGED <<pool, event, hooked, soon, registered, timed, ctl, telling, owner>>

(* Leaves the waiters and counts the lease before it lets go of the pool.  *)
Depart(w) ==
    /\ pc[w] = "leased"
    /\ waiters' = Deregistered(w)
    /\ registered' = [registered EXCEPT ![w] = FALSE]
    /\ inflight' = [inflight EXCEPT ![slot[w]] = @ + 1]
    /\ poolLock' = Unheld /\ Goto(w, "run")
    /\ UNCHANGED <<stopping, member, seen, scheds, slot, timed, ctl, telling, owner>>

(* Nothing to lease: the earliest deadline of the members is remembered.   *)
(* DeadlineForgotten is a faulty variant that always sleeps untimed.       *)
DeadlineForgotten == FALSE
Deadline == \E s \in Slots : member[s] /\ soon[s]

FindNone(w) ==
    /\ Scanning(w) /\ \A s \in Slots : member[s] => ready[s] = 0
    /\ schedLock' = Released(w) /\ poolLock' = Unheld
    /\ timed' = [timed EXCEPT ![w] = Deadline]
    /\ Goto(w, "idle")
    /\ UNCHANGED <<stopping, member, inflight, event, hooked, ready, soon, slot, registered, ctl, telling, owner>>

(* Under the wake lock: the first time, register and scan again; later,    *)
(* sleep unless the generation changed since it was last looked at.        *)
(* SleepAtOnce is a faulty variant that sleeps as soon as it registers.    *)
SleepAtOnce(w) == w \in seen
Settles(w) == registered[w] /\ w \in seen

Doze(w) ==
    /\ pc[w] = "idle"
    /\ IF Settles(w)
       THEN Goto(w, "asleep") /\ UNCHANGED seen
       ELSE Goto(w, "top") /\ seen' = seen \cup {w}
    /\ waiters' = waiters + (IF registered[w] THEN 0 ELSE 1)
    /\ registered' = [registered EXCEPT ![w] = TRUE]
    /\ timed' = [timed EXCEPT ![w] = @ /\ Settles(w)]
    /\ UNCHANGED <<pool, scheds, slot, ctl, telling, owner>>

(* The condition wait ends at the deadline, or for no reason at all.       *)
TimeOut(w) ==
    /\ pc[w] = "asleep" /\ timed[w]
    /\ Goto(w, "woken")
    /\ UNCHANGED <<pool, event, scheds, slot, registered, timed, ctl, telling, owner>>

Spurious(w) ==
    /\ "spurious" \in Events /\ pc[w] = "asleep"
    /\ Goto(w, "woken")
    /\ UNCHANGED <<pool, event, scheds, slot, registered, timed, ctl, telling, owner>>

Reread(w) ==
    /\ pc[w] = "woken"
    /\ seen' = seen \cup {w} /\ Goto(w, "top")
    /\ timed' = [timed EXCEPT ![w] = FALSE]
    /\ UNCHANGED <<pool, waiters, scheds, slot, registered, ctl, telling, owner>>

(* The quantum is over.  scheduler_release: the ant may be leasable again, *)
(* later, or not; the universe's event is told under the scheduler's lock. *)
Release(w) ==
    LET s == slot[w] IN
    /\ pc[w] = "run" /\ schedLock[s] = Unheld
    /\ schedLock' = [schedLock EXCEPT ![s] = w]
    /\ \E n \in {0, 1} : ready[s] + n <= MaxReady /\ ready' = [ready EXCEPT ![s] = @ + n]
    /\ \E b \in Deadlines : soon' = [soon EXCEPT ![s] = b]
    /\ Goto(w, "notify")
    /\ UNCHANGED <<pool, event, hooked, slot, registered, timed, ctl, telling, owner>>

Notify(w) ==
    LET s == slot[w] IN
    /\ pc[w] = "notify"
    /\ IF hooked[s] /\ Audible THEN Goto(w, "bump") /\ UNCHANGED schedLock
       ELSE Goto(w, "count") /\ schedLock' = [schedLock EXCEPT ![s] = Unheld]
    /\ UNCHANGED <<pool, event, hooked, ready, soon, slot, registered, timed, ctl, telling, owner>>

Bump(w) ==
    /\ pc[w] = "bump"
    /\ seen' = SeenAfterBump
    /\ pc' = [Roused EXCEPT ![w] = "count"]
    /\ schedLock' = [schedLock EXCEPT ![slot[w]] = Unheld]
    /\ UNCHANGED <<pool, waiters, hooked, ready, soon, slot, registered, timed, ctl, telling, owner>>

(* The last lease of a removed slot wakes those who wait to suspend.       *)
(* Faulty variants: a signal where the code broadcasts, and no call at all.*)
NoneAwakened == ctl
OneAwakened == [s \in Slots |-> IF ctl[s] = "waiting" /\ \A r \in Slots : ctl[r] = "waiting" => s <= r
                                THEN "recheck" ELSE ctl[s]]
Awakened == [s \in Slots |-> IF ctl[s] = "waiting" THEN "recheck" ELSE ctl[s]]

Count(w) ==
    LET s == slot[w] IN
    /\ pc[w] = "count" /\ poolLock = Unheld
    /\ poolLock' = w /\ Goto(w, "loop")
    /\ inflight' = [inflight EXCEPT ![s] = @ - 1]
    /\ ctl' = IF inflight[s] = 1 /\ ~member[s] THEN Awakened ELSE ctl
    /\ slot' = [slot EXCEPT ![w] = NoSlot]
    /\ UNCHANGED <<stopping, member, event, scheds, registered, timed, telling, owner>>

-----------------------------------------------------------------------------
(* The controller of a slot: it registers its universe, changes it under   *)
(* (or, for the atomic settings, before) its scheduler's lock, suspends it.*)

Enable(s) ==
    /\ ctl[s] = "off" /\ owner = "up" /\ poolLock = Unheld /\ schedLock[s] = Unheld
    /\ poolLock' = s
    /\ hooked' = [hooked EXCEPT ![s] = TRUE]
    /\ member' = [member EXCEPT ![s] = TRUE]
    /\ \E n \in 0..MaxReady : ready' = [ready EXCEPT ![s] = n]
    /\ \E b \in Deadlines : soon' = [soon EXCEPT ![s] = b]
    /\ Steer(s, "joining")
    /\ UNCHANGED <<stopping, inflight, event, schedLock, worker, telling, owner>>

Changed(s) ==
    /\ \E n \in 0..MaxReady : ready' = [ready EXCEPT ![s] = n]
    /\ \E b \in Deadlines : soon' = [soon EXCEPT ![s] = b]

ChangeLocked(s) ==
    /\ "locked" \in Events /\ ctl[s] = "on" /\ schedLock[s] = Unheld
    /\ schedLock' = [schedLock EXCEPT ![s] = s]
    /\ Changed(s) /\ Steer(s, "changing")
    /\ UNCHANGED <<pool, event, hooked, worker, telling, owner>>

ChangeSetting(s) ==
    /\ "setting" \in Events /\ ctl[s] = "on"
    /\ Changed(s) /\ Steer(s, "changed")
    /\ UNCHANGED <<pool, event, schedLock, hooked, worker, telling, owner>>

WakeAll(s) ==
    /\ ctl[s] = "changed" /\ schedLock[s] = Unheld
    /\ schedLock' = [schedLock EXCEPT ![s] = s]
    /\ Steer(s, "changing")
    /\ UNCHANGED <<pool, event, hooked, ready, soon, worker, telling, owner>>

(* The event is told under the pool's lock (joining, removed) or under the *)
(* scheduler's (changing); only the latter go through scheduler->wake.     *)
Told(s) ==
    /\ Steer(s, IF ctl[s] = "removed" THEN "draining" ELSE "on")
    /\ poolLock' = IF ctl[s] = "joining" THEN Unheld ELSE poolLock
    /\ schedLock' = [schedLock EXCEPT ![s] = IF ctl[s] = "changing" THEN Unheld ELSE @]

Tell(s) ==
    /\ ctl[s] \in {"joining", "changing", "removed"} /\ s \notin telling
    /\ IF Audible /\ (ctl[s] = "changing" => hooked[s])
       THEN telling' = telling \cup {s} /\ UNCHANGED <<ctl, poolLock, schedLock>>
       ELSE Told(s) /\ UNCHANGED telling
    /\ UNCHANGED <<stopping, member, inflight, event, hooked, ready, soon, worker, owner>>

TellBump(s) ==
    /\ s \in telling /\ telling' = telling \ {s}
    /\ seen' = SeenAfterBump /\ pc' = Roused
    /\ Told(s)
    /\ UNCHANGED <<stopping, member, inflight, waiters, hooked, ready, soon, slot, registered, timed, owner>>

SuspendRemove(s) ==
    /\ "suspend" \in Events /\ ctl[s] = "on" /\ poolLock = Unheld
    /\ poolLock' = s
    /\ member' = [member EXCEPT ![s] = FALSE]
    /\ Steer(s, "unhooking")
    /\ UNCHANGED <<stopping, inflight, event, scheds, worker, telling, owner>>

SuspendUnhook(s) ==
    /\ ctl[s] = "unhooking" /\ schedLock[s] = Unheld
    /\ hooked' = [hooked EXCEPT ![s] = FALSE]
    /\ Steer(s, "removed")
    /\ UNCHANGED <<pool, event, schedLock, ready, soon, worker, telling, owner>>

(* The wait loop: it gives the pool's lock away while leases are out.      *)
(* SuspendsAtOnce is a faulty variant that does not wait.                  *)
SuspendsAtOnce(s) == TRUE
Quiescent(s) == inflight[s] = 0

SuspendWait(s) ==
    /\ \/ ctl[s] = "draining" /\ poolLock = s
       \/ ctl[s] = "recheck" /\ poolLock = Unheld
    /\ poolLock' = Unheld
    /\ Steer(s, IF Quiescent(s) THEN "off" ELSE "waiting")
    /\ UNCHANGED <<stopping, member, inflight, event, scheds, worker, telling, owner>>

StirSuspended(s) ==
    /\ "spurious" \in Events /\ ctl[s] = "waiting" /\ Steer(s, "recheck")
    /\ UNCHANGED <<pool, event, scheds, worker, telling, owner>>

-----------------------------------------------------------------------------
(* worker_pool_destroy, called once every controller has stopped.          *)

Destroy ==
    /\ owner = "up" /\ poolLock = Unheld /\ \A s \in Slots : ctl[s] = "off"
    /\ poolLock' = Owner /\ stopping' = TRUE /\ owner' = "telling"
    /\ UNCHANGED <<member, inflight, event, scheds, worker, ctl, telling>>

(* StopSilently is a faulty variant that wakes nobody when it stops.       *)
StopSilently == FALSE
StopHeard == Audible

DestroyTell ==
    /\ owner = "telling"
    /\ IF StopHeard THEN owner' = "bumping" /\ UNCHANGED poolLock
       ELSE owner' = "joining" /\ poolLock' = Unheld
    /\ UNCHANGED <<stopping, member, inflight, event, scheds, worker, ctl, telling>>

DestroyBump ==
    /\ owner = "bumping"
    /\ seen' = SeenAfterBump /\ pc' = Roused
    /\ owner' = "joining" /\ poolLock' = Unheld
    /\ UNCHANGED <<stopping, member, inflight, waiters, scheds, slot, registered, timed, ctl, telling>>

Join ==
    /\ owner = "joining" /\ \A w \in Workers : pc[w] = "exited"
    /\ owner' = "destroyed"
    /\ UNCHANGED <<pool, event, scheds, worker, ctl, telling>>

(* Time: an ant whose deadline has come is leasable, and nobody is told.   *)
Ripen(s) ==
    /\ soon[s] /\ member[s] /\ ready[s] < MaxReady
    /\ ready' = [ready EXCEPT ![s] = @ + 1]
    /\ \E b \in Deadlines : soon' = [soon EXCEPT ![s] = b]
    /\ UNCHANGED <<pool, event, schedLock, hooked, worker, ctl, telling, owner>>

-----------------------------------------------------------------------------
Work(w) ==
    \/ Enter(w) \/ Exit(w) \/ (\E s \in Slots : LockMember(w, s) \/ Lease(w, s)) \/ Depart(w)
    \/ FindNone(w) \/ Doze(w) \/ Reread(w) \/ Release(w) \/ Notify(w) \/ Bump(w) \/ Count(w)
Controller(s) ==
    \/ Enable(s) \/ ChangeLocked(s) \/ ChangeSetting(s) \/ WakeAll(s) \/ Tell(s) \/ TellBump(s)
    \/ SuspendRemove(s) \/ SuspendUnhook(s) \/ SuspendWait(s) \/ StirSuspended(s)
OwnerStep == Destroy \/ DestroyTell \/ DestroyBump \/ Join
Destroyed == owner = "destroyed" /\ UNCHANGED vars

Next ==
    \/ \E w \in Workers : Work(w) \/ TimeOut(w) \/ Spurious(w)
    \/ \E s \in Slots : Controller(s) \/ Ripen(s)
    \/ OwnerStep
    \/ Destroyed

Spec == Init /\ [][Next]_vars

(* Threads run, mutexes are granted to whoever keeps asking, timed waits   *)
(* end.  No one is obliged to change, suspend or destroy anything, but     *)
(* what has begun goes on.                                                 *)
Fairness ==
    /\ \A w \in Workers : SF_vars(Work(w)) /\ WF_vars(TimeOut(w))
    /\ \A s \in Slots : /\ SF_vars(WakeAll(s)) /\ WF_vars(Tell(s)) /\ WF_vars(TellBump(s))
                        /\ SF_vars(SuspendUnhook(s)) /\ SF_vars(SuspendWait(s))
    /\ WF_vars(DestroyTell) /\ WF_vars(DestroyBump) /\ WF_vars(Join)

FairSpec == Spec /\ Fairness

-----------------------------------------------------------------------------
PoolTypeOK ==
    /\ stopping \in BOOLEAN /\ member \in [Slots -> BOOLEAN] /\ inflight \in [Slots -> Nat]
    /\ poolLock \in Workers \cup Slots \cup {Owner, Unheld}
    /\ schedLock \in [Slots -> Workers \cup Slots \cup {Unheld}] /\ hooked \in [Slots -> BOOLEAN]
    /\ waiters \in Nat /\ seen \in SUBSET Workers
    /\ ready \in [Slots -> 0..MaxReady] /\ soon \in [Slots -> BOOLEAN]
    /\ pc \in [Workers -> {"top", "loop", "leased", "run", "notify", "bump", "count",
                           "idle", "asleep", "woken", "exited"}]
    /\ slot \in [Workers -> Slots \cup {NoSlot}]
    /\ registered \in [Workers -> BOOLEAN] /\ timed \in [Workers -> BOOLEAN]
    /\ ctl \in [Slots -> {"off", "joining", "on", "changing", "changed", "unhooking", "removed",
                          "draining", "waiting", "recheck"}]
    /\ telling \in SUBSET Slots
    /\ owner \in {"up", "telling", "bumping", "joining", "destroyed"}

(* No lost wake-up: when every worker sleeps, nothing is leasable now or   *)
(* by itself later unless a sleeper has a deadline or somebody who made it *)
(* so has still to tell the event.                                         *)
Telling == \/ \E s \in Slots : ctl[s] \in {"joining", "changing", "changed"}
           \/ owner \in {"telling", "bumping"}
NoLostWakeup ==
    (\A w \in Workers : pc[w] = "asleep") /\ ~Telling =>
      /\ ~stopping
      /\ \A s \in Slots : member[s] /\ (ready[s] > 0 \/ soon[s]) => \E w \in Workers : timed[w]

(* A suspended universe may be reset or freed: no worker runs its ants,    *)
(* nobody holds or is about to take its scheduler's lock, and it no longer *)
(* points at the pool's event.                                             *)
SuspendedUntouched ==
    \A s \in Slots : ctl[s] = "off" =>
      /\ schedLock[s] = Unheld /\ ~hooked[s] /\ inflight[s] = 0
      /\ \A w \in Workers : slot[w] # s

(* A controller that waits to suspend its universe is never forgotten: as  *)
(* long as it waits, a lease of that very slot is still out, whose return  *)
(* will wake it, although all slots share one condition variable.          *)
NoForgottenSuspension ==
    \A s \in Slots : ctl[s] = "waiting" => \E w \in Workers : slot[w] = s /\ inflight[s] > 0

(* A suspension ends, whichever other slots are being suspended.           *)
SuspendEnds == \A s \in Slots : ctl[s] = "removed" ~> ctl[s] = "off"

(* Leasable work is noticed: some worker runs, or the work goes away.      *)
Leasable == \E s \in Slots : member[s] /\ ready[s] > 0
WorkIsFound == Leasable ~> (~Leasable \/ \E w \in Workers : pc[w] = "run")

(* Destruction joins every worker, asleep or not. *)
DestroyEnds == stopping ~> owner = "destroyed"

(* The contract of the pool: a slot is released only when its users left.  *)
Phase == [s \in Slots |-> CASE ctl[s] = "off" -> "off"
                            [] ctl[s] \in {"joining", "on", "changing", "changed"} -> "open"
                            [] OTHER -> "closing"]
Contract == INSTANCE PoolContract WITH phase <- Phase,
                user <- [s \in Slots |-> {w \in Workers : slot[w] = s}]
ContractSpec == Contract!Spec

=============================================================================
