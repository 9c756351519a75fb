# Turmite Universe in TLA+

A verification project for the native program under `src/` (C, POSIX threads,
SDL): TLA+ modules of its concurrent core, TLC instances of them, and TLAPS
proofs of the results that matter most. Paths below are relative to the
repository's root unless they name a `.tla` or `.cfg` file.

## 1. The system

A *universe* is a torus of color cells (the tape) on which up to 32 *ants*
run small rules. A process holds one or more universes; one pool of worker
threads runs the ants of all of them, each universe has a controller thread,
and the main thread owns SDL: windows, input, presentation.

| Component | Files | State | Operations |
|---|---|---|---|
| Ant execution, occupancy | `src/ant.c`, `src/ant.h` | occupancy byte per cell; per ant: flag word, position, token balance and bucket, rule | execute a quantum, claim/vacate/replace a cell, mark a loser, release, reclaim, randomize, reincarnate, mutate |
| Scheduler | `src/scheduler.c` | lock, enabled mask, population, paused, draining, per-ant refill time, recovery time, credit | scan/recover/select/lease, release, pause, cull, drain, spawn, poll a drain, wake |
| Worker pool | `src/worker_pool.c` | members, in-flight counts, stopping, the event's epoch and waiters | worker loop, enable, suspend, destroy |
| Universe control | `src/main.c` | key ring, quit/restart/debug/paused, lifetime, done, failed | route a key, control loop, render, debug drain, export, restart, join and free |
| Frame hand-off | `src/main.c` | three slots, `ready_frame`, `displayed_frame`, SDL's queue | render, publish, push an event, take, present, wait |
| Debug capture | `src/dump.c` | ring of pages, next, count, deadline | capture, reset, export in chronological order |
| Rules, RNG | `src/rules.c`, `src/rng.c` | rule table; LFSR words | generate, mutate, draw |
| Rendering, PNG, SDL | `src/renderer*.c`, `src/png_image.c` | none of their own | conversion and I/O |
| Android saver | `android/app/src/main` | one colony, two workers, no pool; frame thread, surface, running or not | create, frame, destroy an engine; start and stop the frame thread |
| STM32 occupancy | `stm32/src` | occupancy bytes, 16 hardware semaphores | claim, replace, release, load |

### How they interact

* A worker asks every member scheduler for a candidate, leases an ant under
  that scheduler's lock, executes it with **no lock**, and returns it under the
  lock. What workers share while they execute is the tape (racy by design), the
  occupancy bytes and the flag words of *other* ants, both by atomic accesses.
* The scheduler's scan, run by whichever worker is looking for work, recovers
  the idle ants that were marked by collisions, one atomic access at a time,
  while other workers go on marking them.
* The controller changes a scheduler under its lock and then tells the pool's
  event; it suspends its universe (waiting for outstanding leases) before it
  resets, exports or frees it.
* Main passes keys and close requests to a controller under the view lock and
  takes frames from it under the same lock; pixels are written and read
  outside.

### What is hard here, and what makes each part correct

* *Occupancy and collisions.* Moving is vacate, claim, compare, replace, mark:
  five separate accesses, against other movers, recovery, retirement and
  spawning. Correct if no ant ever owns two bytes, an unmarked ant owns its
  byte, no byte outlives its ant, and no mark is lost.
* *Rules.* A rule may be replaced under an ant whose state a worker has yet to
  publish. Correct if no ant leaves its table and nothing reaches the rule of another.
* *Dispatch.* Time is turned into tokens with 64-bit products and rounding, at
  every scan of every worker; credits grow and shrink by different rules.
  Correct if time is paid once and in full, no worker sleeps past a full batch,
  and no ant starves.
* *Leases and balances.* A worker keeps a private copy of its ant's balance and
  stores decrements. Correct if nobody else writes a leased ant's balance.
* *Drains and culls.* Exhausted ants are found by three different loops and
  may be reborn on the way. Correct if the counters agree, nothing is earned
  during a drain, and the drain ends.
* *Sleeping and waking.* The event reads its number of waiters without a lock;
  deadlines are computed under other locks than they are slept on. Correct if
  no runnable ant is left with everybody asleep.
* *Suspension.* Correct if a suspended universe is nobody's.
* *Frames.* Correct if main never shows a torn or an old frame, shows each or a
  newer one while the universe lives, and notices its end.
* *Life of a universe.* Keys, lifetimes, closes, failures and drains arrive in
  any order. Correct if keys keep their order, a drain is final, exports once
  and at rest, and every close is obeyed.
* *Android saver.* Correct if nothing is drawn after the surface is gone, no
  engine is freed in use, every sleeping worker is sure to be woken, and every callback
  returns.
* *STM32 occupancy.* Correct if bytes whose semaphores are shared between cells
  are atomic all the same.
* *Dump ring.* Correct if the ring read in order is the window of the last
  pages, and the exported last page is the final tape.

`PROJECT.json` lists the hazards line by line, with the property that covers
each, or why none does yet.

## 2. The modules

| Module | Models | Role |
|---|---|---|
| `Colony` | `ant.c` and the scheduler around it | detailed, step = one observable atomic access |
| `MCColony` | | instance for TLC |
| `ColonyProofs` | | theorems of `Colony` |
| `WorkerPool` | `worker_pool.c`, the wake event, group acquisition | detailed |
| `PoolContract` | what the pool promises a universe | abstract; implemented by `WorkerPool`, used by `Universe` |
| `MCWorkerPool` | | instance for TLC |
| `PoolProofs` | | theorems of `WorkerPool`, the refinement of the contract included |
| `Frames` | frame hand-off of `main.c` | detailed |
| `FrameRegister` | a register of the newest unread frame | abstract; implemented by `Frames` |
| `FramesProofs` | | theorems of `Frames`, the refinement included |
| `Universe` | `main.c`: controller, key routing, end of a universe | composes the contract of the pool with the controller |
| `MCUniverse` | | instance for TLC |
| `UniverseProofs` | | theorems of `Universe`, its use of the contract included |
| `DumpRing` | `dump.c` and its use by the controller | detailed |
| `AndroidSaver` | `TurmiteView.java`, `engine.c`, standalone acquisition in `scheduler.c` | detailed |
| `PageWindow` | the window of the last pages | abstract; implemented by `DumpRing` |
| `DumpRingProofs` | | theorems of `DumpRing`, the refinement included |
| `Dispatch` | token refill, thresholds, credit, deadlines: `scheduler.c` under the workers of `worker_pool.c` | detailed, with time |
| `MCDispatch` | | instances for TLC |
| `DispatchProofs` | | theorems of `Dispatch` |
| `Machine` | `rules.c`, the interpreter and the edits of rules in `ant.c` | detailed |
| `MachineProofs` | | theorems of `Machine` |
| `Stripes` | `turmite_stm32_shared.c` | detailed |
| `AtomicBytes` | bytes with an atomic compare-and-swap | abstract; implemented by `Stripes` |
| `PortsProofs` | | theorems of `AndroidSaver`, and of `Stripes`, the refinement included |

`Colony` and `WorkerPool` meet at the lease: `Colony` has one universe and all
that happens to its ants, `WorkerPool` has several universes and reduces the
ants of each to "how many are leasable" (`ready`) and "some will become so by
themselves" (`soon`). `Universe` sees the pool only through `PoolContract`, and
`WorkerPool` is shown to implement exactly that module. `Universe` assumes, as
fairness of its action `Retire`, that a drain exhausts the ants: that is the
property `DrainCompletes` of `Colony`. What `Colony` leaves open about an ant is
in two modules beside it: `Dispatch` has the amounts and the choice (how much a
refill is, who wins, how long to sleep) and leaves collisions and drains out;
`Machine` has what an instruction does and leaves flags and cells out, taking
from `Colony` that a lease is exclusive. `Stripes` shows that the port keeps what
`Colony` assumes of an occupancy byte.

Operators named in a comment as *faulty variants* are plausible mistakes in the
line of code they stand beside. No specification uses them; they exist so that
each property can be seen to fail when that line is wrong.

`PoolTypeOK`, `FramesTypeOK`, `UniverseTypeOK`, `SaverTypeOK`, `DispatchTypeOK` and
`MachineTypeOK` state the types of their modules' variables; they are proved, and no
run spends its time on them.

### 2.1 Colony

State: the occupancy bytes `occ`, and per ant the published position `pos`, the
flag word `flags` (a set of the flag names of `ant.h`), `tokens`, `capacity`,
`earning` (token_rate is not zero), `timer` (`recovery_at_us`: none, pending,
due). The scheduler's `mask`, `population`, `draining`, `paused` and its lock
`holder`; `scanAt`/`scanStep` are where the scan of `candidate_locked` has got
to. Per worker its program counter and the locals of `ant_execute_quantum` and
`move_claim`.

| Actions | Code |
|---|---|
| `Acquire`, `Visit*`, `Recover*` | `candidate_locked`, first loop; `recover_ant` with `ant_release_occupancy`, `ant_rebirth_random`, `ant_try_reclaim_position` |
| `SelectNone`, `SelectLease` | its second loop, `accrue_tokens`, `lease_locked` |
| `Start`, `Halt`, `Hold`, `Move` | `ant_execute_quantum` |
| `Vacate`, `Claim`, `Contest`, `Replace`, `Mark` | `move_claim` |
| `Return` | publication of the position and `scheduler_release` |
| `SetPaused`, `Halve`, `BeginDrain`, `PollDrain` | the operator's commands in `scheduler.c` |
| `SpawnClaim`, `SpawnEnable` | `scheduler_spawn_ant`, split where `ant_randomize` has claimed a byte and not yet stored the flag word |

Grain. Where another thread can observe the difference each atomic access is
an action. Merged are: retirement of an ant (its flags are read by nobody
without the lock), the second loop (it writes only idle ants' balances),
publication and release (the position of a leased ant is read by nobody), a
load and the compare-and-swap that follows it (at the CAS; a failing one
changes nothing, and repeats or leaves the ant to the next scan), and the look of
`ant_try_reclaim_position`'s caller at the flags with the claim (a mark in between is as
good as one just after). A rebirth under a drain is two steps, `RecoverRebirth`
and `RecoverRestore`: workers contest cells by balances they read without the lock
(`ant.c:350`), so that the full bucket between them is a state of its own. Left open: what a rule makes an ant do, the amount of a
refill, when a pause ends, who wins by weighted credit. `Halve` lets
the population it reads, without the lock, be an older one. Left out: the
diagnostic counters, the credit, rule contents, `stopping`.

### 2.2 WorkerPool

State: `stopping`, `member`, `inflight`, the event's `waiters` and the set
`seen` of workers whose remembered generation is current; the pool's lock and
the schedulers' locks; `hooked` (the scheduler points at the pool's event); per
worker its place, its lease's slot, whether it is registered and sleeps with a
deadline; per universe the place of its controller; `owner` for the thread that
destroys the pool. Actions follow `run_worker`, `scheduler_acquire_group`,
`worker_pool_enable`, `worker_pool_suspend`, `worker_pool_destroy` and the
functions of `scheduler.c` that wake; condition waits may wake spuriously. A
generation is abstracted to "changed since I looked". A wake lock is never held
across two actions, so it does not appear.

### 2.3 Frames and FrameRegister

A frame is its number, written into two parts of a slot (pixels, HUD) in two
steps and read in two steps, so that a torn frame is a state. Main's wait may
end at any time (100 ms limit) or by an event that SDL accepted. The universe may end
(`Finish`) after any frame; main looks at `done` after it has taken a frame (`Test`),
then joins and destroys. A frame that is published between the two looks is destroyed unseen:
the 400 ms of `main.c:585` only make that unlikely, and `MainAnswers` does not promise the
last frame.

### 2.4 Universe and PoolContract

One action per step of `run_universe` and `universe_control` between which
another thread can act; `Press`, `Close` and `Free` are main's. The scheduler is
its modes and a number of live ants; the tape is reduced to whether it is
exactly the last exported frame (`frame`) and the last captured page (`page`).
Failures of opening the output, of a frame, of the export and of reseeding are
choices. `sent` and `applied` are history variables. Keys that only change
rates, quantum, HUD or population downwards are left out: they are single
stores or are in `Colony`.

### 2.5 DumpRing and PageWindow

The live tape is copied cell by cell while workers write. A page is its tape and
`changed_cells`; `latest` is a history variable. In a ring of one page the page
is overwritten before it is compared and `changed_cells` is always 0, as
`docs/DEBUGGING.md` says; the refinement holds for larger rings. It bounds the
ring too, so that there is no separate type invariant.

### 2.6 AndroidSaver

Three layers of threads: the user-interface thread runs one callback at a time
(`ui`, `task`) and inside it `stopFrames`, which raises the volatile flag,
interrupts and joins; the frame thread (`loop`) is `renderLoop`, with the
destruction of an engine in two steps; the workers (`pc`) run
`scheduler_acquire`, `ant_execute_quantum` and `scheduler_release`. Creation may fail before any
worker or after any of them, and so may a frame.

The idle ants are counted: `fit` for those that stand in their cells, `away` for those that pause or
wait for one, `marked` for those that were marked or halted since the last scan. A scan holds the
scheduler's lock through three steps, the loops of `candidate_locked` (`Recover`, `Select`,
`Rest`), and a worker that runs an ant may mark any idle one between them (`Collide`), as
`mark_collision_loser` takes no lock. Such an ant is passed over and leaves no deadline, so the
wait without a limit of `scheduler_acquire` (`scheduler.c:268`) can be reached with an idle ant pending; TLC
finds it with two ants and two workers. What holds, and suffices, is `SleepersCovered`: the worker that
marked the ant still runs, and its return wakes the sleeper.

`WorkerPool` leaves the marks of running workers out of its scan, for the same reason: the
return of the worker that made one tells the event.

### 2.7 Dispatch

State per ant: `tokens`, `age` (now minus `last_token_us`), `credit`, whether it
halted; the `quantum`; per worker its lease, grant and executed instructions, or
the time `nap` until the deadline it sleeps to.

| Actions | Code |
|---|---|
| `Lease`, `Sleep` | `scheduler_acquire_group` with `candidate_locked`, `accrue_tokens`, `recover_ant`, `lease_locked`, `token_deadline`; the wait of `run_worker` |
| `Awake` | the end of that wait by its deadline |
| `Execute` | `ant_execute_quantum`, as far as tokens and counts go |
| `Release` | `scheduler_release` with its refill and `notify_locked` |
| `SetQuantum` | the `[` and `]` keys |
| `Tick` | the monotonic clock |

A scan holds the locks of the pool and of all schedulers and is one action. Time is
relative, so that states repeat: an age stops where any bucket is full (in `dispatch` that takes two seconds), credits
farther apart than `MaxLead` count as that far. A reborn ant has the phenotype it
had. The widths of the integers (`WordMax`, `ShortMax`, `LongMod`) are scaled down
with the units, under the inequality that holds of the real ones; the `long
double` branch is taken to be exact. The shortest timed sleep is `MinNap`.

A scan by another worker rounds down what a sleeper's ant has earned, so a
deadline may come too early, and the worker scans in vain; that it never comes
too late, because time that earned nothing is kept, is `NeverOversleeps`.

### 2.8 Machine

`table` is the memory of rules: one per library entry, one private table per
slot, blank until used and kept by a restart. `rule` is the pointer of an ant,
`rule_index` what the debugger is told. `at` is where the worker of an ant is, `local` its
copy of the state, `got` the color it read and where. Reading a cell and writing it
are two steps, and so are the HALT of an ant and the publication of its state at the end
of the burst. `Edits` and `Mutants` are the results of `rules_mutate`, `Generated`
those of `rules_generate`; random numbers are choices. An instruction finds the
ant on any cell, so what is shown does not depend on where ants go.

### 2.9 Stripes and AtomicBytes

One caller per core, as `docs/stm32/README.md` requires. `claim`, `replace` and
`release` are the same five steps (lock, look, put, unlock, return) with another
expected and new byte; `load` is one step without the semaphore. `AtomicBytes`
lets each call take effect in one step between its beginning and its end.

## 3. What TLC checks

| Run | Bounds | Properties |
|---|---|---|
| `colony_three` | 3 ants, 2 workers, 3 cells, 1 token each; rules that move | `OneCellPerAnt`, `Residency` |
| `colony_operator` | 2 ants, 2 workers, 2 cells, a token of 2 units, a bucket of 3; spawn, cull, drain, pause | `TypeOK`, `NoGhosts`, `LeaseExclusive`, `PopulationAgrees`, `PrivateBalance`, `DrainingEarnsNothing`, `MarkNeverLost`, `DrainCreatesNothing`, `HalvingSpares` |
| `colony_drain` | 2 ants, 2 workers, 2 cells, quanta of 2 | `DrainCompletes` (liveness) |
| `colony_spawn_residency` | a spawn against running workers | `Residency` fails: a finding, see 5 |
| `pool_two_universes` | 2 workers, 2 universes, every kind of change | `NoLostWakeup`, `SuspendedUntouched`, `NoForgottenSuspension`, `ContractSpec` |
| `pool_liveness` | 2 workers, 1 universe, every kind of change | `WorkIsFound`, `SuspendEnds`, `DestroyEnds` (liveness) |
| `frames_handoff` | 3 slots, 4 frames, rejected events, an end at any time | `NoTearing`, `RegisterSpec`, `MainAnswers` (liveness) |
| `dump_ring` | 2 cells, 2 colors, 3 pages | `FinalPageIsFinal`, `WindowSpec` |
| `universe_life` | 2 workers, ring of 2 keys, 3 keys, 1 lifetime | `KeysInOrder`, `ModesAgree`, `ExportAtRest`, `FreedUnused`, `DrainIsFinal`, `ContractUsed`, `QuitEnds`, `DebugQuitEnds` (the last two liveness) |
| `android_saver` | 2 workers, 2 ants | `OffMeansOff`, `EngineFreedUnused`, `SleepersCovered`, `CallbacksEnd` (liveness) |
| `dispatch` | 2 ants of weights 1 and 2, rates 1 and 3, buckets of 1 and 3 tokens, ages of up to two seconds; 2 workers, quanta 2 and 3, 1 rebirth | `NeverOversleeps`, `NewbornNearBaseline`, `TimeIsPaid`, `EveryAntServed` (liveness) |
| `dispatch_small_batches` | weights 1 and 3, quantum 1, 1 worker | `EveryAntServed` fails: a finding, see 5 |

Why the bounds are enough to be interesting. A collision involves two ants, and
the hard races a third that takes the cell or its freed neighbour meanwhile;
two workers run two of them while either one scans. On a torus of as many
cells as ants every move is a possible collision, and a moved, retired or dead ant
leaves a free cell. A token of two units gives balances that are not whole. Two universes and
two workers are needed for a condition variable that several suspending
controllers share, and for a worker that finds nothing in one universe and
something in another. Three slots are the code's number. Four frames let the
slots rotate and the register skip one. A queue of two with three keys is full, refuses and wraps.
The dump ring wraps, restarts and wraps again. In `dispatch` one step of the
clock earns the slow ant half a unit, so that refills round to nothing and keep
their time, one bucket is smaller than a batch, and ages on both
sides of `ShortMax` take both branches of the refill; a slow ant that nobody looks at for
more than a second is paid for all of it. Two universes with a
suspended controller each are enough for one to take the other's wake-up; with
`NoForgottenSuspension`, a safety property, that case is checked with two universes
and `SuspendEnds` with one. Symmetry of workers is used
only where no liveness property is checked.

Bounds in guards: `MaxFrames`, `MaxKeys`, `MaxTimeouts`, `MaxHalts`; saturation: `FullAge`, `MaxLead`. All other state is finite
by itself. Deadlock is checked everywhere: the terminal states of `Universe`,
`WorkerPool`, `DumpRing` and `Frames` have a named stuttering action.

## 4. What TLAPS proves

For every number of workers and ants, every torus, every set of bucket sizes,
quantum, service and token size (`ColonyAssumption`, `LockAssumption`), in
`ColonyProofs`: `TypeCorrect`, `OneCell`, `Exclusive`, `Private`, `Population`,
`NoIncome`, `Marks`, `DrainBudget`, `Halving`, each `Spec => []` of the invariant or the
action property of the corresponding run.

The argument rests on one inductive invariant,

    IInv == TypeOK /\ LockInv /\ RosterInv /\ LeaseExclusive /\ ByteInv /\ PrivateBalance

`OneCellPerAnt` alone is not inductive: when a reclaim or a spawn writes a byte
one has to know that the ant has none elsewhere. `ByteInv` says where the
byte of an ant must be, if it has one: at its published position while it is
idle, at the cell its worker is leaving or holding while it runs. That follows
an ant through a lease only because a lease has exactly one worker
(`LeaseExclusive`) and the scan works only on idle, enabled ants (`LockInv`),
which in turn needs the mask to be the set of enabled ants (`RosterInv`).
`PrivateBalance` is needed for `tokens \in Nat`: a decrement is covered because
what is left of the grant is. There is one lemma per group of actions.

`Ghostless` and `Resides` add what a mark, a wait and a recovery say of a byte.
`NoGhosts` needs `WaitInv`: only an ant that the scheduler may recover waits, so
a leased one never does, and a recovery works on a waiting ant until its last
step. For `Residency` an ant must be followed through three owners of the truth:
its mark, a worker about to mark it, its byte. `Resident` says that one of them always
accounts for it (`Placed`), and `SettleInv` that a recovery that has taken the cell
back ends with that still so, although another worker may take the cell again before
the flag word is written. The theorem assumes `"spawn" \notin Commands`; with
spawns it is false, which is the first finding below, not a gap of the proof.

`DrainBudget` is about what an ant has to spend (`Remaining`): its balance, or, between the
two steps of a rebirth under a drain, what the scan has put aside. The balance by itself does rise, for
a moment. The scan gives back just what it put aside, since it holds the lock and no other step writes
an idle ant.

`Halving` is about one step, but about a choice among any number of ants. Of the `need`
ants that a cull takes, the strongest has all the others below it and, being one of the
weakest, fewer than `need` below it: so there are at most `need` (`LargestExists`,
`WeakestFew`). `PopulationAgrees` makes the population the number of enabled ants, and
a population read too early is larger and takes fewer. The property bounds each press,
not their sum: an ant that drains still counts in the population, so that pressing the
key again before the first ants have retired may in the end take every ant. That is the program's
rule (`docs/SPEC.md:63` leaves the counts on the way open), and no finding.

In `PoolProofs`, for every finite, non-empty set of workers (`worker_pool_create`
refuses zero), any slots and any bound `MaxReady` on leasable ants: `WakeupsAreNotLost`,
`SuspendedIsUntouched`, `SuspensionsAreNotForgotten`, `PoolKeepsContract` and
`PoolTypeCorrect`. The invariant is

    PoolInv == PoolTypeOK /\ PoolLockInv /\ SchedLockInv /\ SlotInv /\ CountInv /\ PhaseInv /\ WakeInv

`WakeInv` carries the argument for the event whose waiters are counted without a
lock: a worker that registered, then looked at the generation, and saw nothing since
may sleep, because whoever makes work after that finds it registered, and until it
has told the event it stands at a place that shows it (`Announced`). That is kept only if
work is made under locks, which is `PoolLockInv` and `SchedLockInv`: who holds which lock at which
place. `CountInv` says that `inflight` and `waiters` count what they are meant to;
their zero tests are then statements about workers, which gives the suspension
(`PhaseInv`) and, with `SlotInv`, every step of the contract.

In `UniverseProofs`, for every finite number of workers, every queue size, set of keys, bounds
and population: `KeysStayInOrder`, `ModesStayTogether`, `ExportsAtRest`, `FreedIsUnused`,
`DebugQuitIsFinal`, `UniverseKeepsContract`, `UniverseTypeCorrect`. None of these is inductive by itself. `MemberInv` says
where in its loop a controller is in the pool, so that the export and the freeing come after
the last worker; `FinalInv` that a universe that debugs has no restart pending and is on no
path to a new life (this is where taking back the restart in `universe_begin_debug_drain`, and a
lifetime that is suspended while debugging, are needed); `ExportInv` how far the export has got, at
each place; `KeysInv` that the ring is a queue, by two lemmas about a ring of any size
(`RingGrows`, `RingShrinks`). Together with `PoolKeepsContract`, `UniverseKeepsContract` says
that the two modules meet in one contract from its two sides.

In `DumpRingProofs`, for any tape and palette and every capacity the program accepts:
`LastPageIsFinal`, and `RingIsWindow` for more than one page (with one page
it is false and documented as a limitation, see 2.5). `RingInv` says where the ring is filled
and that the page captured last lies before the slot that is written next; `LastInv` that the
part of the last capture that has been copied is the final tape. The refinement then is arithmetic of the ring: a page
keeps its place in the window when the oldest one goes (`FinishCaptures`), and the slot being copied
is outside of it (`CopiedIsOutside`).

In `FramesProofs`, for any number of frames: `FramesTypes`, `Untorn`, and
`RegisterImplemented`, that `Frames` implements `FrameRegister`. The inductive invariant
adds `SlotInv`: who may touch which slot, that the unread and the displayed
slot hold complete frames, and which number each of them holds.

In `PortsProofs`, the two ports. For Android, any finite set of workers and at least one
ant: `SaverTypeCorrect`, `OffIsOff`, `FreedEngineUnused` and `SleepersAreCovered`. The invariant is

    SaverInv == Typed /\ ThreadInv /\ EngineInv /\ AntsInv /\ ScanInv /\ SleepersCovered

`ThreadInv` relates the callback that runs to the frame thread: one that is past its join has no thread, one that
is between callbacks has one only if active and on a surface. `EngineInv`
says where the frame thread owns an engine, and that only created workers are in it.
`AntsInv` says that every ant of an engine is idle in one of the three ways or leased; hence a scan that
leases nothing while nobody runs has ants to wait for. `ScanInv` says that only running workers mark
ants: if nobody runs, none was marked since the first loop, and the ants that are away have set the deadline.
So a worker that lies down without one has a running worker beside it, however the marks
fell, and the return of the last such worker wakes everybody (`SleepersAreCovered`).

For the STM32, any number of cores, cells and semaphores and any
assignment of cells to semaphores: `StripesSafe` and `StripesRefine` (the names of `Stripes` have the prefix
`Stm32` there). Two cores that hold one semaphore are one core, so what a core found is still there when it
decides; hence its look and its put are the compare-and-swap of `AtomicBytes`, which takes
effect at the put.

In `DispatchProofs`, for any number of ants and workers, any positive rates, weights,
capacities, units and batches, and any integer widths with
`WordMax * ShortMax * One < LongMod` (true of the real ones: (2^32-1)(2^16-1)2^16 < 2^64;
there is an ant, and a largest quantum): `NobodyOversleeps`, `EveryTimeIsPaid`,
`BaselineStays`, `NeverOverdrawn`. The invariant `Inv` adds to these what they need of each
other. That a deadline stays early enough under the scans of others takes
`Attended` (a scan revives halted ants, and a revived ant has a batch at once: so nobody may
be asleep while a free ant waits to be reborn) and two facts about quotients: rounding
down in parts loses and never gains (`DivOfParts`), and a rounded-up time is the first at
which the rounded-down income suffices (`TimeToEarn`). The baseline needs a case the
property does not show: an ant that still runs stands at zero exactly, so that after
paying for its batch it is at most a batch below. `Funded`, that a grant stays
covered, rests on `Alone`: scans refill only free ants.

In `MachineProofs`, for any number of ants, cells, states and colors and any library
of well-formed rules (hypothesis `Bounds`: there is a state and a color):
`Inside` (no ant leaves its table, colors stay in the palette, private tables are
private), `Kept` (programs change only by an ant's own recovery between
leases), `MutantsAreOtherRules` and `WritesReadBack`. The
invariant is `MachineTypeOK /\ InsideTable /\ ColorsInPalette /\ OwnTable`: the table of an
ant can only be known to contain its state if nobody else edits it, which is
`OwnTable`, and a mutation keeps the dimensions. It shows that the
fallback of the interpreter (`ant.c:409`) is never used. Small instances of both
modules were model-checked before the proofs; no run repeats what is
proved in general.

## 5. Findings

**A spawned ant can lose a collision mark** (`src/ant.c:205`, run
`colony_spawn_residency`). `ant_randomize` claims the byte of a cell and then stores the
flag word with a plain store. A worker whose ant contests the cell in between may
win, take the byte and mark the newborn; the store erases the mark. The newborn
then runs, unmarked, without owning a byte, until its next move. The other
runs of `Residency` therefore have no spawns; `OneCellPerAnt` holds, and is
proved, with them.

**A light ant can starve when batches are small** (`src/scheduler.c:215`, run
`dispatch_small_batches`). Every eligible ant gains its weight at each scan, chosen
or not; the chosen one pays the work it executed. With two ants the heavy one wins
again and again if the difference of their weights exceeds a batch; in general a light ant waits
forever if the weights of the others that are always eligible exceed a batch plus
that ant's own weight for each of them. With the default quantum (320) and weights of at most 16
it takes many ants that always have a full batch; with the quanta of 1 or 2 that the options and the `[`
key allow it takes two. `scheduler.h` calls the dispatcher weighted-fair. In the run `dispatch`
batches outweigh the weights, and nobody starves.

**Time across long sleeps** (`src/scheduler.c:38`, run `dispatch`). The code pays all the time
since the last refill, up to the bucket, and its comment says why. `docs/SPEC.md:28` clamps
elapsed time to one second; `docs/SPEC.md:76` agrees with the code. `TimeIsPaid` states what the
code does; `EarnedClamped` is the reading of line 28, and violates it.

Seen while modelling, without a run of its own:

* Between the stores of `ant.c:78` and `scheduler.c:109` a halted ant that is reborn during a drain
  shows a full bucket. It has given up its cell by then, but a worker that read its byte before may
  compare balances with it (`ant.c:350`), lose the contest to that bucket and be marked. `Colony` has these steps;
  what the ant can spend does not change (`DrainCreatesNothing`), and the loser recovers.
* `docs/SPEC.md:30` says that idle workers wait about 1 ms. The code waits until
  the earliest deadline, and 1 ms is the least (`scheduler.c:271`, `worker_pool.c:43`), as `docs/ARCHITECTURE.md:25` says.
* A frame published just before `done` may be destroyed unseen (2.3).

## 6. Fairness

* `Colony`: threads run (weak fairness of a worker's steps), a mutex is granted
  to whoever asks again and again (strong fairness of `Acquire` and `Return`,
  which need the lock), a pause ends, a spawn that has begun is finished.
  Nothing obliges an operator to give a command or a rule to move or to halt.
* `WorkerPool`: the same for threads and locks; a timed wait ends. Suspending and
  destroying are not obliged to begin, only to go on.
* `Frames`: both threads run; a timed wait ends. The universe need not end (`Finish`).
* `AndroidSaver`: threads run and quanta end, the scheduler's lock is granted to
  whoever asks again and again (strong fairness of `DestroyStop` and of a worker's
  `Recover` and `Release`); a callback that has begun goes on, none is obliged to
  come, and no ant need collide.
* `Dispatch`: threads run and time passes; the quantum need not change, and no
  ant need halt.
* `Universe`: the controller runs, quanta end, main frees what is done, and a
  drain exhausts its ants (`Retire`).

## 7. Only model-checked

Liveness under fairness is out of the prover's reach: `DrainCompletes`,
`SuspendEnds`, `WorkIsFound`, `DestroyEnds`, `MainAnswers`, `QuitEnds`,
`DebugQuitEnds`, `CallbacksEnd`, `EveryAntServed`.

Every safety property that a passing run checks is also a theorem, under the hypotheses
of section 4. `WindowSpec` for a ring of one page and `Residency` with spawns are
false, as said above. That sleepers wake, keys are obeyed and drains end is therefore known for
the instances of section 3 only; the theorems give what these arguments start
from (`NoLostWakeup`, `SleepersCovered`, `NeverOversleeps`, `DrainCreatesNothing`).

## 8. Not modelled

Rendering, PNG encoding, SDL calls and palettes (conversion and I/O); the random
number generator (its uses are choices) and the distribution of what it draws; the contents of the built-in library; the text of manifests; allocation; the Java classes other than the view; tools, rule
laboratory and benchmarks. `PROJECT.json` says why for each component.

## 9. Plan

Done, in the order of importance: `Colony`, `WorkerPool`, `Frames`, `DumpRing`,
`Universe`, `AndroidSaver`, `Dispatch`, `Stripes` and `Machine`, each with its proofs.
What would come next:

1. A composition of `Dispatch` and `Colony` in one module, so that the bound on credit and the
   collisions meet; today each leaves open what the other one decides.
2. The counts of a halving over several presses, if the program ever promises a
   lower bound for them.
3. Refinements of the rendering and the PNG encoder as pure functions, where a property
   other than their output's bytes can be stated.
