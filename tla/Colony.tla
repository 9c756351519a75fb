------------------------------- MODULE Colony -------------------------------
(***************************************************************************)
(* One universe's ant colony: workers that execute leased ants without a   *)
(* lock (ant.c) against the scheduler that leases, recovers, retires and   *)
(* spawns them under its mutex (scheduler.c).                              *)
(*                                                                         *)
(* Shared words (occupancy bytes, flags, token balances) change one atomic *)
(* access at a time wherever another thread could tell the difference; a   *)
(* run of accesses nobody can observe between is one action.  What a rule  *)
(* makes an ant do next (HALT, hold, move in a heading) is left open, and  *)
(* so are the amount of a refill, the end of a recovery pause and the WFQ  *)
(* winner among the eligible ants.                                         *)
(***************************************************************************)
EXTENDS Integers, FiniteSets, Functions

CONSTANTS Workers,      \* worker threads of the pool
          MaxAnts,      \* TURMITE_MAX_ANTS
          InitialAnts,  \* ants placed by universe_seed
          Width, Height,\* the torus
          TokenOne,     \* fixed-point units of one whole token
          Capacities,   \* bucket capacities a phenotype may have, in those units
          Quantum,      \* longest grant, in instructions
          MinService,   \* normal dispatch threshold
          HalveAbove,   \* the halving key acts above this population: 2
          Effects,      \* what the rules of this instance make an ant do
          Commands      \* operator commands this instance exercises

Ants  == 1..MaxAnts
NoAnt == 0
Cells == (0 .. Width - 1) \X (0 .. Height - 1)
Origin == <<0, 0>>

ASSUME ColonyAssumption ==
    /\ MaxAnts \in Nat \ {0} /\ InitialAnts \in Ants
    /\ Width \in Nat \ {0} /\ Height \in Nat \ {0}
    /\ TokenOne \in Nat \ {0}
    /\ Capacities # {} /\ \A b \in Capacities : b \in Nat /\ b >= TokenOne
    /\ Quantum \in Nat \ {0} /\ MinService \in Nat \ {0} /\ HalveAbove \in Nat
    /\ Effects \subseteq {"halt", "hold", "move"}
    /\ Commands \subseteq {"pause", "cull", "drain", "spawn"}

CONSTANTS Controller, Nobody   \* lock holders other than workers
ASSUME LockAssumption == Controller # Nobody /\ {Controller, Nobody} \cap Workers = {}

Flag == {"ENABLED", "LEASED", "CLOBBERED", "EXPIRED", "DRAINING", "HALTED", "DISPLACED", "WAITING"}

VARIABLES
    occ,        \* occupancy byte of a cell: an ant, or NoAnt
    pos,        \* published position of an ant
    flags,      \* flag word of an ant
    tokens,     \* token balance of an ant
    capacity,   \* its bucket capacity
    earning,    \* token_rate of the ant is not zero
    timer,      \* recovery_at_us: none, in the future, or reached
    mask,       \* enabled_mask
    population, \* active_population
    draining, paused,
    holder,     \* who has the scheduler lock
    scanAt,     \* candidate_locked's first loop: the ant it is at
    scanStep,   \* and where in that ant's recovery it is
    pc, lessee, left, cell, from, rival, balance  \* a worker's locals

bucket == <<capacity, earning>>
roster == <<mask, population>>
mode   == <<draining, paused>>
shared == <<occ, pos, flags, tokens, bucket, timer, roster, mode>>
lock   == <<holder, scanAt, scanStep>>
local  == <<pc, lessee, left, cell, from, rival, balance>>
vars   == <<shared, lock, local>>

-----------------------------------------------------------------------------
Has(i, f) == f \in flags[i]
HasAny(i, S) == flags[i] \cap S # {}
Flagged(i) == HasAny(i, {"CLOBBERED", "HALTED"})
Lowest(i, S) == i \in S /\ \A j \in S : i <= j
Largest == CHOOSE b \in Capacities : \A k \in Capacities : k <= b

Wrap(v, n) == IF v < 0 THEN v + n ELSE IF v >= n THEN v - n ELSE v
Headings == {<<0, -1>>, <<1, 0>>, <<0, 1>>, <<-1, 0>>}
Step(c, h) == <<Wrap(c[1] + h[1], Width), Wrap(c[2] + h[2], Height)>>

Running(w) == pc[w] # "idle"

(* Faulty variant of Released: the ant leaves and its byte stays.          *)
ReleasedNothing(R) == occ

(* ant_release_occupancy for a set of idle ants.                           *)
Released(R) == [c \in Cells |-> IF occ[c] \in R /\ pos[occ[c]] = c THEN NoAnt ELSE occ[c]]

Init ==
    /\ pos \in [Ants -> Cells]
    /\ \A i, j \in 1..InitialAnts : i # j => pos[i] # pos[j]
    /\ \A i \in Ants : i > InitialAnts => pos[i] = Origin
    /\ occ = [c \in Cells |->
                IF \E i \in 1..InitialAnts : pos[i] = c
                THEN CHOOSE i \in 1..InitialAnts : pos[i] = c ELSE NoAnt]
    /\ flags = [i \in Ants |-> IF i <= InitialAnts THEN {"ENABLED"} ELSE {}]
    /\ capacity \in {b \in [Ants -> Capacities \cup {0}] : \A i \in Ants : b[i] = 0 <=> i > InitialAnts}
    /\ tokens = capacity
    /\ earning = [i \in Ants |-> i <= InitialAnts]
    /\ timer = [i \in Ants |-> "none"]
    /\ mask = 1..InitialAnts
    /\ population = InitialAnts
    /\ draining = FALSE /\ paused = FALSE
    /\ holder = Nobody /\ scanAt = 1 /\ scanStep = "visit"
    /\ pc = [w \in Workers |-> "idle"]
    /\ lessee = [w \in Workers |-> NoAnt]
    /\ left = [w \in Workers |-> 0]
    /\ cell = [w \in Workers |-> Origin]
    /\ from = [w \in Workers |-> Origin]
    /\ rival = [w \in Workers |-> NoAnt]
    /\ balance = [w \in Workers |-> 0]

-----------------------------------------------------------------------------
(* The scheduler's scan, by an idle worker that holds the lock: it visits  *)
(* the enabled ants that are not leased, and only the lock changes these.  *)

(* Faulty variant: the scan does not skip the ants that are leased.        *)
AnyAfter(k) == {j \in mask : j > k}
IdleAfter(k) == {j \in mask : j > k /\ ~Has(j, "LEASED")}

ScanAfter(k) ==
    /\ scanStep' = "visit"
    /\ IF IdleAfter(k) = {} THEN scanAt' = MaxAnts + 1
       ELSE \E j \in IdleAfter(k) : Lowest(j, IdleAfter(k)) /\ scanAt' = j
NextAnt == ScanAfter(scanAt)

Acquire(w) ==
    /\ pc[w] = "idle" /\ holder = Nobody
    /\ holder' = w /\ ScanAfter(0)
    /\ UNCHANGED <<shared, local>>

Expired(i) == Has(i, "DRAINING") /\ Has(i, "ENABLED") /\ tokens[i] < TokenOne

(* Faulty variant: a retired ant keeps ENABLED.                            *)
RetireKeepsEnabled(i) == (flags[i] \cup {"EXPIRED"}) \ {"DRAINING"}
RetireFlags(i) == (flags[i] \cup {"EXPIRED"}) \ {"ENABLED", "DRAINING"}

(* retire_draining on every ant of R: the slot is free and owns no cell.   *)
Retire(R) ==
    /\ flags' = [i \in Ants |-> IF i \in R THEN RetireFlags(i) ELSE flags[i]]
    /\ occ' = Released(R)
    /\ mask' = mask \ R
    /\ population' = population - Cardinality(R)

Visiting(w, i) == holder = w /\ scanStep = "visit" /\ scanAt = i /\ i \in mask
Exhausted(i) == draining /\ Expired(i)

VisitNone(w, i) ==
    /\ Visiting(w, i) /\ ~Exhausted(i)
    /\ ~HasAny(i, {"CLOBBERED", "HALTED", "WAITING"})
    /\ NextAnt
    /\ UNCHANGED <<shared, local, holder>>

VisitRetire(w, i) ==
    /\ Visiting(w, i) /\ Exhausted(i)
    /\ Retire({i}) /\ NextAnt
    /\ UNCHANGED <<pos, tokens, bucket, timer, mode, holder, local>>

(* The first idle scan of a clobbered ant starts its pause; until the      *)
(* deadline later scans leave it alone.                                    *)
(* PauseForgotten is a faulty variant that never sets the deadline.        *)
PauseForgotten(t) == "none"
PauseTimer(t) == IF t = "none" THEN "pending" ELSE t

VisitPause(w, i) ==
    /\ Visiting(w, i) /\ ~Exhausted(i)
    /\ Has(i, "CLOBBERED") /\ ~Has(i, "HALTED") /\ timer[i] # "due"
    /\ timer' = [timer EXCEPT ![i] = PauseTimer(@)]
    /\ NextAnt
    /\ UNCHANGED <<occ, pos, flags, tokens, bucket, roster, mode, holder, local>>

(* The successful compare-and-swap that clears the event and sets WAITING. *)
(* When it fails (a fresh mark arrived) the code leaves the ant for the    *)
(* next scan, as if it had not been visited.                               *)
VisitClear(w, i) ==
    /\ Visiting(w, i) /\ ~Exhausted(i)
    /\ Has(i, "HALTED") \/ (Has(i, "CLOBBERED") /\ timer[i] = "due")
    /\ flags' = [flags EXCEPT ![i] = (@ \ {"CLOBBERED", "HALTED", "DISPLACED"}) \cup {"WAITING"}]
    /\ timer' = [timer EXCEPT ![i] = "none"]
    /\ scanStep' = IF Has(i, "HALTED") THEN "rebirth" ELSE "release"
    /\ UNCHANGED <<occ, pos, tokens, bucket, roster, mode, holder, scanAt, local>>

VisitWaiting(w, i) ==
    /\ Visiting(w, i) /\ ~Exhausted(i)
    /\ Has(i, "WAITING") /\ ~Flagged(i)
    /\ scanStep' = "reclaim"
    /\ UNCHANGED <<shared, local, holder, scanAt>>

(* The displaced or reborn ant lets go of its published cell, if it still  *)
(* has it.                                                                 *)
RecoverRelease(w) ==
    /\ holder = w /\ scanStep \in {"release", "rebirth"}
    /\ occ' = Released({scanAt})
    /\ scanStep' = IF scanStep = "release" THEN "reclaim" ELSE "refill"
    /\ UNCHANGED <<pos, flags, tokens, bucket, timer, roster, mode, holder, scanAt, local>>

(* HALT: a fresh phenotype with a full bucket, no longer culled.  Workers  *)
(* that contest a cell see that bucket; under a drain the scan remembers   *)
(* what remained.  (The variant keeps the ant culled at its new rate.)     *)
RebirthStaysCulled(i) == flags[i]
RebirthFlags(i) == flags[i] \ {"DRAINING", "EXPIRED"}

RecoverRebirth(w) ==
    /\ holder = w /\ scanStep = "refill"
    /\ flags' = [flags EXCEPT ![scanAt] = RebirthFlags(scanAt)]
    /\ \E b \in Capacities : /\ capacity' = [capacity EXCEPT ![scanAt] = b]
                             /\ tokens' = [tokens EXCEPT ![scanAt] = b]
    /\ earning' = [earning EXCEPT ![scanAt] = TRUE]
    /\ balance' = [balance EXCEPT ![w] = IF draining THEN tokens[scanAt] ELSE 0]
    /\ scanStep' = IF draining THEN "restore" ELSE "reclaim"
    /\ UNCHANGED <<occ, pos, timer, roster, mode, holder, scanAt, pc, lessee, left, cell, from, rival>>

(* Under a drain the reborn ant gets back what remained, earns nothing and *)
(* drains.  (The variant leaves it the bucket of its rebirth.)             *)
RestoredFull(w) == tokens[scanAt]
Restored(w) == balance[w]

RecoverRestore(w) ==
    /\ holder = w /\ scanStep = "restore" /\ draining
    /\ tokens' = [tokens EXCEPT ![scanAt] = Restored(w)]
    /\ earning' = [earning EXCEPT ![scanAt] = FALSE]
    /\ flags' = [flags EXCEPT ![scanAt] = @ \cup {"DRAINING"}]
    /\ balance' = [balance EXCEPT ![w] = 0]
    /\ scanStep' = "reclaim"
    /\ UNCHANGED <<occ, pos, capacity, timer, roster, mode, holder, scanAt, pc, lessee, left, cell, from, rival>>

(* ant_try_reclaim_position: an unmarked ant takes its cell if it can.  A  *)
(* mark between the look at the flags and the claim is as good as one made *)
(* just after the claim: the ant keeps its mark either way.                *)
(* ReclaimAlways is a faulty variant that does not look who is there.      *)
ReclaimAlways(i) == TRUE
Reclaimable(i) == occ[pos[i]] \in {NoAnt, i}

RecoverReclaim(w) ==
    /\ holder = w /\ scanStep = "reclaim"
    /\ IF ~Flagged(scanAt) /\ Reclaimable(scanAt)
       THEN /\ occ' = [occ EXCEPT ![pos[scanAt]] = scanAt]
            /\ scanStep' = "settle" /\ UNCHANGED scanAt
       ELSE NextAnt /\ UNCHANGED occ
    /\ UNCHANGED <<pos, flags, tokens, bucket, timer, roster, mode, holder, local>>

(* WAITING ends, and nothing else: a mark made meanwhile stays.            *)
(* SettledClean is a faulty variant that clears the whole event here.      *)
SettledClean(i) == flags[i] \ {"WAITING", "CLOBBERED", "DISPLACED"}
Settled(i) == flags[i] \ {"WAITING"}

RecoverSettle(w) ==
    /\ holder = w /\ scanStep = "settle"
    /\ flags' = [flags EXCEPT ![scanAt] = Settled(scanAt)]
    /\ NextAnt
    /\ UNCHANGED <<occ, pos, tokens, bucket, timer, roster, mode, holder, local>>

-----------------------------------------------------------------------------
(* candidate_locked's second loop and lease_locked.                        *)

Minimum(a, b) == IF a < b THEN a ELSE b
(* Faulty variant: ants that are out with a worker are refilled too.       *)
ScannedLeased == {i \in mask : Has(i, "ENABLED") /\ ~HasAny(i, {"CLOBBERED", "EXPIRED", "DISPLACED"})}
Scanned == {i \in mask : Has(i, "ENABLED") /\ ~HasAny(i, {"LEASED", "CLOBBERED", "EXPIRED", "DISPLACED"})}
Runnable(i) == ~HasAny(i, {"LEASED", "CLOBBERED", "EXPIRED", "HALTED", "DISPLACED", "WAITING"})

(* Balances the lazy refill may produce: nothing is taken from an ant that *)
(* a drained rebirth left with more than its new bucket holds.             *)
Full(i) == IF tokens[i] > capacity[i] THEN tokens[i] ELSE capacity[i]
Accrued(i) == IF draining \/ ~earning[i] THEN {tokens[i]} ELSE tokens[i] .. Full(i)

(* What a dispatch needs: a draining ant may spend its last partial batch. *)
(* Faulty variants: no exception for draining ants, and an unpaid grant.   *)
RequiredBatch(i) == Minimum(Minimum(MinService, Quantum), capacity[i] \div TokenOne)
Required(i) == IF Has(i, "DRAINING") THEN 1
               ELSE Minimum(Minimum(MinService, Quantum), capacity[i] \div TokenOne)
GrantUnpaid(t) == Quantum
Grant(t) == Minimum(Quantum, t \div TokenOne)

Balances == {t \in [Ants -> 0..Largest] :
               \A i \in Ants : t[i] \in (IF i \in Scanned THEN Accrued(i) ELSE {tokens[i]})}

SelectNone(w) ==
    /\ holder = w /\ scanAt = MaxAnts + 1
    /\ holder' = Nobody /\ scanAt' = 1 /\ scanStep' = "visit"
    /\ \/ paused /\ UNCHANGED shared
       \/ /\ ~paused
          /\ \E t \in Balances :
               LET out == {i \in Scanned : Has(i, "DRAINING") /\ t[i] < TokenOne} IN
               /\ \A i \in Scanned \ out : ~(Runnable(i) /\ t[i] \div TokenOne >= Required(i))
               /\ tokens' = t
               /\ Retire(out)
          /\ UNCHANGED <<pos, bucket, timer, mode>>
    /\ UNCHANGED local

SelectLease(w, i) ==
    /\ holder = w /\ scanAt = MaxAnts + 1 /\ ~paused
    /\ holder' = Nobody /\ scanAt' = 1 /\ scanStep' = "visit"
    /\ \E t \in Balances :
         LET out == {j \in Scanned : Has(j, "DRAINING") /\ t[j] < TokenOne} IN
         /\ i \in Scanned \ out /\ Runnable(i) /\ t[i] \div TokenOne >= Required(i)
         /\ tokens' = t
         /\ flags' = [j \in Ants |-> IF j \in out THEN RetireFlags(j)
                                     ELSE IF j = i THEN flags[j] \cup {"LEASED"} ELSE flags[j]]
         /\ occ' = Released(out)
         /\ mask' = mask \ out
         /\ population' = population - Cardinality(out)
         /\ left' = [left EXCEPT ![w] = Grant(t[i])]
    /\ pc' = [pc EXCEPT ![w] = "start"]
    /\ lessee' = [lessee EXCEPT ![w] = i]
    /\ cell' = [cell EXCEPT ![w] = pos[i]]
    /\ UNCHANGED <<pos, bucket, timer, mode, from, rival, balance>>

-----------------------------------------------------------------------------
(* ant_execute_quantum and move_claim: the worker, outside every lock.     *)

Goto(w, label) == pc' = [pc EXCEPT ![w] = label]

(* A mark that arrived before the first look at the flags ends the grant.  *)
Start(w) ==
    LET i == lessee[w] IN
    /\ pc[w] = "start"
    /\ IF Has(i, "ENABLED") /\ ~HasAny(i, {"HALTED", "CLOBBERED", "WAITING", "DISPLACED"})
       THEN Goto(w, "loop") /\ balance' = [balance EXCEPT ![w] = tokens[i]]
       ELSE Goto(w, "done") /\ UNCHANGED balance
    /\ UNCHANGED <<shared, lock, lessee, left, cell, from, rival>>

Spend(w) ==
    /\ pc[w] = "loop" /\ left[w] > 0 /\ ~Flagged(lessee[w])
    /\ left' = [left EXCEPT ![w] = @ - 1]
    /\ balance' = [balance EXCEPT ![w] = @ - TokenOne]
    /\ tokens' = [tokens EXCEPT ![lessee[w]] = balance[w] - TokenOne]

Halt(w) ==
    /\ "halt" \in Effects /\ Spend(w)
    /\ flags' = [flags EXCEPT ![lessee[w]] = @ \cup {"HALTED"}]
    /\ Goto(w, "done")
    /\ UNCHANGED <<occ, pos, bucket, timer, roster, mode, lock, lessee, cell, from, rival>>

Hold(w) ==
    /\ "hold" \in Effects /\ Spend(w)
    /\ UNCHANGED <<occ, pos, flags, bucket, timer, roster, mode, lock, pc, lessee, cell, from, rival>>

Move(w) ==
    /\ "move" \in Effects /\ Spend(w)
    /\ \E h \in Headings :
         /\ cell' = [cell EXCEPT ![w] = Step(@, h)]
         /\ Goto(w, IF Step(cell[w], h) = cell[w] THEN "claim" ELSE "vacate")
    /\ from' = [from EXCEPT ![w] = cell[w]]
    /\ UNCHANGED <<occ, pos, flags, bucket, timer, roster, mode, lock, lessee, rival>>

(* The source byte is cleared only if it is still this ant's.              *)
(* VacatedNever is a faulty variant that leaves it.                        *)
VacatedNever(c, i) == occ[c]
Vacated(c, i) == IF occ[c] = i THEN NoAnt ELSE occ[c]

Vacate(w) ==
    /\ pc[w] = "vacate"
    /\ occ' = [occ EXCEPT ![from[w]] = Vacated(from[w], lessee[w])]
    /\ Goto(w, "claim")
    /\ UNCHANGED <<pos, flags, tokens, bucket, timer, roster, mode, lock, lessee, left, cell, from, rival, balance>>

(* Empty (or already ours): the move is done.  Otherwise there is a rival. *)
Claim(w) ==
    LET owner == occ[cell[w]] IN
    /\ pc[w] = "claim"
    /\ IF owner \in {NoAnt, lessee[w]}
       THEN /\ occ' = [occ EXCEPT ![cell[w]] = lessee[w]]
            /\ Goto(w, "loop") /\ UNCHANGED rival
       ELSE /\ Goto(w, "contest")
            /\ rival' = [rival EXCEPT ![w] = owner]
            /\ UNCHANGED occ
    /\ UNCHANGED <<pos, flags, tokens, bucket, timer, roster, mode, lock, lessee, left, cell, from, balance>>

SelfWins(i, j) == tokens[i] > tokens[j] \/ (tokens[i] = tokens[j] /\ i < j)
Marked(i) == [flags EXCEPT ![i] = @ \cup {"CLOBBERED", "DISPLACED"}]

Contest(w) ==
    /\ pc[w] = "contest"
    /\ IF SelfWins(lessee[w], rival[w])
       THEN Goto(w, "replace") /\ UNCHANGED <<flags, rival>>
       ELSE /\ flags' = Marked(lessee[w])
            /\ Goto(w, "done")
            /\ rival' = [rival EXCEPT ![w] = NoAnt]
    /\ UNCHANGED <<occ, pos, tokens, bucket, timer, roster, mode, lock, lessee, left, cell, from, balance>>

Replace(w) ==
    /\ pc[w] = "replace"
    /\ IF occ[cell[w]] = rival[w]
       THEN /\ occ' = [occ EXCEPT ![cell[w]] = lessee[w]]
            /\ Goto(w, "mark") /\ UNCHANGED rival
       ELSE /\ Goto(w, "claim")
            /\ rival' = [rival EXCEPT ![w] = NoAnt]
            /\ UNCHANGED occ
    /\ UNCHANGED <<pos, flags, tokens, bucket, timer, roster, mode, lock, lessee, left, cell, from, balance>>

Mark(w) ==
    /\ pc[w] = "mark"
    /\ flags' = Marked(rival[w])
    /\ rival' = [rival EXCEPT ![w] = NoAnt]
    /\ Goto(w, "loop")
    /\ UNCHANGED <<occ, pos, tokens, bucket, timer, roster, mode, lock, lessee, left, cell, from, balance>>

(* Publish the position, then scheduler_release under the lock.            *)
Finished(w) == \/ pc[w] = "done"
               \/ pc[w] = "loop" /\ (left[w] = 0 \/ Flagged(lessee[w]))

Return(w) ==
    LET i == lessee[w] IN
    /\ Finished(w) /\ holder = Nobody
    /\ pos' = [pos EXCEPT ![i] = cell[w]]
    /\ flags' = [flags EXCEPT ![i] = @ \ {"LEASED"}]
    /\ \E t \in Accrued(i) : tokens' = [tokens EXCEPT ![i] = t]
    /\ pc' = [pc EXCEPT ![w] = "idle"]
    /\ lessee' = [lessee EXCEPT ![w] = NoAnt]
    /\ left' = [left EXCEPT ![w] = 0]
    /\ cell' = [cell EXCEPT ![w] = Origin]
    /\ from' = [from EXCEPT ![w] = Origin]
    /\ balance' = [balance EXCEPT ![w] = 0]
    /\ UNCHANGED <<occ, bucket, timer, roster, mode, lock, rival>>

-----------------------------------------------------------------------------
(* Time, and the universe's controller thread.                             *)

PauseElapses(i) ==
    /\ timer[i] = "pending"
    /\ timer' = [timer EXCEPT ![i] = "due"]
    /\ UNCHANGED <<occ, pos, flags, tokens, bucket, roster, mode, lock, local>>

SetPaused ==
    /\ "pause" \in Commands /\ holder = Nobody
    /\ \E p \in BOOLEAN : paused' = (p /\ ~draining)
    /\ UNCHANGED <<occ, pos, flags, tokens, bucket, timer, roster, draining, lock, local>>

(* The `need` weakest ants that are idle and not yet draining.             *)
Available == {i \in Ants : Has(i, "ENABLED") /\ ~HasAny(i, {"LEASED", "DRAINING"})}
Weaker(j, i) == tokens[j] < tokens[i] \/ (tokens[j] = tokens[i] /\ j < i)
(* Faulty variant: one more than needed.                                   *)
WeakestAndOne(need) == {i \in Available : Cardinality({j \in Available : Weaker(j, i)}) <= need}
Weakest(need) == {i \in Available : Cardinality({j \in Available : Weaker(j, i)}) < need}

Cull(target) ==
    /\ "cull" \in Commands /\ holder = Nobody /\ target < population
    /\ LET victims == Weakest(population - target) IN
       /\ flags' = [i \in Ants |-> IF i \in victims THEN flags[i] \cup {"DRAINING"} ELSE flags[i]]
       /\ earning' = [i \in Ants |-> earning[i] /\ i \notin victims]
    /\ UNCHANGED <<occ, pos, tokens, capacity, timer, roster, mode, lock, local>>

(* The halving key.  Its handler reads the population without the lock, so *)
(* the number it halves may be older, and larger, than the current one.    *)
Halve == ~draining /\ \E seen \in population..MaxAnts : seen > HalveAbove /\ Cull(seen \div 2)

BeginDrain ==
    /\ "drain" \in Commands /\ holder = Nobody /\ ~draining
    /\ draining' = TRUE /\ paused' = FALSE
    /\ flags' = [i \in Ants |-> IF Has(i, "ENABLED") THEN flags[i] \cup {"DRAINING"} ELSE flags[i]]
    /\ earning' = [i \in Ants |-> earning[i] /\ ~Has(i, "ENABLED")]
    /\ UNCHANGED <<occ, pos, tokens, capacity, timer, roster, lock, local>>

(* scheduler_drain_complete retires what it finds exhausted.               *)
PollDrain ==
    /\ holder = Nobody /\ draining
    /\ Retire({i \in Ants : ~Has(i, "LEASED") /\ Expired(i)})
    /\ UNCHANGED <<pos, tokens, bucket, timer, mode, lock, local>>

(* scheduler_spawn_ant: the lowest free slot gets a fresh bucket and, when *)
(* one is empty, a cell.  The flag word is stored only afterwards.         *)
SpawnClaim ==
    /\ "spawn" \in Commands /\ holder = Nobody /\ ~draining /\ mask # Ants
    /\ \E slot \in Ants, b \in Capacities :
         /\ Lowest(slot, Ants \ mask)
         /\ capacity' = [capacity EXCEPT ![slot] = b]
         /\ tokens' = [tokens EXCEPT ![slot] = b]
         /\ earning' = [earning EXCEPT ![slot] = TRUE]
         /\ \/ \E c \in Cells :
                 /\ occ[c] = NoAnt
                 /\ occ' = [occ EXCEPT ![c] = slot]
                 /\ pos' = [pos EXCEPT ![slot] = c]
                 /\ holder' = Controller /\ scanAt' = slot
            \/ /\ \A c \in Cells : occ[c] # NoAnt
               /\ UNCHANGED <<occ, pos, holder, scanAt>>
    /\ UNCHANGED <<flags, timer, roster, mode, scanStep, local>>

SpawnEnable ==
    /\ holder = Controller
    /\ flags' = [flags EXCEPT ![scanAt] = {"ENABLED"}]
    /\ mask' = mask \cup {scanAt}
    /\ population' = population + 1
    /\ timer' = [timer EXCEPT ![scanAt] = "none"]
    /\ holder' = Nobody /\ scanAt' = 1
    /\ UNCHANGED <<occ, pos, tokens, bucket, mode, scanStep, local>>

-----------------------------------------------------------------------------
Visit(w) == \E i \in Ants : \/ VisitNone(w, i) \/ VisitRetire(w, i) \/ VisitPause(w, i)
                            \/ VisitClear(w, i) \/ VisitWaiting(w, i)
Recover(w) == \/ RecoverRelease(w) \/ RecoverRebirth(w) \/ RecoverRestore(w)
              \/ RecoverReclaim(w) \/ RecoverSettle(w)
Select(w) == SelectNone(w) \/ \E i \in Ants : SelectLease(w, i)
Scan(w) == Visit(w) \/ Recover(w) \/ Select(w)
Instruction(w) == Halt(w) \/ Hold(w) \/ Move(w)
MoveClaim(w) == Vacate(w) \/ Claim(w) \/ Contest(w) \/ Replace(w) \/ Mark(w)
Execute(w) == Start(w) \/ Instruction(w) \/ MoveClaim(w)
Control == SetPaused \/ Halve \/ BeginDrain \/ PollDrain \/ SpawnClaim \/ SpawnEnable

Next ==
    \/ \E w \in Workers : Acquire(w) \/ Scan(w) \/ Execute(w) \/ Return(w)
    \/ \E i \in Ants : PauseElapses(i)
    \/ Control

Spec == Init /\ [][Next]_vars

(* Threads keep running, a mutex is eventually granted to who asks for it  *)
(* again and again, a pause ends, and a spawn that has begun finishes.     *)
Fairness ==
    /\ \A w \in Workers : SF_vars(Acquire(w)) /\ WF_vars(Scan(w) \/ Execute(w)) /\ SF_vars(Return(w))
    /\ \A i \in Ants : WF_vars(PauseElapses(i))
    /\ WF_vars(SpawnEnable)

FairSpec == Spec /\ Fairness

-----------------------------------------------------------------------------
TypeOK ==
    /\ occ \in [Cells -> Ants \cup {NoAnt}] /\ pos \in [Ants -> Cells]
    /\ flags \in [Ants -> SUBSET Flag]
    /\ tokens \in [Ants -> Nat] /\ capacity \in [Ants -> Nat] /\ earning \in [Ants -> BOOLEAN]
    /\ timer \in [Ants -> {"none", "pending", "due"}]
    /\ mask \in SUBSET Ants /\ population \in Int
    /\ draining \in BOOLEAN /\ paused \in BOOLEAN
    /\ holder \in Workers \cup {Controller, Nobody} /\ scanAt \in 1 .. MaxAnts + 1
    /\ scanStep \in {"visit", "release", "rebirth", "refill", "restore", "reclaim", "settle"}
    /\ pc \in [Workers -> {"idle", "start", "loop", "vacate", "claim", "contest", "replace", "mark", "done"}]
    /\ lessee \in [Workers -> Ants \cup {NoAnt}] /\ rival \in [Workers -> Ants \cup {NoAnt}]
    /\ left \in [Workers -> 0..Quantum] /\ balance \in [Workers -> Nat]
    /\ cell \in [Workers -> Cells] /\ from \in [Workers -> Cells]

(* Where the byte of an ant has to be, if it has one: a worker knows the   *)
(* cell of the ant it runs, everybody else goes by the published position. *)
ByteOf(w) == IF pc[w] = "vacate" THEN from[w] ELSE cell[w]
Idle(i) == \A w \in Workers : lessee[w] # i
HeadAt(i, c) == IF Idle(i) THEN pos[i] = c ELSE \E w \in Workers : lessee[w] = i /\ ByteOf(w) = c

(* A read head is in one place: whatever claims, replacements, releases    *)
(* and reclaims interleave, no ant owns two occupancy bytes.               *)
OneCellPerAnt == \A c, d \in Cells : occ[c] = occ[d] /\ occ[c] # NoAnt => c = d

(* What makes that inductive: every byte is where its ant's worker, or its *)
(* published position, says, and belongs to an enabled or spawning ant.    *)
ByteInv ==
    \A c \in Cells : occ[c] # NoAnt =>
      /\ occ[c] \in mask \/ (holder = Controller /\ scanAt = occ[c])
      /\ Idle(occ[c]) => pos[occ[c]] = c
      /\ \A w \in Workers : lessee[w] = occ[c] => ByteOf(w) = c

(* Exclusive residency: an ant that is neither marked nor waiting owns the *)
(* byte of the cell its head is on, unless a worker that has just replaced *)
(* that byte is about to mark it, or its own move is between two cells.    *)
MarkPending(i) == \E w \in Workers : pc[w] = "mark" /\ rival[w] = i
BetweenCells(i) == \E w \in Workers : lessee[w] = i /\ pc[w] \in {"claim", "contest", "replace"}
Residency ==
    \A i \in Ants :
      /\ Has(i, "ENABLED") /\ ~HasAny(i, {"CLOBBERED", "DISPLACED", "WAITING"})
      /\ ~MarkPending(i) /\ ~BetweenCells(i)
      => \E c \in Cells : HeadAt(i, c) /\ occ[c] = i

(* No ghosts: a byte belongs to a live ant (or one being spawned), and an  *)
(* ant that waits for its cell holds none, so nobody waits for a waiter.   *)
NoGhosts ==
    \A c \in Cells : occ[c] # NoAnt =>
      /\ Has(occ[c], "ENABLED") \/ (holder = Controller /\ scanAt = occ[c])
      /\ {"ENABLED", "WAITING"} \subseteq flags[occ[c]] => scanAt = occ[c] /\ scanStep \in {"release", "rebirth", "settle"}

(* A lease belongs to exactly one worker, and the scheduler never recovers *)
(* (mutates, reincarnates) an ant that a worker is running.                *)
LeaseExclusive ==
    /\ \A i \in Ants : Has(i, "LEASED") <=> ~Idle(i)
    /\ \A v, w \in Workers : lessee[v] = lessee[w] /\ lessee[v] # NoAnt => v = w
    /\ scanStep # "visit" => Idle(scanAt)

(* The worker's copy of the balance is the balance: no refill, rebirth or  *)
(* cull reaches a leased ant, and the grant is always paid for.            *)
PrivateBalance ==
    \A w \in Workers :
      /\ pc[w] \notin {"idle", "start", "done"} => balance[w] = tokens[lessee[w]]
      /\ pc[w] \notin {"idle", "done"} => left[w] * TokenOne <= tokens[lessee[w]]

(* Who may be scanning what: the lock's holder looks at enabled ants that  *)
(* no worker runs, or the controller is filling a free slot.               *)
LockInv ==
    /\ holder \in Workers => pc[holder] = "idle"
    /\ holder \in Workers /\ scanAt \in Ants => scanAt \in mask /\ Idle(scanAt)
    /\ scanStep # "visit" => holder \in Workers /\ scanAt \in Ants
    /\ holder = Controller => scanAt \in Ants \ mask
RosterInv ==
    /\ mask = {i \in Ants : Has(i, "ENABLED")}
    /\ \A w \in Workers : /\ pc[w] = "idle" <=> lessee[w] = NoAnt
                          /\ pc[w] # "idle" => lessee[w] \in mask
                          /\ pc[w] \in {"contest", "replace", "mark"} => rival[w] \in Ants

IInv == TypeOK /\ LockInv /\ RosterInv /\ LeaseExclusive /\ ByteInv /\ PrivateBalance

(* active_population, enabled_mask and the flag words agree: no ant is     *)
(* retired twice or forgotten by whoever finds it exhausted.               *)
PopulationAgrees == population = Cardinality(mask) /\ mask = {i \in Ants : Has(i, "ENABLED")}

(* A draining ant earns nothing, however it came to drain or was reborn.   *)
DrainingEarnsNothing == \A i \in Ants : Has(i, "ENABLED") /\ Has(i, "DRAINING") => ~earning[i]

(* A collision mark on a live ant leaves only through the recovery that    *)
(* makes the idle ant wait for its cell; a fresh one is never swallowed.   *)
MarkNeverLost ==
    [][\A i \in Ants : /\ {"CLOBBERED", "ENABLED"} \subseteq flags[i]
                       /\ "CLOBBERED" \notin flags'[i]
                       => Idle(i) /\ "WAITING" \in flags'[i]]_vars

(* A drain creates no tokens: what an ant has to spend never rises once it *)
(* has begun.  The full bucket of a rebirth is shown, for a moment, to     *)
(* those who contest a cell, but the ant has what the scan gives back.     *)
Remaining(i) == IF scanStep = "restore" /\ scanAt = i THEN balance[holder] ELSE tokens[i]
DrainCreatesNothing == [][draining => \A i \in Ants : Remaining(i)' <= Remaining(i)]_vars

(* However often the halving key is pressed, and whatever already drains:  *)
(* outside a debug drain no step takes more than half of the population,   *)
(* rounded up, out of those that stay; an ant is never retired unasked;    *)
(* and the weakest go first, of those that no worker runs.                 *)
Staying == {i \in mask : ~Has(i, "DRAINING")}
Spares ==
    LET leaving == Staying \ Staying' IN
    /\ 2 * Cardinality(leaving) <= population + 1
    /\ \A i \in leaving, j \in Staying' \cap Available : ~Has(i, "LEASED") /\ Weaker(i, j)
HalvingSpares == [][~draining' => Spares]_vars

(* A drain ends: every ant spends what it has and retires, whoever waits   *)
(* for whose cell.                                                         *)
DrainCompletes == draining ~> (\A i \in Ants : ~Has(i, "ENABLED") /\ ~Has(i, "LEASED"))

=============================================================================
