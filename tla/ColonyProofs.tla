---------------------------- MODULE ColonyProofs ----------------------------
(* Proofs about Colony for every number of ants, workers, cells and tokens. *)
EXTENDS Colony, FiniteSetTheorems, WellFoundedInduction, TLAPS

-----------------------------------------------------------------------------
(* Facts about the pieces the actions are built from.                      *)

(* The scan cursor stays on an ant or passes the last one. *)
LEMMA ScanRange ==
  ASSUME TypeOK, NEW k, ScanAfter(k)
  PROVE  scanAt' \in 1 .. MaxAnts + 1 /\ scanStep' = "visit"
<1>1. CASE IdleAfter(k) = {}
  BY <1>1, ColonyAssumption DEF ScanAfter, Ants
<1>2. CASE IdleAfter(k) # {}
  <2>1. IdleAfter(k) \subseteq Ants
    BY DEF IdleAfter, TypeOK
  <2>2. QED
    BY <2>1, <1>2, ColonyAssumption DEF ScanAfter, Ants
<1> QED
  BY <1>1, <1>2

(* Releasing cells keeps the occupancy bytes bytes. *)
LEMMA ReleasedType ==
  ASSUME TypeOK, NEW R PROVE Released(R) \in [Cells -> Ants \cup {NoAnt}]
BY DEF Released, TypeOK

(* There are finitely many ants. *)
LEMMA AntsFinite ==
  ASSUME NEW S \in SUBSET Ants PROVE IsFiniteSet(S) /\ Cardinality(S) \in Nat
<1>1. IsFiniteSet(Ants)
  BY ColonyAssumption, FS_Interval DEF Ants
<1>2. IsFiniteSet(S)
  BY <1>1, FS_Subset
<1> QED
  BY <1>2, FS_CardinalityType

(* Retirement keeps the types of what it changes. *)
LEMMA RetireType ==
  ASSUME TypeOK, NEW R \in SUBSET Ants, Retire(R)
  PROVE  /\ flags' \in [Ants -> SUBSET Flag] /\ occ' \in [Cells -> Ants \cup {NoAnt}]
         /\ mask' \in SUBSET Ants /\ population' \in Int
BY ReleasedType, AntsFinite DEF Retire, RetireFlags, TypeOK, Flag

(* Paying for one of n instructions leaves n - 1 paid for. *)
LEMMA PayOne ==
  ASSUME NEW n \in Nat, n > 0, NEW d \in Nat, NEW b \in Nat, n * d <= b
  PROVE  b - d \in Nat /\ (n - 1) * d <= b - d
<1>1. n * d = (n - 1) * d + d
  OBVIOUS
<1>2. (n - 1) * d >= 0 /\ (n - 1) * d \in Int
  OBVIOUS
<1> QED
  BY <1>1, <1>2

(* A step of the head wraps around the torus. *)
LEMMA StepInside ==
  ASSUME NEW c \in Cells, NEW h \in Headings PROVE Step(c, h) \in Cells
<1>1. PICK x \in 0 .. Width - 1, y \in 0 .. Height - 1 : c = <<x, y>>
  BY DEF Cells
<1>2. PICK dx \in {-1, 0, 1}, dy \in {-1, 0, 1} : h = <<dx, dy>>
  BY DEF Headings
<1>3. Wrap(x + dx, Width) \in 0 .. Width - 1 /\ Wrap(y + dy, Height) \in 0 .. Height - 1
  BY ColonyAssumption DEF Wrap
<1> QED
  BY <1>1, <1>2, <1>3 DEF Step, Cells

(* A refill never takes tokens away and never makes them anything but a number. *)
LEMMA AccruedNat ==
  ASSUME TypeOK, NEW i \in Ants, NEW t \in Accrued(i) PROVE t \in Nat /\ t >= tokens[i]
BY DEF Accrued, Full, TypeOK

LEMMA BalancesNat ==
  ASSUME TypeOK, NEW t \in Balances
  PROVE  t \in [Ants -> Nat] /\ \A i \in Ants : t[i] >= tokens[i]
<1>1. ASSUME NEW i \in Ants PROVE t[i] \in Nat /\ t[i] >= tokens[i]
  BY AccruedNat DEF Balances, TypeOK
<1> QED
  BY <1>1 DEF Balances

(* A grant is a number of instructions that the whole tokens pay for. *)
LEMMA GrantPaid ==
  ASSUME NEW t \in Nat PROVE Grant(t) \in 0..Quantum /\ Grant(t) * TokenOne <= t
<1>1. t \div TokenOne \in Nat /\ (t \div TokenOne) * TokenOne <= t
  BY ColonyAssumption
<1>2. CASE Quantum < t \div TokenOne
  <2>1. Quantum * TokenOne <= (t \div TokenOne) * TokenOne
    BY <1>1, <1>2, ColonyAssumption
  <2> QED
    BY <1>1, <1>2, <2>1, ColonyAssumption DEF Grant, Minimum
<1>3. CASE ~(Quantum < t \div TokenOne)
  BY <1>1, <1>3, ColonyAssumption DEF Grant, Minimum
<1> QED
  BY <1>2, <1>3

-----------------------------------------------------------------------------
(* The parts of the inductive invariant, one lemma each.                   *)

(* Every step keeps the types; tokens never go below zero.                 *)
LEMMA TypeStep == IInv /\ [Next]_vars => TypeOK'
<1> SUFFICES ASSUME IInv, [Next]_vars PROVE TypeOK'
  OBVIOUS
<1>a. TypeOK
  BY DEF IInv
<1>b. \A w \in Workers : pc[w] # "idle" => lessee[w] \in Ants
  BY DEF IInv, RosterInv, TypeOK
<1>c. \A w \in Workers : pc[w] \in {"contest", "replace", "mark"} => rival[w] \in Ants
  BY DEF IInv, RosterInv
<1>d. scanStep # "visit" => scanAt \in Ants
  BY DEF IInv, LockInv
<1>e. \A w \in Workers : left[w] \in Nat /\ (pc[w] = "loop" =>
        balance[w] = tokens[lessee[w]] /\ left[w] * TokenOne <= tokens[lessee[w]])
  BY ColonyAssumption DEF IInv, PrivateBalance, TypeOK
<1>f. ASSUME NEW w \in Workers, pc[w] = "loop", left[w] > 0 PROVE balance[w] - TokenOne \in Nat
  BY <1>a, <1>b, <1>e, <1>f, PayOne, ColonyAssumption DEF TypeOK
<1>g. holder = Controller => scanAt \in Ants
  BY DEF IInv, LockInv
<1> USE ColonyAssumption, LockAssumption DEF shared, lock, local, bucket, roster, mode
<1>1. ASSUME NEW w \in Workers, Acquire(w) PROVE TypeOK'
  BY <1>1, <1>a, ScanRange DEF Acquire, TypeOK
<1>2. ASSUME NEW w \in Workers, NEW i \in Ants, VisitNone(w, i) PROVE TypeOK'
  BY <1>2, <1>a, ScanRange DEF VisitNone, TypeOK, NextAnt
<1>3. ASSUME NEW w \in Workers, NEW i \in Ants, VisitRetire(w, i) PROVE TypeOK'
  <2>1. Retire({i}) /\ NextAnt
    BY <1>3 DEF VisitRetire
  <2> QED
    BY <1>3, <1>a, <2>1, RetireType, ScanRange DEF VisitRetire, Retire, TypeOK, NextAnt
<1>4. ASSUME NEW w \in Workers, NEW i \in Ants, VisitPause(w, i) PROVE TypeOK'
  BY <1>4, <1>a, ScanRange DEF VisitPause, TypeOK, NextAnt, PauseTimer
<1>5. ASSUME NEW w \in Workers, NEW i \in Ants, VisitClear(w, i) PROVE TypeOK'
  BY <1>5, <1>a DEF VisitClear, TypeOK, Visiting, Flag
<1>6. ASSUME NEW w \in Workers, NEW i \in Ants, VisitWaiting(w, i) PROVE TypeOK'
  BY <1>6, <1>a DEF VisitWaiting, TypeOK, Visiting
<1>7. ASSUME NEW w \in Workers, RecoverRelease(w) PROVE TypeOK'
  BY <1>7, <1>a, ReleasedType DEF RecoverRelease, TypeOK
<1>8. ASSUME NEW w \in Workers, RecoverRebirth(w) PROVE TypeOK'
  BY <1>8, <1>a, <1>d DEF RecoverRebirth, TypeOK, RebirthFlags, Flag
<1>8a. ASSUME NEW w \in Workers, RecoverRestore(w) PROVE TypeOK'
  BY <1>8a, <1>a, <1>d DEF RecoverRestore, TypeOK, Restored, Flag
<1>9. ASSUME NEW w \in Workers, RecoverReclaim(w) PROVE TypeOK'
  <2>1. CASE ~Flagged(scanAt) /\ Reclaimable(scanAt)
    BY <1>9, <1>a, <1>d, <2>1 DEF RecoverReclaim, TypeOK
  <2>2. CASE ~(~Flagged(scanAt) /\ Reclaimable(scanAt))
    BY <1>9, <1>a, <2>2, ScanRange DEF RecoverReclaim, TypeOK, NextAnt
  <2> QED
    BY <2>1, <2>2
<1>10. ASSUME NEW w \in Workers, RecoverSettle(w) PROVE TypeOK'
  BY <1>10, <1>a, <1>d, ScanRange DEF RecoverSettle, TypeOK, NextAnt, Settled
<1>11. ASSUME NEW w \in Workers, SelectNone(w) PROVE TypeOK'
  <2>1. CASE paused /\ UNCHANGED shared
    BY <1>11, <1>a, <2>1 DEF SelectNone, TypeOK
  <2>2. ASSUME NEW t \in Balances, NEW out \in SUBSET Ants, Retire(out), tokens' = t,
               UNCHANGED <<pos, bucket, timer, mode>>
        PROVE  TypeOK'
    BY <1>11, <1>a, <2>2, BalancesNat, RetireType DEF SelectNone, Retire, TypeOK
  <2>3. Scanned \subseteq Ants
    BY <1>a DEF Scanned, TypeOK
  <2> QED
    BY <1>11, <2>1, <2>2, <2>3 DEF SelectNone
<1>12. ASSUME NEW w \in Workers, NEW i \in Ants, SelectLease(w, i) PROVE TypeOK'
  <2> DEFINE out(t) == {j \in Scanned : Has(j, "DRAINING") /\ t[j] < TokenOne}
  <2>1. PICK t \in Balances :
          /\ tokens' = t
          /\ flags' = [j \in Ants |-> IF j \in out(t) THEN RetireFlags(j)
                                      ELSE IF j = i THEN flags[j] \cup {"LEASED"} ELSE flags[j]]
          /\ occ' = Released(out(t))
          /\ mask' = mask \ out(t)
          /\ population' = population - Cardinality(out(t))
          /\ left' = [left EXCEPT ![w] = Grant(t[i])]
    BY <1>12 DEF SelectLease
  <2>2. t \in [Ants -> Nat]
    BY <1>a, BalancesNat
  <2>3. flags' \in [Ants -> SUBSET Flag]
    BY <1>a, <2>1 DEF TypeOK, RetireFlags, Flag
  <2>4. occ' \in [Cells -> Ants \cup {NoAnt}] /\ mask' \in SUBSET Ants
    BY <1>a, <2>1, ReleasedType DEF TypeOK
  <2>5. left' \in [Workers -> 0..Quantum]
    BY <1>a, <2>1, <2>2, GrantPaid DEF TypeOK
  <2>6. out(t) \in SUBSET Ants
    BY <1>a DEF Scanned, TypeOK
  <2>7. population' \in Int
    BY <1>a, <2>1, <2>6, AntsFinite DEF TypeOK
  <2> HIDE DEF out
  <2> QED
    BY <1>12, <1>a, <2>1, <2>2, <2>3, <2>4, <2>5, <2>7 DEF SelectLease, TypeOK
<1>13. ASSUME NEW w \in Workers, Start(w) PROVE TypeOK'
  BY <1>13, <1>a, <1>b DEF Start, TypeOK, Goto
<1>14. ASSUME NEW w \in Workers, Halt(w) PROVE TypeOK'
  <2>1. /\ balance[w] - TokenOne \in Nat
        /\ left[w] - 1 \in 0..Quantum
        /\ lessee[w] \in Ants
    BY <1>14, <1>a, <1>b, <1>f DEF Halt, Spend, TypeOK
  <2>2. /\ tokens' \in [Ants -> Nat]
        /\ balance' \in [Workers -> Nat] /\ left' \in [Workers -> 0..Quantum]
    BY <1>14, <1>a, <2>1 DEF Halt, Spend, TypeOK
  <2> QED
    BY <1>14, <1>a, <2>1, <2>2 DEF Halt, TypeOK, Goto, Flag
<1>15. ASSUME NEW w \in Workers, Hold(w) PROVE TypeOK'
  <2>1. /\ balance[w] - TokenOne \in Nat
        /\ left[w] - 1 \in 0..Quantum
        /\ lessee[w] \in Ants
    BY <1>15, <1>a, <1>b, <1>f DEF Hold, Spend, TypeOK
  <2>2. /\ tokens' \in [Ants -> Nat]
        /\ balance' \in [Workers -> Nat] /\ left' \in [Workers -> 0..Quantum]
    BY <1>15, <1>a, <2>1 DEF Hold, Spend, TypeOK
  <2> QED
    BY <1>15, <1>a, <2>1, <2>2 DEF Hold, TypeOK, Goto, Spend
<1>16. ASSUME NEW w \in Workers, Move(w) PROVE TypeOK'
  <2>1. Spend(w) /\ lessee[w] \in Ants
    BY <1>16, <1>b DEF Move, Spend
  <2>2. balance[w] - TokenOne \in Nat /\ left[w] - 1 \in 0..Quantum
    BY <1>a, <1>f, <2>1 DEF Spend, TypeOK
  <2>3. /\ tokens' \in [Ants -> Nat]
        /\ balance' \in [Workers -> Nat] /\ left' \in [Workers -> 0..Quantum]
    BY <1>a, <2>1, <2>2 DEF Spend, TypeOK
  <2>4. PICK h \in Headings : /\ cell' = [cell EXCEPT ![w] = Step(cell[w], h)]
                              /\ Goto(w, IF Step(cell[w], h) = cell[w] THEN "claim" ELSE "vacate")
    BY <1>16 DEF Move
  <2>5. cell' \in [Workers -> Cells]
    BY <1>a, <2>4, StepInside DEF TypeOK
  <2> QED
    BY <1>16, <1>a, <2>3, <2>4, <2>5 DEF Move, TypeOK, Goto
<1>17. ASSUME NEW w \in Workers, Vacate(w) PROVE TypeOK'
  BY <1>17, <1>a, <1>b DEF Vacate, TypeOK, Vacated, Goto
<1>18. ASSUME NEW w \in Workers, Claim(w) PROVE TypeOK'
  BY <1>18, <1>a, <1>b DEF Claim, TypeOK, Goto
<1>19. ASSUME NEW w \in Workers, Contest(w) PROVE TypeOK'
  BY <1>19, <1>a, <1>b DEF Contest, TypeOK, Goto, Marked, Flag
<1>20. ASSUME NEW w \in Workers, Replace(w) PROVE TypeOK'
  BY <1>20, <1>a, <1>b DEF Replace, TypeOK, Goto
<1>21. ASSUME NEW w \in Workers, Mark(w) PROVE TypeOK'
  BY <1>21, <1>a, <1>c DEF Mark, TypeOK, Goto, Marked, Flag
<1>22. ASSUME NEW w \in Workers, Return(w) PROVE TypeOK'
  <2>1. lessee[w] \in Ants
    BY <1>22, <1>b DEF Return, Finished
  <2>2. tokens' \in [Ants -> Nat]
    BY <1>22, <1>a, <2>1, AccruedNat DEF Return, TypeOK
  <2>3. Origin \in Cells
    BY DEF Origin, Cells
  <2> QED
    BY <1>22, <1>a, <2>1, <2>2, <2>3 DEF Return, TypeOK
<1>23. ASSUME NEW i \in Ants, PauseElapses(i) PROVE TypeOK'
  BY <1>23, <1>a DEF PauseElapses, TypeOK
<1>24. ASSUME SetPaused PROVE TypeOK'
  BY <1>24, <1>a DEF SetPaused, TypeOK
<1>25. ASSUME Halve PROVE TypeOK'
  BY <1>25, <1>a DEF Halve, TypeOK, Cull, Weakest, Flag
<1>26. ASSUME BeginDrain PROVE TypeOK'
  BY <1>26, <1>a DEF BeginDrain, TypeOK, Flag
<1>27. ASSUME PollDrain PROVE TypeOK'
  <2> DEFINE R == {i \in Ants : ~Has(i, "LEASED") /\ Expired(i)}
  <2>1. Retire(R) /\ R \in SUBSET Ants
    BY <1>27 DEF PollDrain
  <2> HIDE DEF R
  <2> QED
    BY <1>27, <1>a, <2>1, RetireType DEF PollDrain, TypeOK
<1>28. ASSUME SpawnClaim PROVE TypeOK'
  <2>1. PICK slot \in Ants, b \in Capacities :
          /\ capacity' = [capacity EXCEPT ![slot] = b]
          /\ tokens' = [tokens EXCEPT ![slot] = b]
          /\ earning' = [earning EXCEPT ![slot] = TRUE]
          /\ \/ \E c \in Cells :
                  /\ occ' = [occ EXCEPT ![c] = slot]
                  /\ pos' = [pos EXCEPT ![slot] = c]
                  /\ holder' = Controller /\ scanAt' = slot
             \/ UNCHANGED <<occ, pos, holder, scanAt>>
    BY <1>28 DEF SpawnClaim
  <2>2. b \in Nat
    BY <2>1
  <2>3. tokens' \in [Ants -> Nat] /\ capacity' \in [Ants -> Nat] /\ earning' \in [Ants -> BOOLEAN]
    BY <1>a, <2>1, <2>2 DEF TypeOK
  <2>4. /\ occ' \in [Cells -> Ants \cup {NoAnt}] /\ pos' \in [Ants -> Cells]
        /\ holder' \in Workers \cup {Controller, Nobody} /\ scanAt' \in 1 .. MaxAnts + 1
    <3>1. CASE UNCHANGED <<occ, pos, holder, scanAt>>
      BY <1>a, <3>1 DEF TypeOK
    <3>2. ASSUME NEW c \in Cells, occ' = [occ EXCEPT ![c] = slot], pos' = [pos EXCEPT ![slot] = c],
                 holder' = Controller, scanAt' = slot
          PROVE  /\ occ' \in [Cells -> Ants \cup {NoAnt}] /\ pos' \in [Ants -> Cells]
                 /\ holder' \in Workers \cup {Controller, Nobody} /\ scanAt' \in 1 .. MaxAnts + 1
      BY <1>a, <3>2 DEF TypeOK, Ants
    <3> QED
      BY <2>1, <3>1, <3>2
  <2> QED
    BY <1>28, <1>a, <2>3, <2>4 DEF SpawnClaim, TypeOK
<1>29. ASSUME SpawnEnable PROVE TypeOK'
  BY <1>29, <1>a, <1>g DEF SpawnEnable, TypeOK, Flag, Ants
<1>30. CASE UNCHANGED vars
  BY <1>30, <1>a DEF vars, TypeOK
<1> QED
  BY <1>1, <1>2, <1>3, <1>4, <1>5, <1>6, <1>7, <1>8, <1>9, <1>10, <1>11, <1>12,
     <1>13, <1>14, <1>15, <1>16, <1>17, <1>18, <1>19, <1>20, <1>21, <1>22, <1>23, <1>24,
     <1>25, <1>26, <1>27, <1>28, <1>29, <1>30, <1>8a
  DEF Next, Scan, Visit, Recover, Select, Execute, Instruction, MoveClaim, Control

(* The cursor moves to an enabled ant that nobody runs, further on. *)
LEMMA ScanIdle ==
  ASSUME IInv, NEW k, ScanAfter(k), scanAt' \in Ants
  PROVE  scanAt' \in mask /\ ~Has(scanAt', "LEASED") /\ Idle(scanAt') /\ scanAt' > k
<1>1. IdleAfter(k) # {}
  BY ColonyAssumption DEF ScanAfter, Ants
<1>2. scanAt' \in IdleAfter(k)
  BY <1>1 DEF ScanAfter
<1> QED
  BY <1>2 DEF IdleAfter, IInv, LeaseExclusive

(* An exhausted or selectable ant is enabled and not out with a worker. *)
LEMMA ScannedIdle ==
  ASSUME IInv, NEW i \in Scanned PROVE i \in mask /\ i \in Ants /\ Has(i, "ENABLED") /\ Idle(i)
BY DEF IInv, TypeOK, Scanned, HasAny, LeaseExclusive, Has

(* Every step keeps mask, flag words and the workers' leases together.      *)
LEMMA RosterStep == IInv /\ [Next]_vars => RosterInv'
<1> SUFFICES ASSUME IInv, [Next]_vars PROVE RosterInv'
  OBVIOUS
<1>a. TypeOK /\ RosterInv /\ LockInv /\ LeaseExclusive
  BY DEF IInv
<1>b. NoAnt \notin Ants
  BY DEF NoAnt, Ants
<1>c. ASSUME NEW R \in SUBSET Ants, Retire(R), \A i \in R : i \in mask /\ Idle(i), UNCHANGED <<pc, lessee, rival>>
      PROVE  RosterInv'
  BY <1>a, <1>c DEF RosterInv, Retire, RetireFlags, Idle, Has, TypeOK
<1> USE ColonyAssumption, LockAssumption DEF shared, lock, local, bucket, roster, mode, Has, HasAny
<1>1. ASSUME NEW w \in Workers, Acquire(w) PROVE RosterInv'
  BY <1>1, <1>a DEF Acquire, RosterInv
<1>2. ASSUME NEW w \in Workers, NEW i \in Ants, VisitNone(w, i) PROVE RosterInv'
  BY <1>2, <1>a DEF VisitNone, RosterInv
<1>3. ASSUME NEW w \in Workers, NEW i \in Ants, VisitRetire(w, i) PROVE RosterInv'
  <2>1. Idle(i) /\ i \in mask /\ Retire({i}) /\ UNCHANGED <<pc, lessee, rival>>
    BY <1>3, <1>a DEF VisitRetire, Visiting, LockInv
  <2> QED
    BY <1>c, <2>1
<1>4. ASSUME NEW w \in Workers, NEW i \in Ants, VisitPause(w, i) PROVE RosterInv'
  BY <1>4, <1>a DEF VisitPause, RosterInv
<1>5. ASSUME NEW w \in Workers, NEW i \in Ants, VisitClear(w, i) PROVE RosterInv'
  BY <1>5, <1>a DEF VisitClear, RosterInv, TypeOK
<1>6. ASSUME NEW w \in Workers, NEW i \in Ants, VisitWaiting(w, i) PROVE RosterInv'
  BY <1>6, <1>a DEF VisitWaiting, RosterInv
<1>7. ASSUME NEW w \in Workers, RecoverRelease(w) PROVE RosterInv'
  BY <1>7, <1>a DEF RecoverRelease, RosterInv
<1>8. ASSUME NEW w \in Workers, RecoverRebirth(w) PROVE RosterInv'
  BY <1>8, <1>a DEF RecoverRebirth, RosterInv, TypeOK, RebirthFlags
<1>8a. ASSUME NEW w \in Workers, RecoverRestore(w) PROVE RosterInv'
  BY <1>8a, <1>a DEF RecoverRestore, RosterInv, TypeOK
<1>9. ASSUME NEW w \in Workers, RecoverReclaim(w) PROVE RosterInv'
  BY <1>9, <1>a DEF RecoverReclaim, RosterInv
<1>10. ASSUME NEW w \in Workers, RecoverSettle(w) PROVE RosterInv'
  BY <1>10, <1>a DEF RecoverSettle, RosterInv, TypeOK, Settled
<1>11. ASSUME NEW w \in Workers, SelectNone(w) PROVE RosterInv'
  <2>1. CASE UNCHANGED shared
    BY <1>11, <1>a, <2>1 DEF SelectNone, RosterInv
  <2>2. CASE ~UNCHANGED shared
    <3>1. PICK t \in Balances : Retire({i \in Scanned : Has(i, "DRAINING") /\ t[i] < TokenOne})
      BY <1>11, <2>2 DEF SelectNone
    <3> QED
      BY <1>11, <1>c, <3>1, ScannedIdle DEF SelectNone
  <2> QED
    BY <2>1, <2>2
<1>12. ASSUME NEW w \in Workers, NEW i \in Ants, SelectLease(w, i) PROVE RosterInv'
  <2>1. PICK out \in SUBSET Scanned :
          /\ i \in Scanned \ out
          /\ flags' = [j \in Ants |-> IF j \in out THEN RetireFlags(j)
                                      ELSE IF j = i THEN flags[j] \cup {"LEASED"} ELSE flags[j]]
          /\ mask' = mask \ out
    BY <1>12 DEF SelectLease
  <2>2. \A j \in out \cup {i} : j \in mask /\ j \in Ants /\ Idle(j)
    BY <2>1, ScannedIdle
  <2>3. mask' = {j \in Ants : "ENABLED" \in flags'[j]}
    BY <1>a, <2>1 DEF RosterInv, RetireFlags, TypeOK
  <2> QED
    <3>1. pc' = [pc EXCEPT ![w] = "start"] /\ lessee' = [lessee EXCEPT ![w] = i] /\ rival' = rival
      BY <1>12 DEF SelectLease
    <3>2. ASSUME NEW v \in Workers, v # w PROVE pc'[v] # "idle" => lessee'[v] \in mask'
      BY <1>a, <2>1, <2>2, <3>1, <3>2 DEF RosterInv, Idle, TypeOK
    <3>3. i \in mask' /\ i # NoAnt
      BY <1>b, <2>1, <2>2
    <3> QED
      BY <1>a, <2>3, <3>1, <3>2, <3>3 DEF RosterInv, TypeOK
<1>13. ASSUME NEW w \in Workers, Start(w) PROVE RosterInv'
  BY <1>13, <1>a, <1>b DEF Start, RosterInv, TypeOK, Goto, Marked
<1>14. ASSUME NEW w \in Workers, Halt(w) PROVE RosterInv'
  BY <1>14, <1>a, <1>b DEF Halt, RosterInv, TypeOK, Goto, Marked, Spend
<1>15. ASSUME NEW w \in Workers, Hold(w) PROVE RosterInv'
  BY <1>15, <1>a, <1>b DEF Hold, RosterInv, TypeOK, Goto, Marked, Spend
<1>16. ASSUME NEW w \in Workers, Move(w) PROVE RosterInv'
  BY <1>16, <1>a, <1>b DEF Move, RosterInv, TypeOK, Goto, Marked, Spend
<1>17. ASSUME NEW w \in Workers, Vacate(w) PROVE RosterInv'
  BY <1>17, <1>a, <1>b DEF Vacate, RosterInv, TypeOK, Goto, Marked
<1>18. ASSUME NEW w \in Workers, Claim(w) PROVE RosterInv'
  BY <1>18, <1>a, <1>b DEF Claim, RosterInv, TypeOK, Goto, Marked
<1>19. ASSUME NEW w \in Workers, Contest(w) PROVE RosterInv'
  BY <1>19, <1>a, <1>b DEF Contest, RosterInv, TypeOK, Goto, Marked
<1>20. ASSUME NEW w \in Workers, Replace(w) PROVE RosterInv'
  BY <1>20, <1>a, <1>b DEF Replace, RosterInv, TypeOK, Goto, Marked
<1>21. ASSUME NEW w \in Workers, Mark(w) PROVE RosterInv'
  BY <1>21, <1>a, <1>b DEF Mark, RosterInv, TypeOK, Goto, Marked
<1>22. ASSUME NEW w \in Workers, Return(w) PROVE RosterInv'
  BY <1>22, <1>a, <1>b DEF Return, RosterInv, TypeOK, Finished
<1>23. ASSUME NEW i \in Ants, PauseElapses(i) PROVE RosterInv'
  BY <1>23, <1>a DEF PauseElapses, RosterInv
<1>24. ASSUME SetPaused PROVE RosterInv'
  BY <1>24, <1>a DEF SetPaused, RosterInv
<1>25. ASSUME Halve PROVE RosterInv'
  BY <1>25, <1>a DEF Halve, RosterInv, Cull, TypeOK
<1>26. ASSUME BeginDrain PROVE RosterInv'
  BY <1>26, <1>a DEF BeginDrain, RosterInv, TypeOK
<1>27. ASSUME PollDrain PROVE RosterInv'
  <2>1. \A i \in Ants : ~Has(i, "LEASED") /\ Expired(i) => i \in mask /\ Idle(i)
    BY <1>a DEF Expired, RosterInv, LeaseExclusive
  <2> QED
    BY <1>27, <1>c, <2>1 DEF PollDrain
<1>28. ASSUME SpawnClaim PROVE RosterInv'
  BY <1>28, <1>a DEF SpawnClaim, RosterInv
<1>29. ASSUME SpawnEnable PROVE RosterInv'
  BY <1>29, <1>a DEF SpawnEnable, RosterInv, TypeOK, LockInv, Ants
<1>30. CASE UNCHANGED vars
  BY <1>30, <1>a DEF vars, RosterInv
<1> QED
  BY <1>1, <1>2, <1>3, <1>4, <1>5, <1>6, <1>7, <1>8, <1>9, <1>10, <1>11, <1>12,
     <1>13, <1>14, <1>15, <1>16, <1>17, <1>18, <1>19, <1>20, <1>21, <1>22, <1>23, <1>24,
     <1>25, <1>26, <1>27, <1>28, <1>29, <1>30, <1>8a
  DEF Next, Scan, Visit, Recover, Select, Execute, Instruction, MoveClaim, Control

(* Every step keeps the scan on enabled ants that nobody runs.              *)
LEMMA LockStep == IInv /\ [Next]_vars => LockInv'
<1> SUFFICES ASSUME IInv, [Next]_vars PROVE LockInv'
  OBVIOUS
<1>a. TypeOK /\ RosterInv /\ LockInv /\ LeaseExclusive
  BY DEF IInv
<1>b. Controller # Nobody /\ Controller \notin Workers /\ Nobody \notin Workers /\ MaxAnts + 1 \notin Ants /\ 1 \in 1 .. MaxAnts + 1
  BY LockAssumption, ColonyAssumption DEF Ants
<1>c. ASSUME NEW k, ScanAfter(k), scanAt' \in Ants
      PROVE  scanAt' \in mask /\ Idle(scanAt') /\ scanAt' > k
  BY <1>c, ScanIdle
<1> USE DEF shared, lock, local, bucket, roster, mode
<1>1. ASSUME NEW w \in Workers, Acquire(w) PROVE LockInv'
  BY <1>1, <1>a, <1>b, <1>c DEF Acquire, LockInv, ScanAfter, Idle
<1>2. ASSUME NEW w \in Workers, NEW i \in Ants, VisitNone(w, i) PROVE LockInv'
  BY <1>2, <1>a, <1>b, <1>c DEF VisitNone, LockInv, Visiting, NextAnt, ScanAfter, Idle
<1>3. ASSUME NEW w \in Workers, NEW i \in Ants, VisitRetire(w, i) PROVE LockInv'
  <2>1. ScanAfter(i) /\ mask' = mask \ {i} /\ holder = w /\ UNCHANGED <<holder, pc, lessee>>
    BY <1>3 DEF VisitRetire, Visiting, NextAnt, Retire
  <2>2. scanAt' \in Ants => scanAt' \in mask' /\ Idle(scanAt')
    BY <1>c, <2>1 DEF Ants
  <2> QED
    BY <1>a, <1>b, <2>1, <2>2 DEF LockInv, ScanAfter, Idle
<1>4. ASSUME NEW w \in Workers, NEW i \in Ants, VisitPause(w, i) PROVE LockInv'
  BY <1>4, <1>a, <1>b, <1>c DEF VisitPause, LockInv, Visiting, NextAnt, ScanAfter, Idle
<1>5. ASSUME NEW w \in Workers, NEW i \in Ants, VisitClear(w, i) PROVE LockInv'
  BY <1>5, <1>a, <1>b DEF VisitClear, LockInv, Visiting, Idle, TypeOK
<1>6. ASSUME NEW w \in Workers, NEW i \in Ants, VisitWaiting(w, i) PROVE LockInv'
  BY <1>6, <1>a, <1>b DEF VisitWaiting, LockInv, Visiting, Idle, TypeOK
<1>7. ASSUME NEW w \in Workers, RecoverRelease(w) PROVE LockInv'
  BY <1>7, <1>a, <1>b DEF RecoverRelease, LockInv, Idle
<1>8. ASSUME NEW w \in Workers, RecoverRebirth(w) PROVE LockInv'
  BY <1>8, <1>a, <1>b DEF RecoverRebirth, LockInv, Idle
<1>8a. ASSUME NEW w \in Workers, RecoverRestore(w) PROVE LockInv'
  BY <1>8a, <1>a, <1>b DEF RecoverRestore, LockInv, Idle
<1>9. ASSUME NEW w \in Workers, RecoverReclaim(w) PROVE LockInv'
  BY <1>9, <1>a, <1>b, <1>c DEF RecoverReclaim, LockInv, NextAnt, ScanAfter, Idle
<1>10. ASSUME NEW w \in Workers, RecoverSettle(w) PROVE LockInv'
  BY <1>10, <1>a, <1>b, <1>c DEF RecoverSettle, LockInv, NextAnt, ScanAfter, Idle
<1>11. ASSUME NEW w \in Workers, SelectNone(w) PROVE LockInv'
  BY <1>11, <1>a, <1>b DEF SelectNone, LockInv
<1>12. ASSUME NEW w \in Workers, NEW i \in Ants, SelectLease(w, i) PROVE LockInv'
  BY <1>12, <1>a, <1>b DEF SelectLease, LockInv
<1>13. ASSUME NEW w \in Workers, Start(w) PROVE LockInv'
  BY <1>13, <1>a, <1>b DEF Start, LockInv, Idle, Goto, TypeOK
<1>14. ASSUME NEW w \in Workers, Halt(w) PROVE LockInv'
  BY <1>14, <1>a, <1>b DEF Halt, LockInv, Idle, Goto, TypeOK, Spend
<1>15. ASSUME NEW w \in Workers, Hold(w) PROVE LockInv'
  BY <1>15, <1>a, <1>b DEF Hold, LockInv, Idle, Goto, TypeOK, Spend
<1>16. ASSUME NEW w \in Workers, Move(w) PROVE LockInv'
  BY <1>16, <1>a, <1>b DEF Move, LockInv, Idle, Goto, TypeOK, Spend
<1>17. ASSUME NEW w \in Workers, Vacate(w) PROVE LockInv'
  BY <1>17, <1>a, <1>b DEF Vacate, LockInv, Idle, Goto, TypeOK
<1>18. ASSUME NEW w \in Workers, Claim(w) PROVE LockInv'
  BY <1>18, <1>a, <1>b DEF Claim, LockInv, Idle, Goto, TypeOK
<1>19. ASSUME NEW w \in Workers, Contest(w) PROVE LockInv'
  BY <1>19, <1>a, <1>b DEF Contest, LockInv, Idle, Goto, TypeOK
<1>20. ASSUME NEW w \in Workers, Replace(w) PROVE LockInv'
  BY <1>20, <1>a, <1>b DEF Replace, LockInv, Idle, Goto, TypeOK
<1>21. ASSUME NEW w \in Workers, Mark(w) PROVE LockInv'
  BY <1>21, <1>a, <1>b DEF Mark, LockInv, Idle, Goto, TypeOK
<1>22. ASSUME NEW w \in Workers, Return(w) PROVE LockInv'
  BY <1>22, <1>a, <1>b DEF Return, LockInv, Idle
<1>23. ASSUME NEW i \in Ants, PauseElapses(i) PROVE LockInv'
  BY <1>23, <1>a, <1>b DEF PauseElapses, LockInv, Idle
<1>24. ASSUME SetPaused PROVE LockInv'
  BY <1>24, <1>a, <1>b DEF SetPaused, LockInv, Idle
<1>25. ASSUME Halve PROVE LockInv'
  BY <1>25, <1>a, <1>b DEF Halve, LockInv, Idle, Cull
<1>26. ASSUME BeginDrain PROVE LockInv'
  BY <1>26, <1>a, <1>b DEF BeginDrain, LockInv, Idle
<1>27. ASSUME PollDrain PROVE LockInv'
  BY <1>27, <1>a, <1>b DEF PollDrain, LockInv, Idle
<1>28. ASSUME SpawnClaim PROVE LockInv'
  BY <1>28, <1>a, <1>b DEF SpawnClaim, LockInv, Idle, Lowest
<1>29. ASSUME SpawnEnable PROVE LockInv'
  BY <1>29, <1>a, <1>b DEF SpawnEnable, LockInv, Idle
<1>30. CASE UNCHANGED vars
  BY <1>30, <1>a DEF vars, LockInv, Idle
<1> QED
  BY <1>1, <1>2, <1>3, <1>4, <1>5, <1>6, <1>7, <1>8, <1>9, <1>10, <1>11, <1>12,
     <1>13, <1>14, <1>15, <1>16, <1>17, <1>18, <1>19, <1>20, <1>21, <1>22, <1>23, <1>24,
     <1>25, <1>26, <1>27, <1>28, <1>29, <1>30, <1>8a
  DEF Next, Scan, Visit, Recover, Select, Execute, Instruction, MoveClaim, Control

(* Every step keeps leases exclusive.                                       *)
LEMMA LeaseStep == IInv /\ [Next]_vars => LeaseExclusive'
<1> SUFFICES ASSUME IInv, [Next]_vars PROVE LeaseExclusive'
  OBVIOUS
<1>a. TypeOK /\ RosterInv /\ LockInv /\ LeaseExclusive
  BY DEF IInv
<1>b. NoAnt \notin Ants
  BY DEF NoAnt, Ants
<1>c. ASSUME LockInv' PROVE scanStep' # "visit" => Idle(scanAt)'
  BY <1>c DEF LockInv, Idle
<1>d. LockInv'
  BY LockStep
<1>e. ASSUME \A i \in Ants : "LEASED" \in flags'[i] <=> "LEASED" \in flags[i], UNCHANGED lessee
      PROVE  LeaseExclusive'
  BY <1>a, <1>c, <1>d, <1>e DEF LeaseExclusive, Idle, Has
<1> USE DEF shared, lock, local, bucket, roster, mode
<1>1. ASSUME NEW w \in Workers, Acquire(w) PROVE LeaseExclusive'
  BY <1>1, <1>a, <1>e DEF Acquire, TypeOK
<1>2. ASSUME NEW w \in Workers, NEW i \in Ants, VisitNone(w, i) PROVE LeaseExclusive'
  BY <1>2, <1>a, <1>e DEF VisitNone, TypeOK
<1>3. ASSUME NEW w \in Workers, NEW i \in Ants, VisitRetire(w, i) PROVE LeaseExclusive'
  BY <1>3, <1>a, <1>e DEF VisitRetire, TypeOK, Retire, RetireFlags
<1>4. ASSUME NEW w \in Workers, NEW i \in Ants, VisitPause(w, i) PROVE LeaseExclusive'
  BY <1>4, <1>a, <1>e DEF VisitPause, TypeOK
<1>5. ASSUME NEW w \in Workers, NEW i \in Ants, VisitClear(w, i) PROVE LeaseExclusive'
  BY <1>5, <1>a, <1>e DEF VisitClear, TypeOK
<1>6. ASSUME NEW w \in Workers, NEW i \in Ants, VisitWaiting(w, i) PROVE LeaseExclusive'
  BY <1>6, <1>a, <1>e DEF VisitWaiting, TypeOK
<1>7. ASSUME NEW w \in Workers, RecoverRelease(w) PROVE LeaseExclusive'
  BY <1>7, <1>a, <1>e DEF RecoverRelease, TypeOK
<1>8. ASSUME NEW w \in Workers, RecoverRebirth(w) PROVE LeaseExclusive'
  BY <1>8, <1>a, <1>e DEF RecoverRebirth, TypeOK, RebirthFlags
<1>8a. ASSUME NEW w \in Workers, RecoverRestore(w) PROVE LeaseExclusive'
  BY <1>8a, <1>a, <1>e DEF RecoverRestore, TypeOK
<1>9. ASSUME NEW w \in Workers, RecoverReclaim(w) PROVE LeaseExclusive'
  BY <1>9, <1>a, <1>e DEF RecoverReclaim, TypeOK
<1>10. ASSUME NEW w \in Workers, RecoverSettle(w) PROVE LeaseExclusive'
  BY <1>10, <1>a, <1>e DEF RecoverSettle, TypeOK, Settled
<1>11. ASSUME NEW w \in Workers, SelectNone(w) PROVE LeaseExclusive'
  <2>1. UNCHANGED flags \/ \E R : Retire(R)
    BY <1>11 DEF SelectNone
  <2> QED
    BY <1>11, <1>a, <1>e, <2>1 DEF SelectNone, Retire, RetireFlags
<1>12. ASSUME NEW w \in Workers, NEW i \in Ants, SelectLease(w, i) PROVE LeaseExclusive'
  <2>1. PICK out \in SUBSET Scanned :
          /\ i \in Scanned \ out
          /\ flags' = [j \in Ants |-> IF j \in out THEN RetireFlags(j)
                                      ELSE IF j = i THEN flags[j] \cup {"LEASED"} ELSE flags[j]]
    BY <1>12 DEF SelectLease
  <2>2. lessee' = [lessee EXCEPT ![w] = i] /\ lessee[w] = NoAnt
    BY <1>12, <1>a DEF SelectLease, LockInv, RosterInv
  <2>3. Idle(i)
    BY <2>1, ScannedIdle
  <2>4. \A j \in Ants : "LEASED" \in flags'[j] <=> j = i \/ "LEASED" \in flags[j]
    BY <2>1 DEF RetireFlags
  <2>5. \A j \in Ants : "LEASED" \in flags'[j] <=> \E v \in Workers : lessee'[v] = j
    BY <1>a, <1>b, <2>2, <2>4 DEF LeaseExclusive, Idle, TypeOK, Has
  <2>6. \A u, v \in Workers : lessee'[u] = lessee'[v] /\ lessee'[u] # NoAnt => u = v
    BY <1>a, <2>2, <2>3 DEF LeaseExclusive, Idle, TypeOK
  <2> QED
    BY <1>c, <1>d, <2>5, <2>6 DEF LeaseExclusive, Idle, Has
<1>13. ASSUME NEW w \in Workers, Start(w) PROVE LeaseExclusive'
  BY <1>13, <1>a, <1>e DEF Start, TypeOK
<1>14. ASSUME NEW w \in Workers, Halt(w) PROVE LeaseExclusive'
  BY <1>14, <1>a, <1>e DEF Halt, TypeOK
<1>15. ASSUME NEW w \in Workers, Hold(w) PROVE LeaseExclusive'
  BY <1>15, <1>a, <1>e DEF Hold, TypeOK
<1>16. ASSUME NEW w \in Workers, Move(w) PROVE LeaseExclusive'
  BY <1>16, <1>a, <1>e DEF Move, TypeOK
<1>17. ASSUME NEW w \in Workers, Vacate(w) PROVE LeaseExclusive'
  BY <1>17, <1>a, <1>e DEF Vacate, TypeOK
<1>18. ASSUME NEW w \in Workers, Claim(w) PROVE LeaseExclusive'
  BY <1>18, <1>a, <1>e DEF Claim, TypeOK
<1>19. ASSUME NEW w \in Workers, Contest(w) PROVE LeaseExclusive'
  BY <1>19, <1>a, <1>e DEF Contest, TypeOK, Marked
<1>20. ASSUME NEW w \in Workers, Replace(w) PROVE LeaseExclusive'
  BY <1>20, <1>a, <1>e DEF Replace, TypeOK
<1>21. ASSUME NEW w \in Workers, Mark(w) PROVE LeaseExclusive'
  BY <1>21, <1>a, <1>e DEF Mark, TypeOK, Marked
<1>22. ASSUME NEW w \in Workers, Return(w) PROVE LeaseExclusive'
  <2>1. /\ lessee' = [lessee EXCEPT ![w] = NoAnt]
        /\ flags' = [flags EXCEPT ![lessee[w]] = flags[lessee[w]] \ {"LEASED"}]
    BY <1>22 DEF Return
  <2>4. lessee[w] \in Ants
    BY <1>22, <1>a DEF Return, Finished, RosterInv, TypeOK
  <2>2. \A j \in Ants : "LEASED" \in flags'[j] <=> \E v \in Workers : lessee'[v] = j
    BY <1>a, <1>b, <2>1, <2>4 DEF LeaseExclusive, Idle, TypeOK, Has
  <2>3. \A u, v \in Workers : lessee'[u] = lessee'[v] /\ lessee'[u] # NoAnt => u = v
    BY <1>a, <2>1 DEF LeaseExclusive, TypeOK
  <2> QED
    BY <1>c, <1>d, <2>2, <2>3 DEF LeaseExclusive, Idle, Has
<1>23. ASSUME NEW i \in Ants, PauseElapses(i) PROVE LeaseExclusive'
  BY <1>23, <1>a, <1>e DEF PauseElapses, TypeOK
<1>24. ASSUME SetPaused PROVE LeaseExclusive'
  BY <1>24, <1>a, <1>e DEF SetPaused, TypeOK
<1>25. ASSUME Halve PROVE LeaseExclusive'
  BY <1>25, <1>a, <1>e DEF Halve, Cull
<1>26. ASSUME BeginDrain PROVE LeaseExclusive'
  BY <1>26, <1>a, <1>e DEF BeginDrain, TypeOK
<1>27. ASSUME PollDrain PROVE LeaseExclusive'
  BY <1>27, <1>a, <1>e DEF PollDrain, Retire, RetireFlags
<1>28. ASSUME SpawnClaim PROVE LeaseExclusive'
  BY <1>28, <1>a, <1>e DEF SpawnClaim, TypeOK
<1>29. ASSUME SpawnEnable PROVE LeaseExclusive'
  <2>1. scanAt \in Ants \ mask /\ flags' = [flags EXCEPT ![scanAt] = {"ENABLED"}] /\ UNCHANGED lessee
    BY <1>29, <1>a DEF SpawnEnable, LockInv
  <2>2. Idle(scanAt)
    BY <1>a, <1>b, <2>1 DEF Idle, RosterInv
  <2>3. "LEASED" \notin flags[scanAt]
    BY <1>a, <2>1, <2>2 DEF LeaseExclusive, Has
  <2> QED
    BY <1>a, <1>e, <2>1, <2>3, <2>2 DEF LeaseExclusive, TypeOK, Has
<1>30. CASE UNCHANGED vars
  BY <1>30, <1>e DEF vars
<1> QED
  BY <1>1, <1>2, <1>3, <1>4, <1>5, <1>6, <1>7, <1>8, <1>9, <1>10, <1>11, <1>12,
     <1>13, <1>14, <1>15, <1>16, <1>17, <1>18, <1>19, <1>20, <1>21, <1>22, <1>23, <1>24,
     <1>25, <1>26, <1>27, <1>28, <1>29, <1>30, <1>8a
  DEF Next, Scan, Visit, Recover, Select, Execute, Instruction, MoveClaim, Control

(* Every step keeps each byte where its ant is, so no ant gets a second.    *)
LEMMA ByteStep == IInv /\ [Next]_vars => ByteInv'
<1> SUFFICES ASSUME IInv, [Next]_vars PROVE ByteInv'
  OBVIOUS
<1>a. TypeOK /\ RosterInv /\ LockInv /\ LeaseExclusive /\ ByteInv
  BY DEF IInv
<1>b. NoAnt \notin Ants /\ Controller \notin Workers /\ Controller # Nobody
  BY LockAssumption DEF NoAnt, Ants
<1>c. \A w \in Workers : pc[w] # "idle" => lessee[w] \in mask /\ lessee[w] \in Ants
  BY <1>a DEF RosterInv, TypeOK
<1>d. ASSUME NEW w \in Workers, pc[w] # "idle" PROVE ~Idle(lessee[w]) /\ \A v \in Workers : lessee[v] = lessee[w] => v = w
  BY <1>a, <1>b, <1>c, <1>d DEF Idle, LeaseExclusive
<1>e. ASSUME \A c \in Cells : occ'[c] \in {occ[c], NoAnt}, UNCHANGED <<pos, mask, lessee>>,
             \A w \in Workers : pc[w] # "idle" => ByteOf(w)' = ByteOf(w),
             holder # Controller \/ UNCHANGED <<holder, scanAt>>
      PROVE  ByteInv'
  <2> SUFFICES ASSUME NEW c \in Cells, occ'[c] # NoAnt
               PROVE  /\ occ[c] \in mask \/ (holder' = Controller /\ scanAt' = occ[c])
                      /\ Idle(occ[c]) => pos[occ[c]] = c
                      /\ \A w \in Workers : lessee[w] = occ[c] => ByteOf(w)' = c
    BY <1>e DEF ByteInv, Idle
  <2>1. occ[c] # NoAnt
    BY <1>e
  <2>2. \A w \in Workers : lessee[w] = occ[c] => pc[w] # "idle"
    BY <1>a, <2>1 DEF RosterInv
  <2> QED
    BY <1>a, <1>e, <2>1, <2>2 DEF ByteInv
<1>f. ASSUME NEW R \in SUBSET Ants, Retire(R), \A i \in R : i \in mask /\ Idle(i),
             UNCHANGED <<pos, pc, lessee, cell, from>>, holder # Controller
      PROVE  ByteInv'
  <2> SUFFICES ASSUME NEW c \in Cells, occ'[c] # NoAnt
               PROVE  occ'[c] \in mask' /\ occ'[c] = occ[c]
    BY <1>a, <1>f DEF ByteInv, Idle, ByteOf
  <2>1. occ'[c] = occ[c] /\ ~(occ[c] \in R /\ pos[occ[c]] = c)
    BY <1>f DEF Retire, Released
  <2>2. occ[c] \in mask /\ occ[c] \notin R
    BY <1>a, <1>f, <2>1 DEF ByteInv
  <2> QED
    BY <1>f, <2>1, <2>2 DEF Retire
<1> USE DEF shared, lock, local, bucket, roster, mode
<1>1. ASSUME NEW w \in Workers, Acquire(w) PROVE ByteInv'
  BY <1>1, <1>a, <1>b, <1>e DEF Acquire, ByteOf
<1>2. ASSUME NEW w \in Workers, NEW i \in Ants, VisitNone(w, i) PROVE ByteInv'
  BY <1>2, <1>a, <1>b, <1>e DEF VisitNone, Visiting, ByteOf
<1>3. ASSUME NEW w \in Workers, NEW i \in Ants, VisitRetire(w, i) PROVE ByteInv'
  <2>1. Retire({i}) /\ i \in mask /\ Idle(i) /\ holder = w /\ UNCHANGED <<pos, pc, lessee, cell, from>>
    BY <1>3, <1>a DEF VisitRetire, Visiting, LockInv
  <2> QED
    BY <1>b, <1>f, <2>1
<1>4. ASSUME NEW w \in Workers, NEW i \in Ants, VisitPause(w, i) PROVE ByteInv'
  BY <1>4, <1>a, <1>b, <1>e DEF VisitPause, Visiting, ByteOf
<1>5. ASSUME NEW w \in Workers, NEW i \in Ants, VisitClear(w, i) PROVE ByteInv'
  BY <1>5, <1>a, <1>b, <1>e DEF VisitClear, Visiting, ByteOf
<1>6. ASSUME NEW w \in Workers, NEW i \in Ants, VisitWaiting(w, i) PROVE ByteInv'
  BY <1>6, <1>a, <1>b, <1>e DEF VisitWaiting, Visiting, ByteOf
<1>7. ASSUME NEW w \in Workers, RecoverRelease(w) PROVE ByteInv'
  BY <1>7, <1>a, <1>b, <1>e DEF RecoverRelease, Released, ByteOf
<1>8. ASSUME NEW w \in Workers, RecoverRebirth(w) PROVE ByteInv'
  BY <1>8, <1>a, <1>b, <1>e DEF RecoverRebirth, ByteOf
<1>8a. ASSUME NEW w \in Workers, RecoverRestore(w) PROVE ByteInv'
  BY <1>8a, <1>a, <1>b, <1>e DEF RecoverRestore, ByteOf
<1>9. ASSUME NEW w \in Workers, RecoverReclaim(w) PROVE ByteInv'
  <2>1. CASE ~Flagged(scanAt) /\ Reclaimable(scanAt)
    <3>1. /\ occ' = [occ EXCEPT ![pos[scanAt]] = scanAt] /\ scanAt \in mask /\ Idle(scanAt)
          /\ UNCHANGED <<pos, mask, pc, lessee, cell, from, holder, scanAt>>
      BY <1>9, <1>a, <2>1 DEF RecoverReclaim, LockInv
    <3> QED
      BY <1>a, <3>1 DEF ByteInv, Idle, ByteOf, TypeOK
  <2>2. CASE ~(~Flagged(scanAt) /\ Reclaimable(scanAt))
    BY <1>9, <1>a, <1>b, <1>e, <2>2 DEF RecoverReclaim, ByteOf
  <2> QED
    BY <2>1, <2>2
<1>10. ASSUME NEW w \in Workers, RecoverSettle(w) PROVE ByteInv'
  BY <1>10, <1>a, <1>b, <1>e DEF RecoverSettle, ByteOf
<1>11. ASSUME NEW w \in Workers, SelectNone(w) PROVE ByteInv'
  <2>1. CASE UNCHANGED shared
    BY <1>11, <1>a, <1>b, <1>e, <2>1 DEF SelectNone, ByteOf
  <2>2. ASSUME NEW out \in SUBSET Scanned, Retire(out), UNCHANGED pos PROVE ByteInv'
    <3>1. out \in SUBSET Ants /\ \A i \in out : i \in mask /\ Idle(i)
      BY ScannedIdle
    <3>2. UNCHANGED <<pc, lessee, cell, from>> /\ holder # Controller
      BY <1>11, <1>b DEF SelectNone
    <3> QED
      BY <1>f, <2>2, <3>1, <3>2
  <2> QED
    BY <1>11, <2>1, <2>2 DEF SelectNone
<1>12. ASSUME NEW w \in Workers, NEW i \in Ants, SelectLease(w, i) PROVE ByteInv'
  <2>1. PICK out \in SUBSET Scanned : i \in Scanned \ out /\ occ' = Released(out) /\ mask' = mask \ out
    BY <1>12 DEF SelectLease
  <2>2. /\ lessee' = [lessee EXCEPT ![w] = i] /\ pc' = [pc EXCEPT ![w] = "start"]
        /\ cell' = [cell EXCEPT ![w] = pos[i]] /\ UNCHANGED <<pos, from>> /\ holder = w
    BY <1>12 DEF SelectLease
  <2>3. lessee[w] = NoAnt
    BY <1>a, <2>2 DEF LockInv, RosterInv
  <2>4. \A j \in out : Idle(j)
    BY ScannedIdle
  <2>5. Idle(i) /\ i \in mask
    BY <2>1, ScannedIdle
  <2>6. \A c \in Cells : occ'[c] # NoAnt => occ'[c] = occ[c] /\ ~(occ[c] \in out /\ pos[occ[c]] = c)
    BY <2>1 DEF Released
  <2> SUFFICES ASSUME NEW c \in Cells, occ'[c] # NoAnt
               PROVE  /\ occ[c] \in mask'
                      /\ Idle(occ[c])' => pos[occ[c]] = c
                      /\ \A v \in Workers : lessee'[v] = occ[c] => ByteOf(v)' = c
    BY <2>2, <2>6 DEF ByteInv, Idle
  <2>7. occ[c] \in mask /\ occ[c] \notin out
    BY <1>a, <1>b, <2>2, <2>4, <2>6 DEF ByteInv
  <2>8. CASE occ[c] = i
    <3>1. pos[i] = c
      BY <1>a, <2>5, <2>6, <2>8 DEF ByteInv
    <3>2. \A v \in Workers : lessee'[v] = i => v = w
      BY <1>a, <2>2, <2>5 DEF Idle, TypeOK
    <3>3. ByteOf(w)' = c /\ ~Idle(i)'
      BY <1>a, <2>2, <3>1 DEF ByteOf, Idle, TypeOK
    <3> QED
      BY <2>1, <2>6, <2>7, <2>8, <3>2, <3>3
  <2>9. CASE occ[c] # i
    <3>1. \A v \in Workers : lessee'[v] = occ[c] => v # w /\ lessee[v] = occ[c] /\ ByteOf(v)' = ByteOf(v)
      BY <1>a, <2>2, <2>9 DEF TypeOK, ByteOf
    <3>2. Idle(occ[c])' => Idle(occ[c])
      BY <1>a, <2>2, <2>3, <2>6 DEF Idle, TypeOK
    <3> QED
      BY <1>a, <2>1, <2>6, <2>7, <3>1, <3>2 DEF ByteInv
  <2> QED
    BY <2>8, <2>9
<1>13. ASSUME NEW w \in Workers, Start(w) PROVE ByteInv'
  BY <1>13, <1>a, <1>b, <1>e DEF Start, ByteOf, Goto, TypeOK
<1>14. ASSUME NEW w \in Workers, Halt(w) PROVE ByteInv'
  BY <1>14, <1>a, <1>b, <1>e DEF Halt, ByteOf, Goto, TypeOK, Spend
<1>15. ASSUME NEW w \in Workers, Hold(w) PROVE ByteInv'
  BY <1>15, <1>a, <1>b, <1>e DEF Hold, ByteOf, Goto, TypeOK, Spend
<1>16. ASSUME NEW w \in Workers, Move(w) PROVE ByteInv'
  <2>1. PICK h \in Headings : /\ cell' = [cell EXCEPT ![w] = Step(cell[w], h)]
                              /\ Goto(w, IF Step(cell[w], h) = cell[w] THEN "claim" ELSE "vacate")
    BY <1>16 DEF Move
  <2>2. /\ from' = [from EXCEPT ![w] = cell[w]] /\ pc[w] = "loop"
        /\ UNCHANGED <<occ, pos, mask, lessee, holder, scanAt>>
    BY <1>16 DEF Move, Spend
  <2>3. ASSUME NEW v \in Workers PROVE ByteOf(v)' = ByteOf(v)
    BY <1>a, <2>1, <2>2 DEF ByteOf, Goto, TypeOK
  <2> QED
    BY <1>e, <2>2, <2>3
<1>17. ASSUME NEW w \in Workers, Vacate(w) PROVE ByteInv'
  <2>1. /\ pc[w] = "vacate" /\ occ' = [occ EXCEPT ![from[w]] = Vacated(from[w], lessee[w])]
        /\ pc' = [pc EXCEPT ![w] = "claim"] /\ UNCHANGED <<pos, mask, lessee, cell, from, holder, scanAt>>
    BY <1>17 DEF Vacate, Goto
  <2> SUFFICES ASSUME NEW c \in Cells, occ'[c] # NoAnt
               PROVE  occ'[c] = occ[c] /\ \A v \in Workers : lessee[v] = occ[c] => v # w
    BY <1>a, <2>1 DEF ByteInv, Idle, ByteOf, TypeOK
  <2>2. occ'[c] = occ[c]
    BY <1>a, <2>1 DEF Vacated, TypeOK
  <2>3. lessee[w] # occ[c]
    BY <1>a, <2>1, <2>2 DEF ByteInv, ByteOf, Vacated, TypeOK
  <2> QED
    BY <2>2, <2>3
<1>18. ASSUME NEW w \in Workers, Claim(w) PROVE ByteInv'
  <2>1. /\ pc[w] = "claim" /\ pc' = [pc EXCEPT ![w] = pc'[w]] /\ pc'[w] # "vacate"
        /\ UNCHANGED <<pos, mask, lessee, cell, from, holder, scanAt>>
    BY <1>18, <1>a DEF Claim, Goto, TypeOK
  <2>2. CASE UNCHANGED occ
    BY <1>a, <1>e, <2>1, <2>2 DEF ByteOf, TypeOK
  <2>3. CASE occ' = [occ EXCEPT ![cell[w]] = lessee[w]]
    <3> SUFFICES ASSUME NEW c \in Cells, occ'[c] # NoAnt
                 PROVE  /\ occ'[c] \in mask \/ (holder = Controller /\ scanAt = occ'[c])
                        /\ Idle(occ'[c]) => pos[occ'[c]] = c
                        /\ \A v \in Workers : lessee[v] = occ'[c] => ByteOf(v) = c
      BY <1>a, <2>1 DEF ByteInv, Idle, ByteOf, TypeOK
    <3>1. CASE occ'[c] = occ[c]
      BY <1>a, <3>1 DEF ByteInv
    <3>2. CASE occ'[c] # occ[c]
      <4>1. occ'[c] = lessee[w] /\ c = cell[w]
        BY <1>a, <2>3, <3>2 DEF TypeOK
      <4> QED
        BY <1>c, <1>d, <2>1, <4>1 DEF ByteOf
    <3> QED
      BY <3>1, <3>2
  <2> QED
    BY <1>18, <2>2, <2>3 DEF Claim
<1>19. ASSUME NEW w \in Workers, Contest(w) PROVE ByteInv'
  BY <1>19, <1>a, <1>b, <1>e DEF Contest, ByteOf, Goto, TypeOK
<1>20. ASSUME NEW w \in Workers, Replace(w) PROVE ByteInv'
  <2>1. /\ pc[w] = "replace" /\ pc' = [pc EXCEPT ![w] = pc'[w]] /\ pc'[w] # "vacate"
        /\ UNCHANGED <<pos, mask, lessee, cell, from, holder, scanAt>>
    BY <1>20, <1>a DEF Replace, Goto, TypeOK
  <2>2. CASE UNCHANGED occ
    BY <1>a, <1>e, <2>1, <2>2 DEF ByteOf, TypeOK
  <2>3. CASE occ' = [occ EXCEPT ![cell[w]] = lessee[w]]
    <3> SUFFICES ASSUME NEW c \in Cells, occ'[c] # NoAnt
                 PROVE  /\ occ'[c] \in mask \/ (holder = Controller /\ scanAt = occ'[c])
                        /\ Idle(occ'[c]) => pos[occ'[c]] = c
                        /\ \A v \in Workers : lessee[v] = occ'[c] => ByteOf(v) = c
      BY <1>a, <2>1 DEF ByteInv, Idle, ByteOf, TypeOK
    <3>1. CASE occ'[c] = occ[c]
      BY <1>a, <3>1 DEF ByteInv
    <3>2. CASE occ'[c] # occ[c]
      <4>1. occ'[c] = lessee[w] /\ c = cell[w]
        BY <1>a, <2>3, <3>2 DEF TypeOK
      <4> QED
        BY <1>c, <1>d, <2>1, <4>1 DEF ByteOf
    <3> QED
      BY <3>1, <3>2
  <2> QED
    BY <1>20, <2>2, <2>3 DEF Replace
<1>21. ASSUME NEW w \in Workers, Mark(w) PROVE ByteInv'
  BY <1>21, <1>a, <1>b, <1>e DEF Mark, ByteOf, Goto, TypeOK
<1>22. ASSUME NEW w \in Workers, Return(w) PROVE ByteInv'
  <2>1. /\ pos' = [pos EXCEPT ![lessee[w]] = cell[w]] /\ lessee' = [lessee EXCEPT ![w] = NoAnt]
        /\ pc' = [pc EXCEPT ![w] = "idle"] /\ cell' = [cell EXCEPT ![w] = Origin]
        /\ from' = [from EXCEPT ![w] = Origin]
        /\ UNCHANGED <<occ, mask, holder, scanAt>> /\ pc[w] \notin {"idle", "vacate"}
    BY <1>22 DEF Return, Finished
  <2> SUFFICES ASSUME NEW c \in Cells, occ[c] # NoAnt
               PROVE  /\ Idle(occ[c])' => pos'[occ[c]] = c
                      /\ \A v \in Workers : lessee'[v] = occ[c] => ByteOf(v)' = c
    BY <1>a, <2>1 DEF ByteInv
  <2>2. \A v \in Workers : lessee'[v] = occ[c] => v # w /\ lessee[v] = occ[c] /\ ByteOf(v)' = ByteOf(v)
    BY <1>a, <2>1 DEF TypeOK, ByteOf
  <2>3. CASE lessee[w] = occ[c]
    <3>1. cell[w] = c
      BY <1>a, <2>1, <2>3 DEF ByteInv, ByteOf
    <3>2. pos'[occ[c]] = c
      BY <1>a, <1>c, <2>1, <2>3, <3>1 DEF TypeOK
    <3> QED
      BY <1>a, <2>2, <3>2 DEF ByteInv
  <2>4. CASE lessee[w] # occ[c]
    <3>1. Idle(occ[c])' => Idle(occ[c])
      BY <1>a, <2>1, <2>4 DEF Idle, TypeOK
    <3>2. pos'[occ[c]] = pos[occ[c]]
      BY <1>a, <2>1, <2>4 DEF TypeOK
    <3> QED
      BY <1>a, <2>2, <3>1, <3>2 DEF ByteInv
  <2> QED
    BY <2>3, <2>4
<1>23. ASSUME NEW i \in Ants, PauseElapses(i) PROVE ByteInv'
  BY <1>23, <1>a, <1>e DEF PauseElapses, ByteOf
<1>24. ASSUME SetPaused PROVE ByteInv'
  BY <1>24, <1>a, <1>e DEF SetPaused, ByteOf
<1>25. ASSUME Halve PROVE ByteInv'
  BY <1>25, <1>a, <1>e DEF Halve, Cull, ByteOf
<1>26. ASSUME BeginDrain PROVE ByteInv'
  BY <1>26, <1>a, <1>e DEF BeginDrain, ByteOf
<1>27. ASSUME PollDrain PROVE ByteInv'
  <2> DEFINE R == {i \in Ants : ~Has(i, "LEASED") /\ Expired(i)}
  <2>1. Retire(R) /\ holder = Nobody /\ UNCHANGED <<pos, pc, lessee, cell, from>>
    BY <1>27 DEF PollDrain
  <2>2. \A i \in R : i \in mask /\ Idle(i)
    BY <1>a DEF RosterInv, LeaseExclusive, Expired
  <2> QED
    BY <1>b, <1>f, <2>1, <2>2
<1>28. ASSUME SpawnClaim PROVE ByteInv'
  <2>1. holder = Nobody /\ UNCHANGED <<mask, pc, lessee, cell, from>>
    BY <1>28 DEF SpawnClaim
  <2>2. CASE UNCHANGED <<occ, pos, holder, scanAt>>
    BY <1>e, <2>1, <2>2 DEF ByteOf
  <2>3. ASSUME NEW slot \in Ants \ mask, NEW d \in Cells, occ' = [occ EXCEPT ![d] = slot],
               pos' = [pos EXCEPT ![slot] = d], holder' = Controller, scanAt' = slot
        PROVE  ByteInv'
    <3>1. Idle(slot) /\ \A v \in Workers : lessee[v] # slot
      BY <1>a, <1>b, <1>c, <2>3 DEF Idle, RosterInv
    <3> SUFFICES ASSUME NEW c \in Cells, occ'[c] # NoAnt
                 PROVE  /\ occ'[c] \in mask \/ scanAt' = occ'[c]
                        /\ Idle(occ'[c]) => pos'[occ'[c]] = c
                        /\ \A v \in Workers : lessee[v] = occ'[c] => ByteOf(v) = c
      BY <2>1, <2>3 DEF ByteInv, Idle, ByteOf
    <3>2. CASE c = d
      BY <1>a, <2>3, <3>1, <3>2 DEF TypeOK
    <3>3. CASE c # d
      <4>1. occ'[c] = occ[c] /\ occ[c] \in mask
        BY <1>a, <1>b, <2>1, <2>3, <3>3 DEF ByteInv, TypeOK
      <4> QED
        BY <1>a, <2>3, <4>1 DEF ByteInv, TypeOK
    <3> QED
      BY <3>2, <3>3
  <2> QED
    BY <1>28, <2>2, <2>3 DEF SpawnClaim, Lowest
<1>29. ASSUME SpawnEnable PROVE ByteInv'
  BY <1>29, <1>a, <1>b DEF SpawnEnable, ByteInv, Idle, ByteOf
<1>30. CASE UNCHANGED vars
  BY <1>30, <1>e DEF vars, ByteOf
<1> QED
  BY <1>1, <1>2, <1>3, <1>4, <1>5, <1>6, <1>7, <1>8, <1>9, <1>10, <1>11, <1>12,
     <1>13, <1>14, <1>15, <1>16, <1>17, <1>18, <1>19, <1>20, <1>21, <1>22, <1>23, <1>24,
     <1>25, <1>26, <1>27, <1>28, <1>29, <1>30, <1>8a
  DEF Next, Scan, Visit, Recover, Select, Execute, Instruction, MoveClaim, Control

(* Every step keeps a worker's balance its own, and its grant paid for.     *)
LEMMA BalanceStep == IInv /\ [Next]_vars => PrivateBalance'
<1> SUFFICES ASSUME IInv, [Next]_vars PROVE PrivateBalance'
  OBVIOUS
<1>a. TypeOK /\ RosterInv /\ LockInv /\ LeaseExclusive /\ PrivateBalance
  BY DEF IInv
<1>b. \A w \in Workers : pc[w] # "idle" => lessee[w] \in mask /\ lessee[w] \in Ants /\ Has(lessee[w], "LEASED")
  BY DEF IInv, RosterInv, LeaseExclusive, Idle, TypeOK
<1>c. ASSUME NEW v \in Workers, NEW w \in Workers, pc[w] # "idle", lessee[v] = lessee[w] PROVE v = w
  BY <1>a, <1>b, <1>c DEF LeaseExclusive, NoAnt, Ants
<1>e. ASSUME UNCHANGED <<pc, lessee, left, balance>>,
             \A v \in Workers : pc[v] # "idle" => tokens'[lessee[v]] = tokens[lessee[v]]
      PROVE  PrivateBalance'
  BY <1>a, <1>e DEF PrivateBalance
<1>f. ASSUME NEW w \in Workers,
             \A v \in Workers \ {w} : /\ pc'[v] = pc[v] /\ lessee'[v] = lessee[v]
                                      /\ left'[v] = left[v] /\ balance'[v] = balance[v],
             \A v \in Workers \ {w} : pc[v] # "idle" => tokens'[lessee[v]] = tokens[lessee[v]],
             pc'[w] \notin {"idle", "start", "done"} => balance'[w] = tokens'[lessee'[w]],
             pc'[w] \notin {"idle", "done"} => left'[w] * TokenOne <= tokens'[lessee'[w]]
      PROVE  PrivateBalance'
  <2> SUFFICES ASSUME NEW v \in Workers
               PROVE  /\ pc'[v] \notin {"idle", "start", "done"} => balance'[v] = tokens'[lessee'[v]]
                      /\ pc'[v] \notin {"idle", "done"} => left'[v] * TokenOne <= tokens'[lessee'[v]]
    BY DEF PrivateBalance
  <2>1. CASE v = w
    BY <1>f, <2>1
  <2>2. CASE v # w
    BY <1>a, <1>f, <2>2 DEF PrivateBalance
  <2> QED
    BY <2>1, <2>2
<1>g. ASSUME NEW w \in Workers, UNCHANGED <<lessee, left, balance, tokens>>,
             pc[w] \notin {"idle", "start", "done"}, pc' = [pc EXCEPT ![w] = pc'[w]]
      PROVE  PrivateBalance'
  BY <1>a, <1>g DEF PrivateBalance, TypeOK
<1>h. ASSUME NEW w \in Workers, Spend(w), UNCHANGED lessee,
             pc'[w] # "start", \A v \in Workers \ {w} : pc'[v] = pc[v]
      PROVE  PrivateBalance'
  <2>1. /\ pc[w] = "loop" /\ left[w] > 0
        /\ left' = [left EXCEPT ![w] = left[w] - 1]
        /\ balance' = [balance EXCEPT ![w] = balance[w] - TokenOne]
        /\ tokens' = [tokens EXCEPT ![lessee[w]] = balance[w] - TokenOne]
    BY <1>h DEF Spend
  <2>2. balance[w] = tokens[lessee[w]] /\ left[w] * TokenOne <= tokens[lessee[w]]
    BY <1>a, <2>1 DEF PrivateBalance
  <2>3. lessee[w] \in Ants /\ left[w] \in Nat /\ tokens[lessee[w]] \in Nat
    BY <1>a, <1>b, <2>1, ColonyAssumption DEF TypeOK
  <2>4. (left[w] - 1) * TokenOne <= balance[w] - TokenOne
    BY <2>1, <2>2, <2>3, PayOne, ColonyAssumption
  <2>5. ASSUME NEW v \in Workers \ {w}, pc[v] # "idle" PROVE tokens'[lessee[v]] = tokens[lessee[v]]
    BY <1>a, <1>b, <1>c, <2>1, <2>5 DEF TypeOK
  <2>6. /\ left'[w] = left[w] - 1 /\ balance'[w] = balance[w] - TokenOne
        /\ tokens'[lessee'[w]] = balance[w] - TokenOne
        /\ \A v \in Workers \ {w} : left'[v] = left[v] /\ balance'[v] = balance[v]
    BY <1>a, <1>h, <2>1, <2>3 DEF TypeOK
  <2> QED
    BY <1>f, <1>h, <2>4, <2>5, <2>6
<1>i. ASSUME NEW t \in Balances, NEW j \in Ants, Has(j, "LEASED") PROVE t[j] = tokens[j]
  BY <1>i DEF Balances, Scanned, HasAny, Has
<1> USE DEF shared, lock, local, bucket, roster, mode
<1>1. ASSUME NEW w \in Workers, Acquire(w) PROVE PrivateBalance'
  BY <1>1, <1>e DEF Acquire
<1>2. ASSUME NEW w \in Workers, NEW i \in Ants, VisitNone(w, i) PROVE PrivateBalance'
  BY <1>2, <1>e DEF VisitNone
<1>3. ASSUME NEW w \in Workers, NEW i \in Ants, VisitRetire(w, i) PROVE PrivateBalance'
  BY <1>3, <1>e DEF VisitRetire
<1>4. ASSUME NEW w \in Workers, NEW i \in Ants, VisitPause(w, i) PROVE PrivateBalance'
  BY <1>4, <1>e DEF VisitPause
<1>5. ASSUME NEW w \in Workers, NEW i \in Ants, VisitClear(w, i) PROVE PrivateBalance'
  BY <1>5, <1>e DEF VisitClear
<1>6. ASSUME NEW w \in Workers, NEW i \in Ants, VisitWaiting(w, i) PROVE PrivateBalance'
  BY <1>6, <1>e DEF VisitWaiting
<1>7. ASSUME NEW w \in Workers, RecoverRelease(w) PROVE PrivateBalance'
  BY <1>7, <1>e DEF RecoverRelease
<1>8. ASSUME NEW w \in Workers, RecoverRebirth(w) PROVE PrivateBalance'
  <2>1. PICK n : tokens' = [tokens EXCEPT ![scanAt] = n]
    BY <1>8 DEF RecoverRebirth
  <2>2. UNCHANGED <<pc, lessee, left>> /\ Idle(scanAt) /\ pc[w] = "idle"
    BY <1>8, <1>a DEF RecoverRebirth, LeaseExclusive, LockInv
  <2>3. \A v \in Workers : pc[v] # "idle" => balance'[v] = balance[v]
    BY <1>8, <1>a, <2>2 DEF RecoverRebirth, TypeOK
  <2> QED
    BY <1>a, <2>1, <2>2, <2>3 DEF Idle, TypeOK, PrivateBalance
<1>8a. ASSUME NEW w \in Workers, RecoverRestore(w) PROVE PrivateBalance'
  <2>1. PICK n : tokens' = [tokens EXCEPT ![scanAt] = n]
    BY <1>8a DEF RecoverRestore
  <2>2. UNCHANGED <<pc, lessee, left>> /\ Idle(scanAt) /\ pc[w] = "idle"
    BY <1>8a, <1>a DEF RecoverRestore, LeaseExclusive, LockInv
  <2>3. \A v \in Workers : pc[v] # "idle" => balance'[v] = balance[v]
    BY <1>8a, <1>a, <2>2 DEF RecoverRestore, TypeOK
  <2> QED
    BY <1>a, <2>1, <2>2, <2>3 DEF Idle, TypeOK, PrivateBalance
<1>9. ASSUME NEW w \in Workers, RecoverReclaim(w) PROVE PrivateBalance'
  BY <1>9, <1>e DEF RecoverReclaim
<1>10. ASSUME NEW w \in Workers, RecoverSettle(w) PROVE PrivateBalance'
  BY <1>10, <1>e DEF RecoverSettle
<1>11. ASSUME NEW w \in Workers, SelectNone(w) PROVE PrivateBalance'
  <2>1. UNCHANGED tokens \/ tokens' \in Balances
    BY <1>11 DEF SelectNone
  <2> QED
    BY <1>11, <1>b, <1>e, <1>i, <2>1 DEF SelectNone
<1>12. ASSUME NEW w \in Workers, NEW i \in Ants, SelectLease(w, i) PROVE PrivateBalance'
  <2>1. PICK t \in Balances : tokens' = t /\ left' = [left EXCEPT ![w] = Grant(t[i])]
    BY <1>12 DEF SelectLease
  <2>2. /\ pc' = [pc EXCEPT ![w] = "start"] /\ lessee' = [lessee EXCEPT ![w] = i] /\ UNCHANGED balance
    BY <1>12 DEF SelectLease
  <2>3. Grant(t[i]) * TokenOne <= t[i]
    BY <1>a, BalancesNat, GrantPaid
  <2>4. \A v \in Workers : pc[v] # "idle" => tokens'[lessee[v]] = tokens[lessee[v]]
    BY <1>b, <1>i, <2>1
  <2>5. /\ pc'[w] = "start" /\ lessee'[w] = i /\ left'[w] = Grant(t[i])
        /\ \A v \in Workers \ {w} : /\ pc'[v] = pc[v] /\ lessee'[v] = lessee[v]
                                    /\ left'[v] = left[v] /\ balance'[v] = balance[v]
    BY <1>a, <2>1, <2>2 DEF TypeOK
  <2> QED
    BY <1>f, <2>1, <2>3, <2>4, <2>5
<1>13. ASSUME NEW w \in Workers, Start(w) PROVE PrivateBalance'
  <2>1. /\ pc[w] = "start" /\ UNCHANGED <<tokens, lessee, left>>
        /\ \/ pc' = [pc EXCEPT ![w] = "loop"] /\ balance' = [balance EXCEPT ![w] = tokens[lessee[w]]]
           \/ pc' = [pc EXCEPT ![w] = "done"] /\ UNCHANGED balance
    BY <1>13 DEF Start, Goto
  <2>2. left[w] * TokenOne <= tokens[lessee[w]]
    BY <1>a, <2>1 DEF PrivateBalance
  <2> QED
    BY <1>a, <1>f, <2>1, <2>2 DEF TypeOK
<1>14. ASSUME NEW w \in Workers, Halt(w) PROVE PrivateBalance'
  BY <1>14, <1>a, <1>h DEF Halt, Goto, TypeOK, Spend
<1>15. ASSUME NEW w \in Workers, Hold(w) PROVE PrivateBalance'
  BY <1>15, <1>a, <1>h DEF Hold, Goto, TypeOK, Spend
<1>16. ASSUME NEW w \in Workers, Move(w) PROVE PrivateBalance'
  <2>1. Spend(w) /\ UNCHANGED lessee /\ \E l \in {"claim", "vacate"} : Goto(w, l)
    BY <1>16 DEF Move
  <2>2. pc'[w] # "start" /\ \A v \in Workers \ {w} : pc'[v] = pc[v]
    BY <1>a, <2>1 DEF Goto, TypeOK
  <2> QED
    BY <1>h, <2>1, <2>2
<1>17. ASSUME NEW w \in Workers, Vacate(w) PROVE PrivateBalance'
  BY <1>17, <1>a, <1>g DEF Vacate, Goto, TypeOK
<1>18. ASSUME NEW w \in Workers, Claim(w) PROVE PrivateBalance'
  BY <1>18, <1>a, <1>g DEF Claim, Goto, TypeOK
<1>19. ASSUME NEW w \in Workers, Contest(w) PROVE PrivateBalance'
  BY <1>19, <1>a, <1>g DEF Contest, Goto, TypeOK
<1>20. ASSUME NEW w \in Workers, Replace(w) PROVE PrivateBalance'
  BY <1>20, <1>a, <1>g DEF Replace, Goto, TypeOK
<1>21. ASSUME NEW w \in Workers, Mark(w) PROVE PrivateBalance'
  BY <1>21, <1>a, <1>g DEF Mark, Goto, TypeOK
<1>22. ASSUME NEW w \in Workers, Return(w) PROVE PrivateBalance'
  <2>1. /\ pc' = [pc EXCEPT ![w] = "idle"] /\ lessee' = [lessee EXCEPT ![w] = NoAnt]
        /\ left' = [left EXCEPT ![w] = 0] /\ balance' = [balance EXCEPT ![w] = 0] /\ pc[w] # "idle"
    BY <1>22 DEF Return, Finished
  <2>2. PICK n : tokens' = [tokens EXCEPT ![lessee[w]] = n]
    BY <1>22 DEF Return
  <2>3. ASSUME NEW v \in Workers \ {w}, pc[v] # "idle" PROVE tokens'[lessee[v]] = tokens[lessee[v]]
    BY <1>a, <1>b, <1>c, <2>1, <2>2, <2>3 DEF TypeOK
  <2>4. /\ pc'[w] = "idle"
        /\ \A v \in Workers \ {w} : /\ pc'[v] = pc[v] /\ lessee'[v] = lessee[v]
                                    /\ left'[v] = left[v] /\ balance'[v] = balance[v]
    BY <1>a, <2>1 DEF TypeOK
  <2> QED
    BY <1>f, <2>3, <2>4
<1>23. ASSUME NEW i \in Ants, PauseElapses(i) PROVE PrivateBalance'
  BY <1>23, <1>e DEF PauseElapses
<1>24. ASSUME SetPaused PROVE PrivateBalance'
  BY <1>24, <1>e DEF SetPaused
<1>25. ASSUME Halve PROVE PrivateBalance'
  BY <1>25, <1>e DEF Halve, Cull
<1>26. ASSUME BeginDrain PROVE PrivateBalance'
  BY <1>26, <1>e DEF BeginDrain
<1>27. ASSUME PollDrain PROVE PrivateBalance'
  BY <1>27, <1>e DEF PollDrain
<1>28. ASSUME SpawnClaim PROVE PrivateBalance'
  <2>1. PICK slot \in Ants \ mask, n \in Nat : tokens' = [tokens EXCEPT ![slot] = n]
    BY <1>28, ColonyAssumption DEF SpawnClaim, Lowest
  <2>2. UNCHANGED <<pc, lessee, left, balance>>
    BY <1>28 DEF SpawnClaim
  <2> QED
    BY <1>a, <1>b, <1>e, <2>1, <2>2 DEF TypeOK
<1>29. ASSUME SpawnEnable PROVE PrivateBalance'
  BY <1>29, <1>e DEF SpawnEnable
<1>30. CASE UNCHANGED vars
  BY <1>30, <1>e DEF vars
<1> QED
  BY <1>1, <1>2, <1>3, <1>4, <1>5, <1>6, <1>7, <1>8, <1>9, <1>10, <1>11, <1>12,
     <1>13, <1>14, <1>15, <1>16, <1>17, <1>18, <1>19, <1>20, <1>21, <1>22, <1>23, <1>24,
     <1>25, <1>26, <1>27, <1>28, <1>29, <1>30, <1>8a
  DEF Next, Scan, Visit, Recover, Select, Execute, Instruction, MoveClaim, Control

(* The initial states satisfy the invariant.                               *)
LEMMA InitInv == Init => IInv
<1> SUFFICES ASSUME Init PROVE IInv
  OBVIOUS
<1>0. NoAnt \notin Ants /\ 1..InitialAnts \subseteq Ants /\ Origin \in Cells /\ InitialAnts \in Int
  BY ColonyAssumption DEF NoAnt, Ants, Origin, Cells
<1>1. ASSUME NEW c \in Cells, occ[c] # NoAnt PROVE occ[c] \in 1..InitialAnts /\ pos[occ[c]] = c
  <2>1. \E i \in 1..InitialAnts : pos[i] = c
    BY <1>1 DEF Init
  <2> QED
    BY <2>1 DEF Init
<1>2. TypeOK
  <2>1. occ \in [Cells -> Ants \cup {NoAnt}]
    <3>1. DOMAIN occ = Cells /\ occ = [c \in Cells |-> occ[c]]
      BY DEF Init
    <3> QED
      BY <1>0, <1>1, <3>1
  <2>2. capacity \in [Ants -> Nat] /\ tokens \in [Ants -> Nat]
    BY ColonyAssumption DEF Init
  <2>3. flags \in [Ants -> SUBSET Flag]
    BY DEF Init, Flag
  <2>4. left \in [Workers -> 0..Quantum] /\ scanAt \in 1 .. MaxAnts + 1
    BY ColonyAssumption DEF Init
  <2>5. pos \in [Ants -> Cells] /\ earning \in [Ants -> BOOLEAN] /\ timer \in [Ants -> {"none", "pending", "due"}]
    BY DEF Init
  <2>6. /\ mask \in SUBSET Ants /\ population \in Int /\ draining \in BOOLEAN /\ paused \in BOOLEAN
        /\ holder \in Workers \cup {Controller, Nobody} /\ scanStep = "visit"
    BY <1>0 DEF Init
  <2>7. /\ pc \in [Workers -> {"idle"}] /\ balance \in [Workers -> Nat]
        /\ lessee \in [Workers -> Ants \cup {NoAnt}] /\ rival \in [Workers -> Ants \cup {NoAnt}]
        /\ cell \in [Workers -> Cells] /\ from \in [Workers -> Cells]
    BY <1>0 DEF Init
  <2> QED
    BY <2>1, <2>2, <2>3, <2>4, <2>5, <2>6, <2>7 DEF TypeOK
<1>3. LockInv
  BY LockAssumption DEF Init, LockInv
<1>4. RosterInv
  BY <1>0, ColonyAssumption DEF Init, RosterInv, Has, Ants
<1>5. LeaseExclusive
  BY <1>0 DEF Init, LeaseExclusive, Has, Idle
<1>6. ByteInv
  BY <1>0, <1>1 DEF Init, ByteInv
<1>7. PrivateBalance
  BY DEF Init, PrivateBalance
<1> QED
  BY <1>2, <1>3, <1>4, <1>5, <1>6, <1>7 DEF IInv

(* Every step keeps the population the number of enabled ants.             *)
LEMMA PopulationStep == IInv /\ PopulationAgrees /\ [Next]_vars => PopulationAgrees'
<1> SUFFICES ASSUME IInv /\ PopulationAgrees, [Next]_vars PROVE PopulationAgrees'
  OBVIOUS
<1>a. TypeOK /\ RosterInv /\ LockInv /\ LeaseExclusive
  BY DEF IInv
<1>c. ASSUME NEW R \in SUBSET mask, mask' = mask \ R, population' = population - Cardinality(R)
      PROVE  PopulationAgrees'
  <2>1. mask \in SUBSET Ants /\ IsFiniteSet(mask)
    BY <1>a, AntsFinite DEF TypeOK
  <2>2. Cardinality(mask \ R) = Cardinality(mask) - Cardinality(mask \cap R) /\ mask \cap R = R
    BY <2>1, FS_Difference
  <2>3. RosterInv'
    BY RosterStep
  <2> QED
    BY <1>c, <2>2, <2>3 DEF PopulationAgrees, RosterInv, Has
<1>e. ASSUME UNCHANGED roster PROVE PopulationAgrees'
  <2>1. RosterInv'
    BY RosterStep
  <2> QED
    BY <1>e, <2>1 DEF PopulationAgrees, roster, RosterInv, Has
<1> USE DEF PopulationAgrees, shared, lock, local, bucket, roster, mode
<1>1. ASSUME NEW w \in Workers, Acquire(w) PROVE PopulationAgrees'
  BY <1>1, <1>e DEF Acquire
<1>2. ASSUME NEW w \in Workers, NEW i \in Ants, VisitNone(w, i) PROVE PopulationAgrees'
  BY <1>2, <1>e DEF VisitNone
<1>3. ASSUME NEW w \in Workers, NEW i \in Ants, VisitRetire(w, i) PROVE PopulationAgrees'
  BY <1>3, <1>c DEF VisitRetire, Visiting, Retire
<1>4. ASSUME NEW w \in Workers, NEW i \in Ants, VisitPause(w, i) PROVE PopulationAgrees'
  BY <1>4, <1>e DEF VisitPause
<1>5. ASSUME NEW w \in Workers, NEW i \in Ants, VisitClear(w, i) PROVE PopulationAgrees'
  BY <1>5, <1>e DEF VisitClear
<1>6. ASSUME NEW w \in Workers, NEW i \in Ants, VisitWaiting(w, i) PROVE PopulationAgrees'
  BY <1>6, <1>e DEF VisitWaiting
<1>7. ASSUME NEW w \in Workers, RecoverRelease(w) PROVE PopulationAgrees'
  BY <1>7, <1>e DEF RecoverRelease
<1>8. ASSUME NEW w \in Workers, RecoverRebirth(w) PROVE PopulationAgrees'
  BY <1>8, <1>e DEF RecoverRebirth
<1>8a. ASSUME NEW w \in Workers, RecoverRestore(w) PROVE PopulationAgrees'
  BY <1>8a, <1>e DEF RecoverRestore
<1>9. ASSUME NEW w \in Workers, RecoverReclaim(w) PROVE PopulationAgrees'
  BY <1>9, <1>e DEF RecoverReclaim
<1>10. ASSUME NEW w \in Workers, RecoverSettle(w) PROVE PopulationAgrees'
  BY <1>10, <1>e DEF RecoverSettle
<1>11. ASSUME NEW w \in Workers, SelectNone(w) PROVE PopulationAgrees'
  <2>1. UNCHANGED shared \/ \E out \in SUBSET Scanned : Retire(out)
    BY <1>11 DEF SelectNone
  <2>2. Scanned \subseteq mask
    BY DEF Scanned
  <2> QED
    BY <1>c, <1>e, <2>1, <2>2 DEF Retire
<1>12. ASSUME NEW w \in Workers, NEW i \in Ants, SelectLease(w, i) PROVE PopulationAgrees'
  <2>1. \E out \in SUBSET Scanned : mask' = mask \ out /\ population' = population - Cardinality(out)
    BY <1>12 DEF SelectLease
  <2>2. Scanned \subseteq mask
    BY DEF Scanned
  <2> QED
    BY <1>c, <2>1, <2>2
<1>13. ASSUME NEW w \in Workers, Start(w) PROVE PopulationAgrees'
  BY <1>13, <1>e DEF Start
<1>14. ASSUME NEW w \in Workers, Halt(w) PROVE PopulationAgrees'
  BY <1>14, <1>e DEF Halt
<1>15. ASSUME NEW w \in Workers, Hold(w) PROVE PopulationAgrees'
  BY <1>15, <1>e DEF Hold
<1>16. ASSUME NEW w \in Workers, Move(w) PROVE PopulationAgrees'
  BY <1>16, <1>e DEF Move
<1>17. ASSUME NEW w \in Workers, Vacate(w) PROVE PopulationAgrees'
  BY <1>17, <1>e DEF Vacate
<1>18. ASSUME NEW w \in Workers, Claim(w) PROVE PopulationAgrees'
  BY <1>18, <1>e DEF Claim
<1>19. ASSUME NEW w \in Workers, Contest(w) PROVE PopulationAgrees'
  BY <1>19, <1>e DEF Contest
<1>20. ASSUME NEW w \in Workers, Replace(w) PROVE PopulationAgrees'
  BY <1>20, <1>e DEF Replace
<1>21. ASSUME NEW w \in Workers, Mark(w) PROVE PopulationAgrees'
  BY <1>21, <1>e DEF Mark
<1>22. ASSUME NEW w \in Workers, Return(w) PROVE PopulationAgrees'
  BY <1>22, <1>e DEF Return
<1>23. ASSUME NEW i \in Ants, PauseElapses(i) PROVE PopulationAgrees'
  BY <1>23, <1>e DEF PauseElapses
<1>24. ASSUME SetPaused PROVE PopulationAgrees'
  BY <1>24, <1>e DEF SetPaused
<1>25. ASSUME Halve PROVE PopulationAgrees'
  BY <1>25, <1>e DEF Halve, Cull
<1>26. ASSUME BeginDrain PROVE PopulationAgrees'
  BY <1>26, <1>e DEF BeginDrain
<1>27. ASSUME PollDrain PROVE PopulationAgrees'
  <2> DEFINE R == {i \in Ants : ~Has(i, "LEASED") /\ Expired(i)}
  <2>1. Retire(R)
    BY <1>27 DEF PollDrain
  <2>2. R \subseteq mask
    BY <1>a DEF RosterInv, Expired
  <2> HIDE DEF R
  <2> QED
    BY <1>c, <2>1, <2>2 DEF Retire
<1>28. ASSUME SpawnClaim PROVE PopulationAgrees'
  BY <1>28, <1>e DEF SpawnClaim
<1>29. ASSUME SpawnEnable PROVE PopulationAgrees'
  <2>1. scanAt \notin mask /\ mask' = mask \cup {scanAt} /\ population' = population + 1
    BY <1>29, <1>a DEF SpawnEnable, LockInv
  <2>2. Cardinality(mask \cup {scanAt}) = Cardinality(mask) + 1
    BY <1>a, <2>1, AntsFinite, FS_AddElement DEF TypeOK
  <2>3. RosterInv'
    BY RosterStep
  <2> QED
    BY <2>1, <2>2, <2>3 DEF PopulationAgrees, RosterInv, Has
<1>30. CASE UNCHANGED vars
  BY <1>30, <1>e DEF vars
<1> QED
  BY <1>1, <1>2, <1>3, <1>4, <1>5, <1>6, <1>7, <1>8, <1>9, <1>10, <1>11, <1>12,
     <1>13, <1>14, <1>15, <1>16, <1>17, <1>18, <1>19, <1>20, <1>21, <1>22, <1>23, <1>24,
     <1>25, <1>26, <1>27, <1>28, <1>29, <1>30, <1>8a
  DEF Next, Scan, Visit, Recover, Select, Execute, Instruction, MoveClaim, Control

(* Every step keeps draining ants without an income.                        *)
LEMMA EarningStep == IInv /\ DrainingEarnsNothing /\ [Next]_vars => DrainingEarnsNothing'
<1> SUFFICES ASSUME IInv /\ DrainingEarnsNothing, [Next]_vars PROVE DrainingEarnsNothing'
  OBVIOUS
<1>a. TypeOK /\ RosterInv /\ LockInv /\ LeaseExclusive
  BY DEF IInv
<1>e. ASSUME \A i \in Ants : earning'[i] => earning[i],
             \A i \in Ants : {"ENABLED", "DRAINING"} \subseteq flags'[i] => {"ENABLED", "DRAINING"} \subseteq flags[i]
      PROVE  DrainingEarnsNothing'
  BY <1>e DEF DrainingEarnsNothing, Has
<1> USE DEF shared, lock, local, bucket, roster, mode, Has
<1>1. ASSUME NEW w \in Workers, Acquire(w) PROVE DrainingEarnsNothing'
  BY <1>1, <1>e DEF Acquire
<1>2. ASSUME NEW w \in Workers, NEW i \in Ants, VisitNone(w, i) PROVE DrainingEarnsNothing'
  BY <1>2, <1>e DEF VisitNone
<1>3. ASSUME NEW w \in Workers, NEW i \in Ants, VisitRetire(w, i) PROVE DrainingEarnsNothing'
  BY <1>3, <1>e DEF VisitRetire, Retire, RetireFlags
<1>4. ASSUME NEW w \in Workers, NEW i \in Ants, VisitPause(w, i) PROVE DrainingEarnsNothing'
  BY <1>4, <1>e DEF VisitPause
<1>5. ASSUME NEW w \in Workers, NEW i \in Ants, VisitClear(w, i) PROVE DrainingEarnsNothing'
  BY <1>5, <1>a, <1>e DEF VisitClear, TypeOK
<1>6. ASSUME NEW w \in Workers, NEW i \in Ants, VisitWaiting(w, i) PROVE DrainingEarnsNothing'
  BY <1>6, <1>e DEF VisitWaiting
<1>7. ASSUME NEW w \in Workers, RecoverRelease(w) PROVE DrainingEarnsNothing'
  BY <1>7, <1>e DEF RecoverRelease
<1>8. ASSUME NEW w \in Workers, RecoverRebirth(w) PROVE DrainingEarnsNothing'
  BY <1>8, <1>a DEF RecoverRebirth, TypeOK, RebirthFlags, DrainingEarnsNothing
<1>8a. ASSUME NEW w \in Workers, RecoverRestore(w) PROVE DrainingEarnsNothing'
  BY <1>8a, <1>a DEF RecoverRestore, TypeOK, DrainingEarnsNothing
<1>9. ASSUME NEW w \in Workers, RecoverReclaim(w) PROVE DrainingEarnsNothing'
  BY <1>9, <1>e DEF RecoverReclaim
<1>10. ASSUME NEW w \in Workers, RecoverSettle(w) PROVE DrainingEarnsNothing'
  BY <1>10, <1>a, <1>e DEF RecoverSettle, TypeOK, Settled
<1>11. ASSUME NEW w \in Workers, SelectNone(w) PROVE DrainingEarnsNothing'
  <2>1. UNCHANGED flags \/ \E out : Retire(out)
    BY <1>11 DEF SelectNone
  <2>2. UNCHANGED earning
    BY <1>11 DEF SelectNone
  <2> QED
    BY <1>e, <2>1, <2>2 DEF Retire, RetireFlags
<1>12. ASSUME NEW w \in Workers, NEW i \in Ants, SelectLease(w, i) PROVE DrainingEarnsNothing'
  <2>1. PICK out : flags' = [j \in Ants |-> IF j \in out THEN RetireFlags(j)
                                            ELSE IF j = i THEN flags[j] \cup {"LEASED"} ELSE flags[j]]
    BY <1>12 DEF SelectLease
  <2>2. UNCHANGED earning
    BY <1>12 DEF SelectLease
  <2> QED
    BY <1>e, <2>1, <2>2 DEF RetireFlags
<1>13. ASSUME NEW w \in Workers, Start(w) PROVE DrainingEarnsNothing'
  BY <1>13, <1>e DEF Start
<1>14. ASSUME NEW w \in Workers, Halt(w) PROVE DrainingEarnsNothing'
  BY <1>14, <1>a, <1>e DEF Halt, TypeOK
<1>15. ASSUME NEW w \in Workers, Hold(w) PROVE DrainingEarnsNothing'
  BY <1>15, <1>e DEF Hold
<1>16. ASSUME NEW w \in Workers, Move(w) PROVE DrainingEarnsNothing'
  BY <1>16, <1>e DEF Move
<1>17. ASSUME NEW w \in Workers, Vacate(w) PROVE DrainingEarnsNothing'
  BY <1>17, <1>e DEF Vacate
<1>18. ASSUME NEW w \in Workers, Claim(w) PROVE DrainingEarnsNothing'
  BY <1>18, <1>e DEF Claim
<1>19. ASSUME NEW w \in Workers, Contest(w) PROVE DrainingEarnsNothing'
  BY <1>19, <1>a, <1>e DEF Contest, TypeOK, Marked
<1>20. ASSUME NEW w \in Workers, Replace(w) PROVE DrainingEarnsNothing'
  BY <1>20, <1>e DEF Replace
<1>21. ASSUME NEW w \in Workers, Mark(w) PROVE DrainingEarnsNothing'
  BY <1>21, <1>a, <1>e DEF Mark, TypeOK, Marked
<1>22. ASSUME NEW w \in Workers, Return(w) PROVE DrainingEarnsNothing'
  BY <1>22, <1>a, <1>e DEF Return, TypeOK
<1>23. ASSUME NEW i \in Ants, PauseElapses(i) PROVE DrainingEarnsNothing'
  BY <1>23, <1>e DEF PauseElapses
<1>24. ASSUME SetPaused PROVE DrainingEarnsNothing'
  BY <1>24, <1>e DEF SetPaused
<1>25. ASSUME Halve PROVE DrainingEarnsNothing'
  BY <1>25, <1>a DEF Halve, Cull, TypeOK, DrainingEarnsNothing
<1>26. ASSUME BeginDrain PROVE DrainingEarnsNothing'
  BY <1>26, <1>a DEF BeginDrain, TypeOK, DrainingEarnsNothing
<1>27. ASSUME PollDrain PROVE DrainingEarnsNothing'
  BY <1>27, <1>e DEF PollDrain, Retire, RetireFlags
<1>28. ASSUME SpawnClaim PROVE DrainingEarnsNothing'
  BY <1>28, <1>a DEF SpawnClaim, TypeOK, RosterInv, Lowest, DrainingEarnsNothing
<1>29. ASSUME SpawnEnable PROVE DrainingEarnsNothing'
  BY <1>29, <1>a DEF SpawnEnable, TypeOK, LockInv, DrainingEarnsNothing
<1>30. CASE UNCHANGED vars
  BY <1>30, <1>e DEF vars
<1> QED
  BY <1>1, <1>2, <1>3, <1>4, <1>5, <1>6, <1>7, <1>8, <1>9, <1>10, <1>11, <1>12,
     <1>13, <1>14, <1>15, <1>16, <1>17, <1>18, <1>19, <1>20, <1>21, <1>22, <1>23, <1>24,
     <1>25, <1>26, <1>27, <1>28, <1>29, <1>30, <1>8a
  DEF Next, Scan, Visit, Recover, Select, Execute, Instruction, MoveClaim, Control

(* The action that MarkNeverLost says every step is. *)
MarkKept == \A i \in Ants : /\ {"CLOBBERED", "ENABLED"} \subseteq flags[i]
                            /\ "CLOBBERED" \notin flags'[i]
                            => Idle(i) /\ "WAITING" \in flags'[i]

(* Every step keeps the mark of a live ant, or makes the idle ant wait.     *)
LEMMA MarkStep == IInv /\ [Next]_vars => MarkKept
<1> SUFFICES ASSUME IInv, [Next]_vars PROVE MarkKept
  OBVIOUS
<1>a. TypeOK /\ RosterInv /\ LockInv /\ LeaseExclusive
  BY DEF IInv
<1>e. ASSUME \A i \in Ants : "CLOBBERED" \in flags[i] => "CLOBBERED" \in flags'[i]
      PROVE  MarkKept
  BY <1>e DEF MarkKept
<1> USE DEF shared, lock, local, bucket, roster, mode
<1>1. ASSUME NEW w \in Workers, Acquire(w) PROVE MarkKept
  BY <1>1, <1>e DEF Acquire
<1>2. ASSUME NEW w \in Workers, NEW i \in Ants, VisitNone(w, i) PROVE MarkKept
  BY <1>2, <1>e DEF VisitNone
<1>3. ASSUME NEW w \in Workers, NEW i \in Ants, VisitRetire(w, i) PROVE MarkKept
  BY <1>3, <1>e DEF VisitRetire, Retire, RetireFlags
<1>4. ASSUME NEW w \in Workers, NEW i \in Ants, VisitPause(w, i) PROVE MarkKept
  BY <1>4, <1>e DEF VisitPause
<1>5. ASSUME NEW w \in Workers, NEW i \in Ants, VisitClear(w, i) PROVE MarkKept
  <2>1. Idle(i)
    BY <1>5, <1>a DEF VisitClear, Visiting, LockInv
  <2> QED
    BY <1>5, <1>a, <2>1 DEF VisitClear, TypeOK, MarkKept
<1>6. ASSUME NEW w \in Workers, NEW i \in Ants, VisitWaiting(w, i) PROVE MarkKept
  BY <1>6, <1>e DEF VisitWaiting
<1>7. ASSUME NEW w \in Workers, RecoverRelease(w) PROVE MarkKept
  BY <1>7, <1>e DEF RecoverRelease
<1>8. ASSUME NEW w \in Workers, RecoverRebirth(w) PROVE MarkKept
  BY <1>8, <1>a, <1>e DEF RecoverRebirth, TypeOK, RebirthFlags
<1>8a. ASSUME NEW w \in Workers, RecoverRestore(w) PROVE MarkKept
  BY <1>8a, <1>a, <1>e DEF RecoverRestore, TypeOK
<1>9. ASSUME NEW w \in Workers, RecoverReclaim(w) PROVE MarkKept
  BY <1>9, <1>e DEF RecoverReclaim
<1>10. ASSUME NEW w \in Workers, RecoverSettle(w) PROVE MarkKept
  BY <1>10, <1>a, <1>e DEF RecoverSettle, TypeOK, Settled
<1>11. ASSUME NEW w \in Workers, SelectNone(w) PROVE MarkKept
  <2>1. UNCHANGED shared \/ \E out : Retire(out)
    BY <1>11 DEF SelectNone
  <2> QED
    BY <1>e, <2>1 DEF Retire, RetireFlags
<1>12. ASSUME NEW w \in Workers, NEW i \in Ants, SelectLease(w, i) PROVE MarkKept
  <2>1. PICK out : flags' = [j \in Ants |-> IF j \in out THEN RetireFlags(j)
                                            ELSE IF j = i THEN flags[j] \cup {"LEASED"} ELSE flags[j]]
    BY <1>12 DEF SelectLease
  <2> QED
    BY <1>e, <2>1 DEF RetireFlags
<1>13. ASSUME NEW w \in Workers, Start(w) PROVE MarkKept
  BY <1>13, <1>e DEF Start
<1>14. ASSUME NEW w \in Workers, Halt(w) PROVE MarkKept
  BY <1>14, <1>a, <1>e DEF Halt, TypeOK
<1>15. ASSUME NEW w \in Workers, Hold(w) PROVE MarkKept
  BY <1>15, <1>e DEF Hold
<1>16. ASSUME NEW w \in Workers, Move(w) PROVE MarkKept
  BY <1>16, <1>e DEF Move
<1>17. ASSUME NEW w \in Workers, Vacate(w) PROVE MarkKept
  BY <1>17, <1>e DEF Vacate
<1>18. ASSUME NEW w \in Workers, Claim(w) PROVE MarkKept
  BY <1>18, <1>e DEF Claim
<1>19. ASSUME NEW w \in Workers, Contest(w) PROVE MarkKept
  BY <1>19, <1>a, <1>e DEF Contest, TypeOK, Marked
<1>20. ASSUME NEW w \in Workers, Replace(w) PROVE MarkKept
  BY <1>20, <1>e DEF Replace
<1>21. ASSUME NEW w \in Workers, Mark(w) PROVE MarkKept
  BY <1>21, <1>a, <1>e DEF Mark, TypeOK, Marked
<1>22. ASSUME NEW w \in Workers, Return(w) PROVE MarkKept
  BY <1>22, <1>a, <1>e DEF Return, TypeOK
<1>23. ASSUME NEW i \in Ants, PauseElapses(i) PROVE MarkKept
  BY <1>23, <1>e DEF PauseElapses
<1>24. ASSUME SetPaused PROVE MarkKept
  BY <1>24, <1>e DEF SetPaused
<1>25. ASSUME Halve PROVE MarkKept
  BY <1>25, <1>e DEF Halve, Cull
<1>26. ASSUME BeginDrain PROVE MarkKept
  BY <1>26, <1>e DEF BeginDrain
<1>27. ASSUME PollDrain PROVE MarkKept
  BY <1>27, <1>e DEF PollDrain, Retire, RetireFlags
<1>28. ASSUME SpawnClaim PROVE MarkKept
  BY <1>28, <1>e DEF SpawnClaim
<1>29. ASSUME SpawnEnable PROVE MarkKept
  BY <1>29, <1>a DEF SpawnEnable, TypeOK, LockInv, RosterInv, Has, MarkKept
<1>30. CASE UNCHANGED vars
  BY <1>30, <1>e DEF vars
<1> QED
  BY <1>1, <1>2, <1>3, <1>4, <1>5, <1>6, <1>7, <1>8, <1>9, <1>10, <1>11, <1>12,
     <1>13, <1>14, <1>15, <1>16, <1>17, <1>18, <1>19, <1>20, <1>21, <1>22, <1>23, <1>24,
     <1>25, <1>26, <1>27, <1>28, <1>29, <1>30, <1>8a
  DEF Next, Scan, Visit, Recover, Select, Execute, Instruction, MoveClaim, Control

(* While the colony drains no step adds to what any ant has to spend.       *)
NothingCreated == \A k \in Ants : Remaining(k)' <= Remaining(k)

LEMMA DrainStep == IInv /\ draining /\ [Next]_vars => NothingCreated
<1> SUFFICES ASSUME IInv /\ draining, [Next]_vars PROVE NothingCreated
  OBVIOUS
<1>a. TypeOK /\ RosterInv /\ LockInv /\ LeaseExclusive /\ PrivateBalance
  BY DEF IInv
<1>b. MaxAnts + 1 \notin Ants
  BY ColonyAssumption DEF Ants
<1>c. ASSUME NEW t \in Balances, NEW i \in Ants PROVE t[i] = tokens[i]
  BY <1>c DEF Balances, Accrued
<1>e. ASSUME UNCHANGED tokens PROVE \A i \in Ants : tokens'[i] <= tokens[i]
  BY <1>a, <1>e DEF TypeOK
<1>s. ASSUME NEW w \in Workers, Spend(w) PROVE \A i \in Ants : tokens'[i] <= tokens[i]
  <2>1. balance[w] = tokens[lessee[w]] /\ tokens' = [tokens EXCEPT ![lessee[w]] = balance[w] - TokenOne]
    BY <1>a, <1>s DEF Spend, PrivateBalance
  <2> QED
    BY <1>a, <2>1, ColonyAssumption DEF TypeOK
<1>r. ASSUME \A i \in Ants : tokens'[i] <= tokens[i], scanStep # "restore", scanStep' # "restore"
      PROVE  NothingCreated
  BY <1>r DEF NothingCreated, Remaining
<1>q. ASSUME \A i \in Ants : tokens'[i] <= tokens[i], UNCHANGED lock,
             \A w \in Workers : pc[w] = "idle" => balance'[w] = balance[w]
      PROVE  NothingCreated
  <2>1. scanStep = "restore" => balance'[holder] = balance[holder] /\ balance[holder] \in Nat
    BY <1>a, <1>q DEF LockInv, TypeOK
  <2> QED
    BY <1>a, <1>q, <2>1 DEF NothingCreated, Remaining, lock
<1> USE DEF shared, lock, local, bucket, roster, mode
<1>1. ASSUME NEW w \in Workers, Acquire(w) PROVE NothingCreated
  BY <1>1, <1>a, <1>e, <1>r, LockAssumption DEF Acquire, ScanAfter, LockInv
<1>2. ASSUME NEW w \in Workers, NEW i \in Ants, VisitNone(w, i) PROVE NothingCreated
  BY <1>2, <1>e, <1>r DEF VisitNone, Visiting, NextAnt, ScanAfter
<1>3. ASSUME NEW w \in Workers, NEW i \in Ants, VisitRetire(w, i) PROVE NothingCreated
  BY <1>3, <1>e, <1>r DEF VisitRetire, Visiting, NextAnt, ScanAfter
<1>4. ASSUME NEW w \in Workers, NEW i \in Ants, VisitPause(w, i) PROVE NothingCreated
  BY <1>4, <1>e, <1>r DEF VisitPause, Visiting, NextAnt, ScanAfter
<1>5. ASSUME NEW w \in Workers, NEW i \in Ants, VisitClear(w, i) PROVE NothingCreated
  BY <1>5, <1>e, <1>r DEF VisitClear, Visiting
<1>6. ASSUME NEW w \in Workers, NEW i \in Ants, VisitWaiting(w, i) PROVE NothingCreated
  BY <1>6, <1>e, <1>r DEF VisitWaiting, Visiting
<1>7. ASSUME NEW w \in Workers, RecoverRelease(w) PROVE NothingCreated
  BY <1>7, <1>e, <1>r DEF RecoverRelease
<1>8. ASSUME NEW w \in Workers, RecoverRebirth(w) PROVE NothingCreated
  <2>1. /\ scanStep = "refill" /\ scanStep' = "restore" /\ UNCHANGED <<holder, scanAt>>
        /\ balance' = [balance EXCEPT ![w] = tokens[scanAt]] /\ holder = w
        /\ \E b : tokens' = [tokens EXCEPT ![scanAt] = b]
    BY <1>8 DEF RecoverRebirth
  <2> QED
    BY <1>a, <2>1 DEF NothingCreated, Remaining, TypeOK
<1>8a. ASSUME NEW w \in Workers, RecoverRestore(w) PROVE NothingCreated
  <2>1. /\ scanStep = "restore" /\ scanStep' = "reclaim" /\ UNCHANGED scanAt
        /\ tokens' = [tokens EXCEPT ![scanAt] = balance[holder]] /\ holder \in Workers
    BY <1>8a DEF RecoverRestore, Restored
  <2> QED
    BY <1>a, <2>1 DEF NothingCreated, Remaining, TypeOK
<1>9. ASSUME NEW w \in Workers, RecoverReclaim(w) PROVE NothingCreated
  BY <1>9, <1>e, <1>r DEF RecoverReclaim, NextAnt, ScanAfter
<1>10. ASSUME NEW w \in Workers, RecoverSettle(w) PROVE NothingCreated
  BY <1>10, <1>e, <1>r DEF RecoverSettle, NextAnt, ScanAfter
<1>11. ASSUME NEW w \in Workers, SelectNone(w) PROVE NothingCreated
  <2>1. UNCHANGED tokens \/ tokens' \in Balances
    BY <1>11 DEF SelectNone
  <2>2. scanStep # "restore" /\ scanStep' # "restore"
    BY <1>11, <1>a, <1>b DEF SelectNone, LockInv
  <2> QED
    BY <1>a, <1>c, <1>e, <1>r, <2>1, <2>2 DEF TypeOK
<1>12. ASSUME NEW w \in Workers, NEW i \in Ants, SelectLease(w, i) PROVE NothingCreated
  <2>1. tokens' \in Balances
    BY <1>12 DEF SelectLease
  <2>2. scanStep # "restore" /\ scanStep' # "restore"
    BY <1>12, <1>a, <1>b DEF SelectLease, LockInv
  <2> QED
    BY <1>a, <1>c, <1>r, <2>1, <2>2 DEF TypeOK
<1>13. ASSUME NEW w \in Workers, Start(w) PROVE NothingCreated
  BY <1>13, <1>a, <1>e, <1>q DEF Start, TypeOK
<1>14. ASSUME NEW w \in Workers, Halt(w) PROVE NothingCreated
  <2>1. Spend(w) /\ UNCHANGED lock
    BY <1>14 DEF Halt
  <2> QED
    BY <1>a, <1>s, <1>q, <2>1 DEF Spend, TypeOK
<1>15. ASSUME NEW w \in Workers, Hold(w) PROVE NothingCreated
  <2>1. Spend(w) /\ UNCHANGED lock
    BY <1>15 DEF Hold
  <2> QED
    BY <1>a, <1>s, <1>q, <2>1 DEF Spend, TypeOK
<1>16. ASSUME NEW w \in Workers, Move(w) PROVE NothingCreated
  <2>1. Spend(w) /\ UNCHANGED lock
    BY <1>16 DEF Move
  <2> QED
    BY <1>a, <1>s, <1>q, <2>1 DEF Spend, TypeOK
<1>17. ASSUME NEW w \in Workers, Vacate(w) PROVE NothingCreated
  BY <1>17, <1>e, <1>q DEF Vacate
<1>18. ASSUME NEW w \in Workers, Claim(w) PROVE NothingCreated
  BY <1>18, <1>e, <1>q DEF Claim
<1>19. ASSUME NEW w \in Workers, Contest(w) PROVE NothingCreated
  BY <1>19, <1>e, <1>q DEF Contest
<1>20. ASSUME NEW w \in Workers, Replace(w) PROVE NothingCreated
  BY <1>20, <1>e, <1>q DEF Replace
<1>21. ASSUME NEW w \in Workers, Mark(w) PROVE NothingCreated
  BY <1>21, <1>e, <1>q DEF Mark
<1>22. ASSUME NEW w \in Workers, Return(w) PROVE NothingCreated
  <2>1. PICK t \in Accrued(lessee[w]) : tokens' = [tokens EXCEPT ![lessee[w]] = t]
    BY <1>22 DEF Return
  <2>2. \A i \in Ants : tokens'[i] <= tokens[i]
    BY <1>a, <2>1 DEF Accrued, TypeOK
  <2>3. pc[w] # "idle" /\ UNCHANGED lock /\ balance' = [balance EXCEPT ![w] = 0]
    BY <1>22 DEF Return, Finished
  <2> QED
    BY <1>a, <1>q, <2>2, <2>3 DEF TypeOK
<1>23. ASSUME NEW i \in Ants, PauseElapses(i) PROVE NothingCreated
  BY <1>23, <1>e, <1>q DEF PauseElapses
<1>24. ASSUME SetPaused PROVE NothingCreated
  BY <1>24, <1>e, <1>q DEF SetPaused
<1>25. ASSUME Halve PROVE NothingCreated
  BY <1>25 DEF Halve
<1>26. ASSUME BeginDrain PROVE NothingCreated
  BY <1>26 DEF BeginDrain
<1>27. ASSUME PollDrain PROVE NothingCreated
  BY <1>27, <1>e, <1>q DEF PollDrain
<1>28. ASSUME SpawnClaim PROVE NothingCreated
  BY <1>28 DEF SpawnClaim
<1>29. ASSUME SpawnEnable PROVE NothingCreated
  BY <1>29, <1>a, <1>e, <1>r, LockAssumption DEF SpawnEnable, LockInv
<1>30. CASE UNCHANGED vars
  BY <1>30, <1>e, <1>q DEF vars
<1> QED
  BY <1>1, <1>2, <1>3, <1>4, <1>5, <1>6, <1>7, <1>8, <1>9, <1>10, <1>11, <1>12,
     <1>13, <1>14, <1>15, <1>16, <1>17, <1>18, <1>19, <1>20, <1>21, <1>22, <1>23, <1>24,
     <1>25, <1>26, <1>27, <1>28, <1>29, <1>30, <1>8a
  DEF Next, Scan, Visit, Recover, Select, Execute, Instruction, MoveClaim, Control

-----------------------------------------------------------------------------
(* Residency: who holds a byte, who waits for one and who is told of its   *)
(* loss.                                                                   *)

(* A head is placed if it holds a byte, or if somebody has taken it away   *)
(* and says so, or is about to, or its own worker is looking for the next. *)
Holds(i) == \E c \in Cells : occ[c] = i
Displaced(i) == HasAny(i, {"CLOBBERED", "DISPLACED"})
Placed(i) == Displaced(i) \/ MarkPending(i) \/ BetweenCells(i) \/ Holds(i)

(* Only ants that the scheduler recovers wait; a recovery that took a cell *)
(* back ends only with the ant placed, though it may lose the cell again   *)
(* before that.                                                            *)
WaitInv ==
    /\ \A w \in Workers : pc[w] # "idle" => "WAITING" \notin flags[lessee[w]]
    /\ scanStep # "visit" => "WAITING" \in flags[scanAt]
SettleInv == scanStep = "settle" => Placed(scanAt)
Resident == \A i \in mask : "WAITING" \notin flags[i] => Placed(i)

(* What a step may do to the ants that wait.                               *)
WaitingEnds ==
    \A i \in mask : "WAITING" \in flags[i] /\ "WAITING" \notin flags'[i] =>
      scanStep = "settle" /\ i = scanAt
SettleBegins == scanStep' = "settle" => Holds(scanAt)' \/ (scanStep = "settle" /\ scanAt' = scanAt)
PlacedKept ==
    \A i \in mask : Placed(i) /\ i \in mask' =>
      Placed(i)' \/ ("WAITING" \in flags'[i] /\ (scanStep' = "settle" => scanAt' # i))
OnlySpawnsAdd == /\ holder' = Controller => holder = Controller \/ SpawnClaim
                 /\ mask' \subseteq mask \/ holder = Controller

(* Every step keeps leased ants from waiting and recovered ones waiting.   *)
LEMMA WaitStep == IInv /\ WaitInv /\ [Next]_vars => WaitInv'
<1> SUFFICES ASSUME IInv /\ WaitInv, [Next]_vars PROVE WaitInv'
  OBVIOUS
<1>a. TypeOK /\ RosterInv /\ LockInv /\ LeaseExclusive /\ ByteInv
  BY DEF IInv
<1>b. NoAnt \notin Ants /\ Controller \notin Workers /\ Nobody \notin Workers /\ Controller # Nobody
  BY LockAssumption DEF NoAnt, Ants
<1>c. \A w \in Workers : pc[w] # "idle" => lessee[w] \in mask /\ lessee[w] \in Ants
  BY <1>a DEF RosterInv, TypeOK
<1> USE DEF shared, lock, local, bucket, roster, mode
<1>1. ASSUME NEW w \in Workers, Acquire(w) PROVE WaitInv'
  BY <1>1, <1>a, <1>b, <1>c DEF Acquire, ScanAfter, TypeOK, LockInv, RosterInv, WaitInv, Has,
     HasAny, Idle
<1>2. ASSUME NEW w \in Workers, NEW i \in Ants, VisitNone(w, i) PROVE WaitInv'
  BY <1>2, <1>a, <1>b, <1>c DEF VisitNone, Visiting, NextAnt, ScanAfter, TypeOK, LockInv, RosterInv,
     WaitInv, Has, HasAny, Idle
<1>3. ASSUME NEW w \in Workers, NEW i \in Ants, VisitRetire(w, i) PROVE WaitInv'
  BY <1>3, <1>a, <1>b, <1>c DEF VisitRetire, Visiting, NextAnt, ScanAfter, Retire, RetireFlags,
     TypeOK, LockInv, RosterInv, WaitInv, Has, HasAny, Idle
<1>4. ASSUME NEW w \in Workers, NEW i \in Ants, VisitPause(w, i) PROVE WaitInv'
  BY <1>4, <1>a, <1>b, <1>c DEF VisitPause, Visiting, NextAnt, ScanAfter, TypeOK, LockInv,
     RosterInv, WaitInv, Has, HasAny, Idle
<1>5. ASSUME NEW w \in Workers, NEW i \in Ants, VisitClear(w, i) PROVE WaitInv'
  BY <1>5, <1>a, <1>b, <1>c DEF VisitClear, Visiting, TypeOK, LockInv, RosterInv, WaitInv, Has,
     HasAny, Idle
<1>6. ASSUME NEW w \in Workers, NEW i \in Ants, VisitWaiting(w, i) PROVE WaitInv'
  BY <1>6, <1>a, <1>b, <1>c DEF VisitWaiting, Visiting, TypeOK, LockInv, RosterInv, WaitInv, Has,
     HasAny, Idle
<1>7. ASSUME NEW w \in Workers, RecoverRelease(w) PROVE WaitInv'
  BY <1>7, <1>a, <1>b, <1>c DEF RecoverRelease, Released, TypeOK, LockInv, RosterInv, WaitInv, Has,
     HasAny, Idle
<1>8. ASSUME NEW w \in Workers, RecoverRebirth(w) PROVE WaitInv'
  BY <1>8, <1>a, <1>b, <1>c DEF RecoverRebirth, RebirthFlags, TypeOK, LockInv, RosterInv,
     WaitInv, Has, HasAny, Idle
<1>8a. ASSUME NEW w \in Workers, RecoverRestore(w) PROVE WaitInv'
  BY <1>8a, <1>a, <1>b, <1>c DEF RecoverRestore, TypeOK, LockInv, RosterInv,
     WaitInv, Has, HasAny, Idle
<1>9. ASSUME NEW w \in Workers, RecoverReclaim(w) PROVE WaitInv'
  BY <1>9, <1>a, <1>b, <1>c DEF RecoverReclaim, NextAnt, ScanAfter, TypeOK, LockInv, RosterInv,
     WaitInv, Has, HasAny, Idle
<1>10. ASSUME NEW w \in Workers, RecoverSettle(w) PROVE WaitInv'
  BY <1>10, <1>a, <1>b, <1>c DEF RecoverSettle, NextAnt, ScanAfter, Settled, TypeOK, LockInv,
     RosterInv, WaitInv, Has, HasAny, Idle
<1>11. ASSUME NEW w \in Workers, SelectNone(w) PROVE WaitInv'
  <2>1. UNCHANGED shared \/ \E out : Retire(out)
    BY <1>11 DEF SelectNone
  <2>2. UNCHANGED flags \/ \E out : flags' = [j \in Ants |-> IF j \in out THEN RetireFlags(j) ELSE flags[j]]
    BY <2>1 DEF Retire
  <2> QED
    BY <1>11, <1>c, <2>2 DEF SelectNone, RetireFlags, WaitInv, TypeOK
<1>12. ASSUME NEW w \in Workers, NEW i \in Ants, SelectLease(w, i) PROVE WaitInv'
  BY <1>12, <1>a, <1>b, <1>c DEF SelectLease, RetireFlags, Runnable, TypeOK, LockInv, RosterInv,
     WaitInv, Has, HasAny, Idle
<1>13. ASSUME NEW w \in Workers, Start(w) PROVE WaitInv'
  BY <1>13, <1>a, <1>b, <1>c DEF Start, Goto, TypeOK, LockInv, RosterInv, WaitInv, Has, HasAny, Idle
<1>14. ASSUME NEW w \in Workers, Halt(w) PROVE WaitInv'
  BY <1>14, <1>a, <1>b, <1>c DEF Halt, Spend, Goto, TypeOK, LockInv, RosterInv, WaitInv, Has,
     HasAny, Idle
<1>15. ASSUME NEW w \in Workers, Hold(w) PROVE WaitInv'
  BY <1>15, <1>a, <1>b, <1>c DEF Hold, Spend, Goto, TypeOK, LockInv, RosterInv, WaitInv, Has,
     HasAny, Idle
<1>16. ASSUME NEW w \in Workers, Move(w) PROVE WaitInv'
  BY <1>16, <1>a, <1>b, <1>c DEF Move, Spend, Goto, TypeOK, LockInv, RosterInv, WaitInv, Has,
     HasAny, Idle
<1>17. ASSUME NEW w \in Workers, Vacate(w) PROVE WaitInv'
  BY <1>17, <1>a, <1>b, <1>c DEF Vacate, Goto, Vacated, TypeOK, LockInv, RosterInv, WaitInv, Has,
     HasAny, Idle
<1>18. ASSUME NEW w \in Workers, Claim(w) PROVE WaitInv'
  BY <1>18, <1>a, <1>b, <1>c DEF Claim, Goto, TypeOK, LockInv, RosterInv, WaitInv, Has, HasAny, Idle
<1>19. ASSUME NEW w \in Workers, Contest(w) PROVE WaitInv'
  BY <1>19, <1>a, <1>b, <1>c DEF Contest, Goto, Marked, TypeOK, LockInv, RosterInv, WaitInv, Has,
     HasAny, Idle
<1>20. ASSUME NEW w \in Workers, Replace(w) PROVE WaitInv'
  BY <1>20, <1>a, <1>b, <1>c DEF Replace, Goto, TypeOK, LockInv, RosterInv, WaitInv, Has, HasAny,
     Idle
<1>21. ASSUME NEW w \in Workers, Mark(w) PROVE WaitInv'
  BY <1>21, <1>a, <1>b, <1>c DEF Mark, Goto, Marked, TypeOK, LockInv, RosterInv, WaitInv, Has,
     HasAny, Idle
<1>22. ASSUME NEW w \in Workers, Return(w) PROVE WaitInv'
  BY <1>22, <1>a, <1>b, <1>c DEF Return, Finished, TypeOK, LockInv, RosterInv, WaitInv, Has, HasAny,
     Idle
<1>23. ASSUME NEW i \in Ants, PauseElapses(i) PROVE WaitInv'
  BY <1>23, <1>a, <1>b, <1>c DEF PauseElapses, TypeOK, LockInv, RosterInv, WaitInv, Has, HasAny,
     Idle
<1>24. ASSUME SetPaused PROVE WaitInv'
  BY <1>24, <1>a, <1>b, <1>c DEF SetPaused, TypeOK, LockInv, RosterInv, WaitInv, Has, HasAny, Idle
<1>25. ASSUME Halve PROVE WaitInv'
  BY <1>25, <1>a, <1>b, <1>c DEF Halve, Cull, TypeOK, LockInv, RosterInv, WaitInv, Has, HasAny, Idle
<1>26. ASSUME BeginDrain PROVE WaitInv'
  BY <1>26, <1>a, <1>b, <1>c DEF BeginDrain, TypeOK, LockInv, RosterInv, WaitInv, Has, HasAny, Idle
<1>27. ASSUME PollDrain PROVE WaitInv'
  BY <1>27, <1>a, <1>b, <1>c DEF PollDrain, Retire, RetireFlags, TypeOK, LockInv, RosterInv,
     WaitInv, Has, HasAny, Idle
<1>28. ASSUME SpawnClaim PROVE WaitInv'
  BY <1>28, <1>a, <1>b, <1>c DEF SpawnClaim, Lowest, TypeOK, LockInv, RosterInv, WaitInv, Has,
     HasAny, Idle
<1>29. ASSUME SpawnEnable PROVE WaitInv'
  BY <1>29, <1>a, <1>b, <1>c DEF SpawnEnable, TypeOK, LockInv, RosterInv, WaitInv, Has, HasAny, Idle
<1>30. CASE UNCHANGED vars
  BY <1>30, <1>a, <1>b, <1>c DEF vars, TypeOK, LockInv, RosterInv, WaitInv, Has, HasAny, Idle
<1> QED
  BY <1>1, <1>2, <1>3, <1>4, <1>5, <1>6, <1>7, <1>8, <1>9, <1>10, <1>11, <1>12,
     <1>13, <1>14, <1>15, <1>16, <1>17, <1>18, <1>19, <1>20, <1>21, <1>22, <1>23, <1>24,
     <1>25, <1>26, <1>27, <1>28, <1>29, <1>30, <1>8a
  DEF Next, Scan, Visit, Recover, Select, Execute, Instruction, MoveClaim, Control

(* An ant stops waiting only at the end of its recovery.                   *)
LEMMA WaitingStep == IInv /\ [Next]_vars => WaitingEnds
<1> SUFFICES ASSUME IInv, [Next]_vars PROVE WaitingEnds
  OBVIOUS
<1>a. TypeOK /\ RosterInv /\ LockInv /\ LeaseExclusive /\ ByteInv
  BY DEF IInv
<1>b. NoAnt \notin Ants /\ Controller \notin Workers /\ Nobody \notin Workers /\ Controller # Nobody
  BY LockAssumption DEF NoAnt, Ants
<1>c. \A w \in Workers : pc[w] # "idle" => lessee[w] \in mask /\ lessee[w] \in Ants
  BY <1>a DEF RosterInv, TypeOK
<1> USE DEF shared, lock, local, bucket, roster, mode
<1>1. ASSUME NEW w \in Workers, Acquire(w) PROVE WaitingEnds
  BY <1>1, <1>a, <1>b, <1>c DEF Acquire, ScanAfter, TypeOK, WaitingEnds, RosterInv, LockInv, Has
<1>2. ASSUME NEW w \in Workers, NEW i \in Ants, VisitNone(w, i) PROVE WaitingEnds
  BY <1>2, <1>a, <1>b, <1>c DEF VisitNone, Visiting, NextAnt, ScanAfter, TypeOK, WaitingEnds,
     RosterInv, LockInv, Has
<1>3. ASSUME NEW w \in Workers, NEW i \in Ants, VisitRetire(w, i) PROVE WaitingEnds
  BY <1>3, <1>a, <1>b, <1>c DEF VisitRetire, Visiting, NextAnt, ScanAfter, Retire, RetireFlags,
     TypeOK, WaitingEnds, RosterInv, LockInv, Has
<1>4. ASSUME NEW w \in Workers, NEW i \in Ants, VisitPause(w, i) PROVE WaitingEnds
  BY <1>4, <1>a, <1>b, <1>c DEF VisitPause, Visiting, NextAnt, ScanAfter, TypeOK, WaitingEnds,
     RosterInv, LockInv, Has
<1>5. ASSUME NEW w \in Workers, NEW i \in Ants, VisitClear(w, i) PROVE WaitingEnds
  BY <1>5, <1>a, <1>b, <1>c DEF VisitClear, Visiting, TypeOK, WaitingEnds, RosterInv, LockInv, Has
<1>6. ASSUME NEW w \in Workers, NEW i \in Ants, VisitWaiting(w, i) PROVE WaitingEnds
  BY <1>6, <1>a, <1>b, <1>c DEF VisitWaiting, Visiting, TypeOK, WaitingEnds, RosterInv, LockInv, Has
<1>7. ASSUME NEW w \in Workers, RecoverRelease(w) PROVE WaitingEnds
  BY <1>7, <1>a, <1>b, <1>c DEF RecoverRelease, Released, TypeOK, WaitingEnds, RosterInv, LockInv,
     Has
<1>8. ASSUME NEW w \in Workers, RecoverRebirth(w) PROVE WaitingEnds
  BY <1>8, <1>a, <1>b, <1>c DEF RecoverRebirth, RebirthFlags, TypeOK, WaitingEnds,
     RosterInv, LockInv, Has
<1>8a. ASSUME NEW w \in Workers, RecoverRestore(w) PROVE WaitingEnds
  BY <1>8a, <1>a, <1>b, <1>c DEF RecoverRestore, TypeOK, WaitingEnds,
     RosterInv, LockInv, Has
<1>9. ASSUME NEW w \in Workers, RecoverReclaim(w) PROVE WaitingEnds
  BY <1>9, <1>a, <1>b, <1>c DEF RecoverReclaim, NextAnt, ScanAfter, TypeOK, WaitingEnds, RosterInv,
     LockInv, Has
<1>10. ASSUME NEW w \in Workers, RecoverSettle(w) PROVE WaitingEnds
  BY <1>10, <1>a, <1>b, <1>c DEF RecoverSettle, NextAnt, ScanAfter, Settled, TypeOK, WaitingEnds,
     RosterInv, LockInv, Has
<1>11. ASSUME NEW w \in Workers, SelectNone(w) PROVE WaitingEnds
  <2>1. UNCHANGED shared \/ \E out : Retire(out)
    BY <1>11 DEF SelectNone
  <2> QED
    BY <1>a, <2>1 DEF Retire, RetireFlags, WaitingEnds, TypeOK
<1>12. ASSUME NEW w \in Workers, NEW i \in Ants, SelectLease(w, i) PROVE WaitingEnds
  BY <1>12, <1>a, <1>b, <1>c DEF SelectLease, RetireFlags, Runnable, TypeOK, WaitingEnds, RosterInv,
     LockInv, Has
<1>13. ASSUME NEW w \in Workers, Start(w) PROVE WaitingEnds
  BY <1>13, <1>a, <1>b, <1>c DEF Start, Goto, TypeOK, WaitingEnds, RosterInv, LockInv, Has
<1>14. ASSUME NEW w \in Workers, Halt(w) PROVE WaitingEnds
  BY <1>14, <1>a, <1>b, <1>c DEF Halt, Spend, Goto, TypeOK, WaitingEnds, RosterInv, LockInv, Has
<1>15. ASSUME NEW w \in Workers, Hold(w) PROVE WaitingEnds
  BY <1>15, <1>a, <1>b, <1>c DEF Hold, Spend, Goto, TypeOK, WaitingEnds, RosterInv, LockInv, Has
<1>16. ASSUME NEW w \in Workers, Move(w) PROVE WaitingEnds
  BY <1>16, <1>a, <1>b, <1>c DEF Move, Spend, Goto, TypeOK, WaitingEnds, RosterInv, LockInv, Has
<1>17. ASSUME NEW w \in Workers, Vacate(w) PROVE WaitingEnds
  BY <1>17, <1>a, <1>b, <1>c DEF Vacate, Goto, Vacated, TypeOK, WaitingEnds, RosterInv, LockInv, Has
<1>18. ASSUME NEW w \in Workers, Claim(w) PROVE WaitingEnds
  BY <1>18, <1>a, <1>b, <1>c DEF Claim, Goto, TypeOK, WaitingEnds, RosterInv, LockInv, Has
<1>19. ASSUME NEW w \in Workers, Contest(w) PROVE WaitingEnds
  BY <1>19, <1>a, <1>b, <1>c DEF Contest, Goto, Marked, TypeOK, WaitingEnds, RosterInv, LockInv, Has
<1>20. ASSUME NEW w \in Workers, Replace(w) PROVE WaitingEnds
  BY <1>20, <1>a, <1>b, <1>c DEF Replace, Goto, TypeOK, WaitingEnds, RosterInv, LockInv, Has
<1>21. ASSUME NEW w \in Workers, Mark(w) PROVE WaitingEnds
  BY <1>21, <1>a, <1>b, <1>c DEF Mark, Goto, Marked, TypeOK, WaitingEnds, RosterInv, LockInv, Has
<1>22. ASSUME NEW w \in Workers, Return(w) PROVE WaitingEnds
  BY <1>22, <1>a, <1>b, <1>c DEF Return, Finished, TypeOK, WaitingEnds, RosterInv, LockInv, Has
<1>23. ASSUME NEW i \in Ants, PauseElapses(i) PROVE WaitingEnds
  BY <1>23, <1>a, <1>b, <1>c DEF PauseElapses, TypeOK, WaitingEnds, RosterInv, LockInv, Has
<1>24. ASSUME SetPaused PROVE WaitingEnds
  BY <1>24, <1>a, <1>b, <1>c DEF SetPaused, TypeOK, WaitingEnds, RosterInv, LockInv, Has
<1>25. ASSUME Halve PROVE WaitingEnds
  BY <1>25, <1>a, <1>b, <1>c DEF Halve, Cull, TypeOK, WaitingEnds, RosterInv, LockInv, Has
<1>26. ASSUME BeginDrain PROVE WaitingEnds
  BY <1>26, <1>a, <1>b, <1>c DEF BeginDrain, TypeOK, WaitingEnds, RosterInv, LockInv, Has
<1>27. ASSUME PollDrain PROVE WaitingEnds
  BY <1>27, <1>a, <1>b, <1>c DEF PollDrain, Retire, RetireFlags, TypeOK, WaitingEnds, RosterInv,
     LockInv, Has
<1>28. ASSUME SpawnClaim PROVE WaitingEnds
  BY <1>28, <1>a, <1>b, <1>c DEF SpawnClaim, Lowest, TypeOK, WaitingEnds, RosterInv, LockInv, Has
<1>29. ASSUME SpawnEnable PROVE WaitingEnds
  BY <1>29, <1>a, <1>b, <1>c DEF SpawnEnable, TypeOK, WaitingEnds, RosterInv, LockInv, Has
<1>30. CASE UNCHANGED vars
  BY <1>30, <1>a, <1>b, <1>c DEF vars, TypeOK, WaitingEnds, RosterInv, LockInv, Has
<1> QED
  BY <1>1, <1>2, <1>3, <1>4, <1>5, <1>6, <1>7, <1>8, <1>9, <1>10, <1>11, <1>12,
     <1>13, <1>14, <1>15, <1>16, <1>17, <1>18, <1>19, <1>20, <1>21, <1>22, <1>23, <1>24,
     <1>25, <1>26, <1>27, <1>28, <1>29, <1>30, <1>8a
  DEF Next, Scan, Visit, Recover, Select, Execute, Instruction, MoveClaim, Control

(* A recovery comes to its last step only by taking the cell back.         *)
LEMMA SettlingStep == IInv /\ [Next]_vars => SettleBegins
<1> SUFFICES ASSUME IInv, [Next]_vars PROVE SettleBegins
  OBVIOUS
<1>a. TypeOK /\ RosterInv /\ LockInv /\ LeaseExclusive /\ ByteInv
  BY DEF IInv
<1>b. NoAnt \notin Ants /\ Controller \notin Workers /\ Nobody \notin Workers /\ Controller # Nobody
  BY LockAssumption DEF NoAnt, Ants
<1>c. \A w \in Workers : pc[w] # "idle" => lessee[w] \in mask /\ lessee[w] \in Ants
  BY <1>a DEF RosterInv, TypeOK
<1> USE DEF shared, lock, local, bucket, roster, mode
<1>1. ASSUME NEW w \in Workers, Acquire(w) PROVE SettleBegins
  BY <1>1, <1>a, <1>b DEF Acquire, ScanAfter, SettleBegins, LockInv
<1>2. ASSUME NEW w \in Workers, NEW i \in Ants, VisitNone(w, i) PROVE SettleBegins
  BY <1>2, <1>a, <1>b DEF VisitNone, Visiting, NextAnt, ScanAfter, SettleBegins, LockInv
<1>3. ASSUME NEW w \in Workers, NEW i \in Ants, VisitRetire(w, i) PROVE SettleBegins
  BY <1>3, <1>a, <1>b DEF VisitRetire, Visiting, NextAnt, ScanAfter, Retire, RetireFlags,
     SettleBegins, LockInv
<1>4. ASSUME NEW w \in Workers, NEW i \in Ants, VisitPause(w, i) PROVE SettleBegins
  BY <1>4, <1>a, <1>b DEF VisitPause, Visiting, NextAnt, ScanAfter, SettleBegins, LockInv
<1>5. ASSUME NEW w \in Workers, NEW i \in Ants, VisitClear(w, i) PROVE SettleBegins
  BY <1>5, <1>a, <1>b DEF VisitClear, Visiting, SettleBegins, LockInv
<1>6. ASSUME NEW w \in Workers, NEW i \in Ants, VisitWaiting(w, i) PROVE SettleBegins
  BY <1>6, <1>a, <1>b DEF VisitWaiting, Visiting, SettleBegins, LockInv
<1>7. ASSUME NEW w \in Workers, RecoverRelease(w) PROVE SettleBegins
  BY <1>7, <1>a, <1>b DEF RecoverRelease, Released, SettleBegins, LockInv
<1>8. ASSUME NEW w \in Workers, RecoverRebirth(w) PROVE SettleBegins
  BY <1>8, <1>a, <1>b DEF RecoverRebirth, RebirthFlags, SettleBegins, LockInv
<1>8a. ASSUME NEW w \in Workers, RecoverRestore(w) PROVE SettleBegins
  BY <1>8a, <1>a, <1>b DEF RecoverRestore, SettleBegins, LockInv
<1>9. ASSUME NEW w \in Workers, RecoverReclaim(w) PROVE SettleBegins
  <2>1. CASE ~Flagged(scanAt) /\ Reclaimable(scanAt)
    <3>1. occ' = [occ EXCEPT ![pos[scanAt]] = scanAt] /\ scanAt' = scanAt
      BY <1>9, <2>1 DEF RecoverReclaim
    <3>2. scanAt \in Ants /\ pos[scanAt] \in Cells
      BY <1>9, <1>a DEF RecoverReclaim, LockInv, TypeOK
    <3> QED
      BY <1>a, <3>1, <3>2 DEF SettleBegins, Holds, TypeOK
  <2>2. CASE ~(~Flagged(scanAt) /\ Reclaimable(scanAt))
    BY <1>9, <2>2 DEF RecoverReclaim, NextAnt, ScanAfter, SettleBegins
  <2> QED
    BY <2>1, <2>2
<1>10. ASSUME NEW w \in Workers, RecoverSettle(w) PROVE SettleBegins
  BY <1>10, <1>a, <1>b DEF RecoverSettle, NextAnt, ScanAfter, Settled, SettleBegins, LockInv
<1>11. ASSUME NEW w \in Workers, SelectNone(w) PROVE SettleBegins
  BY <1>11, <1>a, <1>b DEF SelectNone, Retire, RetireFlags, SettleBegins, LockInv
<1>12. ASSUME NEW w \in Workers, NEW i \in Ants, SelectLease(w, i) PROVE SettleBegins
  BY <1>12, <1>a, <1>b DEF SelectLease, RetireFlags, Runnable, SettleBegins, LockInv
<1>13. ASSUME NEW w \in Workers, Start(w) PROVE SettleBegins
  BY <1>13, <1>a, <1>b DEF Start, Goto, SettleBegins, LockInv
<1>14. ASSUME NEW w \in Workers, Halt(w) PROVE SettleBegins
  BY <1>14, <1>a, <1>b DEF Halt, Spend, Goto, SettleBegins, LockInv
<1>15. ASSUME NEW w \in Workers, Hold(w) PROVE SettleBegins
  BY <1>15, <1>a, <1>b DEF Hold, Spend, Goto, SettleBegins, LockInv
<1>16. ASSUME NEW w \in Workers, Move(w) PROVE SettleBegins
  BY <1>16, <1>a, <1>b DEF Move, Spend, Goto, SettleBegins, LockInv
<1>17. ASSUME NEW w \in Workers, Vacate(w) PROVE SettleBegins
  BY <1>17, <1>a, <1>b DEF Vacate, Goto, Vacated, SettleBegins, LockInv
<1>18. ASSUME NEW w \in Workers, Claim(w) PROVE SettleBegins
  BY <1>18, <1>a, <1>b DEF Claim, Goto, SettleBegins, LockInv
<1>19. ASSUME NEW w \in Workers, Contest(w) PROVE SettleBegins
  BY <1>19, <1>a, <1>b DEF Contest, Goto, Marked, SettleBegins, LockInv
<1>20. ASSUME NEW w \in Workers, Replace(w) PROVE SettleBegins
  BY <1>20, <1>a, <1>b DEF Replace, Goto, SettleBegins, LockInv
<1>21. ASSUME NEW w \in Workers, Mark(w) PROVE SettleBegins
  BY <1>21, <1>a, <1>b DEF Mark, Goto, Marked, SettleBegins, LockInv
<1>22. ASSUME NEW w \in Workers, Return(w) PROVE SettleBegins
  BY <1>22, <1>a, <1>b DEF Return, Finished, SettleBegins, LockInv
<1>23. ASSUME NEW i \in Ants, PauseElapses(i) PROVE SettleBegins
  BY <1>23, <1>a, <1>b DEF PauseElapses, SettleBegins, LockInv
<1>24. ASSUME SetPaused PROVE SettleBegins
  BY <1>24, <1>a, <1>b DEF SetPaused, SettleBegins, LockInv
<1>25. ASSUME Halve PROVE SettleBegins
  BY <1>25, <1>a, <1>b DEF Halve, Cull, SettleBegins, LockInv
<1>26. ASSUME BeginDrain PROVE SettleBegins
  BY <1>26, <1>a, <1>b DEF BeginDrain, SettleBegins, LockInv
<1>27. ASSUME PollDrain PROVE SettleBegins
  BY <1>27, <1>a, <1>b DEF PollDrain, Retire, RetireFlags, SettleBegins, LockInv
<1>28. ASSUME SpawnClaim PROVE SettleBegins
  BY <1>28, <1>a, <1>b DEF SpawnClaim, Lowest, SettleBegins, LockInv
<1>29. ASSUME SpawnEnable PROVE SettleBegins
  BY <1>29, <1>a, <1>b DEF SpawnEnable, SettleBegins, LockInv
<1>30. CASE UNCHANGED vars
  BY <1>30, <1>a, <1>b DEF vars, SettleBegins, LockInv
<1> QED
  BY <1>1, <1>2, <1>3, <1>4, <1>5, <1>6, <1>7, <1>8, <1>9, <1>10, <1>11, <1>12,
     <1>13, <1>14, <1>15, <1>16, <1>17, <1>18, <1>19, <1>20, <1>21, <1>22, <1>23, <1>24,
     <1>25, <1>26, <1>27, <1>28, <1>29, <1>30, <1>8a
  DEF Next, Scan, Visit, Recover, Select, Execute, Instruction, MoveClaim, Control

(* No step leaves an enabled ant unplaced, unless to have it recovered.    *)
LEMMA PlacedStep == (IInv /\ WaitInv) /\ [Next]_vars => PlacedKept
<1> SUFFICES ASSUME (IInv /\ WaitInv), [Next]_vars PROVE PlacedKept
  OBVIOUS
<1>a. TypeOK /\ RosterInv /\ LockInv /\ LeaseExclusive /\ ByteInv
  BY DEF IInv
<1>b. NoAnt \notin Ants /\ Controller \notin Workers /\ Nobody \notin Workers /\ Controller # Nobody
  BY LockAssumption DEF NoAnt, Ants
<1>c. \A w \in Workers : pc[w] # "idle" => lessee[w] \in mask /\ lessee[w] \in Ants
  BY <1>a DEF RosterInv, TypeOK
<1>d. ASSUME UNCHANGED <<occ, pc, lessee, rival>>, \A i \in Ants : Displaced(i) => Displaced(i)'
      PROVE  PlacedKept
  BY <1>a, <1>d DEF PlacedKept, Placed, MarkPending, BetweenCells, Holds, TypeOK
<1>e. ASSUME NEW R, occ' = Released(R), mask' = mask \ R, UNCHANGED rival,
             \A i \in Ants \ R : Displaced(i) => Displaced(i)',
             \A w \in Workers : pc[w] # "idle" => pc'[w] = pc[w] /\ lessee'[w] = lessee[w]
      PROVE  PlacedKept
  <2> SUFFICES ASSUME NEW i \in mask \ R, Placed(i) PROVE Placed(i)'
    BY <1>e DEF PlacedKept
  <2>1. i \in Ants
    BY <1>a DEF TypeOK
  <2>2. Holds(i) => Holds(i)'
    BY <1>e, <2>1 DEF Holds, Released
  <2>3. MarkPending(i) => MarkPending(i)'
    BY <1>e DEF MarkPending
  <2>4. BetweenCells(i) => BetweenCells(i)'
    BY <1>e DEF BetweenCells
  <2> QED
    BY <1>e, <2>1, <2>2, <2>3, <2>4 DEF Placed
<1> USE DEF shared, lock, local, bucket, roster, mode
<1>1. ASSUME NEW w \in Workers, Acquire(w) PROVE PlacedKept
  BY <1>1, <1>a, <1>d DEF Acquire, Displaced, HasAny, TypeOK
<1>2. ASSUME NEW w \in Workers, NEW i \in Ants, VisitNone(w, i) PROVE PlacedKept
  BY <1>2, <1>a, <1>d DEF VisitNone, Displaced, HasAny, TypeOK
<1>3. ASSUME NEW w \in Workers, NEW i \in Ants, VisitRetire(w, i) PROVE PlacedKept
  <2>1. Retire({i}) /\ UNCHANGED <<rival, pc, lessee>>
    BY <1>3 DEF VisitRetire
  <2> QED
    BY <1>e, <2>1 DEF Retire, Displaced, HasAny
<1>4. ASSUME NEW w \in Workers, NEW i \in Ants, VisitPause(w, i) PROVE PlacedKept
  BY <1>4, <1>a, <1>d DEF VisitPause, Displaced, HasAny, TypeOK
<1>5. ASSUME NEW w \in Workers, NEW i \in Ants, VisitClear(w, i) PROVE PlacedKept
  BY <1>5, <1>a, <1>b, <1>c DEF VisitClear, Visiting, TypeOK, RosterInv, LockInv, WaitInv,
     PlacedKept, Placed, Displaced, MarkPending, BetweenCells, Holds, HasAny
<1>6. ASSUME NEW w \in Workers, NEW i \in Ants, VisitWaiting(w, i) PROVE PlacedKept
  BY <1>6, <1>a, <1>d DEF VisitWaiting, Displaced, HasAny, TypeOK
<1>7. ASSUME NEW w \in Workers, RecoverRelease(w) PROVE PlacedKept
  BY <1>7, <1>a, <1>b, <1>c DEF RecoverRelease, Released, TypeOK, RosterInv, LockInv, WaitInv,
     PlacedKept, Placed, Displaced, MarkPending, BetweenCells, Holds, HasAny
<1>8. ASSUME NEW w \in Workers, RecoverRebirth(w) PROVE PlacedKept
  BY <1>8, <1>a, <1>b, <1>c DEF RecoverRebirth, RebirthFlags, TypeOK, RosterInv, LockInv,
     WaitInv, PlacedKept, Placed, Displaced, MarkPending, BetweenCells, Holds, HasAny
<1>8a. ASSUME NEW w \in Workers, RecoverRestore(w) PROVE PlacedKept
  BY <1>8a, <1>a, <1>b, <1>c DEF RecoverRestore, TypeOK, RosterInv, LockInv,
     WaitInv, PlacedKept, Placed, Displaced, MarkPending, BetweenCells, Holds, HasAny
<1>9. ASSUME NEW w \in Workers, RecoverReclaim(w) PROVE PlacedKept
  <2>1. CASE ~Flagged(scanAt) /\ Reclaimable(scanAt)
    <3>1. /\ occ' = [occ EXCEPT ![pos[scanAt]] = scanAt] /\ occ[pos[scanAt]] \in {NoAnt, scanAt}
          /\ UNCHANGED <<mask, flags, rival, pc, lessee>> /\ scanAt \in Ants /\ pos[scanAt] \in Cells
      BY <1>9, <1>a, <2>1 DEF RecoverReclaim, Reclaimable, LockInv, TypeOK
    <3> SUFFICES ASSUME NEW i \in Ants, Holds(i) PROVE Holds(i)'
      BY <1>a, <3>1 DEF PlacedKept, Placed, Displaced, HasAny, MarkPending, BetweenCells, TypeOK
    <3>2. PICK c \in Cells : occ[c] = i
      BY DEF Holds
    <3>3. occ'[c] = i
      BY <1>a, <1>b, <3>1, <3>2 DEF TypeOK
    <3> QED
      BY <3>3 DEF Holds
  <2>2. CASE ~(~Flagged(scanAt) /\ Reclaimable(scanAt))
    BY <1>9, <1>d, <2>2 DEF RecoverReclaim, Displaced, HasAny
  <2> QED
    BY <2>1, <2>2
<1>10. ASSUME NEW w \in Workers, RecoverSettle(w) PROVE PlacedKept
  BY <1>10, <1>a, <1>d DEF RecoverSettle, Displaced, HasAny, TypeOK, Settled
<1>11. ASSUME NEW w \in Workers, SelectNone(w) PROVE PlacedKept
  <2>1. UNCHANGED <<rival, pc, lessee>>
    BY <1>11 DEF SelectNone
  <2>2. UNCHANGED shared \/ \E out : Retire(out)
    BY <1>11 DEF SelectNone
  <2>3. CASE UNCHANGED shared
    BY <1>d, <2>1, <2>3 DEF Displaced, HasAny
  <2>4. ASSUME NEW out, Retire(out) PROVE PlacedKept
    BY <1>e, <2>1, <2>4 DEF Retire, Displaced, HasAny
  <2> QED
    BY <2>2, <2>3, <2>4
<1>12. ASSUME NEW w \in Workers, NEW i \in Ants, SelectLease(w, i) PROVE PlacedKept
  <2>1. PICK out : /\ occ' = Released(out) /\ mask' = mask \ out
                   /\ flags' = [j \in Ants |-> IF j \in out THEN RetireFlags(j)
                                               ELSE IF j = i THEN flags[j] \cup {"LEASED"} ELSE flags[j]]
    BY <1>12 DEF SelectLease
  <2>2. \A v \in Workers : pc[v] # "idle" => pc'[v] = pc[v] /\ lessee'[v] = lessee[v]
    BY <1>12, <1>a DEF SelectLease, LockInv, TypeOK
  <2>3. \A j \in Ants \ out : Displaced(j) => Displaced(j)'
    BY <2>1 DEF Displaced, HasAny
  <2> QED
    BY <1>12, <1>e, <2>1, <2>2, <2>3 DEF SelectLease
<1>13. ASSUME NEW w \in Workers, Start(w) PROVE PlacedKept
  BY <1>13, <1>a, <1>b, <1>c DEF Start, Goto, TypeOK, RosterInv, LockInv, WaitInv, PlacedKept,
     Placed, Displaced, MarkPending, BetweenCells, Holds, HasAny
<1>14. ASSUME NEW w \in Workers, Halt(w) PROVE PlacedKept
  BY <1>14, <1>a, <1>b, <1>c DEF Halt, Spend, Goto, TypeOK, RosterInv, LockInv, WaitInv, PlacedKept,
     Placed, Displaced, MarkPending, BetweenCells, Holds, HasAny
<1>15. ASSUME NEW w \in Workers, Hold(w) PROVE PlacedKept
  BY <1>15, <1>a, <1>b, <1>c DEF Hold, Spend, Goto, TypeOK, RosterInv, LockInv, WaitInv, PlacedKept,
     Placed, Displaced, MarkPending, BetweenCells, Holds, HasAny
<1>16. ASSUME NEW w \in Workers, Move(w) PROVE PlacedKept
  BY <1>16, <1>a, <1>b, <1>c DEF Move, Spend, Goto, TypeOK, RosterInv, LockInv, WaitInv, PlacedKept,
     Placed, Displaced, MarkPending, BetweenCells, Holds, HasAny
<1>17. ASSUME NEW w \in Workers, Vacate(w) PROVE PlacedKept
  BY <1>17, <1>a, <1>b, <1>c DEF Vacate, Goto, Vacated, TypeOK, RosterInv, LockInv, WaitInv,
     PlacedKept, Placed, Displaced, MarkPending, BetweenCells, Holds, HasAny
<1>18. ASSUME NEW w \in Workers, Claim(w) PROVE PlacedKept
  BY <1>18, <1>a, <1>b, <1>c DEF Claim, Goto, TypeOK, RosterInv, LockInv, WaitInv, PlacedKept,
     Placed, Displaced, MarkPending, BetweenCells, Holds, HasAny
<1>19. ASSUME NEW w \in Workers, Contest(w) PROVE PlacedKept
  <2>1. CASE SelfWins(lessee[w], rival[w])
    <3>1. pc[w] = "contest" /\ pc' = [pc EXCEPT ![w] = "replace"] /\ UNCHANGED <<occ, mask, flags, rival, lessee>>
      BY <1>19, <2>1 DEF Contest, Goto
    <3> QED
      BY <1>a, <3>1 DEF PlacedKept, Placed, Displaced, HasAny, MarkPending, BetweenCells, Holds,
         TypeOK
  <2>2. CASE ~SelfWins(lessee[w], rival[w])
    <3>1. /\ pc[w] = "contest" /\ pc' = [pc EXCEPT ![w] = "done"] /\ flags' = Marked(lessee[w])
          /\ rival' = [rival EXCEPT ![w] = NoAnt] /\ UNCHANGED <<occ, mask, lessee>>
      BY <1>19, <2>2 DEF Contest, Goto
    <3>2. \A i \in Ants : (Displaced(i) => Displaced(i)') /\ (i = lessee[w] => Displaced(i)')
      BY <1>a, <3>1 DEF Marked, Displaced, HasAny, TypeOK
    <3>3. \A i \in Ants : (Holds(i) => Holds(i)') /\ (MarkPending(i) => MarkPending(i)')
      BY <1>a, <3>1 DEF Holds, MarkPending, TypeOK
    <3>4. \A i \in Ants : BetweenCells(i) => BetweenCells(i)' \/ i = lessee[w]
      BY <1>a, <3>1 DEF BetweenCells, TypeOK
    <3> QED
      BY <1>a, <3>2, <3>3, <3>4 DEF PlacedKept, Placed, TypeOK
  <2> QED
    BY <2>1, <2>2
<1>20. ASSUME NEW w \in Workers, Replace(w) PROVE PlacedKept
  BY <1>20, <1>a, <1>b, <1>c DEF Replace, Goto, TypeOK, RosterInv, LockInv, WaitInv, PlacedKept,
     Placed, Displaced, MarkPending, BetweenCells, Holds, HasAny
<1>21. ASSUME NEW w \in Workers, Mark(w) PROVE PlacedKept
  BY <1>21, <1>a, <1>b, <1>c DEF Mark, Goto, Marked, TypeOK, RosterInv, LockInv, WaitInv,
     PlacedKept, Placed, Displaced, MarkPending, BetweenCells, Holds, HasAny
<1>22. ASSUME NEW w \in Workers, Return(w) PROVE PlacedKept
  BY <1>22, <1>a, <1>b, <1>c DEF Return, Finished, TypeOK, RosterInv, LockInv, WaitInv, PlacedKept,
     Placed, Displaced, MarkPending, BetweenCells, Holds, HasAny
<1>23. ASSUME NEW i \in Ants, PauseElapses(i) PROVE PlacedKept
  BY <1>23, <1>a, <1>d DEF PauseElapses, Displaced, HasAny, TypeOK
<1>24. ASSUME SetPaused PROVE PlacedKept
  BY <1>24, <1>a, <1>d DEF SetPaused, Displaced, HasAny, TypeOK
<1>25. ASSUME Halve PROVE PlacedKept
  BY <1>25, <1>a, <1>d DEF Halve, Displaced, HasAny, TypeOK, Cull
<1>26. ASSUME BeginDrain PROVE PlacedKept
  BY <1>26, <1>a, <1>d DEF BeginDrain, Displaced, HasAny, TypeOK
<1>27. ASSUME PollDrain PROVE PlacedKept
  <2>1. (\E R : Retire(R)) /\ UNCHANGED <<rival, pc, lessee>>
    BY <1>27 DEF PollDrain
  <2> QED
    BY <1>e, <2>1 DEF Retire, Displaced, HasAny
<1>28. ASSUME SpawnClaim PROVE PlacedKept
  BY <1>28, <1>a, <1>b, <1>c DEF SpawnClaim, Lowest, TypeOK, RosterInv, LockInv, WaitInv,
     PlacedKept, Placed, Displaced, MarkPending, BetweenCells, Holds, HasAny
<1>29. ASSUME SpawnEnable PROVE PlacedKept
  BY <1>29, <1>a, <1>b, <1>c DEF SpawnEnable, TypeOK, RosterInv, LockInv, WaitInv, PlacedKept,
     Placed, Displaced, MarkPending, BetweenCells, Holds, HasAny
<1>30. CASE UNCHANGED vars
  BY <1>30, <1>a, <1>b, <1>c DEF vars, TypeOK, RosterInv, LockInv, WaitInv, PlacedKept, Placed,
     Displaced, MarkPending, BetweenCells, Holds, HasAny
<1> QED
  BY <1>1, <1>2, <1>3, <1>4, <1>5, <1>6, <1>7, <1>8, <1>9, <1>10, <1>11, <1>12,
     <1>13, <1>14, <1>15, <1>16, <1>17, <1>18, <1>19, <1>20, <1>21, <1>22, <1>23, <1>24,
     <1>25, <1>26, <1>27, <1>28, <1>29, <1>30, <1>8a
  DEF Next, Scan, Visit, Recover, Select, Execute, Instruction, MoveClaim, Control

(* No step gives a byte to a dead ant or lets a waiting one keep it.       *)
LEMMA GhostStep == IInv /\ WaitInv /\ NoGhosts /\ [Next]_vars => NoGhosts'
<1> SUFFICES ASSUME IInv /\ WaitInv /\ NoGhosts, [Next]_vars PROVE NoGhosts'
  OBVIOUS
<1>a. TypeOK /\ RosterInv /\ LockInv /\ LeaseExclusive /\ ByteInv
  BY DEF IInv
<1>b. NoAnt \notin Ants /\ Controller \notin Workers /\ Nobody \notin Workers /\ Controller # Nobody
  BY LockAssumption DEF NoAnt, Ants
<1>c. \A w \in Workers : pc[w] # "idle" => lessee[w] \in mask /\ lessee[w] \in Ants
  BY <1>a DEF RosterInv, TypeOK
<1>d. ASSUME NEW R \in SUBSET Ants, Retire(R), \A i \in R : Idle(i), scanStep = "visit", holder # Controller
      PROVE  NoGhosts'
  <2> SUFFICES ASSUME NEW c \in Cells, occ'[c] # NoAnt
               PROVE  Has(occ[c], "ENABLED")' /\ "WAITING" \notin flags'[occ[c]] /\ occ'[c] = occ[c]
    BY DEF NoGhosts, Has
  <2>1. occ'[c] = occ[c] /\ ~(occ[c] \in R /\ pos[occ[c]] = c)
    BY <1>d DEF Retire, Released
  <2>2. occ[c] \in Ants \ R
    BY <1>a, <1>d, <2>1 DEF ByteInv, TypeOK
  <2>3. flags'[occ[c]] = flags[occ[c]]
    BY <1>d, <2>2 DEF Retire
  <2> QED
    BY <1>d, <2>1, <2>3 DEF NoGhosts, Has
<1> USE DEF shared, lock, local, bucket, roster, mode
<1>1. ASSUME NEW w \in Workers, Acquire(w) PROVE NoGhosts'
  BY <1>1, <1>a, <1>b, <1>c DEF Acquire, ScanAfter, TypeOK, NoGhosts, RosterInv, LockInv, WaitInv,
     Has, HasAny, ByteInv
<1>2. ASSUME NEW w \in Workers, NEW i \in Ants, VisitNone(w, i) PROVE NoGhosts'
  BY <1>2, <1>a, <1>b, <1>c DEF VisitNone, Visiting, NextAnt, ScanAfter, TypeOK, NoGhosts,
     RosterInv, LockInv, WaitInv, Has, HasAny, ByteInv
<1>3. ASSUME NEW w \in Workers, NEW i \in Ants, VisitRetire(w, i) PROVE NoGhosts'
  BY <1>3, <1>a, <1>b, <1>d DEF VisitRetire, Visiting, LockInv
<1>4. ASSUME NEW w \in Workers, NEW i \in Ants, VisitPause(w, i) PROVE NoGhosts'
  BY <1>4, <1>a, <1>b, <1>c DEF VisitPause, Visiting, NextAnt, ScanAfter, TypeOK, NoGhosts,
     RosterInv, LockInv, WaitInv, Has, HasAny, ByteInv
<1>5. ASSUME NEW w \in Workers, NEW i \in Ants, VisitClear(w, i) PROVE NoGhosts'
  BY <1>5, <1>a, <1>b, <1>c DEF VisitClear, Visiting, TypeOK, NoGhosts, RosterInv, LockInv, WaitInv,
     Has, HasAny, ByteInv
<1>6. ASSUME NEW w \in Workers, NEW i \in Ants, VisitWaiting(w, i) PROVE NoGhosts'
  BY <1>6, <1>a, <1>b, <1>c DEF VisitWaiting, Visiting, TypeOK, NoGhosts, RosterInv, LockInv,
     WaitInv, Has, HasAny, ByteInv
<1>7. ASSUME NEW w \in Workers, RecoverRelease(w) PROVE NoGhosts'
  BY <1>7, <1>a, <1>b, <1>c DEF RecoverRelease, Released, TypeOK, NoGhosts, RosterInv, LockInv,
     WaitInv, Has, HasAny, ByteInv
<1>8. ASSUME NEW w \in Workers, RecoverRebirth(w) PROVE NoGhosts'
  BY <1>8, <1>a, <1>b, <1>c DEF RecoverRebirth, RebirthFlags, TypeOK, NoGhosts, RosterInv,
     LockInv, WaitInv, Has, HasAny, ByteInv
<1>8a. ASSUME NEW w \in Workers, RecoverRestore(w) PROVE NoGhosts'
  BY <1>8a, <1>a, <1>b, <1>c DEF RecoverRestore, TypeOK, NoGhosts, RosterInv,
     LockInv, WaitInv, Has, HasAny, ByteInv
<1>9. ASSUME NEW w \in Workers, RecoverReclaim(w) PROVE NoGhosts'
  BY <1>9, <1>a, <1>b, <1>c DEF RecoverReclaim, NextAnt, ScanAfter, TypeOK, NoGhosts, RosterInv,
     LockInv, WaitInv, Has, HasAny, ByteInv
<1>10. ASSUME NEW w \in Workers, RecoverSettle(w) PROVE NoGhosts'
  BY <1>10, <1>a, <1>b, <1>c DEF RecoverSettle, NextAnt, ScanAfter, Settled, TypeOK, NoGhosts,
     RosterInv, LockInv, WaitInv, Has, HasAny, ByteInv
<1>11. ASSUME NEW w \in Workers, SelectNone(w) PROVE NoGhosts'
  <2>1. CASE UNCHANGED shared
    <3>1. scanStep = "visit" /\ scanStep' = "visit" /\ holder # Controller
      BY <1>11, <1>a, <1>b, ColonyAssumption DEF SelectNone, LockInv, Ants
    <3> QED
      BY <2>1, <3>1 DEF NoGhosts, Has
  <2>2. ASSUME NEW out \in SUBSET Scanned, Retire(out) PROVE NoGhosts'
    <3>1. out \in SUBSET Ants /\ \A i \in out : Idle(i)
      BY ScannedIdle
    <3>2. scanStep = "visit" /\ holder # Controller
      BY <1>11, <1>a, <1>b, ColonyAssumption DEF SelectNone, LockInv, Ants
    <3> QED
      BY <1>d, <2>2, <3>1, <3>2
  <2> QED
    BY <1>11, <2>1, <2>2 DEF SelectNone
<1>12. ASSUME NEW w \in Workers, NEW i \in Ants, SelectLease(w, i) PROVE NoGhosts'
  <2>1. PICK out \in SUBSET Scanned :
               /\ i \in Scanned \ out /\ occ' = Released(out)
               /\ flags' = [j \in Ants |-> IF j \in out THEN RetireFlags(j)
                                           ELSE IF j = i THEN flags[j] \cup {"LEASED"} ELSE flags[j]]
    BY <1>12 DEF SelectLease
  <2>2. \A j \in out : Idle(j)
    BY ScannedIdle
  <2>3. scanStep = "visit" /\ holder # Controller
    BY <1>12, <1>a, <1>b, ColonyAssumption DEF SelectLease, LockInv, Ants
  <2> SUFFICES ASSUME NEW c \in Cells, occ'[c] # NoAnt
               PROVE  Has(occ[c], "ENABLED")' /\ "WAITING" \notin flags'[occ[c]] /\ occ'[c] = occ[c]
    BY DEF NoGhosts, Has
  <2>4. occ'[c] = occ[c] /\ ~(occ[c] \in out /\ pos[occ[c]] = c)
    BY <2>1 DEF Released
  <2>5. occ[c] \in Ants \ out
    BY <1>a, <2>2, <2>4 DEF ByteInv, TypeOK
  <2>6. flags'[occ[c]] \in {flags[occ[c]], flags[occ[c]] \cup {"LEASED"}}
    BY <2>1, <2>5
  <2> QED
    BY <2>3, <2>4, <2>6 DEF NoGhosts, Has
<1>13. ASSUME NEW w \in Workers, Start(w) PROVE NoGhosts'
  BY <1>13, <1>a, <1>b, <1>c DEF Start, Goto, TypeOK, NoGhosts, RosterInv, LockInv, WaitInv, Has,
     HasAny, ByteInv
<1>14. ASSUME NEW w \in Workers, Halt(w) PROVE NoGhosts'
  BY <1>14, <1>a, <1>b, <1>c DEF Halt, Spend, Goto, TypeOK, NoGhosts, RosterInv, LockInv, WaitInv,
     Has, HasAny, ByteInv
<1>15. ASSUME NEW w \in Workers, Hold(w) PROVE NoGhosts'
  BY <1>15, <1>a, <1>b, <1>c DEF Hold, Spend, Goto, TypeOK, NoGhosts, RosterInv, LockInv, WaitInv,
     Has, HasAny, ByteInv
<1>16. ASSUME NEW w \in Workers, Move(w) PROVE NoGhosts'
  BY <1>16, <1>a, <1>b, <1>c DEF Move, Spend, Goto, TypeOK, NoGhosts, RosterInv, LockInv, WaitInv,
     Has, HasAny, ByteInv
<1>17. ASSUME NEW w \in Workers, Vacate(w) PROVE NoGhosts'
  BY <1>17, <1>a, <1>b, <1>c DEF Vacate, Goto, Vacated, TypeOK, NoGhosts, RosterInv, LockInv,
     WaitInv, Has, HasAny, ByteInv
<1>18. ASSUME NEW w \in Workers, Claim(w) PROVE NoGhosts'
  BY <1>18, <1>a, <1>b, <1>c DEF Claim, Goto, TypeOK, NoGhosts, RosterInv, LockInv, WaitInv, Has,
     HasAny, ByteInv
<1>19. ASSUME NEW w \in Workers, Contest(w) PROVE NoGhosts'
  BY <1>19, <1>a, <1>b, <1>c DEF Contest, Goto, Marked, TypeOK, NoGhosts, RosterInv, LockInv,
     WaitInv, Has, HasAny, ByteInv
<1>20. ASSUME NEW w \in Workers, Replace(w) PROVE NoGhosts'
  BY <1>20, <1>a, <1>b, <1>c DEF Replace, Goto, TypeOK, NoGhosts, RosterInv, LockInv, WaitInv, Has,
     HasAny, ByteInv
<1>21. ASSUME NEW w \in Workers, Mark(w) PROVE NoGhosts'
  BY <1>21, <1>a, <1>b, <1>c DEF Mark, Goto, Marked, TypeOK, NoGhosts, RosterInv, LockInv, WaitInv,
     Has, HasAny, ByteInv
<1>22. ASSUME NEW w \in Workers, Return(w) PROVE NoGhosts'
  BY <1>22, <1>a, <1>b, <1>c DEF Return, Finished, TypeOK, NoGhosts, RosterInv, LockInv, WaitInv,
     Has, HasAny, ByteInv
<1>23. ASSUME NEW i \in Ants, PauseElapses(i) PROVE NoGhosts'
  BY <1>23, <1>a, <1>b, <1>c DEF PauseElapses, TypeOK, NoGhosts, RosterInv, LockInv, WaitInv, Has,
     HasAny, ByteInv
<1>24. ASSUME SetPaused PROVE NoGhosts'
  BY <1>24, <1>a, <1>b, <1>c DEF SetPaused, TypeOK, NoGhosts, RosterInv, LockInv, WaitInv, Has,
     HasAny, ByteInv
<1>25. ASSUME Halve PROVE NoGhosts'
  BY <1>25, <1>a, <1>b, <1>c DEF Halve, Cull, TypeOK, NoGhosts, RosterInv, LockInv, WaitInv, Has,
     HasAny, ByteInv
<1>26. ASSUME BeginDrain PROVE NoGhosts'
  BY <1>26, <1>a, <1>b, <1>c DEF BeginDrain, TypeOK, NoGhosts, RosterInv, LockInv, WaitInv, Has,
     HasAny, ByteInv
<1>27. ASSUME PollDrain PROVE NoGhosts'
  <2> DEFINE R == {i \in Ants : ~Has(i, "LEASED") /\ Expired(i)}
  <2>1. Retire(R) /\ holder = Nobody
    BY <1>27 DEF PollDrain
  <2>2. \A i \in R : Idle(i)
    BY <1>a DEF LeaseExclusive
  <2>3. scanStep = "visit"
    BY <1>a, <1>b, <2>1 DEF LockInv
  <2> QED
    BY <1>b, <1>d, <2>1, <2>2, <2>3
<1>28. ASSUME SpawnClaim PROVE NoGhosts'
  BY <1>28, <1>a, <1>b, <1>c DEF SpawnClaim, Lowest, TypeOK, NoGhosts, RosterInv, LockInv, WaitInv,
     Has, HasAny, ByteInv
<1>29. ASSUME SpawnEnable PROVE NoGhosts'
  BY <1>29, <1>a, <1>b, <1>c DEF SpawnEnable, TypeOK, NoGhosts, RosterInv, LockInv, WaitInv, Has,
     HasAny, ByteInv
<1>30. CASE UNCHANGED vars
  BY <1>30, <1>a, <1>b, <1>c DEF vars, TypeOK, NoGhosts, RosterInv, LockInv, WaitInv, Has, HasAny,
     ByteInv
<1> QED
  BY <1>1, <1>2, <1>3, <1>4, <1>5, <1>6, <1>7, <1>8, <1>9, <1>10, <1>11, <1>12,
     <1>13, <1>14, <1>15, <1>16, <1>17, <1>18, <1>19, <1>20, <1>21, <1>22, <1>23, <1>24,
     <1>25, <1>26, <1>27, <1>28, <1>29, <1>30, <1>8a
  DEF Next, Scan, Visit, Recover, Select, Execute, Instruction, MoveClaim, Control

(* Ants join the mask only when a spawn stores their flag word.            *)
LEMMA GrowthStep == IInv /\ [Next]_vars => OnlySpawnsAdd
<1> SUFFICES ASSUME IInv, [Next]_vars PROVE OnlySpawnsAdd
  OBVIOUS
<1>a. LockAssumption /\ LockInv
  BY LockAssumption DEF IInv
<1> USE DEF shared, lock, local, bucket, roster, mode
<1>1. ASSUME NEW w \in Workers, Acquire(w) PROVE OnlySpawnsAdd
  BY <1>1, <1>a, LockAssumption DEF Acquire, ScanAfter, OnlySpawnsAdd, LockInv
<1>2. ASSUME NEW w \in Workers, NEW i \in Ants, VisitNone(w, i) PROVE OnlySpawnsAdd
  BY <1>2, <1>a, LockAssumption DEF VisitNone, Visiting, NextAnt, ScanAfter, OnlySpawnsAdd, LockInv
<1>3. ASSUME NEW w \in Workers, NEW i \in Ants, VisitRetire(w, i) PROVE OnlySpawnsAdd
  BY <1>3, <1>a, LockAssumption DEF VisitRetire, Visiting, NextAnt, ScanAfter, Retire, RetireFlags,
     OnlySpawnsAdd, LockInv
<1>4. ASSUME NEW w \in Workers, NEW i \in Ants, VisitPause(w, i) PROVE OnlySpawnsAdd
  BY <1>4, <1>a, LockAssumption DEF VisitPause, Visiting, NextAnt, ScanAfter, OnlySpawnsAdd, LockInv
<1>5. ASSUME NEW w \in Workers, NEW i \in Ants, VisitClear(w, i) PROVE OnlySpawnsAdd
  BY <1>5, <1>a, LockAssumption DEF VisitClear, Visiting, OnlySpawnsAdd, LockInv
<1>6. ASSUME NEW w \in Workers, NEW i \in Ants, VisitWaiting(w, i) PROVE OnlySpawnsAdd
  BY <1>6, <1>a, LockAssumption DEF VisitWaiting, Visiting, OnlySpawnsAdd, LockInv
<1>7. ASSUME NEW w \in Workers, RecoverRelease(w) PROVE OnlySpawnsAdd
  BY <1>7, <1>a, LockAssumption DEF RecoverRelease, Released, OnlySpawnsAdd, LockInv
<1>8. ASSUME NEW w \in Workers, RecoverRebirth(w) PROVE OnlySpawnsAdd
  BY <1>8, <1>a, LockAssumption DEF RecoverRebirth, RebirthFlags, OnlySpawnsAdd, LockInv
<1>8a. ASSUME NEW w \in Workers, RecoverRestore(w) PROVE OnlySpawnsAdd
  BY <1>8a, <1>a, LockAssumption DEF RecoverRestore, OnlySpawnsAdd, LockInv
<1>9. ASSUME NEW w \in Workers, RecoverReclaim(w) PROVE OnlySpawnsAdd
  BY <1>9, <1>a, LockAssumption DEF RecoverReclaim, NextAnt, ScanAfter, OnlySpawnsAdd, LockInv
<1>10. ASSUME NEW w \in Workers, RecoverSettle(w) PROVE OnlySpawnsAdd
  BY <1>10, <1>a, LockAssumption DEF RecoverSettle, NextAnt, ScanAfter, Settled, OnlySpawnsAdd,
     LockInv
<1>11. ASSUME NEW w \in Workers, SelectNone(w) PROVE OnlySpawnsAdd
  BY <1>11, <1>a, LockAssumption DEF SelectNone, Retire, RetireFlags, OnlySpawnsAdd, LockInv
<1>12. ASSUME NEW w \in Workers, NEW i \in Ants, SelectLease(w, i) PROVE OnlySpawnsAdd
  BY <1>12, <1>a, LockAssumption DEF SelectLease, RetireFlags, Runnable, OnlySpawnsAdd, LockInv
<1>13. ASSUME NEW w \in Workers, Start(w) PROVE OnlySpawnsAdd
  BY <1>13, <1>a, LockAssumption DEF Start, Goto, OnlySpawnsAdd, LockInv
<1>14. ASSUME NEW w \in Workers, Halt(w) PROVE OnlySpawnsAdd
  BY <1>14, <1>a, LockAssumption DEF Halt, Spend, Goto, OnlySpawnsAdd, LockInv
<1>15. ASSUME NEW w \in Workers, Hold(w) PROVE OnlySpawnsAdd
  BY <1>15, <1>a, LockAssumption DEF Hold, Spend, Goto, OnlySpawnsAdd, LockInv
<1>16. ASSUME NEW w \in Workers, Move(w) PROVE OnlySpawnsAdd
  BY <1>16, <1>a, LockAssumption DEF Move, Spend, Goto, OnlySpawnsAdd, LockInv
<1>17. ASSUME NEW w \in Workers, Vacate(w) PROVE OnlySpawnsAdd
  BY <1>17, <1>a, LockAssumption DEF Vacate, Goto, Vacated, OnlySpawnsAdd, LockInv
<1>18. ASSUME NEW w \in Workers, Claim(w) PROVE OnlySpawnsAdd
  BY <1>18, <1>a, LockAssumption DEF Claim, Goto, OnlySpawnsAdd, LockInv
<1>19. ASSUME NEW w \in Workers, Contest(w) PROVE OnlySpawnsAdd
  BY <1>19, <1>a, LockAssumption DEF Contest, Goto, Marked, OnlySpawnsAdd, LockInv
<1>20. ASSUME NEW w \in Workers, Replace(w) PROVE OnlySpawnsAdd
  BY <1>20, <1>a, LockAssumption DEF Replace, Goto, OnlySpawnsAdd, LockInv
<1>21. ASSUME NEW w \in Workers, Mark(w) PROVE OnlySpawnsAdd
  BY <1>21, <1>a, LockAssumption DEF Mark, Goto, Marked, OnlySpawnsAdd, LockInv
<1>22. ASSUME NEW w \in Workers, Return(w) PROVE OnlySpawnsAdd
  BY <1>22, <1>a, LockAssumption DEF Return, Finished, OnlySpawnsAdd, LockInv
<1>23. ASSUME NEW i \in Ants, PauseElapses(i) PROVE OnlySpawnsAdd
  BY <1>23, <1>a, LockAssumption DEF PauseElapses, OnlySpawnsAdd, LockInv
<1>24. ASSUME SetPaused PROVE OnlySpawnsAdd
  BY <1>24, <1>a, LockAssumption DEF SetPaused, OnlySpawnsAdd, LockInv
<1>25. ASSUME Halve PROVE OnlySpawnsAdd
  BY <1>25, <1>a, LockAssumption DEF Halve, Cull, OnlySpawnsAdd, LockInv
<1>26. ASSUME BeginDrain PROVE OnlySpawnsAdd
  BY <1>26, <1>a, LockAssumption DEF BeginDrain, OnlySpawnsAdd, LockInv
<1>27. ASSUME PollDrain PROVE OnlySpawnsAdd
  BY <1>27, <1>a, LockAssumption DEF PollDrain, Retire, RetireFlags, OnlySpawnsAdd, LockInv
<1>28. ASSUME SpawnClaim PROVE OnlySpawnsAdd
  BY <1>28, <1>a, LockAssumption DEF SpawnClaim, Lowest, OnlySpawnsAdd, LockInv
<1>29. ASSUME SpawnEnable PROVE OnlySpawnsAdd
  BY <1>29, <1>a, LockAssumption DEF SpawnEnable, OnlySpawnsAdd, LockInv
<1>30. CASE UNCHANGED vars
  BY <1>30, <1>a, LockAssumption DEF vars, OnlySpawnsAdd, LockInv
<1> QED
  BY <1>1, <1>2, <1>3, <1>4, <1>5, <1>6, <1>7, <1>8, <1>9, <1>10, <1>11, <1>12,
     <1>13, <1>14, <1>15, <1>16, <1>17, <1>18, <1>19, <1>20, <1>21, <1>22, <1>23, <1>24,
     <1>25, <1>26, <1>27, <1>28, <1>29, <1>30, <1>8a
  DEF Next, Scan, Visit, Recover, Select, Execute, Instruction, MoveClaim, Control

(* Before anything has happened every enabled ant holds its byte.          *)
LEMMA PlacedInit == Init => WaitInv /\ SettleInv /\ Resident /\ NoGhosts /\ holder # Controller
<1> SUFFICES ASSUME Init PROVE WaitInv /\ SettleInv /\ Resident /\ NoGhosts /\ holder # Controller
  OBVIOUS
<1>1. TypeOK /\ RosterInv /\ ByteInv
  BY InitInv DEF IInv
<1>2. WaitInv /\ SettleInv /\ holder # Controller
  BY LockAssumption DEF Init, WaitInv, SettleInv
<1>3. ASSUME NEW i \in mask PROVE Holds(i)
  <2>1. i \in 1..InitialAnts /\ i \in Ants
    BY <1>1, <1>3 DEF Init, TypeOK
  <2>2. pos[i] \in Cells /\ occ[pos[i]] = CHOOSE j \in 1..InitialAnts : pos[j] = pos[i]
    BY <1>1, <2>1 DEF Init, TypeOK
  <2>3. \A j \in 1..InitialAnts : pos[j] = pos[i] => j = i
    BY <2>1 DEF Init
  <2> QED
    BY <2>1, <2>2, <2>3 DEF Holds
<1>4. NoGhosts
  <2>1. \A i \in Ants : "WAITING" \notin flags[i]
    BY DEF Init
  <2> QED
    BY <1>1, <1>2, <2>1 DEF NoGhosts, ByteInv, RosterInv, TypeOK
<1> QED
  BY <1>2, <1>3, <1>4 DEF Resident, Placed

(* The last step of a recovery finds the ant placed.                       *)
LEMMA SettleStep == IInv /\ WaitInv /\ SettleInv /\ [Next]_vars => SettleInv'
<1> SUFFICES ASSUME IInv, WaitInv, SettleInv, [Next]_vars, scanStep' = "settle" PROVE Placed(scanAt)'
  BY DEF SettleInv
<1>1. CASE Holds(scanAt)'
  BY <1>1 DEF Placed
<1>2. CASE scanStep = "settle" /\ scanAt' = scanAt
  <2>1. PICK i \in mask : i = scanAt
    BY <1>2 DEF IInv, LockInv
  <2>2. LockInv'
    BY LockStep
  <2>3. i \in mask' /\ i = scanAt'
    BY <1>2, <2>1, <2>2 DEF LockInv
  <2>4. Placed(i)
    BY <1>2, <2>1 DEF SettleInv
  <2>5. Placed(i)'
    BY <2>1, <2>3, <2>4, PlacedStep DEF PlacedKept
  <2> QED
    BY <2>3, <2>5 DEF Placed, Displaced, HasAny, MarkPending, BetweenCells, Holds
<1> QED
  BY <1>1, <1>2, SettlingStep DEF SettleBegins

(* As long as no ant joins, all those that do not wait stay placed.        *)
LEMMA ResidentStep ==
  IInv /\ WaitInv /\ SettleInv /\ Resident /\ holder # Controller /\ [Next]_vars => Resident'
<1> SUFFICES ASSUME IInv, WaitInv, SettleInv, Resident, holder # Controller, [Next]_vars,
                    NEW i \in mask', "WAITING" \notin flags'[i]
             PROVE  Placed(i)'
  BY DEF Resident
<1>1. i \in mask
  BY GrowthStep DEF OnlySpawnsAdd
<1>2. Placed(i)
  BY <1>1, WaitingStep DEF Resident, SettleInv, WaitingEnds
<1> QED
  BY <1>1, <1>2, PlacedStep DEF PlacedKept

-----------------------------------------------------------------------------
(* Halving.                                                                *)

(* A set of natural numbers that has a bound has a largest one. *)
LEMMA LargestExists ==
  ASSUME NEW n \in Nat, NEW S, S \subseteq 0..n, S # {}
  PROVE  \E m \in S : \A k \in S : k <= m
<1> DEFINE T == {n - k : k \in S}
<1>1. T \subseteq Nat /\ T # {}
  <2>1. \A k \in S : n - k \in Nat
    OBVIOUS
  <2> QED
    BY <2>1
<1>2. \E x \in T : \A y \in T : ~(<<y, x>> \in OpToRel(<, Nat))
  BY <1>1, WFMin, NatLessThanWellFounded, Zenon
<1>3. PICK x \in T : \A y \in T : ~(<<y, x>> \in OpToRel(<, Nat))
  BY <1>2
<1>4. PICK m \in S : x = n - m
  BY <1>3
<1>5. ASSUME NEW k \in S PROVE k <= m
  <2>1. n - k \in T /\ n - k \in Nat /\ x \in Nat
    BY <1>1
  <2>2. ~(<<n - k, x>> \in OpToRel(<, Nat))
    BY <1>3, <2>1
  <2>3. ~(n - k < x)
    BY <2>1, <2>2 DEF OpToRel
  <2> QED
    BY <1>4, <2>3
<1> QED
  BY <1>5

(* Balances, and numbers where balances are equal, rank the ants.          *)
LEMMA Ranked ==
  ASSUME tokens \in [Ants -> Nat], NEW i \in Ants, NEW j \in Ants, NEW k \in Ants
  PROVE  /\ ~Weaker(i, i)
         /\ i # j => Weaker(i, j) \/ Weaker(j, i)
         /\ Weaker(i, j) /\ Weaker(j, k) => Weaker(i, k)
<1>1. Ants \subseteq Nat
  BY ColonyAssumption DEF Ants
<1> QED
  BY <1>1 DEF Weaker

(* The `need` weakest are no more than that: of them the strongest has all *)
(* the others below it, and fewer than `need` below it.                    *)
LEMMA WeakestFew ==
  ASSUME tokens \in [Ants -> Nat], NEW need \in Nat
  PROVE  Cardinality(Weakest(need)) <= need
<1> DEFINE W == Weakest(need)
           Below(i) == {j \in Available : Weaker(j, i)}
<1>1. W \subseteq Available /\ Available \subseteq Ants /\ \A i \in W : Cardinality(Below(i)) < need
  BY DEF Weakest, Available
<1>2. ASSUME NEW i \in Ants PROVE IsFiniteSet(Below(i)) /\ Cardinality(Below(i)) \in Nat
  <2>1. Below(i) \subseteq Ants
    BY <1>1
  <2> QED
    BY <2>1, AntsFinite
<1>3. IsFiniteSet(W) /\ Cardinality(W) \in Nat
  BY <1>1, AntsFinite
<1>4. CASE W = {}
  BY <1>4, FS_EmptySet
<1>5. CASE W # {}
  <2> DEFINE Counts == {Cardinality(Below(i)) : i \in W}
  <2>1. Counts \subseteq 0..need /\ Counts # {}
    <3>1. \A i \in W : Cardinality(Below(i)) \in 0..need
      BY <1>1, <1>2
    <3> QED
      BY <1>5, <3>1
  <2> HIDE DEF W, Below
  <2>2. PICK c \in Counts : \A k \in Counts : k <= c
    BY <2>1, LargestExists
  <2>3. PICK m \in W : c = Cardinality(Below(m))
    BY <2>2
  <2>4. \A i \in W : Cardinality(Below(i)) <= Cardinality(Below(m))
    BY <2>2, <2>3
  <2>5. ASSUME NEW i \in W, i # m PROVE i \in Below(m)
    <3> SUFFICES ASSUME ~Weaker(i, m) PROVE FALSE
      BY <1>1 DEF Below
    <3>1. Weaker(m, i)
      BY <1>1, <2>5, Ranked
    <3>2. \A j \in Ants : Weaker(j, m) => Weaker(j, i)
      BY <1>1, <3>1, Ranked
    <3>3. m \in Below(i) /\ Below(m) \subseteq Below(i) /\ m \notin Below(m)
      BY <1>1, <3>1, <3>2, Ranked DEF Below
    <3>4. Below(m) \cup {m} \subseteq Below(i)
      BY <3>3
    <3>5. /\ Cardinality(Below(m) \cup {m}) = Cardinality(Below(m)) + 1
          /\ Cardinality(Below(m) \cup {m}) <= Cardinality(Below(i))
      BY <1>1, <1>2, <3>3, <3>4, FS_AddElement, FS_Subset
    <3> QED
      BY <1>1, <1>2, <2>4, <3>5
  <2>6. W \ {m} \subseteq Below(m)
    BY <2>5
  <2>7. Cardinality(W \ {m}) <= Cardinality(Below(m)) /\ Cardinality(W \ {m}) = Cardinality(W) - 1
    BY <1>1, <1>2, <1>3, <2>6, FS_Subset, FS_RemoveElement
  <2> QED
    BY <1>1, <1>2, <1>3, <2>7 DEF W
<1> QED
  BY <1>4, <1>5

(* A press takes the weakest available ants, at most half of the ants.     *)
LEMMA HalveSpares ==
  ASSUME IInv, Halve
  PROVE  Spares
<1>a. TypeOK /\ RosterInv
  BY DEF IInv
<1>1. PICK seen \in population..MaxAnts : Cull(seen \div 2)
  BY DEF Halve
<1> DEFINE need == population - seen \div 2
           leaving == Staying \ Staying'
<1>2. population \in Int /\ seen \in Int /\ need \in Nat /\ 2 * need <= population + 1
  <2>1. population \in Int /\ seen \in Int /\ population <= seen /\ seen \div 2 < population
    BY <1>1, <1>a, ColonyAssumption DEF TypeOK, Cull
  <2> QED
    BY <2>1
<1> HIDE DEF need
<1>3. /\ flags' = [i \in Ants |-> IF i \in Weakest(need) THEN flags[i] \cup {"DRAINING"} ELSE flags[i]]
      /\ mask' = mask
  BY <1>1 DEF Cull, roster, need
<1>4. leaving = Weakest(need) /\ Weakest(need) \subseteq Available /\ Available \subseteq Ants
  BY <1>3, <1>a DEF Staying, Has, HasAny, TypeOK, RosterInv, Weakest, Available
<1>5. Cardinality(leaving) <= need /\ Cardinality(leaving) \in Nat
  BY <1>2, <1>4, <1>a, WeakestFew, AntsFinite DEF TypeOK
<1>6. ASSUME NEW i \in leaving, NEW j \in Staying' \cap Available
      PROVE  ~Has(i, "LEASED") /\ Weaker(i, j)
  <2>1. i \in Weakest(need) /\ i \in Available /\ i \in Ants /\ j \in Ants
    BY <1>4
  <2>2. j \notin Weakest(need) /\ i # j
    BY <1>4, <1>6, <2>1
  <2>3. ~Has(i, "LEASED")
    BY <2>1 DEF Available, HasAny, Has
  <2>4. ASSUME Weaker(j, i) PROVE FALSE
    <3> DEFINE Below(k) == {x \in Available : Weaker(x, k)}
    <3>1. Below(j) \subseteq Below(i)
      BY <1>4, <1>a, <2>1, <2>4, Ranked DEF TypeOK
    <3>2. Below(i) \subseteq Ants /\ Below(j) \subseteq Ants
      BY <1>4
    <3>3. Cardinality(Below(j)) <= Cardinality(Below(i)) /\ Cardinality(Below(j)) \in Nat /\ Cardinality(Below(i)) \in Nat
      BY <3>1, <3>2, AntsFinite, FS_Subset
    <3>4. Cardinality(Below(i)) < need /\ ~(Cardinality(Below(j)) < need)
      BY <1>6, <2>1, <2>2 DEF Weakest
    <3> QED
      BY <1>2, <3>3, <3>4
  <2> QED
    BY <1>a, <2>1, <2>2, <2>3, <2>4, Ranked DEF TypeOK
<1> QED
  BY <1>2, <1>5, <1>6 DEF Spares

(* Only a press or a debug drain makes an ant leave, and no step takes an  *)
(* ant from the colony that was not draining.                              *)
LEMMA SpareStep == IInv /\ PopulationAgrees /\ [Next]_vars => (~draining' => Spares)
<1> SUFFICES ASSUME IInv, PopulationAgrees, [Next]_vars, ~draining' PROVE Spares
  OBVIOUS
<1>a. TypeOK /\ RosterInv /\ LockInv /\ population \in Nat
  BY AntsFinite DEF IInv, TypeOK, PopulationAgrees
<1>e. ASSUME Staying \subseteq Staying' PROVE Spares
  <2>1. Staying \ Staying' = {}
    BY <1>e
  <2> QED
    BY <1>a, <2>1, FS_EmptySet DEF Spares
<1> USE DEF shared, lock, local, bucket, roster, mode, Staying, Has
<1>1. ASSUME NEW w \in Workers, Acquire(w) PROVE Spares
  BY <1>1, <1>e DEF Acquire
<1>2. ASSUME NEW w \in Workers, NEW i \in Ants, VisitNone(w, i) PROVE Spares
  BY <1>2, <1>e DEF VisitNone
<1>3. ASSUME NEW w \in Workers, NEW i \in Ants, VisitRetire(w, i) PROVE Spares
  BY <1>3, <1>a, <1>e DEF VisitRetire, Exhausted
<1>4. ASSUME NEW w \in Workers, NEW i \in Ants, VisitPause(w, i) PROVE Spares
  BY <1>4, <1>e DEF VisitPause
<1>5. ASSUME NEW w \in Workers, NEW i \in Ants, VisitClear(w, i) PROVE Spares
  BY <1>5, <1>a, <1>e DEF VisitClear, TypeOK
<1>6. ASSUME NEW w \in Workers, NEW i \in Ants, VisitWaiting(w, i) PROVE Spares
  BY <1>6, <1>e DEF VisitWaiting
<1>7. ASSUME NEW w \in Workers, RecoverRelease(w) PROVE Spares
  BY <1>7, <1>e DEF RecoverRelease
<1>8. ASSUME NEW w \in Workers, RecoverRebirth(w) PROVE Spares
  BY <1>8, <1>a, <1>e DEF RecoverRebirth, TypeOK, RebirthFlags
<1>8a. ASSUME NEW w \in Workers, RecoverRestore(w) PROVE Spares
  BY <1>8a DEF RecoverRestore
<1>9. ASSUME NEW w \in Workers, RecoverReclaim(w) PROVE Spares
  BY <1>9, <1>e DEF RecoverReclaim
<1>10. ASSUME NEW w \in Workers, RecoverSettle(w) PROVE Spares
  BY <1>10, <1>a, <1>e DEF RecoverSettle, TypeOK, Settled
<1>11. ASSUME NEW w \in Workers, SelectNone(w) PROVE Spares
  <2>1. UNCHANGED shared \/ \E out : (\A j \in out : "DRAINING" \in flags[j]) /\ Retire(out)
    BY <1>11 DEF SelectNone, Scanned
  <2>2. CASE UNCHANGED shared
    BY <1>e, <2>2
  <2>3. ASSUME NEW out, \A j \in out : "DRAINING" \in flags[j], Retire(out) PROVE Spares
    BY <1>a, <1>e, <2>3 DEF Retire, TypeOK
  <2> QED
    BY <2>1, <2>2, <2>3
<1>12. ASSUME NEW w \in Workers, NEW i \in Ants, SelectLease(w, i) PROVE Spares
  BY <1>12, <1>a, <1>e DEF SelectLease, RetireFlags, TypeOK
<1>13. ASSUME NEW w \in Workers, Start(w) PROVE Spares
  BY <1>13, <1>e DEF Start
<1>14. ASSUME NEW w \in Workers, Halt(w) PROVE Spares
  BY <1>14, <1>a, <1>e DEF Halt, TypeOK
<1>15. ASSUME NEW w \in Workers, Hold(w) PROVE Spares
  BY <1>15, <1>e DEF Hold
<1>16. ASSUME NEW w \in Workers, Move(w) PROVE Spares
  BY <1>16, <1>e DEF Move
<1>17. ASSUME NEW w \in Workers, Vacate(w) PROVE Spares
  BY <1>17, <1>e DEF Vacate
<1>18. ASSUME NEW w \in Workers, Claim(w) PROVE Spares
  BY <1>18, <1>e DEF Claim
<1>19. ASSUME NEW w \in Workers, Contest(w) PROVE Spares
  BY <1>19, <1>a, <1>e DEF Contest, TypeOK, Marked
<1>20. ASSUME NEW w \in Workers, Replace(w) PROVE Spares
  BY <1>20, <1>e DEF Replace
<1>21. ASSUME NEW w \in Workers, Mark(w) PROVE Spares
  BY <1>21, <1>a, <1>e DEF Mark, TypeOK, Marked
<1>22. ASSUME NEW w \in Workers, Return(w) PROVE Spares
  BY <1>22, <1>a, <1>e DEF Return, TypeOK
<1>23. ASSUME NEW i \in Ants, PauseElapses(i) PROVE Spares
  BY <1>23, <1>e DEF PauseElapses
<1>24. ASSUME SetPaused PROVE Spares
  BY <1>24, <1>e DEF SetPaused
<1>25. ASSUME Halve PROVE Spares
  BY <1>25, HalveSpares
<1>26. ASSUME BeginDrain PROVE Spares
  BY <1>26, <1>e DEF BeginDrain
<1>27. ASSUME PollDrain PROVE Spares
  BY <1>27, <1>e DEF PollDrain
<1>28. ASSUME SpawnClaim PROVE Spares
  BY <1>28, <1>e DEF SpawnClaim
<1>29. ASSUME SpawnEnable PROVE Spares
  BY <1>29, <1>a, <1>e DEF SpawnEnable, TypeOK, LockInv
<1>30. CASE UNCHANGED vars
  BY <1>30, <1>e DEF vars
<1> QED
  BY <1>1, <1>2, <1>3, <1>4, <1>5, <1>6, <1>7, <1>8, <1>9, <1>10, <1>11, <1>12, <1>13, <1>14, <1>15,
     <1>16, <1>17, <1>18, <1>19, <1>20, <1>21, <1>22, <1>23, <1>24, <1>25, <1>26, <1>27, <1>28, <1>29, <1>30, <1>8a
  DEF Next, Scan, Visit, Recover, Select, Execute, Instruction, MoveClaim, Control

-----------------------------------------------------------------------------
(* Theorems of the specification.                                          *)

(* The conjunction is inductive. *)
LEMMA Inductive == Spec => []IInv
<1>1. IInv /\ [Next]_vars => IInv'
  <2> SUFFICES ASSUME IInv, [Next]_vars PROVE IInv'
    OBVIOUS
  <2> QED
    BY TypeStep, LockStep, RosterStep, LeaseStep, ByteStep, BalanceStep DEF IInv
<1> QED
  BY InitInv, <1>1, PTL DEF Spec

(* Every variable keeps its type.  That tokens stay natural numbers says   *)
(* that no worker's payment (the release store of the bucket in            *)
(* ant_execute_quantum) ever underflows.                                   *)
THEOREM TypeCorrect == Spec => []TypeOK
BY Inductive, PTL DEF IInv

(* No ant ever owns two occupancy bytes, for any torus, any number of ants *)
(* and of workers, any interleaving of moves, recovery, culling and spawns.*)
THEOREM OneCell == Spec => []OneCellPerAnt
<1>1. IInv => OneCellPerAnt
  <2> SUFFICES ASSUME IInv, NEW c \in Cells, NEW d \in Cells, occ[c] = occ[d], occ[c] # NoAnt
               PROVE  c = d
    BY DEF OneCellPerAnt
  <2>1. CASE Idle(occ[c])
    BY <2>1 DEF IInv, ByteInv
  <2>2. CASE ~Idle(occ[c])
    <3>1. PICK w \in Workers : lessee[w] = occ[c]
      BY <2>2 DEF Idle
    <3> QED
      BY <3>1 DEF IInv, ByteInv
  <2> QED
    BY <2>1, <2>2
<1> QED
  BY Inductive, <1>1, PTL

(* A leased ant has one worker, and the scheduler recovers only ants that  *)
(* no worker runs.                                                         *)
THEOREM Exclusive == Spec => []LeaseExclusive
BY Inductive, PTL DEF IInv

(* The balance a worker copied when it started stays the true one: nobody  *)
(* refills, resets or spends a leased ant's bucket behind its back.        *)
THEOREM Private == Spec => []PrivateBalance
BY Inductive, PTL DEF IInv

(* The population counter is the number of enabled ants, so an exhausted   *)
(* ant is retired once, whichever of the three places finds it.            *)
THEOREM Population == Spec => []PopulationAgrees
<1>1. Init => PopulationAgrees
  <2> SUFFICES ASSUME Init PROVE PopulationAgrees
    OBVIOUS
  <2>1. RosterInv
    BY InitInv DEF IInv
  <2>2. Cardinality(1..InitialAnts) = InitialAnts
    BY ColonyAssumption, FS_Interval DEF Ants
  <2> QED
    BY <2>1, <2>2 DEF Init, PopulationAgrees, RosterInv
<1> QED
  BY <1>1, Inductive, PopulationStep, PTL DEF Spec

(* Draining ants have no income, however culling, HALT and the drain meet. *)
THEOREM NoIncome == Spec => []DrainingEarnsNothing
<1>1. Init => DrainingEarnsNothing
  BY DEF Init, DrainingEarnsNothing, Has
<1> QED
  BY <1>1, Inductive, EarningStep, PTL DEF Spec

(* A fresh collision mark is never swallowed by the recovery of an older   *)
(* one, nor by a release, a retirement or a rebirth.                       *)
THEOREM Marks == Spec => MarkNeverLost
<1>1. IInv /\ [Next]_vars => [MarkKept]_vars
  BY MarkStep
<1> QED
  BY Inductive, <1>1, PTL DEF Spec, MarkNeverLost, MarkKept

(* Once the colony drains, no ant ever has more to spend than before: the   *)
(* full bucket that a rebirth shows for a moment is taken back by the same *)
(* scan (scheduler.c, recover_ant under a drain).                       *)
THEOREM DrainBudget == Spec => DrainCreatesNothing
<1> DEFINE Budget == draining => \A i \in Ants : Remaining(i)' <= Remaining(i)
<1>1. IInv /\ [Next]_vars => [Budget]_vars
  BY DrainStep DEF NothingCreated
<1> QED
  BY Inductive, <1>1, PTL DEF Spec, DrainCreatesNothing

(* However often the halving key is pressed, and whatever already drains,  *)
(* one press takes at most half of the population, the weakest of the ants *)
(* that no worker runs, and no ant leaves the colony unasked               *)
(* (scheduler_begin_culling).                                              *)
THEOREM Halving == Spec => HalvingSpares
<1> DEFINE Spared == ~draining' => Spares
<1>1. (IInv /\ PopulationAgrees) /\ [Next]_vars => [Spared]_vars
  BY SpareStep
<1>2. Spec => []PopulationAgrees
  BY Population
<1> QED
  BY Inductive, <1>1, <1>2, PTL DEF Spec, HalvingSpares

(* A byte belongs to a live ant, or to one that a spawn is about to bring  *)
(* to life, and an ant that waits for a cell never blocks another: under   *)
(* every operator command, HALT and collision.                             *)
THEOREM Ghostless == Spec => []NoGhosts
<1>1. IInv /\ (WaitInv /\ NoGhosts) /\ [Next]_vars => (WaitInv /\ NoGhosts)'
  BY WaitStep, GhostStep
<1> QED
  BY Inductive, PlacedInit, <1>1, PTL DEF Spec

(* Without spawns an ant that is neither marked nor waiting, nor about to  *)
(* be marked, nor between two cells owns the byte under its head.  (With   *)
(* spawns the code breaks this: see the run that finds it.)                *)
THEOREM Resides == ASSUME "spawn" \notin Commands PROVE Spec => []Residency
<1> DEFINE RInv == WaitInv /\ SettleInv /\ Resident /\ holder # Controller
<1>1. IInv /\ RInv /\ [Next]_vars => RInv'
  <2>1. ~SpawnClaim
    BY DEF SpawnClaim
  <2> QED
    BY <2>1, WaitStep, SettleStep, ResidentStep, GrowthStep DEF OnlySpawnsAdd
<1>2. Init => RInv
  BY PlacedInit
<1>3. IInv /\ RInv => Residency
  <2> SUFFICES ASSUME IInv, RInv, NEW i \in Ants, Has(i, "ENABLED"),
                      ~HasAny(i, {"CLOBBERED", "DISPLACED", "WAITING"}),
                      ~MarkPending(i), ~BetweenCells(i)
               PROVE  \E c \in Cells : HeadAt(i, c) /\ occ[c] = i
    BY DEF Residency
  <2>1. i \in mask
    BY DEF IInv, RosterInv
  <2>2. PICK c \in Cells : occ[c] = i
    BY <2>1 DEF Resident, Placed, Displaced, HasAny, Holds
  <2>3. HeadAt(i, c)
    BY <2>2 DEF IInv, ByteInv, HeadAt, Idle, NoAnt, Ants
  <2> QED
    BY <2>2, <2>3
<1> QED
  BY Inductive, <1>1, <1>2, <1>3, PTL DEF Spec

=============================================================================
