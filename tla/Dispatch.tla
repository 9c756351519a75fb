------------------------------ MODULE Dispatch ------------------------------
(***************************************************************************)
(* Who runs when: token buckets, fair credit and deadlines (scheduler.c)   *)
(* under the workers of the pool (worker_pool.c).                          *)
(*                                                                         *)
(* An ant may be leased when its bucket holds a batch; among those that    *)
(* may, the largest credit wins; with none, the worker sleeps until the    *)
(* first bucket will hold a batch.  Ants are numbered by universe slot and *)
(* index, the order that breaks ties.  A scan holds the locks of the pool  *)
(* and of every scheduler, so it is one action, and so is a release; the   *)
(* waking of sleepers is told with the change that causes it (WorkerPool   *)
(* has the races of the two).  Collisions and drains are in Colony.        *)
(*                                                                         *)
(* Time is kept relative so that states repeat: age is now minus           *)
(* last_token_us, stopped once it fills any bucket.  The time of one step  *)
(* of the clock, One and Second are scaled down together with the widths   *)
(* of the integers.                                                        *)
(***************************************************************************)
EXTENDS Integers, FiniteSets

CONSTANTS Ants, Workers,
          Weight, Rate, Capacity,  \* phenotypes; the capacity is in fixed point
          One,                     \* TOKEN_FP_ONE
          Second, Divisor,         \* time steps per second, token_rate_divisor
          MinService, Quanta,      \* batch wanted, values of the quantum
          MinNap,                  \* shortest timed sleep
          WordMax, ShortMax,       \* UINT32_MAX and UINT16_MAX
          LongMod,                 \* 2^64
          MaxLead,                 \* credits farther apart count as this far
          MaxHalts                 \* bound on rebirths

ASSUME DispatchAssumption ==
    /\ Ants \subseteq Nat \ {0} /\ IsFiniteSet(Ants) /\ Ants # {}
    /\ Weight \in [Ants -> Nat \ {0}] /\ Rate \in [Ants -> Nat \ {0}] /\ Capacity \in [Ants -> Nat \ {0}]
    /\ {One, Second, Divisor, MinService, MinNap, MaxLead} \subseteq Nat \ {0}
    /\ {WordMax, ShortMax, LongMod} \subseteq Nat \ {0}
    /\ Quanta \subseteq Nat \ {0} /\ \E q \in Quanta : \A p \in Quanta : p <= q
    /\ MaxHalts \in Nat
    /\ \A a \in Ants : Capacity[a] >= One
    /\ WordMax * ShortMax * One < LongMod

VARIABLES
    tokens,   \* tokens_fp
    age,      \* time since last_token_us
    credit,   \* fair_credit
    halted,   \* ants that ran into HALT and wait for a scan to be reborn
    quantum,
    at,       \* a worker scans, runs, returns or sleeps
    job, grant, executed,   \* its lease
    nap,      \* time until a sleeper's deadline
    halts

ants    == <<tokens, age, credit, halted>>
workers == <<at, job, grant, executed, nap>>
vars    == <<ants, quantum, workers, halts>>

Idle  == 0
Never == -1

Least(S) == CHOOSE n \in S : \A m \in S : n <= m
Greatest(S) == CHOOSE n \in S : \A m \in S : n >= m
Lower(m, n) == IF m <= n THEN m ELSE n
CeilDiv(m, n) == (m + n - 1) \div n
Clipped(c) == IF c > MaxLead THEN MaxLead ELSE IF c < -MaxLead THEN -MaxLead ELSE c

(* After this long any bucket is full: nothing distinguishes longer times. *)
FullAge(a) == CeilDiv(Capacity[a] * Second * Divisor, Rate[a] * One)

Init ==
    /\ tokens = Capacity /\ age = [a \in Ants |-> 0]
    /\ credit = [a \in Ants |-> 0] /\ halted = {}
    /\ quantum \in Quanta
    /\ at = [w \in Workers |-> "scan"] /\ job = [w \in Workers |-> Idle]
    /\ grant = [w \in Workers |-> 0] /\ executed = [w \in Workers |-> 0]
    /\ nap = [w \in Workers |-> Never]
    /\ halts = 0

-----------------------------------------------------------------------------
(* accrue_tokens: what elapsed time earns.  64-bit integers are enough on  *)
(* the fast path and only there.  EarnedClamped is the reading of          *)
(* docs/SPEC.md:28 that the code does not follow: a second pays at most.   *)

Product(a, elapsed) == Rate[a] * elapsed * One
EarnedExactly(a, elapsed) == Product(a, elapsed) \div (Second * Divisor)

EarnedClamped(a, elapsed) == EarnedExactly(a, Lower(elapsed, Second))
Earned(a, elapsed) ==
    IF Rate[a] <= WordMax /\ elapsed <= ShortMax
    THEN (Product(a, elapsed) % LongMod) \div (Second * Divisor)
    ELSE EarnedExactly(a, elapsed)

Refilled(a) == Lower(Capacity[a], tokens[a] + Earned(a, age[a]))

(* Time too short to earn anything is kept for the next refill.            *)
Restarted(a) ==
    IF tokens[a] < Capacity[a] /\ Earned(a, age[a]) = 0 THEN age[a] ELSE 0

-----------------------------------------------------------------------------
(* candidate_locked                                                        *)

Leased == {job[w] : w \in Workers} \ {Idle}
Free == Ants \ Leased

(* A full bucket must be enough to be served, however large the batch.     *)
Required(a) == Lower(Lower(MinService, quantum), Capacity[a] \div One)

(* Every scan revives the free ants that halted, with a full bucket and no *)
(* credit (their new phenotypes are like the old), and refills the others. *)
Reborn == halted \cap Free
Revived(a) == IF a \in Reborn THEN 0 ELSE credit[a]
Scan(w) ==
    /\ at[w] = "scan"
    /\ tokens' = [a \in Ants |-> IF a \in Reborn THEN Capacity[a]
                                 ELSE IF a \in Free THEN Refilled(a) ELSE tokens[a]]
    /\ age' = [a \in Ants |-> IF a \in Reborn THEN 0
                              ELSE IF a \in Free THEN Restarted(a) ELSE age[a]]
    /\ halted' = halted \ Free

(* After the refill: who may be leased, and who of them wins.              *)
Eligible(a) == a \in Free /\ tokens'[a] \div One >= Required(a)
Gained(a) == Revived(a) + (IF Eligible(a) THEN Weight[a] ELSE 0)
Wins(a) == /\ Eligible(a)
           /\ \A b \in Ants : Eligible(b) => \/ Gained(b) < Gained(a)
                                             \/ Gained(b) = Gained(a) /\ a <= b

(* All credits become relative to the winner's.  NotRecentred keeps them.  *)
NotRecentred(a, winner) == Gained(a)
Recentred(a, winner) == Gained(a) - Gained(winner)

(* scheduler_acquire_group and lease_locked                                *)
Lease(w) ==
    /\ Scan(w)
    /\ \E best \in Ants :
         /\ Wins(best)
         /\ credit' = [a \in Ants |-> Clipped(Recentred(a, best))]
         /\ job' = [job EXCEPT ![w] = best]
         /\ grant' = [grant EXCEPT ![w] = Lower(quantum, tokens'[best] \div One)]
    /\ at' = [at EXCEPT ![w] = "run"]
    /\ UNCHANGED <<quantum, executed, nap, halts>>

(* token_deadline, from now: the first moment at which the refill of an    *)
(* ant makes a batch.  DelayFromNow forgets the time kept from before.     *)
Shortfall(a) == Required(a) * One - tokens'[a]
DelayFromNow(a) == CeilDiv(Shortfall(a) * Second * Divisor, Rate[a] * One)
Delay(a) == CeilDiv(Shortfall(a) * Second * Divisor, Rate[a] * One) - age'[a]

Deadline == IF Free = {} THEN Never ELSE Greatest({MinNap, Least({Delay(a) : a \in Free})})

Sleep(w) ==
    /\ Scan(w) /\ \A a \in Ants : ~Eligible(a)
    /\ credit' = [a \in Ants |-> Revived(a)]
    /\ nap' = [nap EXCEPT ![w] = Deadline]
    /\ at' = [at EXCEPT ![w] = "asleep"]
    /\ UNCHANGED <<quantum, job, grant, executed, halts>>

Awake(w) ==
    /\ at[w] = "asleep" /\ nap[w] = 0
    /\ at' = [at EXCEPT ![w] = "scan"] /\ nap' = [nap EXCEPT ![w] = Never]
    /\ UNCHANGED <<ants, quantum, job, grant, executed, halts>>

-----------------------------------------------------------------------------
(* ant_execute_quantum: a token per instruction, to the end of the grant   *)
(* unless a HALT ends it.                                                  *)

Execute(w) ==
    /\ at[w] = "run"
    /\ \E n \in 1..grant[w] :
         /\ executed' = [executed EXCEPT ![w] = n]
         /\ tokens' = [tokens EXCEPT ![job[w]] = @ - n * One]
         /\ \/ halts < MaxHalts /\ halts' = halts + 1 /\ halted' = halted \cup {job[w]}
            \/ n = grant[w] /\ UNCHANGED <<halts, halted>>
    /\ at' = [at EXCEPT ![w] = "return"]
    /\ UNCHANGED <<age, credit, quantum, job, grant, nap>>

(* notify_locked: every sleeper scans again. *)
Stirred == [v \in Workers |-> IF at[v] = "asleep" THEN "scan" ELSE at[v]]
Unset == [v \in Workers |-> Never]

(* scheduler_release.  UnchargedCredit forgets to charge the work done.    *)
UnchargedCredit(w) == credit[job[w]]
Charged(w) == credit[job[w]] - executed[w]

Release(w) ==
    LET a == job[w] IN
    /\ at[w] = "return"
    /\ credit' = [credit EXCEPT ![a] = Clipped(Charged(w))]
    /\ tokens' = [tokens EXCEPT ![a] = Refilled(a)]
    /\ age' = [age EXCEPT ![a] = Restarted(a)]
    /\ job' = [job EXCEPT ![w] = Idle]
    /\ grant' = [grant EXCEPT ![w] = 0] /\ executed' = [executed EXCEPT ![w] = 0]
    /\ at' = [Stirred EXCEPT ![w] = "scan"] /\ nap' = Unset
    /\ UNCHANGED <<halted, quantum, halts>>

(* scheduler_set_quantum, from the [ and ] keys. *)
SetQuantum(q) ==
    /\ q # quantum /\ quantum' = q
    /\ at' = Stirred /\ nap' = Unset
    /\ UNCHANGED <<ants, job, grant, executed, halts>>

Tick ==
    /\ age' = [a \in Ants |-> Lower(age[a] + 1, FullAge(a))]
    /\ nap' = [w \in Workers |-> IF nap[w] > 0 THEN nap[w] - 1 ELSE nap[w]]
    /\ UNCHANGED <<tokens, credit, halted, quantum, at, job, grant, executed, halts>>

-----------------------------------------------------------------------------
Step(w) == Lease(w) \/ Sleep(w) \/ Awake(w) \/ Execute(w) \/ Release(w)
Next == (\E w \in Workers : Step(w)) \/ (\E q \in Quanta : SetQuantum(q)) \/ Tick

Spec == Init /\ [][Next]_vars

(* Threads run and time passes; nobody has to touch the quantum.  A worker *)
(* in a sleep is not enabled, so weak fairness of its step is enough.      *)
FairSpec == Spec /\ WF_vars(Tick) /\ \A w \in Workers : WF_vars(Step(w))

-----------------------------------------------------------------------------
DispatchTypeOK ==
    /\ tokens \in [Ants -> Nat] /\ age \in [Ants -> Nat] /\ credit \in [Ants -> -MaxLead..MaxLead]
    /\ halted \subseteq Ants /\ quantum \in Quanta /\ halts \in 0..MaxHalts
    /\ at \in [Workers -> {"scan", "run", "return", "asleep"}]
    /\ job \in [Workers -> Ants \cup {Idle}]
    /\ grant \in [Workers -> Nat] /\ executed \in [Workers -> Nat]
    /\ nap \in [Workers -> Nat \cup {Never}]

(* No ant starves: whatever its rate, its capacity and the keys pressed,   *)
(* every ant is leased again and again.  It takes batches that outweigh    *)
(* the weights: every ant that could run gains its weight at every scan,   *)
(* and the one that runs pays for what it executed only.                   *)
EveryAntServed == \A a \in Ants : []<>(a \in Leased)

(* Nobody oversleeps: whatever other workers refilled in the meantime,     *)
(* rounding down each time, no free ant has a batch earlier than a         *)
(* coalesced nap before the sleeper's deadline; a worker without a         *)
(* deadline leaves no free ant behind.                                     *)
Ripe(a, n) == (tokens[a] + EarnedExactly(a, age[a] + n)) \div One >= Required(a)
NeverOversleeps == \A w \in Workers : at[w] = "asleep" =>
    /\ nap[w] = Never => Free = {}
    /\ nap[w] >= MinNap => \A a \in Free : ~Ripe(a, nap[w] - MinNap)

(* Time is paid once and in full: when the clock of an ant that is not     *)
(* reborn restarts, its bucket is full or got all that the exact quotient  *)
(* grants, and that was not nothing - a sleep of several seconds included. *)
TimeIsPaid == [][\A a \in Ants : age'[a] < age[a] /\ a \notin Reborn =>
    \/ tokens[a] = Capacity[a]
    \/ /\ tokens'[a] > tokens[a]
       /\ tokens'[a] = Lower(Capacity[a], tokens[a] + EarnedExactly(a, age[a]))]_vars

(* Zero stays the current baseline: the ant served last stands there or at *)
(* most a batch below, so that the zero credit of a newborn neither leads  *)
(* the others nor trails them by the age of the colony.                    *)
NewbornNearBaseline == \E a \in Ants : credit[a] \in -Greatest(Quanta)..0

=============================================================================
