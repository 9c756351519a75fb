--------------------------- MODULE DispatchProofs ---------------------------
(***************************************************************************)
(* Proofs about Dispatch for every number of ants and workers, and for all *)
(* rates, weights, capacities, batches and integer widths the assumption   *)
(* admits.  First the arithmetic: quotients that round down, and up.  Then *)
(* the refill, the deadline that inverts it, and the invariant.            *)
(***************************************************************************)
EXTENDS Dispatch, WellFoundedInduction, TLAPS

-----------------------------------------------------------------------------
(* Quotients                                                               *)

Positive == Nat \ {0}

(* The quotient is the last multiple reached. *)

LEMMA DivInt ==
    ASSUME NEW m \in Positive, NEW x \in Int
    PROVE  x \div m \in Int /\ (x \div m) * m <= x /\ x < (x \div m) * m + m
    BY DEF Positive

(* Multiplying by a positive number keeps the order. *)
LEMMA Scales ==
    ASSUME NEW k \in Positive, NEW m \in Positive, NEW x \in Int, NEW y \in Int
    PROVE  /\ k * m \in Positive
           /\ x < y <=> x * k < y * k
           /\ x <= y <=> x * k <= y * k
    BY DEF Positive

(* A quotient reaches a number when the dividend reaches its multiple. *)
LEMMA DivReaches ==
    ASSUME NEW m \in Positive, NEW x \in Int, NEW q \in Int
    PROVE  q <= x \div m <=> q * m <= x
    <1> DEFINE d == x \div m
    <1>1. d \in Int /\ d * m <= x /\ x < d * m + m
        BY DivInt
    <1> HIDE DEF d
    <1>2. CASE q <= d
        <2>1. q * m <= d * m
            BY <1>1, <1>2, Scales
        <2>2. q * m \in Int /\ d * m \in Int
            BY <1>1 DEF Positive
        <2>3. QED
            BY <1>1, <1>2, <2>1, <2>2 DEF d
    <1>3. CASE ~(q <= d)
        <2>1. (d + 1) * m <= q * m
            BY <1>1, <1>3, Scales
        <2>2. (d + 1) * m = d * m + m /\ q * m \in Int /\ d * m \in Int
            BY <1>1 DEF Positive
        <2>3. QED
            BY <1>1, <1>3, <2>1, <2>2 DEF d, Positive
    <1>4. QED
        BY <1>2, <1>3

(* Quotients grow with the dividend, and those of parts sum to no more     *)
(* than the quotient of the whole: rounding in between loses, never gains. *)
LEMMA DivGrows ==
    ASSUME NEW m \in Positive, NEW x \in Int, NEW y \in Int, x <= y
    PROVE  x \div m <= y \div m
    <1>1. x \div m \in Int /\ (x \div m) * m <= x /\ (x \div m) * m \in Int
        BY DivInt DEF Positive
    <1>2. (x \div m) * m <= y
        BY <1>1
    <1>3. QED
        BY <1>1, <1>2, DivReaches

LEMMA DivOfParts ==
    ASSUME NEW m \in Positive, NEW x \in Int, NEW y \in Int
    PROVE  (x \div m) + (y \div m) <= (x + y) \div m
    <1> DEFINE p == x \div m
               q == y \div m
    <1>1. p \in Int /\ q \in Int /\ p * m <= x /\ q * m <= y
        BY DivInt
    <1> HIDE DEF p, q
    <1>2. (p + q) * m = p * m + q * m /\ p * m \in Int /\ q * m \in Int
        BY <1>1 DEF Positive
    <1>3. (p + q) * m <= x + y
        BY <1>1, <1>2
    <1>4. p + q <= (x + y) \div m
        BY <1>1, <1>3, DivReaches
    <1>5. QED
        BY <1>4 DEF p, q

(* Before the rounded-up quotient, the multiple has not been reached.      *)
LEMMA BeforeCeil ==
    ASSUME NEW k \in Positive, NEW x \in Int, NEW j \in Int
    PROVE  CeilDiv(x, k) \in Int /\ (j < CeilDiv(x, k) <=> j * k < x)
    <1> DEFINE c == CeilDiv(x, k)
    <1>1. x + k - 1 \in Int
        BY DEF Positive
    <1>2. c \in Int
        BY <1>1, DivInt DEF CeilDiv
    <1>3. j + 1 <= c <=> (j + 1) * k <= x + k - 1
        BY <1>1, DivReaches DEF CeilDiv
    <1>4. (j + 1) * k = j * k + k /\ j * k \in Int
        BY DEF Positive
    <1> HIDE DEF c
    <1>5. j < c <=> j * k < x
        BY <1>2, <1>3, <1>4 DEF Positive
    <1>6. QED
        BY <1>2, <1>5 DEF c

(* A number below the modulus is its own remainder. *)
LEMMA ModOfLess ==
    ASSUME NEW m \in Nat, NEW x \in Nat, x < m
    PROVE  x % m = x
    OBVIOUS

(* A set of natural numbers has a least one. *)
LEMMA LeastExists ==
    ASSUME NEW S, S \subseteq Nat, S # {}
    PROVE  Least(S) \in S /\ \A m \in S : Least(S) <= m
    <1>1. \E x \in S : \A y \in S : ~(<<y, x>> \in OpToRel(<, Nat))
        BY WFMin, NatLessThanWellFounded, Zenon
    <1>2. PICK x \in S : \A y \in S : ~(<<y, x>> \in OpToRel(<, Nat))
        BY <1>1
    <1>3. \A y \in S : x <= y
        <2> SUFFICES ASSUME NEW y \in S PROVE x <= y
            OBVIOUS
        <2>1. <<y, x>> \in Nat \X Nat
            OBVIOUS
        <2>2. ~(y < x)
            BY <1>2, <2>1 DEF OpToRel
        <2>3. QED
            BY <2>2
    <1>4. QED
        BY <1>2, <1>3 DEF Least

-----------------------------------------------------------------------------
(* What elapsed time earns                                                 *)

(* The constants are positive. *)
LEMMA Parameters ==
    /\ One \in Positive /\ Second * Divisor \in Positive
    /\ MinService \in Positive /\ MinNap \in Positive /\ MaxLead \in Positive
    /\ \A a \in Ants : a \in Positive /\ Weight[a] \in Positive /\ Rate[a] \in Positive
                      /\ Capacity[a] \in Positive /\ Rate[a] * One \in Positive
    <1>1. One \in Positive /\ Second \in Positive /\ Divisor \in Positive
        BY DispatchAssumption DEF Positive
    <1>2. Second * Divisor \in Positive
        BY <1>1, Scales DEF Positive
    <1>3. ASSUME NEW a \in Ants PROVE a \in Positive /\ Weight[a] \in Positive /\ Rate[a] \in Positive
                                   /\ Capacity[a] \in Positive
        BY DispatchAssumption DEF Positive
    <1>4. ASSUME NEW a \in Ants PROVE Rate[a] * One \in Positive
        BY <1>1, <1>3, Scales DEF Positive
    <1>5. QED
        BY <1>1, <1>2, <1>3, <1>4, DispatchAssumption DEF Positive

(* Elapsed time is multiplied by what one unit of it is worth. *)
LEMMA ProductIs ==
    ASSUME NEW a \in Ants, NEW n \in Nat
    PROVE  Product(a, n) \in Nat /\ Product(a, n) = n * (Rate[a] * One)
    BY Parameters DEF Product, Positive

(* Nobody loses tokens by a refill. *)
LEMMA EarnedIs ==
    ASSUME NEW a \in Ants, NEW n \in Nat
    PROVE  EarnedExactly(a, n) \in Nat
    <1>1. EarnedExactly(a, n) \in Int
        BY ProductIs, Parameters, DivInt DEF EarnedExactly
    <1>2. 0 <= EarnedExactly(a, n) <=> 0 * (Second * Divisor) <= Product(a, n)
        BY ProductIs, Parameters, DivReaches DEF EarnedExactly
    <1>3. 0 * (Second * Divisor) = 0
        BY Parameters DEF Positive
    <1>4. QED
        BY <1>1, <1>2, <1>3, ProductIs

(* More time earns no less. *)
LEMMA EarnedGrows ==
    ASSUME NEW a \in Ants, NEW m \in Nat, NEW n \in Nat, m <= n
    PROVE  EarnedExactly(a, m) <= EarnedExactly(a, n)
    <1> DEFINE r == Rate[a] * One
    <1>1. r \in Positive
        BY Parameters
    <1>2. Product(a, m) = m * r /\ Product(a, n) = n * r
        BY ProductIs
    <1> HIDE DEF r
    <1>3. m * r <= n * r
        BY <1>1, Scales
    <1>4. QED
        BY <1>2, <1>3, ProductIs, Parameters, DivGrows DEF EarnedExactly

(* Refilling in between earns no more than refilling once. *)
LEMMA EarnedInParts ==
    ASSUME NEW a \in Ants, NEW m \in Nat, NEW n \in Nat
    PROVE  EarnedExactly(a, m) + EarnedExactly(a, n) <= EarnedExactly(a, m + n)
    <1> DEFINE r == Rate[a] * One
    <1>1. r \in Positive
        BY Parameters
    <1>2. Product(a, m) = m * r /\ Product(a, n) = n * r /\ Product(a, m + n) = (m + n) * r
        BY ProductIs
    <1> HIDE DEF r
    <1>3. Product(a, m) + Product(a, n) = Product(a, m + n)
        BY <1>1, <1>2 DEF Positive
    <1>4. QED
        BY <1>3, ProductIs, Parameters, DivOfParts DEF EarnedExactly

(* The fast path of accrue_tokens computes the exact quotient: within its  *)
(* guard no product overflows.                                             *)
LEMMA FastPathExact ==
    ASSUME NEW a \in Ants, NEW n \in Nat
    PROVE  Earned(a, n) = EarnedExactly(a, n)
    <1>1. CASE Rate[a] <= WordMax /\ n <= ShortMax
        <2>1. WordMax \in Nat /\ ShortMax \in Nat /\ LongMod \in Nat /\ One \in Nat /\ Rate[a] \in Nat
              /\ WordMax * ShortMax * One < LongMod
            BY DispatchAssumption
        <2>2. Rate[a] * n <= WordMax * n
            BY <1>1, <2>1
        <2>3. WordMax * n <= WordMax * ShortMax
            BY <1>1, <2>1
        <2>4. Rate[a] * n <= WordMax * ShortMax /\ Rate[a] * n \in Int /\ WordMax * ShortMax \in Int
            BY <2>1, <2>2, <2>3
        <2>5. Rate[a] * n * One <= WordMax * ShortMax * One
            BY <2>4, Parameters, Scales
        <2>6. Product(a, n) < LongMod
            BY <2>1, <2>4, <2>5 DEF Product
        <2>7. Product(a, n) % LongMod = Product(a, n)
            BY <2>1, <2>6, ProductIs, ModOfLess
        <2>8. QED
            BY <1>1, <2>7 DEF Earned, EarnedExactly
    <1>2. QED
        BY <1>1 DEF Earned

(* No time earns nothing. *)
LEMMA NoTime ==
    ASSUME NEW a \in Ants PROVE EarnedExactly(a, 0) = 0
    <1>1. Product(a, 0) = 0
        BY ProductIs, Parameters DEF Positive
    <1>2. 0 \div (Second * Divisor) = 0
        <2> DEFINE k == Second * Divisor
        <2>1. k \in Positive
            BY Parameters
        <2> HIDE DEF k
        <2>2. 0 \div k = 0
            BY <2>1 DEF Positive
        <2>3. QED
            BY <2>2 DEF k
    <1>3. QED
        BY <1>1, <1>2 DEF EarnedExactly

(* The deadline formula inverts the refill: an amount is earned from its   *)
(* rounded-up time on, and not before.                                     *)
LEMMA TimeToEarn ==
    ASSUME NEW a \in Ants, NEW s \in Int, NEW n \in Nat
    PROVE  /\ CeilDiv(s * Second * Divisor, Rate[a] * One) \in Int
           /\ n < CeilDiv(s * Second * Divisor, Rate[a] * One) <=> EarnedExactly(a, n) < s
    <1> DEFINE k == Second * Divisor
               r == Rate[a] * One
    <1>1. k \in Positive /\ r \in Positive
        BY Parameters
    <1>2. s * Second * Divisor = s * k
        BY DispatchAssumption
    <1>3. EarnedExactly(a, n) = (n * r) \div k
        BY ProductIs DEF EarnedExactly
    <1>4. EarnedExactly(a, n) \in Int
        BY EarnedIs
    <1> HIDE DEF k, r
    <1>5. s * k \in Int /\ n * r \in Int
        BY <1>1 DEF Positive
    <1>6. CeilDiv(s * k, r) \in Int /\ (n < CeilDiv(s * k, r) <=> n * r < s * k)
        BY <1>1, <1>5, BeforeCeil
    <1>7. s <= (n * r) \div k <=> s * k <= n * r
        BY <1>1, <1>5, DivReaches
    <1>8. QED
        BY <1>2, <1>3, <1>4, <1>5, <1>6, <1>7 DEF r

(* A bucket takes time to fill. *)
LEMMA FullAgeIs ==
    ASSUME NEW a \in Ants PROVE FullAge(a) \in Nat
    <1>1. Capacity[a] \in Int /\ 0 < Capacity[a]
        BY Parameters DEF Positive
    <1>2. FullAge(a) \in Int /\ 0 < FullAge(a)
        BY <1>1, TimeToEarn, NoTime DEF FullAge
    <1>3. QED
        BY <1>2

(* What one refill does: the bucket stays within its capacity, the clock   *)
(* does not advance, what is left on it is worth nothing, and no bucket is *)
(* fuller later than it would have been without.                           *)
LEMMA RefillIs ==
    ASSUME NEW a \in Ants, tokens[a] \in Nat, tokens[a] <= Capacity[a], age[a] \in Nat
    PROVE  /\ Refilled(a) \in Nat /\ tokens[a] <= Refilled(a) /\ Refilled(a) <= Capacity[a]
           /\ Restarted(a) \in Nat /\ Restarted(a) <= age[a]
           /\ EarnedExactly(a, Restarted(a)) = 0
           /\ \A n \in Nat : Refilled(a) + EarnedExactly(a, Restarted(a) + n)
                             <= tokens[a] + EarnedExactly(a, age[a] + n)
    <1> DEFINE e == EarnedExactly(a, age[a])
    <1>1. Earned(a, age[a]) = e /\ e \in Nat
        BY FastPathExact, EarnedIs
    <1>2. Capacity[a] \in Nat
        BY Parameters DEF Positive
    <1>3. CASE tokens[a] < Capacity[a] /\ e = 0
        <2>1. Refilled(a) = tokens[a] /\ Restarted(a) = age[a]
            BY <1>1, <1>2, <1>3 DEF Refilled, Restarted, Lower
        <2>2. \A n \in Nat : EarnedExactly(a, age[a] + n) \in Nat
            BY EarnedIs
        <2>3. QED
            BY <1>3, <2>1, <2>2
    <1>4. CASE ~(tokens[a] < Capacity[a] /\ e = 0)
        <2>1. Restarted(a) = 0
            BY <1>1, <1>4 DEF Restarted
        <2>2. Refilled(a) \in Nat /\ tokens[a] <= Refilled(a) /\ Refilled(a) <= Capacity[a]
              /\ Refilled(a) <= tokens[a] + e
            BY <1>1, <1>2 DEF Refilled, Lower
        <2>3. ASSUME NEW n \in Nat
              PROVE  Refilled(a) + EarnedExactly(a, n) <= tokens[a] + EarnedExactly(a, age[a] + n)
            <3>1. e + EarnedExactly(a, n) <= EarnedExactly(a, age[a] + n)
                BY EarnedInParts
            <3>2. EarnedExactly(a, n) \in Nat /\ EarnedExactly(a, age[a] + n) \in Nat
                BY EarnedIs
            <3> HIDE DEF e
            <3>3. QED
                BY <1>1, <2>2, <3>1, <3>2
        <2>4. \A n \in Nat : 0 + n = n
            OBVIOUS
        <2>5. QED
            BY <2>1, <2>2, <2>3, <2>4, NoTime
    <1>5. QED
        BY <1>3, <1>4

(* A refill that restarts the clock pays for the time it forgets.          *)
LEMMA RefillPays ==
    ASSUME NEW a \in Ants, tokens[a] \in Nat, tokens[a] <= Capacity[a], age[a] \in Nat,
           Restarted(a) < age[a], tokens[a] # Capacity[a]
    PROVE  /\ Refilled(a) > tokens[a]
           /\ Refilled(a) = Lower(Capacity[a], tokens[a] + EarnedExactly(a, age[a]))
    <1>1. Earned(a, age[a]) = EarnedExactly(a, age[a]) /\ EarnedExactly(a, age[a]) \in Nat
        BY FastPathExact, EarnedIs
    <1>2. Capacity[a] \in Nat
        BY Parameters DEF Positive
    <1>3. Earned(a, age[a]) # 0
        BY <1>2 DEF Restarted
    <1>4. QED
        BY <1>1, <1>2, <1>3 DEF Refilled, Lower

-----------------------------------------------------------------------------
(* The inductive invariant                                                 *)

Batch == Greatest(Quanta)

(* Buckets hold no more than their capacity, clocks stop when they would.  *)
Bounded == \A a \in Ants : tokens[a] <= Capacity[a] /\ age[a] <= FullAge(a)

(* Workers hold an ant exactly while they run or return one, and no two    *)
(* hold the same.                                                          *)
Busy == \A w \in Workers : job[w] \in Ants <=> at[w] \in {"run", "return"}
Alone == \A v, w \in Workers : job[v] = job[w] /\ job[v] \in Ants => v = w

(* A grant is covered by the bucket until it is spent.                     *)
Funded == \A w \in Workers : at[w] = "run" => grant[w] * One <= tokens[job[w]]

(* Nobody gets or does more than the largest batch.                        *)
Modest == \A w \in Workers : grant[w] <= Batch /\ executed[w] <= Batch

(* Who sleeps has revived every free ant, and who frees one stirs him.     *)
Attended == \A w \in Workers : at[w] = "asleep" => Reborn = {}

(* The ant served last stands at zero, or paid one batch when it returned. *)
Baseline == \E a \in Ants : \/ credit[a] = 0
                            \/ a \in Free /\ credit[a] \in -Batch .. 0

Inv == /\ DispatchTypeOK /\ Bounded /\ Busy /\ Alone /\ Funded /\ Modest
       /\ Attended /\ Baseline /\ NeverOversleeps

(* There is a largest batch. *)
LEMMA BatchIs ==
    Batch \in Quanta /\ Batch \in Nat /\ Quanta \subseteq Nat /\ \A q \in Quanta : q <= Batch
    <1>1. \E q \in Quanta : \A p \in Quanta : q >= p
        BY DispatchAssumption
    <1>2. Batch \in Quanta /\ \A q \in Quanta : Batch >= q
        BY <1>1 DEF Batch, Greatest
    <1>3. QED
        BY <1>2, DispatchAssumption

(* The batch wanted is a number. *)
LEMMA RequiredIs ==
    ASSUME NEW a \in Ants, quantum \in Quanta PROVE Required(a) \in Int
    <1>1. Capacity[a] \div One \in Int
        BY Parameters, DivInt DEF Positive
    <1>2. quantum \in Int /\ MinService \in Int
        BY BatchIs, Parameters DEF Positive
    <1>3. QED
        BY <1>1, <1>2 DEF Required, Lower

(* Clipping bounds a credit and keeps its sign. *)
LEMMA ClippedIs ==
    ASSUME NEW c \in Int
    PROVE  /\ Clipped(c) \in -MaxLead .. MaxLead
           /\ c = 0 => Clipped(c) = 0
           /\ c <= 0 => c <= Clipped(c) /\ Clipped(c) <= 0
    BY Parameters DEF Clipped, Positive

(* The workers start with an invariant colony. *)
LEMMA InvInit == Init => Inv
    <1> SUFFICES ASSUME Init PROVE Inv
        OBVIOUS
    <1>1. \A a \in Ants : a # Idle /\ Capacity[a] \in Nat /\ FullAge(a) \in Nat
        BY Parameters, FullAgeIs DEF Positive, Idle
    <1>2. DispatchTypeOK
        <2>1. tokens \in [Ants -> Nat]
            BY DispatchAssumption DEF Init
        <2>2. 0 \in -MaxLead .. MaxLead /\ 0 \in 0 .. MaxHalts
            BY DispatchAssumption
        <2>3. QED
            BY <2>1, <2>2 DEF Init, DispatchTypeOK
    <1>3. Bounded
        BY <1>1 DEF Init, Bounded
    <1>4. Busy /\ Alone /\ Funded /\ Attended /\ NeverOversleeps
        BY <1>1 DEF Init, Busy, Alone, Funded, Attended, NeverOversleeps
    <1>5. Modest
        BY BatchIs DEF Init, Modest
    <1>6. Baseline
        BY DispatchAssumption DEF Init, Baseline
    <1>7. QED
        BY <1>2, <1>3, <1>4, <1>5, <1>6 DEF Inv

(* What a scan does to the ants. *)
LEMMA ScanIs ==
    ASSUME Inv, NEW w \in Workers, Scan(w)
    PROVE  /\ tokens' \in [Ants -> Nat] /\ age' \in [Ants -> Nat]
           /\ halted' = halted \ Free
           /\ \A a \in Ants : tokens'[a] <= Capacity[a] /\ age'[a] <= FullAge(a)
           /\ \A a \in Ants \ Free : tokens'[a] = tokens[a] /\ age'[a] = age[a]
           /\ \A a \in Free : EarnedExactly(a, age'[a]) = 0
           /\ \A a \in Free \ Reborn : tokens'[a] = Refilled(a) /\ age'[a] = Restarted(a)
    <1>1. ASSUME NEW a \in Ants
          PROVE  /\ tokens[a] \in Nat /\ tokens[a] <= Capacity[a]
                 /\ age[a] \in Nat /\ age[a] <= FullAge(a)
                 /\ Capacity[a] \in Nat /\ FullAge(a) \in Nat
        BY Parameters, FullAgeIs DEF Inv, DispatchTypeOK, Bounded, Positive
    <1>2. ASSUME NEW a \in Ants
          PROVE  /\ Refilled(a) \in Nat /\ Refilled(a) <= Capacity[a]
                 /\ Restarted(a) \in Nat /\ Restarted(a) <= FullAge(a)
                 /\ EarnedExactly(a, Restarted(a)) = 0
        BY <1>1, RefillIs
    <1>3. Reborn \subseteq Free /\ Free \subseteq Ants
        BY DEF Reborn, Free
    <1>4. \A a \in Ants : /\ tokens'[a] = IF a \in Reborn THEN Capacity[a]
                                         ELSE IF a \in Free THEN Refilled(a) ELSE tokens[a]
                          /\ age'[a] = IF a \in Reborn THEN 0
                                      ELSE IF a \in Free THEN Restarted(a) ELSE age[a]
        BY DEF Scan
    <1>5. tokens' \in [Ants -> Nat] /\ age' \in [Ants -> Nat]
        BY <1>1, <1>2 DEF Scan
    <1>6. \A a \in Ants : tokens'[a] <= Capacity[a] /\ age'[a] <= FullAge(a)
        BY <1>1, <1>2, <1>4
    <1>7. \A a \in Free : EarnedExactly(a, age'[a]) = 0
        BY <1>2, <1>3, <1>4, NoTime
    <1>8. QED
        BY <1>3, <1>4, <1>5, <1>6, <1>7 DEF Scan

(* A scan brings no batch forward for the workers that sleep through it.   *)
LEMMA ScanKeepsNaps ==
    ASSUME Inv, NEW w \in Workers, Scan(w), quantum' = quantum, Free' \subseteq Free,
           NEW v \in Workers, at[v] = "asleep", nap'[v] = nap[v]
    PROVE  /\ nap'[v] = Never => Free' = {}
           /\ nap'[v] >= MinNap => \A a \in Free' : ~ Ripe(a, nap[v] - MinNap)'
    <1>1. nap[v] = Never => Free' = {}
        BY DEF Inv, NeverOversleeps
    <1>2. ASSUME nap[v] >= MinNap, NEW a \in Free' PROVE ~ Ripe(a, nap[v] - MinNap)'
        <2> DEFINE n == nap[v] - MinNap
                   before == tokens[a] + EarnedExactly(a, age[a] + n)
                   after == tokens'[a] + EarnedExactly(a, age'[a] + n)
        <2>1. n \in Nat
            BY <1>2, Parameters DEF Inv, DispatchTypeOK, Never, Positive
        <2>2. a \in Free /\ a \in Ants /\ a \notin Reborn
            BY <1>2 DEF Inv, Attended, Free
        <2>3. ~ (before \div One >= Required(a))
            BY <1>2, <2>2 DEF Inv, NeverOversleeps, Ripe
        <2>4. tokens[a] \in Nat /\ tokens[a] <= Capacity[a] /\ age[a] \in Nat
            BY <2>2 DEF Inv, DispatchTypeOK, Bounded
        <2>5. tokens'[a] = Refilled(a) /\ age'[a] = Restarted(a)
            BY <2>2, ScanIs
        <2>6. after <= before
            BY <2>1, <2>2, <2>4, <2>5, RefillIs
        <2>7. before \in Int /\ after \in Int
            BY <2>1, <2>2, <2>4, <2>5, RefillIs, EarnedIs
        <2> HIDE DEF before, after
        <2>8. after \div One <= before \div One /\ after \div One \in Int /\ before \div One \in Int
            BY <2>6, <2>7, Parameters, DivGrows, DivInt
        <2>9. Required(a) \in Int /\ Required(a)' = Required(a)
            BY <2>2, RequiredIs DEF Inv, DispatchTypeOK, Required
        <2>10. ~ (after \div One >= Required(a)')
            BY <2>3, <2>8, <2>9
        <2>11. Ripe(a, nap[v] - MinNap)' <=> after \div One >= Required(a)'
            BY DEF Ripe, after
        <2>12. QED
            BY <2>10, <2>11
    <1>3. QED
        BY <1>1, <1>2

-----------------------------------------------------------------------------
(* Every step keeps the invariant                                          *)

(* An ant in a worker's hands is on its lease and not free. *)
LEMMA HeldIs ==
    ASSUME Inv, NEW w \in Workers, at[w] \in {"run", "return"}
    PROVE  job[w] \in Ants /\ job[w] # Idle /\ job[w] \in Leased /\ job[w] \notin Free
    <1>1. job[w] \in Ants
        BY DEF Inv, Busy
    <1>2. job[w] # Idle
        BY <1>1, Parameters DEF Idle, Positive
    <1>3. QED
        BY <1>1, <1>2 DEF Free, Leased

(* A bucket holds as many instructions as its tokens pay for. *)
LEMMA TokensReach ==
    ASSUME NEW r \in Int, NEW t \in Int
    PROVE  t \div One \in Int /\ (r <= t \div One <=> r * One <= t)
    BY Parameters, DivReaches, DivInt

(* A lease grants what the bucket holds and moves the baseline to its ant. *)
LEMMA LeaseKeeps ==
    ASSUME Inv, NEW w \in Workers, Lease(w) PROVE Inv'
    <1>1. Scan(w) /\ at[w] = "scan"
        BY DEF Lease, Scan
    <1>2. PICK best \in Ants :
            /\ Wins(best)
            /\ credit' = [a \in Ants |-> Clipped(Recentred(a, best))]
            /\ job' = [job EXCEPT ![w] = best]
            /\ grant' = [grant EXCEPT ![w] = Lower(quantum, tokens'[best] \div One)]
        BY DEF Lease
    <1>3. /\ at' = [at EXCEPT ![w] = "run"]
          /\ UNCHANGED <<quantum, executed, nap, halts>>
        BY DEF Lease
    <1>4. DispatchTypeOK /\ quantum \in Nat /\ quantum <= Batch
        BY BatchIs DEF Inv, DispatchTypeOK
    <1>5. best \in Free /\ best # Idle /\ job[w] \notin Ants
        BY <1>1, <1>2, Parameters DEF Wins, Eligible, Inv, Busy, Positive, Idle
    <1>6. \A v \in Workers : job'[v] = IF v = w THEN best ELSE job[v]
        BY <1>2, <1>4 DEF DispatchTypeOK
    <1>7. \A v \in Workers : at'[v] = IF v = w THEN "run" ELSE at[v]
        BY <1>3, <1>4 DEF DispatchTypeOK
    <1>8. \A v \in Workers : job[v] # best
        BY <1>5 DEF Free, Leased
    <1>9. Free' \subseteq Free
        <2>1. Leased \subseteq Leased'
            <3> SUFFICES ASSUME NEW v \in Workers, job[v] # Idle PROVE job[v] \in Leased'
                BY DEF Leased
            <3>1. v # w
                BY <1>4, <1>5 DEF DispatchTypeOK
            <3>2. QED
                BY <3>1, <1>6 DEF Leased
        <2>2. QED
            BY <2>1 DEF Free
    <1>10. LET g == Lower(quantum, tokens'[best] \div One) IN
           g \in Nat /\ g <= Batch /\ g * One <= tokens'[best]
        <2> DEFINE d == tokens'[best] \div One
                   g == Lower(quantum, d)
        <2>1. tokens'[best] \in Nat
            BY <1>1, ScanIs
        <2>2. d \in Int /\ d * One <= tokens'[best] /\ 0 <= d
            <3>1. 0 <= d <=> 0 * One <= tokens'[best]
                BY <2>1, Parameters, DivReaches
            <3>2. 0 * One = 0
                BY Parameters DEF Positive
            <3>3. QED
                BY <2>1, <3>1, <3>2, Parameters, DivInt
        <2> HIDE DEF d
        <2>3. g \in Nat /\ g <= Batch /\ g <= d
            BY <1>4, <2>2, BatchIs DEF Lower
        <2>4. g * One <= d * One
            BY <2>2, <2>3, Parameters, Scales
        <2>5. g * One \in Int /\ d * One \in Int
            BY <2>2, <2>3, Parameters DEF Positive
        <2>6. g * One <= tokens'[best]
            BY <2>1, <2>2, <2>3, <2>4, <2>5
        <2>7. QED
            BY <2>3, <2>6 DEF d
    <1>11. \A v \in Workers : grant'[v] = IF v = w THEN Lower(quantum, tokens'[best] \div One) ELSE grant[v]
        BY <1>2, <1>4 DEF DispatchTypeOK
    <1>12. ASSUME NEW a \in Ants PROVE Gained(a) \in Int
        BY <1>4, Parameters DEF Gained, Revived, DispatchTypeOK, Positive
    <1>13. DispatchTypeOK'
        <2>1. credit' \in [Ants -> -MaxLead .. MaxLead]
            BY <1>2, <1>12, ClippedIs DEF Recentred
        <2>2. job' \in [Workers -> Ants \cup {Idle}] /\ at' \in [Workers -> {"scan", "run", "return", "asleep"}]
            BY <1>2, <1>3, <1>4 DEF DispatchTypeOK
        <2>3. grant' \in [Workers -> Nat]
            BY <1>2, <1>4, <1>10 DEF DispatchTypeOK
        <2>4. QED
            BY <1>1, <1>3, <1>4, <2>1, <2>2, <2>3, ScanIs DEF DispatchTypeOK
    <1>14. Bounded'
        BY <1>1, ScanIs DEF Bounded
    <1>15. Busy'
        BY <1>6, <1>7 DEF Inv, Busy
    <1>16. Alone'
        BY <1>6, <1>8 DEF Inv, Alone
    <1>17. Funded'
        <2> SUFFICES ASSUME NEW v \in Workers, at'[v] = "run" PROVE grant'[v] * One <= tokens'[job'[v]]
            BY DEF Funded
        <2>1. CASE v = w
            BY <2>1, <1>6, <1>10, <1>11
        <2>2. CASE v # w
            <3>1. at[v] = "run" /\ job[v] \in Ants /\ job[v] \notin Free
                BY <2>2, <1>7, HeldIs
            <3>2. tokens'[job[v]] = tokens[job[v]]
                BY <3>1, <1>1, ScanIs
            <3>3. QED
                BY <2>2, <3>1, <3>2, <1>6, <1>11 DEF Inv, Funded
        <2>3. QED
            BY <2>1, <2>2
    <1>18. Modest'
        BY <1>3, <1>10, <1>11 DEF Inv, Modest
    <1>19. Attended'
        BY <1>1, <1>9, ScanIs DEF Attended, Reborn
    <1>20. Baseline'
        <2>1. Recentred(best, best) = 0
            BY <1>12 DEF Recentred
        <2>2. credit'[best] = 0
            BY <1>2, <2>1, ClippedIs
        <2>3. QED
            BY <2>2 DEF Baseline
    <1>21. NeverOversleeps'
        <2> SUFFICES ASSUME NEW v \in Workers, at'[v] = "asleep"
                     PROVE  /\ nap'[v] = Never => Free' = {}
                            /\ nap'[v] >= MinNap => \A a \in Free' : ~ Ripe(a, nap[v] - MinNap)'
            BY DEF NeverOversleeps
        <2>1. at[v] = "asleep" /\ nap'[v] = nap[v] /\ quantum' = quantum
            BY <1>3, <1>7
        <2>2. QED
            BY <1>1, <1>9, <2>1, ScanKeepsNaps
    <1>22. QED
        BY <1>13, <1>14, <1>15, <1>16, <1>17, <1>18, <1>19, <1>20, <1>21 DEF Inv

(* The larger of two numbers. *)
LEMMA GreatestOfTwo ==
    ASSUME NEW x \in Int, NEW y \in Int
    PROVE  LET g == Greatest({x, y}) IN g \in {x, y} /\ g >= x /\ g >= y
    <1>1. \E n \in {x, y} : \A m \in {x, y} : n >= m
        BY x <= y \/ y <= x
    <1>2. QED
        BY <1>1 DEF Greatest

(* The deadline is no later than any free ant's first batch, or the        *)
(* shortest nap, and no ant has a batch now.                               *)
LEMMA DeadlineIs ==
    ASSUME Inv, NEW w \in Workers, Scan(w), \A a \in Ants : ~ Eligible(a),
           quantum' = quantum
    PROVE  /\ Deadline \in Nat \cup {Never}
           /\ Deadline = Never => Free = {}
           /\ Deadline >= MinNap => \A a \in Free :
                ~ ((tokens'[a] + EarnedExactly(a, age'[a] + (Deadline - MinNap))) \div One >= Required(a))
    <1>1. MinNap \in Nat /\ MinNap > 0
        BY Parameters DEF Positive
    <1>2. CASE Free = {}
        BY <1>1, <1>2 DEF Deadline, Never
    <1>3. CASE Free # {}
        <2>1. ASSUME NEW a \in Free, NEW n \in Nat
              PROVE  /\ Delay(a) \in Nat /\ Delay(a) > 0
                     /\ n < Delay(a) =>
                          ~ ((tokens'[a] + EarnedExactly(a, age'[a] + n)) \div One >= Required(a))
            <3> DEFINE c == CeilDiv(Shortfall(a) * Second * Divisor, Rate[a] * One)
                       e == EarnedExactly(a, age'[a] + n)
            <3>1. a \in Ants
                BY DEF Free
            <3>2. tokens'[a] \in Nat /\ age'[a] \in Nat /\ EarnedExactly(a, age'[a]) = 0 /\ age'[a] + n \in Nat
                BY <3>1, ScanIs
            <3>3. Required(a) \in Int /\ One \in Int /\ Required(a) * One \in Int
                BY <3>1, RequiredIs, Parameters DEF Inv, DispatchTypeOK, Positive
            <3>4. Shortfall(a) \in Int /\ Shortfall(a) > 0
                <4>1. ~ (Required(a) <= tokens'[a] \div One)
                    <5>1. tokens'[a] \div One \in Int
                        BY <3>2, Parameters, DivInt
                    <5>2. QED
                        BY <3>1, <3>3, <5>1 DEF Eligible
                <4>2. ~ (Required(a) * One <= tokens'[a])
                    BY <3>2, <3>3, <4>1, TokensReach
                <4>3. QED
                    BY <3>2, <3>3, <4>2 DEF Shortfall
            <3>5. c \in Int /\ age'[a] < c
                BY <3>1, <3>2, <3>4, TimeToEarn
            <3>6. Delay(a) = c - age'[a]
                BY DEF Delay
            <3>7. age'[a] + n < c <=> e < Shortfall(a)
                BY <3>1, <3>2, <3>4, TimeToEarn
            <3>8. e \in Nat
                BY <3>1, <3>2, EarnedIs
            <3> HIDE DEF c, e
            <3>9. e < Shortfall(a) => ~ (Required(a) * One <= tokens'[a] + e)
                BY <3>2, <3>3, <3>8 DEF Shortfall
            <3>10. Required(a) <= (tokens'[a] + e) \div One <=> Required(a) * One <= tokens'[a] + e
                <4>1. tokens'[a] + e \in Int
                    BY <3>2, <3>8
                <4>2. QED
                    BY <3>3, <4>1, TokensReach
            <3>11. (tokens'[a] + e) \div One \in Int
                BY <3>2, <3>8, Parameters, DivInt
            <3>12. Delay(a) \in Nat /\ Delay(a) > 0 /\ (n < Delay(a) => age'[a] + n < c)
                BY <3>2, <3>5, <3>6
            <3>13. n < Delay(a) => ~ ((tokens'[a] + e) \div One >= Required(a))
                BY <3>3, <3>7, <3>9, <3>10, <3>11, <3>12
            <3>14. QED
                BY <3>12, <3>13 DEF e
        <2> DEFINE D == {Delay(a) : a \in Free}
                   first == Least(D)
        <2>2. 0 \in Nat
            OBVIOUS
        <2>3. D \subseteq Nat /\ D # {}
            BY <1>3, <2>1, <2>2
        <2>4. first \in D /\ first \in Nat /\ \A a \in Free : first <= Delay(a)
            BY <2>3, LeastExists
        <2>5. Deadline = Greatest({MinNap, first})
            BY <1>3 DEF Deadline
        <2> HIDE DEF first, D
        <2>6. Deadline \in {MinNap, first} /\ Deadline >= MinNap
            BY <1>1, <2>4, <2>5, GreatestOfTwo
        <2>7. Deadline \in Nat /\ Deadline - MinNap \in Nat /\ Deadline # Never
            BY <1>1, <2>4, <2>6 DEF Never
        <2>8. ASSUME NEW a \in Free PROVE Deadline - MinNap < Delay(a)
            BY <1>1, <2>1, <2>2, <2>4, <2>6
        <2>9. QED
            BY <2>1, <2>7, <2>8
    <1>4. QED
        BY <1>2, <1>3

(* Who goes to sleep takes a deadline no batch precedes. *)
LEMMA SleepKeeps ==
    ASSUME Inv, NEW w \in Workers, Sleep(w) PROVE Inv'
    <1>1. Scan(w) /\ at[w] = "scan"
        BY DEF Sleep, Scan
    <1>2. /\ \A a \in Ants : ~ Eligible(a)
          /\ credit' = [a \in Ants |-> Revived(a)]
          /\ nap' = [nap EXCEPT ![w] = Deadline]
          /\ at' = [at EXCEPT ![w] = "asleep"]
          /\ UNCHANGED <<quantum, job, grant, executed, halts>>
        BY DEF Sleep
    <1>3. DispatchTypeOK
        BY DEF Inv
    <1>4. Free' = Free /\ Leased' = Leased
        BY <1>2 DEF Free, Leased
    <1>5. \A v \in Workers : at'[v] = IF v = w THEN "asleep" ELSE at[v]
        BY <1>2, <1>3 DEF DispatchTypeOK
    <1>6. \A v \in Workers : nap'[v] = IF v = w THEN Deadline ELSE nap[v]
        BY <1>2, <1>3 DEF DispatchTypeOK
    <1>7. DispatchTypeOK'
        <2>1. credit' \in [Ants -> -MaxLead .. MaxLead]
            <3>1. 0 \in -MaxLead .. MaxLead
                BY Parameters DEF Positive
            <3>2. QED
                BY <1>2, <1>3, <3>1 DEF Revived, DispatchTypeOK
        <2>2. at' \in [Workers -> {"scan", "run", "return", "asleep"}]
            BY <1>2, <1>3 DEF DispatchTypeOK
        <2>3. nap' \in [Workers -> Nat \cup {Never}]
            BY <1>1, <1>2, <1>3, DeadlineIs DEF DispatchTypeOK
        <2>4. QED
            BY <1>1, <1>2, <1>3, <2>1, <2>2, <2>3, ScanIs DEF DispatchTypeOK
    <1>8. Bounded'
        BY <1>1, ScanIs DEF Bounded
    <1>9. Busy' /\ Alone' /\ Modest'
        BY <1>1, <1>2, <1>5 DEF Inv, Busy, Alone, Modest
    <1>10. Funded'
        <2> SUFFICES ASSUME NEW v \in Workers, at'[v] = "run" PROVE grant[v] * One <= tokens'[job[v]]
            BY <1>2 DEF Funded
        <2>1. at[v] = "run" /\ job[v] \in Ants /\ job[v] \notin Free
            BY <1>5, HeldIs
        <2>2. QED
            BY <2>1, <1>1, ScanIs DEF Inv, Funded
    <1>11. Attended'
        BY <1>1, <1>4, ScanIs DEF Attended, Reborn
    <1>12. Baseline'
        <2>1. PICK b \in Ants : credit[b] = 0 \/ (b \in Free /\ credit[b] \in -Batch .. 0)
            BY DEF Inv, Baseline
        <2>2. credit'[b] = 0 \/ credit'[b] = credit[b]
            BY <1>2 DEF Revived
        <2>3. QED
            BY <1>4, <2>1, <2>2 DEF Baseline, Batch
    <1>13. NeverOversleeps'
        <2> SUFFICES ASSUME NEW v \in Workers, at'[v] = "asleep"
                     PROVE  /\ nap'[v] = Never => Free' = {}
                            /\ nap'[v] >= MinNap => \A a \in Free' : ~ Ripe(a, nap[v] - MinNap)'
            BY DEF NeverOversleeps
        <2>1. CASE v = w
            <3>1. nap'[v] = Deadline
                BY <1>6, <2>1
            <3>2. \A a \in Free : Required(a)' = Required(a)
                BY <1>2 DEF Required
            <3>3. QED
                BY <1>1, <1>2, <1>4, <3>1, <3>2, DeadlineIs DEF Ripe
        <2>2. CASE v # w
            BY <1>1, <1>2, <1>4, <1>5, <1>6, <2>2, ScanKeepsNaps
        <2>3. QED
            BY <2>1, <2>2
    <1>14. QED
        BY <1>7, <1>8, <1>9, <1>10, <1>11, <1>12, <1>13 DEF Inv


(* Waking changes nothing but the worker. *)
LEMMA AwakeKeeps ==
    ASSUME Inv, NEW w \in Workers, Awake(w) PROVE Inv'
    <1>1. /\ at[w] = "asleep"
          /\ at' = [at EXCEPT ![w] = "scan"] /\ nap' = [nap EXCEPT ![w] = Never]
          /\ UNCHANGED <<tokens, age, credit, halted, quantum, job, grant, executed, halts>>
        BY DEF Awake, ants
    <1>2. DispatchTypeOK
        BY DEF Inv
    <1>3. Free' = Free /\ Reborn' = Reborn
        BY <1>1 DEF Free, Leased, Reborn
    <1>4. \A v \in Workers : /\ at'[v] = IF v = w THEN "scan" ELSE at[v]
                             /\ nap'[v] = IF v = w THEN Never ELSE nap[v]
        BY <1>1, <1>2 DEF DispatchTypeOK
    <1>5. DispatchTypeOK'
        BY <1>1, <1>2 DEF DispatchTypeOK
    <1>6. Bounded' /\ Alone' /\ Modest'
        BY <1>1 DEF Inv, Bounded, Alone, Modest
    <1>7. Busy' /\ Funded'
        BY <1>1, <1>4 DEF Inv, Busy, Funded
    <1>8. Attended' /\ Baseline'
        BY <1>1, <1>3, <1>4 DEF Inv, Attended, Baseline
    <1>9. NeverOversleeps'
        <2> SUFFICES ASSUME NEW v \in Workers, at'[v] = "asleep"
                     PROVE  /\ nap'[v] = Never => Free' = {}
                            /\ nap'[v] >= MinNap => \A a \in Free' : ~ Ripe(a, nap[v] - MinNap)'
            BY DEF NeverOversleeps
        <2>1. at[v] = "asleep" /\ nap'[v] = nap[v]
            BY <1>4
        <2>2. \A a \in Free : Ripe(a, nap[v] - MinNap)' <=> Ripe(a, nap[v] - MinNap)
            BY <1>1, <2>1 DEF Ripe, Required
        <2>3. QED
            BY <1>3, <2>1, <2>2 DEF Inv, NeverOversleeps
    <1>10. QED
        BY <1>5, <1>6, <1>7, <1>8, <1>9 DEF Inv

(* Spending what was granted. *)
LEMMA SpendIs ==
    ASSUME NEW t \in Nat, NEW g \in Nat, g * One <= t, NEW n \in 1 .. g
    PROVE  t - n * One \in Nat /\ t - n * One <= t
    <1>1. n * One <= g * One
        BY Parameters, Scales
    <1>2. n * One \in Nat /\ g * One \in Nat
        BY Parameters DEF Positive
    <1>3. QED
        BY <1>1, <1>2

(* An execution spends no more than its grant. *)
LEMMA ExecuteKeeps ==
    ASSUME Inv, NEW w \in Workers, Execute(w) PROVE Inv'
    <1>1. PICK n \in 1 .. grant[w] :
            /\ executed' = [executed EXCEPT ![w] = n]
            /\ tokens' = [tokens EXCEPT ![job[w]] = @ - n * One]
            /\ \/ halts < MaxHalts /\ halts' = halts + 1 /\ halted' = halted \cup {job[w]}
               \/ n = grant[w] /\ UNCHANGED <<halts, halted>>
        BY DEF Execute
    <1>2. /\ at[w] = "run" /\ at' = [at EXCEPT ![w] = "return"]
          /\ UNCHANGED <<age, credit, quantum, job, grant, nap>>
        BY DEF Execute
    <1>3. DispatchTypeOK
        BY DEF Inv
    <1>4. job[w] \in Ants /\ job[w] \notin Free
        BY <1>2, HeldIs
    <1>5. tokens[job[w]] - n * One \in Nat /\ tokens[job[w]] - n * One <= tokens[job[w]]
        BY <1>2, <1>3, <1>4, SpendIs DEF Inv, Funded, DispatchTypeOK
    <1>6. Free' = Free
        BY <1>2 DEF Free, Leased
    <1>7. \A v \in Workers : at'[v] = IF v = w THEN "return" ELSE at[v]
        BY <1>2, <1>3 DEF DispatchTypeOK
    <1>8. \A a \in Ants : tokens'[a] = IF a = job[w] THEN tokens[a] - n * One ELSE tokens[a]
        BY <1>1, <1>3 DEF DispatchTypeOK
    <1>9. DispatchTypeOK'
        <2>1. tokens' \in [Ants -> Nat] /\ executed' \in [Workers -> Nat]
            <3>1. n \in Nat
                BY <1>3 DEF DispatchTypeOK
            <3>2. tokens' \in [Ants -> Nat]
                BY <1>1, <1>3, <1>5 DEF DispatchTypeOK
            <3>3. executed' \in [Workers -> Nat]
                BY <1>1, <1>3, <3>1 DEF DispatchTypeOK
            <3>4. QED
                BY <3>2, <3>3
        <2>2. halted' \subseteq Ants /\ halts' \in 0 .. MaxHalts
            <3>1. MaxHalts \in Nat /\ halts \in 0 .. MaxHalts /\ halted \subseteq Ants
                BY <1>3, DispatchAssumption DEF DispatchTypeOK
            <3>2. halts' = halts \/ (halts < MaxHalts /\ halts' = halts + 1)
                BY <1>1
            <3>3. halted' = halted \/ halted' = halted \cup {job[w]}
                BY <1>1
            <3>4. QED
                BY <1>4, <3>1, <3>2, <3>3
        <2>3. QED
            BY <1>2, <1>3, <2>1, <2>2 DEF DispatchTypeOK
    <1>10. Bounded'
        <2>1. \A a \in Ants : tokens'[a] <= tokens[a] /\ tokens'[a] \in Nat /\ tokens[a] \in Nat /\ Capacity[a] \in Nat
            BY <1>3, <1>5, <1>8, Parameters DEF DispatchTypeOK, Positive
        <2>2. QED
            BY <1>2, <2>1 DEF Inv, Bounded
    <1>11. Busy' /\ Alone'
        BY <1>2, <1>7 DEF Inv, Busy, Alone
    <1>12. Funded'
        <2> SUFFICES ASSUME NEW v \in Workers, at'[v] = "run" PROVE grant[v] * One <= tokens'[job[v]]
            BY <1>2 DEF Funded
        <2>1. at[v] = "run" /\ v # w
            BY <1>7
        <2>2. job[v] \in Ants /\ job[v] # job[w]
            BY <1>4, <2>1, HeldIs DEF Inv, Alone
        <2>3. QED
            BY <1>8, <2>1, <2>2 DEF Inv, Funded
    <1>13. Modest'
        <2>1. n <= Batch
            BY <1>3, BatchIs DEF Inv, Modest, DispatchTypeOK
        <2>2. QED
            BY <1>1, <1>2, <1>3, <2>1 DEF Inv, Modest, DispatchTypeOK
    <1>14. Attended'
        <2>1. Reborn' = Reborn
            BY <1>1, <1>4, <1>6 DEF Reborn
        <2>2. QED
            BY <1>7, <2>1 DEF Inv, Attended
    <1>15. Baseline'
        BY <1>2, <1>6 DEF Inv, Baseline
    <1>16. NeverOversleeps'
        <2> SUFFICES ASSUME NEW v \in Workers, at'[v] = "asleep"
                     PROVE  /\ nap'[v] = Never => Free' = {}
                            /\ nap'[v] >= MinNap => \A a \in Free' : ~ Ripe(a, nap[v] - MinNap)'
            BY DEF NeverOversleeps
        <2>1. at[v] = "asleep" /\ nap'[v] = nap[v]
            BY <1>2, <1>7
        <2>2. \A a \in Free : tokens'[a] = tokens[a]
            BY <1>4, <1>8 DEF Free
        <2>3. \A a \in Free : Ripe(a, nap[v] - MinNap)' <=> Ripe(a, nap[v] - MinNap)
            BY <1>2, <2>1, <2>2 DEF Ripe, Required
        <2>4. QED
            BY <1>6, <2>1, <2>3 DEF Inv, NeverOversleeps
    <1>17. QED
        BY <1>9, <1>10, <1>11, <1>12, <1>13, <1>14, <1>15, <1>16 DEF Inv

(* After a notification nobody sleeps, and nobody else is disturbed.       *)
LEMMA StirredIs ==
    ASSUME DispatchTypeOK
    PROVE  /\ Stirred \in [Workers -> {"scan", "run", "return"}]
           /\ Unset \in [Workers -> Nat \cup {Never}]
           /\ \A v \in Workers : /\ Stirred[v] = "run" <=> at[v] = "run"
                                 /\ Stirred[v] = "return" <=> at[v] = "return"
    BY DEF DispatchTypeOK, Stirred, Unset

(* A release refills, charges, frees the ant and stirs every sleeper. *)
LEMMA ReleaseKeeps ==
    ASSUME Inv, NEW w \in Workers, Release(w) PROVE Inv'
    <1> DEFINE a == job[w]
    <1>1. /\ at[w] = "return"
          /\ credit' = [credit EXCEPT ![a] = Clipped(Charged(w))]
          /\ tokens' = [tokens EXCEPT ![a] = Refilled(a)]
          /\ age' = [age EXCEPT ![a] = Restarted(a)]
          /\ job' = [job EXCEPT ![w] = Idle]
          /\ grant' = [grant EXCEPT ![w] = 0] /\ executed' = [executed EXCEPT ![w] = 0]
          /\ at' = [Stirred EXCEPT ![w] = "scan"] /\ nap' = Unset
          /\ UNCHANGED <<halted, quantum, halts>>
        BY DEF Release
    <1>2. DispatchTypeOK
        BY DEF Inv
    <1>3. a \in Ants /\ a \notin Free /\ Idle \notin Ants
        BY <1>1, HeldIs, Parameters DEF Idle, Positive
    <1>4. /\ tokens[a] \in Nat /\ tokens[a] <= Capacity[a] /\ age[a] \in Nat /\ age[a] <= FullAge(a)
          /\ FullAge(a) \in Nat
        BY <1>3, FullAgeIs DEF Inv, DispatchTypeOK, Bounded
    <1>5. /\ Refilled(a) \in Nat /\ Refilled(a) <= Capacity[a]
          /\ Restarted(a) \in Nat /\ Restarted(a) <= FullAge(a)
        BY <1>3, <1>4, RefillIs
    <1>6. Charged(w) \in Int /\ executed[w] \in Nat /\ executed[w] <= Batch /\ Batch \in Nat
        BY <1>2, <1>3, BatchIs DEF Charged, Inv, Modest, DispatchTypeOK
    <1>7. \A v \in Workers : job'[v] = IF v = w THEN Idle ELSE job[v]
        BY <1>1, <1>2 DEF DispatchTypeOK
    <1>8. \A v \in Workers : at'[v] = IF v = w THEN "scan" ELSE Stirred[v]
        BY <1>1, <1>2, StirredIs
    <1>9. \A v \in Workers : at'[v] # "asleep"
        BY <1>2, <1>8, StirredIs
    <1>10. \A v \in Workers : v # w => job[v] # a
        BY <1>3 DEF Inv, Alone
    <1> HIDE DEF a
    <1>11. DispatchTypeOK'
        <2>1. credit' \in [Ants -> -MaxLead .. MaxLead]
            BY <1>1, <1>2, <1>6, ClippedIs DEF DispatchTypeOK
        <2>2. tokens' \in [Ants -> Nat] /\ age' \in [Ants -> Nat]
            BY <1>1, <1>2, <1>5 DEF DispatchTypeOK
        <2>3. at' \in [Workers -> {"scan", "run", "return", "asleep"}] /\ nap' \in [Workers -> Nat \cup {Never}]
            BY <1>1, <1>2, StirredIs
        <2>4. job' \in [Workers -> Ants \cup {Idle}] /\ grant' \in [Workers -> Nat] /\ executed' \in [Workers -> Nat]
            BY <1>1, <1>2 DEF DispatchTypeOK
        <2>5. QED
            BY <1>1, <1>2, <2>1, <2>2, <2>3, <2>4 DEF DispatchTypeOK
    <1>12. Bounded'
        BY <1>1, <1>2, <1>5 DEF Inv, Bounded, DispatchTypeOK
    <1>13. Busy'
        BY <1>2, <1>3, <1>7, <1>8, StirredIs DEF Inv, Busy
    <1>14. Alone'
        BY <1>3, <1>7 DEF Inv, Alone
    <1>15. Funded'
        <2> SUFFICES ASSUME NEW v \in Workers, at'[v] = "run" PROVE grant'[v] * One <= tokens'[job'[v]]
            BY DEF Funded
        <2>1. v # w /\ at[v] = "run"
            BY <1>2, <1>8, StirredIs
        <2>2. job'[v] = job[v] /\ job[v] # a /\ job[v] \in Ants
            BY <1>7, <1>10, <2>1, HeldIs
        <2>3. tokens'[job[v]] = tokens[job[v]] /\ grant'[v] = grant[v]
            BY <1>1, <1>2, <2>1, <2>2 DEF DispatchTypeOK
        <2>4. QED
            BY <2>1, <2>2, <2>3 DEF Inv, Funded
    <1>16. Modest'
        BY <1>1, <1>2, <1>6 DEF Inv, Modest, DispatchTypeOK
    <1>17. Attended' /\ NeverOversleeps'
        BY <1>9 DEF Attended, NeverOversleeps
    <1>18. Baseline'
        <2>1. PICK b \in Ants : credit[b] = 0 \/ (b \in Free /\ credit[b] \in -Batch .. 0)
            BY DEF Inv, Baseline
        <2>2. CASE b = a
            <3>1. credit[a] = 0
                BY <1>3, <2>1, <2>2
            <3>2. Charged(w) \in -Batch .. 0
                BY <1>6, <3>1 DEF Charged, a
            <3>3. Clipped(Charged(w)) \in -Batch .. 0
                <4>1. Clipped(Charged(w)) \in Int /\ Charged(w) <= Clipped(Charged(w)) /\ Clipped(Charged(w)) <= 0
                    BY <1>6, <3>2, ClippedIs
                <4>2. QED
                    BY <1>6, <3>2, <4>1
            <3>4. credit'[a] = Clipped(Charged(w))
                BY <1>1, <1>2, <1>3 DEF DispatchTypeOK
            <3>5. \A v \in Workers : job'[v] # a
                BY <1>3, <1>7, <1>10
            <3>6. a \in Free'
                BY <1>3, <3>5 DEF Free, Leased
            <3>7. QED
                BY <1>3, <3>3, <3>4, <3>6 DEF Baseline, Batch
        <2>3. CASE b # a
            <3>1. credit'[b] = credit[b]
                BY <1>1, <1>2, <2>3 DEF DispatchTypeOK
            <3>2. b \in Free => b \in Free'
                BY <1>3, <1>7 DEF Free, Leased
            <3>3. QED
                BY <2>1, <3>1, <3>2 DEF Baseline, Batch
        <2>4. QED
            BY <2>2, <2>3
    <1>19. QED
        BY <1>11, <1>12, <1>13, <1>14, <1>15, <1>16, <1>17, <1>18 DEF Inv

(* A new quantum changes what is wanted, and nobody sleeps on. *)
LEMMA SetQuantumKeeps ==
    ASSUME Inv, NEW q \in Quanta, SetQuantum(q) PROVE Inv'
    <1>1. /\ quantum' = q /\ at' = Stirred /\ nap' = Unset
          /\ UNCHANGED <<tokens, age, credit, halted, job, grant, executed, halts>>
        BY DEF SetQuantum, ants
    <1>2. DispatchTypeOK
        BY DEF Inv
    <1>3. Free' = Free
        BY <1>1 DEF Free, Leased
    <1>4. DispatchTypeOK'
        BY <1>1, <1>2, StirredIs DEF DispatchTypeOK
    <1>5. Bounded' /\ Alone' /\ Modest'
        BY <1>1 DEF Inv, Bounded, Alone, Modest
    <1>6. Busy' /\ Funded'
        BY <1>1, <1>2, StirredIs DEF Inv, Busy, Funded
    <1>7. Baseline'
        BY <1>1, <1>3 DEF Inv, Baseline
    <1>8. Attended' /\ NeverOversleeps'
        BY <1>1, <1>2, StirredIs DEF Attended, NeverOversleeps
    <1>9. QED
        BY <1>4, <1>5, <1>6, <1>7, <1>8 DEF Inv

(* Time brings batches and deadlines nearer by the same step. *)
LEMMA TickKeeps ==
    ASSUME Inv, Tick PROVE Inv'
    <1>1. /\ age' = [a \in Ants |-> Lower(age[a] + 1, FullAge(a))]
          /\ nap' = [w \in Workers |-> IF nap[w] > 0 THEN nap[w] - 1 ELSE nap[w]]
          /\ UNCHANGED <<tokens, credit, halted, quantum, at, job, grant, executed, halts>>
        BY DEF Tick
    <1>2. DispatchTypeOK
        BY DEF Inv
    <1>3. Free' = Free /\ Reborn' = Reborn
        BY <1>1 DEF Free, Leased, Reborn
    <1>4. ASSUME NEW a \in Ants
          PROVE age'[a] \in Nat /\ age'[a] <= age[a] + 1 /\ age'[a] <= FullAge(a) /\ age[a] \in Nat
        BY <1>1, <1>2, FullAgeIs DEF Lower, DispatchTypeOK
    <1>5. \A w \in Workers : nap[w] \in Nat \cup {Never} /\ nap'[w] \in Nat \cup {Never}
                             /\ nap'[w] = IF nap[w] > 0 THEN nap[w] - 1 ELSE nap[w]
        BY <1>1, <1>2 DEF DispatchTypeOK, Never
    <1>6. DispatchTypeOK'
        <2>1. age' \in [Ants -> Nat]
            BY <1>1, <1>4
        <2>2. nap' \in [Workers -> Nat \cup {Never}]
            BY <1>1, <1>5
        <2>3. QED
            BY <1>1, <1>2, <2>1, <2>2 DEF DispatchTypeOK
    <1>7. Bounded'
        BY <1>1, <1>4 DEF Inv, Bounded
    <1>8. Busy' /\ Alone' /\ Funded' /\ Modest'
        BY <1>1 DEF Inv, Busy, Alone, Funded, Modest
    <1>9. Attended' /\ Baseline'
        BY <1>1, <1>3 DEF Inv, Attended, Baseline
    <1>10. NeverOversleeps'
        <2> SUFFICES ASSUME NEW v \in Workers, at'[v] = "asleep"
                     PROVE  /\ nap'[v] = Never => Free' = {}
                            /\ nap'[v] >= MinNap => \A a \in Free' : ~ Ripe(a, nap[v] - MinNap)'
            BY DEF NeverOversleeps
        <2>1. at[v] = "asleep"
            BY <1>1
        <2>2. nap'[v] = Never => nap[v] = Never
            BY <1>5 DEF Never
        <2>3. ASSUME nap'[v] >= MinNap, NEW a \in Free' PROVE ~ Ripe(a, nap[v] - MinNap)'
            <3> DEFINE m == nap[v] - MinNap
                       n == nap'[v] - MinNap
                       before == tokens[a] + EarnedExactly(a, age[a] + m)
                       after == tokens[a] + EarnedExactly(a, age'[a] + n)
            <3>1. m \in Nat /\ n \in Nat /\ m = n + 1 /\ nap[v] >= MinNap
                BY <1>5, <2>3, Parameters DEF Never, Positive
            <3>2. a \in Free /\ a \in Ants
                BY <1>3, <2>3 DEF Free
            <3>3. age'[a] + n \in Nat /\ age[a] + m \in Nat /\ age'[a] + n <= age[a] + m
                BY <1>4, <3>1, <3>2
            <3>4. EarnedExactly(a, age'[a] + n) <= EarnedExactly(a, age[a] + m)
                BY <3>2, <3>3, EarnedGrows
            <3>5. before \in Int /\ after \in Int /\ after <= before
                BY <1>2, <3>2, <3>3, <3>4, EarnedIs DEF DispatchTypeOK
            <3>6. ~ (before \div One >= Required(a))
                BY <2>1, <3>1, <3>2 DEF Inv, NeverOversleeps, Ripe
            <3> HIDE DEF before, after
            <3>7. after \div One <= before \div One /\ after \div One \in Int /\ before \div One \in Int
                BY <3>5, Parameters, DivGrows, DivInt
            <3>8. Required(a) \in Int /\ Required(a)' = Required(a)
                BY <1>1, <1>2, <3>2, RequiredIs DEF DispatchTypeOK, Required
            <3>9. ~ (after \div One >= Required(a))
                BY <3>6, <3>7, <3>8
            <3>10. QED
                BY <1>1, <3>8, <3>9 DEF Ripe, after
        <2>4. QED
            BY <1>3, <2>1, <2>2, <2>3 DEF Inv, NeverOversleeps
    <1>11. QED
        BY <1>6, <1>7, <1>8, <1>9, <1>10 DEF Inv

(* Every step keeps the invariant. *)
LEMMA InvStep == Inv /\ [Next]_vars => Inv'
    <1> SUFFICES ASSUME Inv, [Next]_vars PROVE Inv'
        OBVIOUS
    <1>1. ASSUME NEW w \in Workers, Step(w) PROVE Inv'
        BY <1>1, LeaseKeeps, SleepKeeps, AwakeKeeps, ExecuteKeeps, ReleaseKeeps DEF Step
    <1>2. ASSUME NEW q \in Quanta, SetQuantum(q) PROVE Inv'
        BY <1>2, SetQuantumKeeps
    <1>3. CASE Tick
        BY <1>3, TickKeeps
    <1>4. CASE UNCHANGED vars
        <2>1. UNCHANGED <<tokens, age, credit, halted, quantum, at, job, grant, executed, nap, halts>>
            BY <1>4 DEF vars, ants, workers
        <2>2. DispatchTypeOK' /\ Bounded' /\ Busy' /\ Alone' /\ Funded' /\ Modest'
            BY <2>1 DEF Inv, DispatchTypeOK, Bounded, Busy, Alone, Funded, Modest
        <2>3. Free' = Free /\ Reborn' = Reborn
            BY <2>1 DEF Free, Leased, Reborn
        <2>4. Attended' /\ Baseline'
            BY <2>1, <2>3 DEF Inv, Attended, Baseline
        <2>5. NeverOversleeps'
            BY <2>1, <2>3 DEF Inv, NeverOversleeps, Ripe, Required
        <2>6. QED
            BY <2>2, <2>4, <2>5 DEF Inv
    <1>5. QED
        BY <1>1, <1>2, <1>3, <1>4 DEF Next

(* The invariant holds in every behaviour. *)
LEMMA InvAlways == Spec => []Inv
    BY InvInit, InvStep, PTL DEF Spec

-----------------------------------------------------------------------------
(* Theorems                                                                *)

(* No bucket is ever overdrawn: the tokens of a leased ant pay for every   *)
(* instruction of its grant, whoever scans or changes the quantum meanwhile*)
(* (no underflow of tokens_fp), and all the state keeps its type.          *)
THEOREM NeverOverdrawn == Spec => [](DispatchTypeOK /\ Funded /\ Bounded)
    BY InvAlways, PTL DEF Inv

(* No worker oversleeps, whatever the rates, capacities, batches and the   *)
(* number of ants and workers: token_deadline inverts accrue_tokens, and   *)
(* the refills of other workers in between only lose by their rounding.    *)
THEOREM NobodyOversleeps == Spec => []NeverOversleeps
    BY InvAlways, PTL DEF Inv

(* The baseline of the credits stays at an ant of the colony. *)
THEOREM BaselineStays == Spec => []NewbornNearBaseline
    <1>1. Inv => NewbornNearBaseline
        <2> SUFFICES ASSUME Inv PROVE NewbornNearBaseline
            OBVIOUS
        <2>1. PICK b \in Ants : credit[b] = 0 \/ (b \in Free /\ credit[b] \in -Batch .. 0)
            BY DEF Inv, Baseline
        <2>2. credit[b] \in -Batch .. 0
            BY <2>1, BatchIs
        <2>3. QED
            BY <2>2 DEF NewbornNearBaseline, Batch
    <1>2. QED
        BY <1>1, InvAlways, PTL

(* Every refill that restarts a clock pays exactly for the time it forgets:*)
(* no product of the fast path overflows and no remainder is dropped while *)
(* nothing is earned.                                                      *)
THEOREM EveryTimeIsPaid == Spec => TimeIsPaid
    <1> DEFINE Pays == \A a \in Ants : age'[a] < age[a] /\ a \notin Reborn =>
                 \/ tokens[a] = Capacity[a]
                 \/ /\ tokens'[a] > tokens[a]
                    /\ tokens'[a] = Lower(Capacity[a], tokens[a] + EarnedExactly(a, age[a]))
    <1>1. Inv /\ [Next]_vars => [Pays]_vars
        <2> SUFFICES ASSUME Inv, Next, NEW a \in Ants, age'[a] < age[a], a \notin Reborn,
                            tokens[a] # Capacity[a]
                     PROVE  /\ tokens'[a] > tokens[a]
                            /\ tokens'[a] = Lower(Capacity[a], tokens[a] + EarnedExactly(a, age[a]))
            OBVIOUS
        <2>1. tokens[a] \in Nat /\ tokens[a] <= Capacity[a] /\ age[a] \in Nat /\ age[a] <= FullAge(a)
              /\ FullAge(a) \in Nat
            BY FullAgeIs DEF Inv, DispatchTypeOK, Bounded
        <2>2. SUFFICES tokens'[a] = Refilled(a) /\ age'[a] = Restarted(a)
            BY <2>1, RefillPays
        <2>3. ASSUME NEW w \in Workers, Scan(w)
              PROVE  tokens'[a] = Refilled(a) /\ age'[a] = Restarted(a)
            <3>1. a \in Free
                BY <2>1, <2>3, ScanIs
            <3>2. QED
                BY <2>3, <3>1, ScanIs
        <2>4. ASSUME NEW w \in Workers, Release(w)
              PROVE  tokens'[a] = Refilled(a) /\ age'[a] = Restarted(a)
            <3>1. /\ tokens' = [tokens EXCEPT ![job[w]] = Refilled(job[w])]
                  /\ age' = [age EXCEPT ![job[w]] = Restarted(job[w])]
                BY <2>4 DEF Release
            <3>2. tokens \in [Ants -> Nat] /\ age \in [Ants -> Nat]
                BY DEF Inv, DispatchTypeOK
            <3>3. job[w] = a
                BY <2>1, <3>1, <3>2
            <3>4. QED
                BY <3>1, <3>2, <3>3
        <2>5. ASSUME age' = age PROVE FALSE
            BY <2>1, <2>5
        <2>6. CASE Tick
            <3>1. age'[a] = Lower(age[a] + 1, FullAge(a))
                BY <2>6 DEF Tick
            <3>2. QED
                BY <2>1, <3>1 DEF Lower
        <2>7. ASSUME NEW w \in Workers, Step(w)
              PROVE  tokens'[a] = Refilled(a) /\ age'[a] = Restarted(a)
            BY <2>3, <2>4, <2>5, <2>7 DEF Step, Lease, Sleep, Awake, Execute, ants
        <2>8. ASSUME NEW q \in Quanta, SetQuantum(q) PROVE FALSE
            BY <2>5, <2>8 DEF SetQuantum, ants
        <2>9. QED
            BY <2>6, <2>7, <2>8 DEF Next
    <1>2. QED
        BY <1>1, InvAlways, PTL DEF Spec, TimeIsPaid

=============================================================================
