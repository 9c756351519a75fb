--------------------------- MODULE MachineProofs ---------------------------
(***************************************************************************)
(* Proofs about Machine, for every number of ants, cells, states and       *)
(* colors and every library of well-formed rules.                          *)
(*                                                                         *)
(* The edits keep rules well formed and their dimensions as they are, and  *)
(* a private table is nobody else's (OwnTable): so a state that was inside *)
(* the table of its ant when it was read stays inside of it (InsideTable), *)
(* and the interpreter writes colors of the palette (ColorsInPalette).     *)
(***************************************************************************)
EXTENDS Machine, TLAPS

Bounds == MaxStates \in Nat \ {0} /\ Colors \in Nat \ {0}

IInv == MachineTypeOK /\ InsideTable /\ ColorsInPalette /\ OwnTable

-----------------------------------------------------------------------------
(* Remainders, also by a divisor that is not a number known beforehand.    *)
LEMMA ModBelow ==
    ASSUME NEW n \in Nat \ {0}, NEW x \in Int
    PROVE  x % n \in Below(n)
    BY DEF Below

LEMMA ModOnce ==
    ASSUME NEW n \in Nat \ {0}, NEW x \in 0..(n - 1)
    PROVE  x % n = x
    OBVIOUS

LEMMA ModTwice ==
    ASSUME NEW n \in Nat \ {0}, NEW x \in n..(2 * n - 1)
    PROVE  x % n = x - n
    OBVIOUS

(* What an ant writes in its own colors it reads back in its own colors,   *)
(* whatever the offset: rules do not see where their color zero lies.      *)
THEOREM WritesReadBack ==
    ASSUME Bounds, NEW c \in Below(Colors), NEW o \in Below(Colors)
    PROVE  Localized(Global(c, o), o) = c
    <1> USE DEF Bounds, Below, Localized, Global
    <1>1. CASE c + o < Colors
        <2>1. (c + o) % Colors = c + o
            BY <1>1, ModOnce
        <2>2. (c + Colors) % Colors = (c + Colors) - Colors
            BY ModTwice
        <2>3. c + o + Colors - o = c + Colors
            OBVIOUS
        <2>4. QED
            BY <2>1, <2>2, <2>3
    <1>2. CASE c + o >= Colors
        <2>1. (c + o) % Colors = c + o - Colors
            BY <1>2, ModTwice
        <2>2. (c + o - Colors) + Colors - o = c
            OBVIOUS
        <2>3. c % Colors = c
            BY ModOnce
        <2>4. QED
            BY <2>1, <2>2, <2>3
    <1>3. QED
        BY <1>1, <1>2

(* The random step of an edit never lands on the old value, and always on  *)
(* a valid one.                                                            *)
LEMMA AnotherIsAnother ==
    ASSUME NEW n \in Nat \ {0}, NEW v \in Below(n), NEW u \in Another(v, n)
    PROVE  u \in Below(n) /\ u # v
    <1>1. PICK d \in Below(n - 1) : u = (v + 1 + d) % n
        BY DEF Another
    <1>2. PICK x \in Int : x = v + 1 + d /\ v < x /\ x < v + n
        BY DEF Below
    <1>3. u = x % n
        BY <1>1, <1>2
    <1>4. CASE x < n
        <2>1. x % n = x
            BY <1>2, <1>4, ModOnce DEF Below
        <2>2. QED
            BY <1>2, <1>3, <1>4, <2>1 DEF Below
    <1>5. CASE x >= n
        <2>1. x \in n..(2 * n - 1)
            BY <1>2, <1>5 DEF Below
        <2>2. x % n = x - n
            BY <2>1, ModTwice
        <2>3. QED
            BY <1>2, <1>3, <1>5, <2>2 DEF Below
    <1>6. n \in Int
        OBVIOUS
    <1>7. QED
        BY <1>2, <1>4, <1>5, <1>6

-----------------------------------------------------------------------------
(* Rules: the two ways to say that one is well formed.                     *)
LEMMA RulesAreWellFormed ==
    ASSUME NEW r \in Rules
    PROVE  WellFormed(r)
    <1>1. PICK s \in 1..MaxStates, c \in 1..Colors : r \in RulesOf(s, c)
        BY DEF Rules
    <1>2. r.states = s /\ r.colors = c
        BY <1>1 DEF RulesOf
    <1>3. QED
        BY <1>1, <1>2 DEF WellFormed

LEMMA WellFormedAreRules ==
    ASSUME NEW r, WellFormed(r)
    PROVE  r \in Rules
    BY DEF Rules, WellFormed

(* What a lookup inside the active rectangle yields. *)
LEMMA LookUp ==
    ASSUME NEW r, WellFormed(r), NEW s \in Below(r.states), NEW c \in Below(r.colors)
    PROVE  /\ r.table[<<s, c>>] \in Actions(r.states, r.colors)
           /\ r.table[<<s, c>>].write \in Below(r.colors)
           /\ r.table[<<s, c>>].next \in Below(r.states)
    BY DEF WellFormed, RulesOf, Actions

(* An edit is another action of the same rectangle. *)
LEMMA EditsAreOthers ==
    ASSUME NEW r, r.states \in Nat \ {0}, r.colors \in Nat \ {0},
           NEW act \in Actions(r.states, r.colors), NEW e \in Edits(act, r)
    PROVE  e \in Actions(r.states, r.colors) /\ e # act
    <1> USE DEF Actions
    <1>1. CASE e = [act EXCEPT !.halt = ~@]
        <2>1. e.halt # act.halt
            BY <1>1
        <2>2. QED
            BY <1>1, <2>1
    <1>2. ASSUME NEW t \in Another(act.turn, 9), e = [act EXCEPT !.turn = t]
          PROVE e \in Actions(r.states, r.colors) /\ e # act
        <2>1. t \in Turns /\ t # act.turn
            BY AnotherIsAnother DEF Turns
        <2>2. QED
            BY <1>2, <2>1
    <1>3. ASSUME NEW c \in Another(act.write, r.colors), e = [act EXCEPT !.write = c]
          PROVE e \in Actions(r.states, r.colors) /\ e # act
        <2>1. c \in Below(r.colors) /\ c # act.write
            BY AnotherIsAnother
        <2>2. QED
            BY <1>3, <2>1
    <1>4. ASSUME NEW s \in Another(act.next, r.states), e = [act EXCEPT !.next = s]
          PROVE e \in Actions(r.states, r.colors) /\ e # act
        <2>1. s \in Below(r.states) /\ s # act.next
            BY AnotherIsAnother
        <2>2. QED
            BY <1>4, <2>1
    <1>5. QED
        BY <1>1, <1>2, <1>3, <1>4 DEF Edits

(* A collision leaves a well-formed rule of the same dimensions, never the *)
(* same rule: the state of the ant stays inside of it.                     *)
THEOREM MutantsAreOtherRules ==
    ASSUME NEW r, WellFormed(r), NEW m \in Mutants(r)
    PROVE  WellFormed(m) /\ m.states = r.states /\ m.colors = r.colors /\ m # r
    <1> DEFINE Places == Below(r.states) \X Below(r.colors)
    <1>0. PICK p \in Places : \E e \in Edits(r.table[p], r) : m = [r EXCEPT !.table = [@ EXCEPT ![p] = e]]
        BY DEF Mutants
    <1>1. PICK e \in Edits(r.table[p], r) : m = [r EXCEPT !.table = [@ EXCEPT ![p] = e]]
        BY <1>0
    <1>2. r.table \in [Places -> Actions(r.states, r.colors)]
        BY DEF WellFormed, RulesOf
    <1>3. r.states \in Nat \ {0} /\ r.colors \in Nat \ {0}
        BY DEF WellFormed
    <1>4. e \in Actions(r.states, r.colors) /\ e # r.table[p]
        BY <1>2, <1>3, EditsAreOthers
    <1>5. /\ m.states = r.states /\ m.colors = r.colors
          /\ m.table = [r.table EXCEPT ![p] = e]
        BY <1>1 DEF WellFormed, RulesOf
    <1>6. m \in RulesOf(r.states, r.colors)
        BY <1>1, <1>2, <1>4, <1>5 DEF WellFormed, RulesOf
    <1>7. m.table[p] # r.table[p]
        BY <1>2, <1>4, <1>5
    <1>8. QED
        BY <1>5, <1>6, <1>7 DEF WellFormed

-----------------------------------------------------------------------------
(* A private table is reached by its owner only. *)
LEMMA Elsewhere ==
    ASSUME OwnTable, NEW a \in Ants, NEW b \in Ants, at[b] # "absent", b # a
    PROVE  rule[b] \in Tables /\ rule[b] # Private(a)
    BY DEF OwnTable, Tables, BuiltIn, Private

(* Names of tables. *)
LEMMA TableNames ==
    /\ \A a \in Ants : Private(a) \in Tables
    /\ \A l \in Library : BuiltIn(l) \in Tables
    /\ \A a \in Ants, l \in Library : Private(a) # BuiltIn(l)
    BY DEF Tables, BuiltIn, Private

(* The initial state is typed, and no ant has a program. *)
LEMMA InitInv == Bounds /\ Init => IInv
    BY DEF Bounds, Init, IInv, MachineTypeOK, InsideTable, ColorsInPalette, OwnTable, Leased, Below

(* Actions on the flags and the places of ants only. *)
LEMMA FlagsInv ==
    ASSUME IInv, NEW a \in Ants, Retire(a) \/ Mark(a) \/ Start(a) \/ Break(a) \/ Publish(a)
    PROVE  IInv'
    <1> USE DEF IInv, MachineTypeOK, InsideTable, ColorsInPalette, OwnTable, Program, Leased, Goto, shared
    <1>1. CASE Retire(a)
        BY <1>1 DEF Retire
    <1>2. CASE Mark(a)
        BY <1>2 DEF Mark
    <1>3. CASE Start(a)
        BY <1>3 DEF Start
    <1>4. CASE Break(a)
        BY <1>4 DEF Break
    <1>5. CASE Publish(a)
        BY <1>5 DEF Publish
    <1>6. QED
        BY <1>1, <1>2, <1>3, <1>4, <1>5

(* The color that a worker reads is one of the palette. *)
LEMMA FetchInv ==
    ASSUME IInv, NEW a \in Ants, Fetch(a)
    PROVE  IInv'
    <1> USE DEF IInv, Goto, shared
    <1>1. PICK x \in Cells : got' = [got EXCEPT ![a] = <<x, tape[x]>>]
        BY DEF Fetch
    <1>2. MachineTypeOK'
        BY <1>1 DEF Fetch, MachineTypeOK
    <1>3. InsideTable' /\ OwnTable'
        BY DEF Fetch, InsideTable, OwnTable, MachineTypeOK, Program, Leased
    <1>4. ColorsInPalette'
        BY <1>1 DEF Fetch, ColorsInPalette, MachineTypeOK
    <1>5. QED
        BY <1>2, <1>3, <1>4

(* An instruction finds its entry, writes a color of the palette and goes  *)
(* on inside the table.                                                    *)
LEMMA StoreInv ==
    ASSUME Bounds, IInv, NEW a \in Ants, Store(a)
    PROVE  IInv'
    <1> DEFINE r == Program(a)
               e == Entry(a)
    <1> USE DEF Bounds, IInv
    <1>1. /\ at[a] = "store" /\ WellFormed(r) /\ local[a] \in Below(r.states)
          /\ got[a][1] \in Cells /\ got[a][2] \in Below(Colors) /\ offset[a] \in Below(Colors)
        <2>1. at[a] = "store" /\ WellFormed(r) /\ local[a] \in Nat /\ local[a] < r.states
            BY DEF Store, InsideTable, Leased, MachineTypeOK
        <2>2. r.states \in Nat
            BY <2>1 DEF WellFormed
        <2>3. local[a] \in Below(r.states)
            BY <2>1, <2>2 DEF Below
        <2>4. got[a][1] \in Cells
            BY DEF MachineTypeOK
        <2>5. QED
            BY <2>1, <2>3, <2>4 DEF ColorsInPalette
    <1>2. r.states \in 1..MaxStates /\ r.colors \in 1..Colors
        BY <1>1 DEF WellFormed
    <1>3. Localized(got[a][2], offset[a]) \in Below(Colors)
        <2>1. got[a][2] + Colors - offset[a] \in Int
            BY <1>1 DEF Below
        <2>2. QED
            BY <2>1, ModBelow DEF Localized
    <1>4. Seen(got[a][2], offset[a], r.colors) \in Below(r.colors)
        BY <1>2, <1>3 DEF Seen, Below
    <1>5. InTable(a)
        BY <1>1, <1>2 DEF InTable, Below
    <1>6. e.write \in Below(r.colors) /\ e.next \in Below(r.states)
        BY <1>1, <1>4, LookUp DEF Entry
    <1>7. Global(e.write, offset[a]) \in Below(Colors)
        <2>1. e.write + offset[a] \in Int
            BY <1>1, <1>2, <1>6 DEF Below
        <2>2. QED
            BY <2>1, ModBelow DEF Global
    <1>8. /\ tape' = [tape EXCEPT ![got[a][1]] = Global(e.write, offset[a])]
          /\ local' = [local EXCEPT ![a] = e.next]
          /\ \/ state' = [state EXCEPT ![a] = e.next] /\ halted' = [halted EXCEPT ![a] = TRUE]
                /\ at' = [at EXCEPT ![a] = "publish"]
             \/ at' = [at EXCEPT ![a] = "fetch"] /\ UNCHANGED <<state, halted>>
          /\ UNCHANGED <<table, rule, rule_index, offset, marked, got>>
        BY <1>5 DEF Store, Goto, shared
    <1>9. MachineTypeOK'
        <2>1. Global(e.write, offset[a]) \in Nat /\ e.next \in Nat
            BY <1>2, <1>6, <1>7 DEF Below
        <2>2. QED
            BY <1>8, <2>1 DEF MachineTypeOK
    <1>10. InsideTable'
        BY <1>1, <1>2, <1>6, <1>8 DEF InsideTable, Program, Leased, MachineTypeOK, Below
    <1>11. ColorsInPalette'
        BY <1>1, <1>7, <1>8 DEF ColorsInPalette, MachineTypeOK
    <1>12. OwnTable'
        BY <1>1, <1>8 DEF OwnTable, MachineTypeOK
    <1>13. QED
        BY <1>9, <1>10, <1>11, <1>12

(* A newborn gets a rule of the library and a state inside of it. *)
LEMMA SpawnInv ==
    ASSUME Bounds, IInv, \A l \in Library : WellFormed(table[BuiltIn(l)]), NEW a \in Ants, Spawn(a)
    PROVE  IInv'
    <1> USE DEF IInv, Goto
    <1>1. PICK l \in Library, o \in Below(Colors) :
            /\ rule' = [rule EXCEPT ![a] = BuiltIn(l)]
            /\ rule_index' = [rule_index EXCEPT ![a] = l]
            /\ offset' = [offset EXCEPT ![a] = o]
            /\ \E s \in Below(table[BuiltIn(l)].states) : state' = [state EXCEPT ![a] = s]
        BY DEF Spawn
    <1>2. PICK s \in Below(table[BuiltIn(l)].states) : state' = [state EXCEPT ![a] = s]
        BY <1>1
    <1>3. WellFormed(table[BuiltIn(l)]) /\ table[BuiltIn(l)].states \in Nat
        BY DEF WellFormed
    <1>4. s \in Nat /\ s < table[BuiltIn(l)].states /\ o \in Nat
        BY <1>3 DEF Below, Bounds
    <1>5. /\ at' = [at EXCEPT ![a] = "idle"] \/ UNCHANGED at
          /\ halted' \in [Ants -> BOOLEAN] /\ marked' \in [Ants -> BOOLEAN]
          /\ at[a] = "absent"
          /\ UNCHANGED <<table, local, got, tape>>
        BY DEF Spawn, MachineTypeOK
    <1>6. MachineTypeOK'
        BY <1>1, <1>2, <1>4, <1>5, TableNames DEF MachineTypeOK
    <1>7. InsideTable'
        BY <1>1, <1>2, <1>3, <1>4, <1>5 DEF InsideTable, MachineTypeOK, Program, Leased
    <1>8. ColorsInPalette'
        BY <1>1, <1>5 DEF ColorsInPalette, MachineTypeOK
    <1>9. OwnTable'
        BY <1>1, <1>5 DEF OwnTable, MachineTypeOK
    <1>10. QED
        BY <1>6, <1>7, <1>8, <1>9

(* A collision leaves the ant inside a table of the same dimensions, and   *)
(* the others theirs.                                                      *)
LEMMA RecoverInv ==
    ASSUME IInv, NEW a \in Ants, Recover(a)
    PROVE  IInv'
    <1> USE DEF IInv
    <1>1. CASE UNCHANGED shared
        BY <1>1 DEF Recover, shared, MachineTypeOK, InsideTable, ColorsInPalette, OwnTable, Program, Leased
    <1>2. CASE Mutate(a)
        <2>1. PICK m \in Mutants(Program(a)) : table' = [table EXCEPT ![Private(a)] = m]
            BY <1>2 DEF Mutate
        <2>2. at[a] = "idle" /\ WellFormed(Program(a)) /\ state[a] < Program(a).states
            BY DEF Recover, InsideTable
        <2>3. WellFormed(m) /\ m.states = Program(a).states /\ m \in Rules
            BY <2>2, MutantsAreOtherRules, WellFormedAreRules
        <2>4. /\ rule' = [rule EXCEPT ![a] = Private(a)] /\ rule_index' = [rule_index EXCEPT ![a] = Runtime]
              /\ marked' = [marked EXCEPT ![a] = FALSE]
              /\ UNCHANGED <<offset, state, halted, at, local, got, tape>>
            BY <1>2 DEF Mutate, Recover
        <2>5. MachineTypeOK'
            BY <2>1, <2>3, <2>4, TableNames DEF MachineTypeOK
        <2>6. ASSUME NEW b \in Ants, at[b] # "absent"
              PROVE WellFormed(Program(b)') /\ state[b] < Program(b)'.states
                    /\ (Leased(b) => local[b] < Program(b)'.states)
            <3>1. CASE b = a
                BY <2>1, <2>2, <2>3, <2>4, <3>1, TableNames DEF Program, Leased, MachineTypeOK
            <3>2. CASE b # a
                <4>1. Program(b)' = Program(b)
                    BY <2>1, <2>4, <2>6, <3>2, Elsewhere, TableNames DEF Program, MachineTypeOK
                <4>2. QED
                    BY <4>1, <2>6 DEF InsideTable
            <3>3. QED
                BY <3>1, <3>2
        <2>7. InsideTable'
            BY <2>4, <2>6 DEF InsideTable, Leased
        <2>8. ColorsInPalette' /\ OwnTable'
            BY <2>4 DEF ColorsInPalette, OwnTable, MachineTypeOK
        <2>9. QED
            BY <2>5, <2>7, <2>8
    <1>3. QED
        BY <1>1, <1>2 DEF Recover

(* A rebirth draws the state with the rule, and leaves the others theirs. *)
LEMMA RebirthInv ==
    ASSUME Bounds, IInv, NEW a \in Ants, Rebirth(a)
    PROVE  IInv'
    <1> USE DEF IInv
    <1>1. PICK r \in Generated, o \in Below(Colors) :
            /\ table' = [table EXCEPT ![Private(a)] = r]
            /\ offset' = [offset EXCEPT ![a] = o]
            /\ \E s \in Below(r.states) : state' = [state EXCEPT ![a] = s]
        BY DEF Rebirth
    <1>2. PICK s \in Below(r.states) : state' = [state EXCEPT ![a] = s]
        BY <1>1
    <1>3. WellFormed(r) /\ r \in Rules /\ r.states \in Nat
        BY RulesAreWellFormed DEF Generated, WellFormed
    <1>4. s \in Nat /\ s < r.states /\ o \in Nat
        BY <1>3 DEF Below, Bounds
    <1>5. /\ at[a] = "idle"
          /\ rule' = [rule EXCEPT ![a] = Private(a)] /\ rule_index' = [rule_index EXCEPT ![a] = Runtime]
          /\ halted' = [halted EXCEPT ![a] = FALSE] /\ marked' = [marked EXCEPT ![a] = FALSE]
          /\ UNCHANGED <<at, local, got, tape>>
        BY DEF Rebirth
    <1>6. MachineTypeOK'
        BY <1>1, <1>2, <1>3, <1>4, <1>5, TableNames DEF MachineTypeOK
    <1>7. ASSUME NEW b \in Ants, at[b] # "absent"
          PROVE WellFormed(Program(b)') /\ state'[b] < Program(b)'.states
                /\ (Leased(b) => local[b] < Program(b)'.states)
        <2>1. CASE b = a
            BY <1>1, <1>2, <1>3, <1>4, <1>5, <2>1, TableNames DEF Program, Leased, MachineTypeOK
        <2>2. CASE b # a
            <3>1. Program(b)' = Program(b) /\ state'[b] = state[b]
                BY <1>1, <1>2, <1>5, <1>7, <2>2, Elsewhere, TableNames DEF Program, MachineTypeOK
            <3>2. QED
                BY <3>1, <1>7 DEF InsideTable
        <2>3. QED
            BY <2>1, <2>2
    <1>8. InsideTable'
        BY <1>5, <1>7 DEF InsideTable, Leased
    <1>9. ColorsInPalette'
        BY <1>1, <1>5 DEF ColorsInPalette, MachineTypeOK
    <1>10. OwnTable'
        BY <1>5 DEF OwnTable, MachineTypeOK
    <1>11. QED
        BY <1>6, <1>8, <1>9, <1>10

(* A reset leaves no ant. *)
LEMMA ResetInv ==
    ASSUME Bounds, IInv, Reset
    PROVE  IInv'
    BY DEF Bounds, Reset, IInv, MachineTypeOK, InsideTable, ColorsInPalette, OwnTable, Leased, Below

-----------------------------------------------------------------------------
(* The library stays as it is and well formed. *)
LibraryOK == \A l \in Library : WellFormed(table[BuiltIn(l)])

LEMMA LibraryKept ==
    ASSUME MachineTypeOK, [Next]_vars
    PROVE  \A l \in Library : table'[BuiltIn(l)] = table[BuiltIn(l)]
    <1>1. UNCHANGED table \/ \E a \in Ants, r \in Rules \cup UNION {Mutants(Program(b)) : b \in Ants} :
                                 table' = [table EXCEPT ![Private(a)] = r]
        BY DEF Next, vars, shared, Spawn, Retire, Mark, Worker, Start, Fetch, Store, Break, Publish,
               Recover, Mutate, Rebirth, Generated, Reset
    <1>2. QED
        BY <1>1, TableNames DEF MachineTypeOK

LEMMA NextInv == Bounds /\ LibraryOK /\ IInv /\ [Next]_vars => IInv' /\ LibraryOK'
    <1> SUFFICES ASSUME Bounds, LibraryOK, IInv, [Next]_vars PROVE IInv' /\ LibraryOK'
        OBVIOUS
    <1>1. LibraryOK'
        BY LibraryKept DEF LibraryOK, IInv
    <1>2. CASE Reset
        BY <1>1, <1>2, ResetInv
    <1>3. ASSUME NEW a \in Ants, Spawn(a) PROVE IInv'
        BY <1>3, SpawnInv DEF LibraryOK
    <1>4. ASSUME NEW a \in Ants, Retire(a) \/ Mark(a) \/ Start(a) \/ Break(a) \/ Publish(a) PROVE IInv'
        BY <1>4, FlagsInv
    <1>5. ASSUME NEW a \in Ants, Fetch(a) PROVE IInv'
        BY <1>5, FetchInv
    <1>6. ASSUME NEW a \in Ants, Store(a) PROVE IInv'
        BY <1>6, StoreInv
    <1>7. ASSUME NEW a \in Ants, Recover(a) PROVE IInv'
        BY <1>7, RecoverInv
    <1>8. ASSUME NEW a \in Ants, Rebirth(a) PROVE IInv'
        BY <1>8, RebirthInv
    <1>9. CASE UNCHANGED vars
        BY <1>1, <1>9 DEF vars, shared, IInv, MachineTypeOK, InsideTable, ColorsInPalette, OwnTable, Program, Leased
    <1>10. QED
        BY <1>1, <1>2, <1>3, <1>4, <1>5, <1>6, <1>7, <1>8, <1>9 DEF Next, Worker

(* Whatever collisions, rebirths, spawns and resets come between and       *)
(* during the bursts of workers, no ant leaves its table (the fallback of  *)
(* the interpreter is dead code), every color on the tape is one of the    *)
(* palette, and every ant runs a rule of the library or of its own slot.   *)
THEOREM Inside ==
    ASSUME Bounds
    PROVE  Spec => [](InsideTable /\ ColorsInPalette /\ OwnTable)
    <1>1. Init => IInv /\ LibraryOK
        BY InitInv, RulesAreWellFormed DEF Init, LibraryOK
    <1>2. IInv /\ LibraryOK /\ [Next]_vars => (IInv /\ LibraryOK)'
        BY NextInv
    <1>3. IInv => InsideTable /\ ColorsInPalette /\ OwnTable
        BY DEF IInv
    <1>4. QED
        BY <1>1, <1>2, <1>3, PTL DEF Spec

(* The program of an ant changes only by its own recovery, between leases: *)
(* no mutation, rebirth, spawn or reset of others reaches it.              *)
LEMMA OthersKept ==
    ASSUME IInv, [Next]_vars, NEW a \in Ants, at[a] # "absent", at'[a] # "absent", Program(a)' # Program(a)
    PROVE  ~Leased(a) /\ (halted[a] \/ (marked[a] /\ CollisionMutation))
    <1> USE DEF IInv, Program
    <1>1. rule[a] \in Tables /\ \A b \in Ants : b # a => rule[a] # Private(b)
        BY TableNames, Elsewhere DEF OwnTable
    <1>2. ASSUME NEW b \in Ants, Spawn(b) PROVE FALSE
        BY <1>2 DEF Spawn, MachineTypeOK
    <1>3. ASSUME NEW b \in Ants, Retire(b) \/ Mark(b) \/ Worker(b) PROVE FALSE
        BY <1>3 DEF Retire, Mark, Worker, Start, Fetch, Store, Break, Publish, shared
    <1>4. ASSUME NEW b \in Ants, Recover(b)
          PROVE ~Leased(a) /\ (halted[a] \/ (marked[a] /\ CollisionMutation))
        <2>1. CASE UNCHANGED shared
            BY <2>1 DEF shared
        <2>2. CASE b # a /\ Mutate(b)
            BY <1>1, <2>2, TableNames DEF Mutate, MachineTypeOK
        <2>3. CASE b = a /\ CollisionMutation
            BY <1>4, <2>3 DEF Recover, Leased
        <2>4. QED
            BY <1>4, <2>1, <2>2, <2>3 DEF Recover
    <1>5. ASSUME NEW b \in Ants, Rebirth(b)
          PROVE ~Leased(a) /\ (halted[a] \/ (marked[a] /\ CollisionMutation))
        <2>1. CASE b = a
            BY <1>5, <2>1 DEF Rebirth, Leased
        <2>2. CASE b # a
            BY <1>1, <1>5, <2>2, TableNames DEF Rebirth, MachineTypeOK
        <2>3. QED
            BY <2>1, <2>2
    <1>6. ASSUME Reset PROVE FALSE
        BY <1>6 DEF Reset
    <1>7. ASSUME UNCHANGED vars PROVE FALSE
        BY <1>7 DEF vars, shared
    <1>8. QED
        BY <1>2, <1>3, <1>4, <1>5, <1>6, <1>7 DEF Next

(* In every behaviour, a burst runs on one program from end to end, and    *)
(* the library that all ants share is never edited.                        *)
THEOREM Kept ==
    ASSUME Bounds
    PROVE  Spec => ProgramsKept
    <1>1. Init => IInv /\ LibraryOK
        BY InitInv, RulesAreWellFormed DEF Init, LibraryOK
    <1>2. IInv /\ LibraryOK /\ [Next]_vars => (IInv /\ LibraryOK)'
        BY NextInv
    <1> DEFINE Step == /\ \A l \in Library : table'[BuiltIn(l)] = table[BuiltIn(l)]
                       /\ \A a \in Ants : at[a] # "absent" /\ at'[a] # "absent" /\ Program(a)' # Program(a) =>
                            ~Leased(a) /\ (halted[a] \/ (marked[a] /\ CollisionMutation))
    <1>3. IInv /\ [Next]_vars => [Step]_vars
        BY LibraryKept, OthersKept DEF IInv
    <1>4. QED
        BY <1>1, <1>2, <1>3, PTL DEF Spec, ProgramsKept

=============================================================================
