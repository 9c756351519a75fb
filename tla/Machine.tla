------------------------------ MODULE Machine -------------------------------
(***************************************************************************)
(* What ants compute (rules.c, ant.c): a table per rule, the tape in the   *)
(* colors of each ant, and the edits that collisions and HALT make.        *)
(*                                                                         *)
(* Rules are reached by pointer, to the library that all ants share or to  *)
(* the private table of a slot.  A worker runs an ant on copies of its     *)
(* rule pointer and state, and publishes the state at the end; workers     *)
(* read and write the tape in separate accesses.  Headings, positions and  *)
(* the flag protocol are in Colony, which also shows that a lease is       *)
(* exclusive: here an instruction finds the ant on any cell.               *)
(***************************************************************************)
EXTENDS Integers

CONSTANTS Ants, Cells,
          Library,              \* names of the built-in rules
          MaxStates, Colors,    \* TURMITE_MAX_STATES, TURMITE_COLORS
          CollisionMutation     \* -M

VARIABLES
    table,              \* the memory of rules
    rule, rule_index,   \* per ant, the pointer and what the debugger is told
    state, offset, halted, marked,
    at,                 \* absent, idle, or what its worker does with it
    local, got,         \* the worker's state, and the color it read where
    tape

shared == <<table, rule, rule_index, offset>>
vars   == <<shared, state, halted, marked, at, local, got, tape>>

Below(n) == 0..(n - 1)
Turns    == Below(9)    \* TURN_F .. TURN_W

Actions(s, c) == [write : Below(c), turn : Turns, next : Below(s), halt : BOOLEAN]
RulesOf(s, c) == [states : {s}, colors : {c}, table : [Below(s) \X Below(c) -> Actions(s, c)]]
Rules == UNION {RulesOf(s, c) : s \in 1..MaxStates, c \in 1..Colors}
WellFormed(r) == r.states \in 1..MaxStates /\ r.colors \in 1..Colors /\ r \in RulesOf(r.states, r.colors)

(* A private table before its first use is zero, and so is a pointer.      *)
Blank == [states |-> 0, colors |-> 0, table |-> <<>>]
Null  == <<"null">>
BuiltIn(l) == <<"library", l>>
Private(a) == <<"private", a>>
Tables == {BuiltIn(l) : l \in Library} \cup {Private(a) : a \in Ants}
Runtime == <<"RULE_INDEX_RUNTIME">>

Init ==
    /\ table \in {t \in [Tables -> Rules \cup {Blank}] :
                    /\ \A l \in Library : t[BuiltIn(l)] \in Rules
                    /\ \A a \in Ants : t[Private(a)] = Blank}
    /\ rule = [a \in Ants |-> Null] /\ rule_index = [a \in Ants |-> Null]
    /\ state = [a \in Ants |-> 0] /\ offset = [a \in Ants |-> 0]
    /\ halted = [a \in Ants |-> FALSE] /\ marked = [a \in Ants |-> FALSE]
    /\ at = [a \in Ants |-> "absent"]
    /\ local = [a \in Ants |-> 0] /\ got \in [Ants -> Cells \X {0}]
    /\ tape = [x \in Cells |-> 0]

Program(a) == table[rule[a]]
Goto(a, label) == at' = [at EXCEPT ![a] = label]

-----------------------------------------------------------------------------
(* rules_mutate: one field of one action gets another of its values.       *)

Another(v, n) == {(v + 1 + d) % n : d \in Below(n - 1)}

Edits(act, r) ==
    {[act EXCEPT !.halt = ~@]}
      \cup {[act EXCEPT !.turn = t] : t \in Another(act.turn, 9)}
      \cup {[act EXCEPT !.write = c] : c \in Another(act.write, r.colors)}
      \cup {[act EXCEPT !.next = s] : s \in Another(act.next, r.states)}

Mutants(r) ==
    UNION {{[r EXCEPT !.table = [@ EXCEPT ![p] = e]] : e \in Edits(r.table[p], r)} :
             p \in Below(r.states) \X Below(r.colors)}

(* rules_generate draws dimensions and actions.                            *)
Generated == Rules

-----------------------------------------------------------------------------
(* ant_randomize: the fields change also when no cell is free in the end.  *)

Spawn(a) ==
    /\ at[a] = "absent"
    /\ \E l \in Library, o \in Below(Colors) :
         /\ rule' = [rule EXCEPT ![a] = BuiltIn(l)]
         /\ rule_index' = [rule_index EXCEPT ![a] = l]
         /\ offset' = [offset EXCEPT ![a] = o]
         /\ \E s \in Below(table[BuiltIn(l)].states) : state' = [state EXCEPT ![a] = s]
    /\ \E placed \in BOOLEAN :
         IF placed THEN /\ Goto(a, "idle")
                        /\ halted' = [halted EXCEPT ![a] = FALSE] /\ marked' = [marked EXCEPT ![a] = FALSE]
         ELSE UNCHANGED <<at, halted, marked>>
    /\ UNCHANGED <<table, local, got, tape>>

Retire(a) == at[a] = "idle" /\ Goto(a, "absent") /\ UNCHANGED <<shared, state, halted, marked, local, got, tape>>

(* A rival wins its cell, at any time. *)
Mark(a) ==
    /\ at[a] # "absent" /\ marked' = [marked EXCEPT ![a] = TRUE]
    /\ UNCHANGED <<shared, state, halted, at, local, got, tape>>

-----------------------------------------------------------------------------
(* ant_execute_quantum                                                     *)

Start(a) ==
    /\ at[a] = "idle" /\ ~halted[a] /\ ~marked[a]
    /\ local' = [local EXCEPT ![a] = state[a]] /\ Goto(a, "fetch")
    /\ UNCHANGED <<shared, state, halted, marked, got, tape>>

Fetch(a) ==
    /\ at[a] = "fetch" /\ ~marked[a]
    /\ \E x \in Cells : got' = [got EXCEPT ![a] = <<x, tape[x]>>]
    /\ Goto(a, "store")
    /\ UNCHANGED <<shared, state, halted, marked, local, tape>>

(* Colors in the eyes of an ant and back; unknown ones count as the last.  *)
Localized(c, o) == (c + Colors - o) % Colors
Global(c, o) == (c + o) % Colors
Seen(c, o, n) == IF Localized(c, o) >= n THEN n - 1 ELSE Localized(c, o)

(* The action of the table, or outside of it a step straight ahead that    *)
(* changes nothing.                                                        *)
InTable(a) == local[a] < Program(a).states /\ Program(a).colors > 0
Entry(a) == Program(a).table[<<local[a], Seen(got[a][2], offset[a], Program(a).colors)>>]

Store(a) ==
    /\ at[a] = "store"
    /\ IF InTable(a)
       THEN /\ tape' = [tape EXCEPT ![got[a][1]] = Global(Entry(a).write, offset[a])]
            /\ local' = [local EXCEPT ![a] = Entry(a).next]
            /\ IF Entry(a).halt
               THEN /\ state' = [state EXCEPT ![a] = Entry(a).next]
                    /\ halted' = [halted EXCEPT ![a] = TRUE] /\ Goto(a, "publish")
               ELSE Goto(a, "fetch") /\ UNCHANGED <<state, halted>>
       ELSE /\ tape' = [tape EXCEPT ![got[a][1]] = got[a][2]]
            /\ Goto(a, "fetch") /\ UNCHANGED <<local, state, halted>>
    /\ UNCHANGED <<shared, marked, got>>

(* The grant is used up, the ant is marked, or it loses a collision.       *)
Break(a) ==
    /\ at[a] = "fetch" /\ Goto(a, "publish")
    /\ UNCHANGED <<shared, state, halted, marked, local, got, tape>>

(* The end of the burst, and scheduler_release.                            *)
Publish(a) ==
    /\ at[a] = "publish" /\ state' = [state EXCEPT ![a] = local[a]]
    /\ Goto(a, "idle")
    /\ UNCHANGED <<shared, halted, marked, local, got, tape>>

-----------------------------------------------------------------------------
(* recover_ant, between two leases                                         *)

(* ant_mutate_in_place                                                     *)
Mutate(a) ==
    /\ \E m \in Mutants(Program(a)) : table' = [table EXCEPT ![Private(a)] = m]
    /\ rule' = [rule EXCEPT ![a] = Private(a)] /\ rule_index' = [rule_index EXCEPT ![a] = Runtime]
    /\ UNCHANGED offset

Recover(a) ==
    /\ at[a] = "idle" /\ marked[a] /\ ~halted[a]
    /\ marked' = [marked EXCEPT ![a] = FALSE]
    /\ IF CollisionMutation THEN Mutate(a) ELSE UNCHANGED shared
    /\ UNCHANGED <<state, halted, at, local, got, tape>>

(* ant_rebirth_random                                                      *)
Rebirth(a) ==
    /\ at[a] = "idle" /\ halted[a]
    /\ halted' = [halted EXCEPT ![a] = FALSE] /\ marked' = [marked EXCEPT ![a] = FALSE]
    /\ \E r \in Generated, o \in Below(Colors) :
         /\ table' = [table EXCEPT ![Private(a)] = r]
         /\ offset' = [offset EXCEPT ![a] = o]
         /\ \E s \in Below(r.states) : state' = [state EXCEPT ![a] = s]
    /\ rule' = [rule EXCEPT ![a] = Private(a)] /\ rule_index' = [rule_index EXCEPT ![a] = Runtime]
    /\ UNCHANGED <<at, local, got, tape>>

(* A restart of the suspended universe: ant_colony_reset and world_clear.  *)
(* The private tables stay.                                                *)
Reset ==
    /\ \A a \in Ants : at[a] \in {"absent", "idle"}
    /\ rule' = [a \in Ants |-> Null] /\ rule_index' = [a \in Ants |-> Null]
    /\ state' = [a \in Ants |-> 0] /\ offset' = [a \in Ants |-> 0]
    /\ halted' = [a \in Ants |-> FALSE] /\ marked' = [a \in Ants |-> FALSE]
    /\ at' = [a \in Ants |-> "absent"] /\ tape' = [x \in Cells |-> 0]
    /\ UNCHANGED <<table, local, got>>

-----------------------------------------------------------------------------
Worker(a) == Start(a) \/ Fetch(a) \/ Store(a) \/ Break(a) \/ Publish(a)
Next == Reset \/ \E a \in Ants : \/ Spawn(a) \/ Retire(a) \/ Mark(a) \/ Worker(a)
                                 \/ Recover(a) \/ Rebirth(a)
Spec == Init /\ [][Next]_vars

-----------------------------------------------------------------------------
MachineTypeOK ==
    /\ table \in [Tables -> Rules \cup {Blank}]
    /\ rule \in [Ants -> Tables \cup {Null}]
    /\ rule_index \in [Ants -> Library \cup {Null, Runtime}]
    /\ state \in [Ants -> Nat] /\ local \in [Ants -> Nat] /\ offset \in [Ants -> Nat]
    /\ halted \in [Ants -> BOOLEAN] /\ marked \in [Ants -> BOOLEAN]
    /\ at \in [Ants -> {"absent", "idle", "fetch", "store", "publish"}]
    /\ got \in [Ants -> Cells \X Nat] /\ tape \in [Cells -> Nat]

Leased(a) == at[a] \in {"fetch", "store", "publish"}

(* An ant never leaves its table, although mutations and rebirths replace  *)
(* the rule under a state that workers publish late: the fallback of the   *)
(* interpreter is never used, whatever was edited in between.              *)
InsideTable == \A a \in Ants :
    /\ at[a] # "absent" => WellFormed(Program(a)) /\ state[a] < Program(a).states
    /\ Leased(a) => local[a] < Program(a).states

(* Every color on the tape, and every color on its way there, is one of    *)
(* the palette's.                                                          *)
ColorsInPalette ==
    /\ \A x \in Cells : tape[x] \in Below(Colors)
    /\ \A a \in Ants : got[a][2] \in Below(Colors) /\ offset[a] \in Below(Colors)

(* A private table belongs to one ant, and the debugger is told whether an *)
(* ant runs one.                                                           *)
OwnTable == \A a \in Ants : at[a] # "absent" =>
    \/ \E l \in Library : rule[a] = BuiltIn(l) /\ rule_index[a] = l
    \/ rule[a] = Private(a) /\ rule_index[a] = Runtime

(* Nothing that happens to others changes the program of an ant, nor does  *)
(* anything while it is leased: only the recovery of its own collision or  *)
(* HALT does, and the library never changes.                               *)
ProgramsKept == [][
    /\ \A l \in Library : table'[BuiltIn(l)] = table[BuiltIn(l)]
    /\ \A a \in Ants : at[a] # "absent" /\ at'[a] # "absent" /\ Program(a)' # Program(a) =>
         ~Leased(a) /\ (halted[a] \/ (marked[a] /\ CollisionMutation))]_vars

=============================================================================
