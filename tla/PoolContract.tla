---------------------------- MODULE PoolContract ----------------------------
(***************************************************************************)
(* What worker_pool.h promises the owner of a universe: workers use its    *)
(* scheduler, colony and world only while the slot is open, and suspension *)
(* returns only when the last of them has left.                            *)
(***************************************************************************)
EXTENDS FiniteSets

CONSTANTS Workers, Slots

VARIABLES phase,  \* of a slot: off, open or closing
          user    \* the workers that use a slot

vars == <<phase, user>>

Init == phase = [s \in Slots |-> "off"] /\ user = [s \in Slots |-> {}]

Open(s) ==
    /\ phase[s] = "off" /\ phase' = [phase EXCEPT ![s] = "open"]
    /\ UNCHANGED user

Use(w, s) ==
    /\ phase[s] = "open" /\ \A r \in Slots : w \notin user[r]
    /\ user' = [user EXCEPT ![s] = @ \cup {w}]
    /\ UNCHANGED phase

Leave(w, s) ==
    /\ w \in user[s]
    /\ user' = [user EXCEPT ![s] = @ \ {w}]
    /\ UNCHANGED phase

Close(s) ==
    /\ phase[s] = "open" /\ phase' = [phase EXCEPT ![s] = "closing"]
    /\ UNCHANGED user

Free(s) ==
    /\ phase[s] = "closing" /\ user[s] = {}
    /\ phase' = [phase EXCEPT ![s] = "off"]
    /\ UNCHANGED user

Next == \E s \in Slots : \/ Open(s) \/ Close(s) \/ Free(s)
                         \/ \E w \in Workers : Use(w, s) \/ Leave(w, s)

Spec == Init /\ [][Next]_vars

=============================================================================
