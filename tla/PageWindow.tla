----------------------------- MODULE PageWindow -----------------------------
(***************************************************************************)
(* What the debug capture promises: the last pages of the current life of  *)
(* a universe, oldest first, each with the number of cells by which it     *)
(* differs from the page captured immediately before it.                   *)
(***************************************************************************)
EXTENDS Integers, Sequences, FiniteSets

CONSTANTS Cells, Colors, PageCapacity

VARIABLES window, \* retained pages, oldest first
          latest  \* the last tape captured, if any

vars == <<window, latest>>

Tapes == [Cells -> Colors]
Difference(a, b) == Cardinality({c \in Cells : a[c] # b[c]})
Changed(t) == IF latest = <<>> THEN 0 ELSE Difference(latest[1], t)

Init == window = <<>> /\ latest = <<>>

Evict ==
    /\ Len(window) = PageCapacity
    /\ window' = Tail(window)
    /\ UNCHANGED latest

Capture ==
    /\ Len(window) < PageCapacity
    /\ \E t \in Tapes : /\ window' = Append(window, [tape |-> t, changed |-> Changed(t)])
                        /\ latest' = <<t>>

Forget == window' = <<>> /\ latest' = <<>>

Next == Evict \/ Capture \/ Forget

Spec == Init /\ [][Next]_vars

=============================================================================
