--------------------------- MODULE FrameRegister ---------------------------
(***************************************************************************)
(* What the frame hand-off of a universe promises the screen: a register   *)
(* that holds the newest unread frame.  A frame nobody has read may be     *)
(* overtaken; a frame that is read is newer than the one on the screen.    *)
(***************************************************************************)
EXTENDS Integers

VARIABLES newest, \* number of the last frame published
          unread, \* the register holds it, and it was not read
          screen  \* number of the frame main read last

vars == <<newest, unread, screen>>

Init == newest = 0 /\ unread = FALSE /\ screen = 0

Publish ==
    /\ newest' = newest + 1 /\ unread' = TRUE
    /\ UNCHANGED screen

Read ==
    /\ unread
    /\ screen' = newest /\ unread' = FALSE
    /\ UNCHANGED newest

Next == Publish \/ Read

Spec == Init /\ [][Next]_vars

=============================================================================
