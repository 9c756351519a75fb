------------------------------- MODULE Frames -------------------------------
(***************************************************************************)
(* The frames of one universe on their way to its window: the controller   *)
(* renders into one of three slots (universe_render), main uploads the     *)
(* last complete one (universe_present) and sleeps on SDL's event queue.   *)
(*                                                                         *)
(* A frame is its number, written into two places of a slot (its pixels    *)
(* and its HUD) by the controller and read from both by main, outside the  *)
(* view lock.  Time is abstract: main's wait may end at any moment, and so *)
(* may the life of the universe: its controller sets done and exits, and   *)
(* main joins it and destroys the universe.                                *)
(***************************************************************************)
EXTENDS Integers

CONSTANTS MaxFrames,      \* bound on the frames rendered
          SlotCount,      \* DISPLAY_FRAME_SLOTS
          EventsRejected  \* SDL's event queue may be full

ASSUME FramesAssumption ==
    MaxFrames \in Nat \ {0} /\ SlotCount = 3 /\ EventsRejected \in BOOLEAN

Slots == 0 .. SlotCount - 1
None  == -1

VARIABLES
    ready, displayed, \* ready_frame, displayed_frame
    pixels, hud,      \* frame number in the two parts of a slot
    event,            \* a user event of this universe is queued
    dropped,          \* SDL rejected one since main last emptied the queue
    ctl, slot, last,  \* controller: where it is, its slot, its frame
    main, taken,      \* main: where it is, the slot it presents
    shown             \* frame whose HUD and pixels main used last

lockers == <<ready, displayed>>
queue   == <<event, dropped>>
control == <<ctl, slot, last>>
view    == <<main, taken, shown>>
vars    == <<lockers, pixels, hud, queue, control, view>>

Init ==
    /\ ready = None /\ displayed = None
    /\ pixels = [s \in Slots |-> 0] /\ hud = [s \in Slots |-> 0]
    /\ event = FALSE /\ dropped = FALSE
    /\ ctl = "choose" /\ slot = 0 /\ last = 0
    /\ main = "poll" /\ taken = None /\ shown = [pixels |-> 0, hud |-> 0]

-----------------------------------------------------------------------------
(* universe_render, by the controller.                                     *)

(* Faulty variant: only the unread slot is avoided.                        *)
SpareOfTwo == Slots \ {ready}
Spare == Slots \ {ready, displayed}

Choose ==
    /\ ctl = "choose" /\ last < MaxFrames
    /\ \E s \in Spare : (\A r \in Spare : s <= r) /\ slot' = s
    /\ ctl' = "pixels" /\ last' = last + 1
    /\ UNCHANGED <<lockers, pixels, hud, queue, view>>

FillPixels ==
    /\ ctl = "pixels" /\ ctl' = "hud"
    /\ pixels' = [pixels EXCEPT ![slot] = last]
    /\ UNCHANGED <<lockers, hud, queue, slot, last, view>>

FillHud ==
    /\ ctl = "hud" /\ ctl' = "publish"
    /\ hud' = [hud EXCEPT ![slot] = last]
    /\ UNCHANGED <<lockers, pixels, queue, slot, last, view>>

(* Main is told only of the first frame it has not seen yet.               *)
Notify == ready = None

Publish ==
    /\ ctl = "publish"
    /\ ready' = slot
    /\ ctl' = IF Notify THEN "push" ELSE "choose"
    /\ UNCHANGED <<displayed, pixels, hud, queue, slot, last, view>>

(* universe_control sets done after its last frame, tells main and exits.  *)
Done == ctl \in {"farewell", "exited"}

Finish ==
    /\ ctl = "choose" /\ ctl' = "farewell"
    /\ UNCHANGED <<lockers, pixels, hud, queue, slot, last, view>>

(* The event of a frame, or of done.                                       *)
Push ==
    /\ ctl \in {"push", "farewell"}
    /\ ctl' = IF Done THEN "exited" ELSE "choose"
    /\ \/ event' = TRUE /\ UNCHANGED dropped
       \/ EventsRejected /\ dropped' = TRUE /\ UNCHANGED event
    /\ UNCHANGED <<lockers, pixels, hud, slot, last, view>>

-----------------------------------------------------------------------------
(* The event loop and universe_present, by main.                           *)

Poll ==
    /\ main = "poll" /\ main' = "take"
    /\ event' = FALSE /\ dropped' = FALSE
    /\ UNCHANGED <<lockers, pixels, hud, control, taken, shown>>

Take ==
    /\ main = "take"
    /\ IF ready # None
       THEN main' = "hud" /\ taken' = ready /\ displayed' = ready /\ ready' = None
       ELSE main' = "test" /\ UNCHANGED <<taken, lockers>>
    /\ UNCHANGED <<pixels, hud, queue, control, shown>>

ShowHud ==
    /\ main = "hud" /\ main' = "pixels"
    /\ shown' = [shown EXCEPT !.hud = hud[taken]]
    /\ UNCHANGED <<lockers, pixels, hud, queue, control, taken>>

ShowPixels ==
    /\ main = "pixels" /\ main' = "test"
    /\ shown' = [shown EXCEPT !.pixels = pixels[taken]]
    /\ UNCHANGED <<lockers, pixels, hud, queue, control, taken>>

(* The look at done comes after the look at ready: a frame published in    *)
(* between is destroyed with the universe.                                 *)
Test ==
    /\ main = "test" /\ main' = IF Done THEN "join" ELSE "wait"
    /\ UNCHANGED <<lockers, pixels, hud, queue, control, taken, shown>>

JoinAndDestroy ==
    /\ main = "join" /\ ctl = "exited"
    /\ main' = "gone"
    /\ UNCHANGED <<lockers, pixels, hud, queue, control, taken, shown>>

(* SDL_WaitEventTimeout takes one event, or gives up after 100 ms.         *)
Woken ==
    /\ main = "wait" /\ event
    /\ main' = "poll" /\ event' = FALSE
    /\ UNCHANGED <<lockers, pixels, hud, dropped, control, taken, shown>>

(* Faulty variant: an untimed wait. *)
WaitsForever == FALSE
WaitEnds == TRUE

TimedOut ==
    /\ main = "wait" /\ WaitEnds
    /\ main' = "poll"
    /\ UNCHANGED <<lockers, pixels, hud, queue, control, taken, shown>>

-----------------------------------------------------------------------------
Render  == Choose \/ FillPixels \/ FillHud \/ Publish \/ Push
Present == Poll \/ Take \/ ShowHud \/ ShowPixels \/ Test \/ JoinAndDestroy \/ Woken
Over == main = "gone" /\ UNCHANGED vars
Next == Render \/ Finish \/ Present \/ TimedOut \/ Over

Spec == Init /\ [][Next]_vars

(* Both threads keep running and a timed wait ends; nothing makes the      *)
(* universe end.                                                           *)
FairSpec == Spec /\ WF_vars(Present) /\ WF_vars(TimedOut) /\ WF_vars(Render)

-----------------------------------------------------------------------------
FramesTypeOK ==
    /\ ready \in Slots \cup {None} /\ displayed \in Slots \cup {None}
    /\ pixels \in [Slots -> 0..MaxFrames] /\ hud \in [Slots -> 0..MaxFrames]
    /\ event \in BOOLEAN /\ dropped \in BOOLEAN
    /\ ctl \in {"choose", "pixels", "hud", "publish", "push", "farewell", "exited"}
    /\ slot \in Slots /\ last \in 0..MaxFrames
    /\ main \in {"poll", "take", "hud", "pixels", "test", "wait", "join", "gone"} /\ taken \in Slots \cup {None}
    /\ shown \in [pixels : 0..MaxFrames, hud : 0..MaxFrames]

(* No tearing: what main presents is one frame, HUD and pixels of the same *)
(* number, although it reads them outside the lock while the controller    *)
(* goes on rendering.                                                      *)
NoTearing == main # "pixels" => shown.hud = shown.pixels

(* Who may touch which slot: the controller's is neither the unread nor    *)
(* the presented one, and those two hold complete frames.                  *)
Filling == ctl \in {"pixels", "hud", "publish"}
SlotInv ==
    /\ Filling => slot \notin {ready, displayed}
    /\ ready # None => ready # displayed /\ pixels[ready] = hud[ready]
    /\ displayed # None => pixels[displayed] = hud[displayed]
    /\ ctl = "publish" => pixels[slot] = last /\ hud[slot] = last
    /\ ctl = "hud" => pixels[slot] = last
    /\ ready # None => pixels[ready] = (IF Filling THEN last - 1 ELSE last)
    /\ last = 0 => ctl \in {"choose", "farewell", "exited"} /\ displayed = None /\ ready = None
    /\ displayed # None => pixels[displayed] <= last
    /\ main = "pixels" => shown.hud = hud[taken]
    /\ main \in {"hud", "pixels"} => taken = displayed /\ taken # None
    /\ Filling /\ ready = None /\ displayed # None => pixels[displayed] = last - 1
    /\ ~Filling /\ ready = None /\ displayed # None => pixels[displayed] = last
    /\ ready = None /\ displayed = None => last = (IF Filling THEN 1 ELSE 0)

(* Main answers, also if SDL rejects the event: a published frame, or a    *)
(* newer one, gets to the screen unless the universe ends first, and the   *)
(* end of the controller is noticed.  The last frame of a universe has no  *)
(* such promise: see Test.                                                 *)
Unread(n) == ready # None /\ pixels[ready] = n
MainAnswers ==
    /\ \A n \in 1..MaxFrames : Unread(n) ~> (shown.pixels >= n \/ main = "gone")
    /\ Done ~> main = "gone"

(* The slots implement the register, Publish and Take are its operations:  *)
(* main never reads an older frame than before, nor one twice, and frames  *)
(* change neither under its eyes nor before they are read.                 *)
Register == INSTANCE FrameRegister WITH
    newest <- IF Filling THEN last - 1 ELSE last,
    unread <- ready # None,
    screen <- IF displayed = None THEN 0 ELSE pixels[displayed]
RegisterSpec == Register!Spec

=============================================================================
