---------------------------- MODULE AndroidSaver ----------------------------
(***************************************************************************)
(* The Android screen saver: callbacks on the user-interface thread start  *)
(* and stop a frame thread (TurmiteView), which creates, draws and         *)
(* destroys native engines (engine.c), whose workers lease ants from a     *)
(* standalone scheduler (scheduler_acquire, scheduler_stop).               *)
(*                                                                         *)
(* A scan holds the scheduler's lock through three loops over the ants,    *)
(* and a worker that runs an ant may mark another one between them.  Ants  *)
(* that nobody runs are only counted.  Times (lifetime, frame, the refill  *)
(* of a bucket, a collision pause) are abstract.                           *)
(***************************************************************************)
EXTENDS Integers, FiniteSets

CONSTANTS Workers,  \* worker threads of an engine: WORKERS
          AntCount  \* ants of an engine: 2 .. 8

ASSUME SaverAssumption == IsFiniteSet(Workers) /\ Workers # {} /\ AntCount \in Nat \ {0}

VARIABLES
    active, surface,     \* the saver runs; its surface is large enough
    thread, stopFrames,  \* frameThread # null; the volatile stop flag
    interrupted,         \* interrupt status of the frame thread
    ui, task,            \* where the callback is, and which one it is
    loop, then,          \* where the frame thread is, and where destroying leads
    engine,              \* the handle is not 0
    started, stopping,   \* workers created; scheduler->stopping
    fit, away, marked,   \* idle ants: in their cells; pausing or waiting for a
                         \* cell; marked or halted since the last scan
    pc, timed            \* per worker: where it is, whether its scan has a deadline

view  == <<active, surface, thread, stopFrames, ui, task>>
frame == <<loop, then>>
ants  == <<fit, away, marked>>
pool  == <<pc, timed>>
vars  == <<view, interrupted, frame, engine, started, stopping, ants, pool>>

Init ==
    /\ active = FALSE /\ surface = FALSE /\ thread = FALSE /\ stopFrames = FALSE
    /\ interrupted = FALSE
    /\ ui = "idle" /\ task = "none"
    /\ loop = "none" /\ then = "exited"
    /\ engine = FALSE /\ started = {} /\ stopping = FALSE
    /\ fit = 0 /\ away = 0 /\ marked = 0
    /\ pc = [w \in Workers |-> "none"] /\ timed = [w \in Workers |-> FALSE]

-----------------------------------------------------------------------------
(* TurmiteView, user-interface thread.                                     *)

(* startFrames.  The faulty variant forgets to ask whether the saver runs. *)
StartsAlways(a, s) == s
Starts(a, s) == a /\ s

StartFrames(a, s, t) ==
    IF Starts(a, s) /\ ~t
    THEN thread' = TRUE /\ stopFrames' = FALSE /\ interrupted' = FALSE /\ loop' = "test"
    ELSE thread' = t /\ UNCHANGED <<stopFrames, interrupted, loop>>

SetRunning ==
    /\ ui = "idle" /\ active' = TRUE
    /\ StartFrames(TRUE, surface, thread)
    /\ UNCHANGED <<surface, ui, task, then, engine, started, stopping, ants, pool>>

(* The callbacks that begin with stopFrames.                               *)
Callback ==
    /\ ui = "idle" /\ ui' = "stop"
    /\ task' \in {"setRunning", "surfaceChanged", "surfaceDestroyed", "detached"}
    /\ active' = (active /\ task' # "setRunning")
    /\ UNCHANGED <<surface, thread, stopFrames, interrupted, frame, engine, started, stopping, ants, pool>>

StopFlag ==
    /\ ui = "stop" /\ stopFrames' = TRUE
    /\ ui' = IF thread THEN "interrupt" ELSE "after"
    /\ UNCHANGED <<active, surface, thread, task, interrupted, frame, engine, started, stopping, ants, pool>>

Interrupt ==
    /\ ui = "interrupt" /\ ui' = "join"
    /\ interrupted' = (loop # "exited")
    /\ UNCHANGED <<active, surface, thread, stopFrames, task, frame, engine, started, stopping, ants, pool>>

(* thread.join().  The faulty variant does not wait.                       *)
JoinsAtOnce == TRUE
Joined == loop = "exited"

JoinFrames ==
    /\ ui = "join" /\ Joined
    /\ ui' = "after" /\ thread' = FALSE /\ loop' = "none" /\ interrupted' = FALSE
    /\ UNCHANGED <<active, surface, stopFrames, task, then, engine, started, stopping, ants, pool>>

(* What the callback does after stopFrames.                                *)
After ==
    /\ ui = "after" /\ ui' = "idle" /\ task' = "none"
    /\ \/ /\ task = "surfaceChanged" /\ surface' \in BOOLEAN
          /\ StartFrames(active, surface', thread)
       \/ /\ task = "surfaceDestroyed" /\ surface' = FALSE
          /\ UNCHANGED <<thread, stopFrames, interrupted, loop>>
       \/ /\ task \in {"setRunning", "detached"}
          /\ UNCHANGED <<surface, thread, stopFrames, interrupted, loop>>
    /\ UNCHANGED <<active, then, engine, started, stopping, ants, pool>>

-----------------------------------------------------------------------------
(* TurmiteView.renderLoop, frame thread.                                   *)

Goto(label) == loop' = label

(* The loop's condition, and the lifetime of the engine.                   *)
Test ==
    /\ loop = "test"
    /\ \/ stopFrames /\ Goto("finally") /\ UNCHANGED then
       \/ ~stopFrames /\ engine /\ Goto("frame") /\ UNCHANGED then
       \/ ~stopFrames /\ engine /\ Goto("destroy") /\ then' = "create"
       \/ ~stopFrames /\ ~engine /\ Goto("create") /\ UNCHANGED then
    /\ UNCHANGED <<view, interrupted, engine, started, stopping, ants, pool>>

(* android_engine_create: all workers, or a failure after some of them,    *)
(* which destroys what there is and ends the loop.                         *)
Create ==
    /\ loop = "create"
    /\ \/ /\ stopFrames /\ Goto("finally")
          /\ UNCHANGED <<then, engine, started, stopping, ants, pool>>
       \/ /\ ~stopFrames /\ Goto("finally")
          /\ UNCHANGED <<then, engine, started, stopping, ants, pool>>
       \/ /\ ~stopFrames /\ \E created \in SUBSET Workers :
               /\ started' = created
               /\ pc' = [w \in Workers |-> IF w \in created THEN "top" ELSE "none"]
               /\ IF created = Workers THEN Goto("frame") /\ UNCHANGED then
                                       ELSE Goto("destroy") /\ then' = "finally"
          /\ engine' = TRUE /\ stopping' = FALSE
          /\ fit' = AntCount /\ away' = 0 /\ marked' = 0
          /\ timed' = [w \in Workers |-> FALSE]
    /\ UNCHANGED <<view, interrupted>>

(* A frame, with or without a canvas to draw it on; a failure ends the     *)
(* loop, here and while drawing.                                           *)
Frame ==
    /\ loop = "frame"
    /\ \/ surface /\ Goto("draw")
       \/ Goto("sleep") \/ Goto("finally")
    /\ UNCHANGED <<view, interrupted, then, engine, started, stopping, ants, pool>>

Draw ==
    /\ loop = "draw"
    /\ loop' \in {"sleep", "finally"}
    /\ UNCHANGED <<view, interrupted, then, engine, started, stopping, ants, pool>>

(* Thread.sleep until the next frame, if there is time left; an interrupt  *)
(* ends it and the loop.                                                   *)
Sleep ==
    /\ loop = "sleep"
    /\ \/ Goto("test")
       \/ interrupted /\ Goto("finally")
    /\ UNCHANGED <<view, interrupted, then, engine, started, stopping, ants, pool>>

Finally ==
    /\ loop = "finally"
    /\ IF engine THEN Goto("destroy") /\ then' = "exited" ELSE Goto("exited") /\ UNCHANGED then
    /\ UNCHANGED <<view, interrupted, engine, started, stopping, ants, pool>>

-----------------------------------------------------------------------------
(* android_engine_destroy: scheduler_stop, join the workers, free.         *)

Locked == \E w \in Workers : pc[w] \in {"select", "deadline"}

Awake == [w \in Workers |-> IF pc[w] = "asleep" THEN "top" ELSE pc[w]]
(* notify_locked.  The faulty variant stops without telling the sleepers.  *)
StopSilent == pc
StopNotifies == Awake
ReleaseNotifies(w) == [Awake EXCEPT ![w] = "top"]

DestroyStop ==
    /\ loop = "destroy" /\ ~Locked /\ Goto("joining")
    /\ stopping' = TRUE /\ pc' = StopNotifies
    /\ UNCHANGED <<view, interrupted, then, engine, started, ants, timed>>

(* Faulty variant: not everybody is joined.  *)
SomeJoined == \E w \in Workers : w \in started => pc[w] = "exited"
AllJoined == \A w \in started : pc[w] = "exited"

DestroyFree ==
    /\ loop = "joining" /\ AllJoined
    /\ Goto(then) /\ engine' = FALSE /\ started' = {}
    /\ UNCHANGED <<view, interrupted, then, stopping, ants, pool>>

-----------------------------------------------------------------------------
(* The workers: worker, scheduler_acquire and scheduler_release.           *)

(* Each of the n ants of a loop that cannot run yet has its deadline.      *)
(* Faulty variant: none has.                                               *)
DeadlineForgotten(n) == FALSE
Deadline(n) == n > 0

(* The first loop recovers whoever was marked (a pause begins or ends, a   *)
(* halted ant is reborn, a cell is or is not free again) and takes the     *)
(* deadline of those that stay away.                                       *)
Recover(w) ==
    /\ pc[w] = "top" /\ ~Locked
    /\ IF stopping THEN pc' = [pc EXCEPT ![w] = "exited"] /\ UNCHANGED <<ants, timed>>
       ELSE /\ pc' = [pc EXCEPT ![w] = "select"]
            /\ \E back \in 0 .. away + marked :
                 fit' = fit + back /\ away' = (away + marked) - back
            /\ marked' = 0
            /\ timed' = [timed EXCEPT ![w] = Deadline(away')]
    /\ UNCHANGED <<view, interrupted, frame, engine, started, stopping>>

(* The second loop leases an ant that is fit now and has the tokens.       *)
Select(w) ==
    /\ pc[w] = "select"
    /\ \/ fit > 0 /\ fit' = fit - 1 /\ pc' = [pc EXCEPT ![w] = "run"]
       \/ pc' = [pc EXCEPT ![w] = "deadline"] /\ UNCHANGED fit
    /\ UNCHANGED <<view, interrupted, frame, engine, started, stopping, away, marked, timed>>

(* With nothing to lease, the third loop takes the deadlines of the ants   *)
(* that are still fit and short of tokens, and the worker waits.           *)
Rest(w) ==
    /\ pc[w] = "deadline" /\ pc' = [pc EXCEPT ![w] = "asleep"]
    /\ timed' = [timed EXCEPT ![w] = @ \/ Deadline(fit)]
    /\ UNCHANGED <<view, interrupted, frame, engine, started, stopping, ants>>

(* A running worker takes the cell of an idle ant, at any time: the ant is *)
(* then passed over by the loops that are still to come.                   *)
Collide(w) ==
    /\ pc[w] = "run"
    /\ \/ fit > 0 /\ fit' = fit - 1 /\ UNCHANGED away
       \/ away > 0 /\ away' = away - 1 /\ UNCHANGED fit
    /\ marked' = marked + 1
    /\ UNCHANGED <<view, interrupted, frame, engine, started, stopping, pool>>

Release(w) ==
    /\ pc[w] = "run" /\ ~Locked
    /\ pc' = ReleaseNotifies(w)
    /\ \/ fit' = fit + 1 /\ UNCHANGED marked
       \/ marked' = marked + 1 /\ UNCHANGED fit
    /\ UNCHANGED <<view, interrupted, frame, engine, started, stopping, away, timed>>

TimeOut(w) ==
    /\ pc[w] = "asleep" /\ timed[w] /\ pc' = [pc EXCEPT ![w] = "top"]
    /\ UNCHANGED <<view, interrupted, frame, engine, started, stopping, ants, timed>>

Spurious(w) ==
    /\ pc[w] = "asleep" /\ pc' = [pc EXCEPT ![w] = "top"]
    /\ UNCHANGED <<view, interrupted, frame, engine, started, stopping, ants, timed>>

-----------------------------------------------------------------------------
View  == SetRunning \/ Callback \/ StopFlag \/ Interrupt \/ JoinFrames \/ After
Loop  == Test \/ Create \/ Frame \/ Draw \/ Sleep \/ Finally \/ DestroyStop \/ DestroyFree
Scan(w) == Recover(w) \/ Select(w) \/ Rest(w)
Run(w)  == Collide(w) \/ Release(w)

Next == View \/ Loop \/ \E w \in Workers : Scan(w) \/ Run(w) \/ TimeOut(w) \/ Spurious(w)

Spec == Init /\ [][Next]_vars

(* Threads run, quanta end, and who asks for the scheduler's lock again    *)
(* and again gets it.  No callback is obliged to come, but one that has    *)
(* begun goes on.                                                          *)
Fairness ==
    /\ WF_vars(StopFlag \/ Interrupt \/ JoinFrames \/ After) /\ WF_vars(Loop) /\ SF_vars(DestroyStop)
    /\ \A w \in Workers : SF_vars(Recover(w) \/ Release(w)) /\ WF_vars(Select(w) \/ Rest(w))
FairSpec == Spec /\ Fairness

-----------------------------------------------------------------------------
SaverTypeOK ==
    /\ active \in BOOLEAN /\ surface \in BOOLEAN /\ thread \in BOOLEAN /\ stopFrames \in BOOLEAN
    /\ interrupted \in BOOLEAN
    /\ ui \in {"idle", "stop", "interrupt", "join", "after"}
    /\ task \in {"none", "setRunning", "surfaceChanged", "surfaceDestroyed", "detached"}
    /\ loop \in {"none", "test", "create", "frame", "draw", "sleep", "finally", "destroy", "joining", "exited"}
    /\ then \in {"create", "finally", "exited"}
    /\ engine \in BOOLEAN /\ started \subseteq Workers /\ stopping \in BOOLEAN
    /\ fit \in 0..AntCount /\ away \in 0..AntCount /\ marked \in 0..AntCount
    /\ pc \in [Workers -> {"none", "top", "select", "deadline", "run", "asleep", "exited"}]
    /\ timed \in [Workers -> BOOLEAN]

(* Off means off: between callbacks, a saver that is not running or has no *)
(* surface has no frame thread, and no frame is drawn without a surface.   *)
OffMeansOff ==
    /\ loop = "draw" => surface
    /\ ui = "idle" /\ ~(active /\ surface) => ~thread /\ loop = "none"

(* An engine is freed when no worker is in it, and none outlives the frame *)
(* thread that made it.                                                    *)
EngineFreedUnused ==
    /\ ~engine => \A w \in Workers : pc[w] \in {"none", "exited"}
    /\ loop \in {"none", "exited"} => ~engine

(* No lost wake-up: nobody sleeps through a stop, and a worker sleeps      *)
(* without a deadline only if a lease is out whose return will wake it.    *)
(* An idle ant that was marked during the scan may then be pending.        *)
SleepersCovered ==
    \A w \in Workers : pc[w] = "asleep" =>
      ~stopping /\ (~timed[w] => \E v \in Workers : pc[v] = "run")

(* Every callback returns: the frame thread can be joined wherever it is,  *)
(* and so can the workers of its engine.                                   *)
CallbacksEnd == ui # "idle" ~> ui = "idle"

=============================================================================
