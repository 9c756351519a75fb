------------------------------ MODULE Universe ------------------------------
(***************************************************************************)
(* The life of one universe (main.c): main routes keys and closes, the     *)
(* controller thread runs the control loop - commands, lifetime, drawing,  *)
(* debug drain, suspension, export, restart - and pool workers run ants.   *)
(*                                                                         *)
(* The pool is the one of PoolContract: workers use the universe while it  *)
(* is open.  The scheduler is its two modes and a number of live ants; the *)
(* tape is whether it changed since the last exported frame and page.      *)
(* Time is abstract: a lifetime ends at any turn of the loop.              *)
(***************************************************************************)
EXTENDS Integers, Sequences, FiniteSets

CONSTANTS Workers,
          QueueSize,    \* CONTROL_QUEUE_SIZE
          Keys,         \* keys of this instance: "q", "r", "space", "plus"
          MaxKeys,      \* bound on the keys pressed
          MaxTimeouts,  \* bound on the lifetimes that end by themselves
          MaxLive,      \* TURMITE_MAX_ANTS
          InitialAnts,
          Modes         \* which values headless may have

ASSUME UniverseAssumption ==
    /\ IsFiniteSet(Workers) /\ QueueSize \in Nat \ {0} /\ Keys \subseteq {"q", "r", "space", "plus"}
    /\ MaxKeys \in Nat /\ MaxTimeouts \in Nat /\ MaxLive \in Nat \ {0} /\ InitialAnts \in 1..MaxLive
    /\ Modes \subseteq BOOLEAN

VARIABLES
    headless,
    commands, read, pending,        \* the ring of keys: cells, command_read, command_count
    sent, applied,                  \* history: keys accepted, keys handled
    quit, done, failed, main,       \* main: running or freed
    restart, debug, paused, timeouts, lives,
    ctl,                            \* where the controller is
    draining, held, live,           \* scheduler: draining, paused, enabled ants
    open, users,                    \* member of the pool; workers with a lease
    frame, page, exports            \* tape is exactly the last exported frame / page; exports

queue   == <<commands, read, pending, sent, applied>>
life    == <<restart, debug, paused, timeouts, lives>>
sched   == <<draining, held, live>>
pool    == <<open, users>>
capture == <<frame, page, exports>>
vars    == <<headless, queue, quit, done, failed, main, life, ctl, sched, pool, capture>>

Init ==
    /\ headless \in Modes
    /\ commands = [i \in 0 .. QueueSize - 1 |-> ""] /\ read = 0 /\ pending = 0
    /\ sent = <<>> /\ applied = <<>>
    /\ quit = FALSE /\ done = FALSE /\ failed = FALSE /\ main = "running"
    /\ restart = FALSE /\ debug = FALSE /\ paused = FALSE /\ timeouts = 0 /\ lives = 1
    /\ ctl = "start"
    /\ draining = FALSE /\ held = FALSE /\ live = InitialAnts
    /\ open = FALSE /\ users = {}
    /\ frame = FALSE /\ page = FALSE /\ exports = 0

Goto(label) == ctl' = label

-----------------------------------------------------------------------------
(* Main: route_event and the event loop.                                   *)

Room == pending < QueueSize

(* Where a key goes.  The faulty variant forgets where reading has got to. *)
WriteFromStart == pending % QueueSize
WriteAt == (read + pending) % QueueSize

Press(k) ==
    /\ main = "running" /\ ~headless /\ Len(sent) < MaxKeys
    /\ Room
    /\ commands' = [commands EXCEPT ![WriteAt] = k]
    /\ pending' = pending + 1 /\ sent' = Append(sent, k)
    /\ UNCHANGED <<headless, read, applied, quit, done, failed, main, life, ctl, sched, pool, capture>>

(* Escape, window close or SDL_QUIT.                                       *)
Close ==
    /\ main = "running" /\ ~headless
    /\ quit' = TRUE
    /\ UNCHANGED <<headless, queue, done, failed, main, life, ctl, sched, pool, capture>>

(* Join and free, once the controller has said it is done; when the last   *)
(* universe is gone main closes all of them once more.                     *)
(* FreedOnQuit is a faulty variant that does not wait for that.            *)
FreedOnQuit == quit
Freeable == done

Free ==
    /\ main = "running" /\ Freeable /\ main' = "freed"
    /\ quit' = TRUE
    /\ UNCHANGED <<headless, queue, done, failed, life, ctl, sched, pool, capture>>

-----------------------------------------------------------------------------
(* The controller: run_universe.                                           *)

(* worker_pool_enable, then a fresh capture with its first page.           *)
Start ==
    /\ ctl = "start" /\ Goto("loop")
    /\ open' = TRUE /\ page' = TRUE
    /\ UNCHANGED <<headless, queue, quit, done, failed, main, life, sched, users, frame, exports>>

Leaving == quit \/ restart

Loop ==
    /\ ctl = "loop"
    /\ Goto(IF Leaving THEN "suspend" ELSE "apply")
    /\ UNCHANGED <<headless, queue, quit, done, failed, main, life, sched, pool, capture>>

(* universe_begin_debug_drain; opening the output may fail.                *)
(* RestartKept is a faulty variant that does not take back a restart.      *)
RestartKept == restart
RestartDropped == FALSE

BeginDebugDrain ==
    IF debug THEN UNCHANGED <<debug, paused, restart, draining, held, failed, quit>>
    ELSE /\ debug' = TRUE /\ paused' = FALSE /\ restart' = RestartDropped
         /\ draining' = TRUE /\ held' = FALSE
         /\ \/ UNCHANGED <<failed, quit>>
            \/ failed' = TRUE /\ quit' = TRUE

(* handle_key.  The faulty variant listens to all keys during a drain.     *)
ListensAlways == TRUE
Listens == ~debug

HandleKey(k) ==
    \/ k = "q" /\ BeginDebugDrain /\ UNCHANGED live
    \/ /\ k = "space" /\ Listens
       /\ paused' = ~paused /\ held' = (~paused /\ ~draining)
       /\ UNCHANGED <<restart, debug, draining, live, failed, quit>>
    \/ /\ k = "r" /\ Listens
       /\ restart' = TRUE
       /\ UNCHANGED <<debug, paused, draining, held, live, failed, quit>>
    \/ /\ k = "plus" /\ Listens
       /\ \/ live' = IF live < MaxLive /\ ~draining THEN live + 1 ELSE live
          \/ UNCHANGED live
       /\ UNCHANGED <<restart, debug, paused, draining, held, failed, quit>>
    \/ /\ k # "q" /\ ~Listens
       /\ UNCHANGED <<restart, debug, paused, sched, failed, quit>>

(* universe_apply_commands, one key at a time.                             *)
Apply ==
    /\ ctl = "apply" /\ pending > 0
    /\ read' = (read + 1) % QueueSize /\ pending' = pending - 1
    /\ applied' = Append(applied, commands[read])
    /\ HandleKey(commands[read])
    /\ UNCHANGED <<headless, commands, sent, done, main, timeouts, lives, ctl, pool, capture>>

(* No key is left; without a window, standard input may bring a Q.         *)
Input ==
    /\ ctl = "apply" /\ pending = 0 /\ Goto("check")
    /\ \/ headless /\ BeginDebugDrain
       \/ UNCHANGED <<debug, paused, restart, draining, held, failed, quit>>
    /\ UNCHANGED <<headless, queue, done, main, timeouts, lives, live, pool, capture>>

(* The lifetime, which a debug drain suspends; then a page if one is due.  *)
Check ==
    /\ ctl = "check"
    /\ \/ Leaving /\ Goto("suspend") /\ UNCHANGED <<timeouts, page>>
       \/ /\ ~Leaving /\ Goto("draw")
          /\ page' \in {page, TRUE} /\ UNCHANGED timeouts
       \/ /\ ~Leaving /\ ~debug /\ timeouts < MaxTimeouts
          /\ Goto("expired") /\ timeouts' = timeouts + 1 /\ UNCHANGED page
    /\ UNCHANGED <<headless, queue, quit, done, failed, main, restart, debug, paused, lives, sched, pool, frame, exports>>

(* universe_render: while debugging its snapshot goes to a PNG, which may  *)
(* fail and then ends the run.                                             *)
Drawn ==
    IF debug /\ ~failed
    THEN \/ frame' = TRUE /\ UNCHANGED <<failed, quit>>
         \/ failed' = TRUE /\ quit' = TRUE /\ UNCHANGED frame
    ELSE UNCHANGED <<frame, failed, quit>>

Draw ==
    /\ ctl = "draw"
    /\ IF debug \/ ~headless THEN Drawn /\ Goto("poll") ELSE Goto("loop") /\ UNCHANGED <<frame, failed, quit>>
    /\ UNCHANGED <<headless, queue, done, main, life, sched, pool, page, exports>>

(* scheduler_drain_complete: no lease, no enabled ant.                     *)
(* NeverComplete is a faulty variant that does not notice the end.         *)
NeverComplete == FALSE
DrainComplete == draining /\ users = {} /\ live = 0

PollDrain ==
    /\ ctl = "poll"
    /\ IF debug /\ DrainComplete THEN quit' = TRUE /\ Goto("suspend")
       ELSE Goto("loop") /\ UNCHANGED quit
    /\ UNCHANGED <<headless, queue, done, failed, main, life, sched, pool, capture>>

(* worker_pool_suspend: closes, then waits for the outstanding leases.     *)
Suspend ==
    /\ ctl \in {"suspend", "expired"} /\ open
    /\ open' = FALSE
    /\ UNCHANGED <<headless, queue, quit, done, failed, main, life, ctl, sched, users, capture>>

(* Faulty variant: the wait is left out. *)
AtOnce == TRUE
Quiescent == users = {}

Suspended ==
    /\ ctl \in {"suspend", "expired"} /\ ~open /\ Quiescent
    /\ Goto(IF debug THEN "final" ELSE "ending")
    /\ restart' = (restart \/ ctl = "expired")
    /\ UNCHANGED <<headless, queue, quit, done, failed, main, debug, paused, timeouts, lives, sched, pool, capture>>

(* The last stable frame, the last page, and dump_write, which may fail.   *)
FinalFrame ==
    /\ ctl = "final" /\ Goto("export") /\ Drawn
    /\ UNCHANGED <<headless, queue, done, main, life, sched, pool, page, exports>>

Export ==
    /\ ctl = "export" /\ Goto("ending")
    /\ page' = TRUE
    /\ \/ exports' = exports + 1 /\ UNCHANGED failed
       \/ failed' = TRUE /\ UNCHANGED exports
    /\ UNCHANGED <<headless, queue, quit, done, main, life, sched, pool, frame>>

(* What run_universe returns, for universe_control to act on.              *)
Decide ==
    /\ ctl = "ending"
    /\ Goto(IF restart /\ ~quit THEN "again" ELSE "finished")
    /\ UNCHANGED <<headless, queue, quit, done, failed, main, life, sched, pool, capture>>

(* universe_control: a new life.  Main's request to close is never cleared *)
(* (QuitCleared is a faulty variant that does).                            *)
QuitCleared == FALSE
QuitKept == quit

Again ==
    /\ ctl = "again" /\ Goto("reseed")
    /\ restart' = FALSE /\ debug' = FALSE /\ paused' = FALSE
    /\ quit' = QuitKept
    /\ UNCHANGED <<headless, queue, done, failed, main, timeouts, lives, sched, pool, capture>>

Reseed ==
    /\ ctl = "reseed"
    /\ \/ quit /\ Goto("finished") /\ UNCHANGED <<lives, sched, frame, page, failed>>
       \/ /\ ~quit /\ lives' = lives + 1
          /\ draining' = FALSE /\ held' = FALSE /\ live' = InitialAnts
          /\ frame' = FALSE /\ page' = FALSE
          /\ \/ Goto("start") /\ UNCHANGED failed
             \/ Goto("finished") /\ failed' = TRUE
    /\ UNCHANGED <<headless, queue, quit, done, main, restart, debug, paused, timeouts, pool, exports>>

Finish ==
    /\ ctl = "finished" /\ Goto("over") /\ done' = TRUE
    /\ UNCHANGED <<headless, queue, quit, failed, main, life, sched, pool, capture>>

-----------------------------------------------------------------------------
(* The pool's workers, as PoolContract lets them, and the ants' deaths.    *)

Lease(w) ==
    /\ open /\ ~held /\ w \notin users /\ Cardinality(users) < live
    /\ users' = users \cup {w}
    /\ UNCHANGED <<headless, queue, quit, done, failed, main, life, ctl, sched, open, capture>>

Return(w) ==
    /\ w \in users
    /\ users' = users \ {w}
    /\ frame' = FALSE /\ page' = FALSE
    /\ UNCHANGED <<headless, queue, quit, done, failed, main, life, ctl, sched, open, exports>>

(* A drained ant is retired by the next scan or drain poll.                *)
Retire ==
    /\ draining /\ open /\ live > Cardinality(users)
    /\ live' = live - 1
    /\ UNCHANGED <<headless, queue, quit, done, failed, main, life, ctl, draining, held, pool, capture>>

-----------------------------------------------------------------------------
Control == \/ Start \/ Loop \/ Apply \/ Input \/ Check \/ Draw \/ PollDrain \/ Suspend \/ Suspended
           \/ FinalFrame \/ Export \/ Decide \/ Again \/ Reseed \/ Finish
Freed == main = "freed" /\ UNCHANGED vars

Next ==
    \/ \E k \in Keys : Press(k)
    \/ Close \/ Free
    \/ Control
    \/ \E w \in Workers : Lease(w) \/ Return(w)
    \/ Retire
    \/ Freed

Spec == Init /\ [][Next]_vars

(* Threads run and quanta end; a drain exhausts every ant (the property    *)
(* DrainCompletes of Colony).  Main frees what is done.                    *)
Fairness ==
    /\ WF_vars(Control) /\ WF_vars(Free) /\ SF_vars(Retire)
    /\ \A w \in Workers : WF_vars(Return(w))
FairSpec == Spec /\ Fairness

-----------------------------------------------------------------------------
UniverseTypeOK ==
    /\ headless \in BOOLEAN
    /\ read \in 0 .. QueueSize - 1 /\ pending \in 0..QueueSize
    /\ quit \in BOOLEAN /\ done \in BOOLEAN /\ failed \in BOOLEAN /\ main \in {"running", "freed"}
    /\ restart \in BOOLEAN /\ debug \in BOOLEAN /\ paused \in BOOLEAN
    /\ ctl \in {"start", "loop", "apply", "check", "expired", "draw", "poll", "suspend", "final",
                "export", "ending", "again", "reseed", "finished", "over"}
    /\ draining \in BOOLEAN /\ held \in BOOLEAN /\ live \in 0..MaxLive
    /\ open \in BOOLEAN /\ users \subseteq Workers
    /\ frame \in BOOLEAN /\ page \in BOOLEAN /\ exports \in Nat

(* Keys are handled in the order in which they were accepted, none lost    *)
(* and none twice, over any number of restarts.                            *)
Queued == [k \in 1..pending |-> commands[(read + k - 1) % QueueSize]]
KeysInOrder == sent = applied \o Queued

(* What the controller shows agrees with what the scheduler does, and a    *)
(* drain is never paused.                                                  *)
ModesAgree ==
    ctl \in {"loop", "apply", "check", "draw", "poll"} =>
      paused = held /\ draining = debug /\ ~(paused /\ debug)

(* A debug quit is final: whatever keys come before or after it, the       *)
(* universe that drains is not restarted.                                  *)
DrainIsFinal == [][debug => debug' /\ lives' = lives]_vars

(* A debug quit exports once, at rest: no worker is in the universe, and   *)
(* the last frame and the last page both are the final tape.               *)
ExportAtRest ==
    /\ exports <= 1
    /\ exports = 1 => debug /\ ~open /\ users = {} /\ page /\ (frame \/ failed)
    /\ ctl = "over" /\ debug => exports = 1 \/ failed

(* Main frees a universe only when nobody uses it any more.                *)
FreedUnused == main = "freed" => ctl = "over" /\ ~open /\ users = {}

(* A close request is obeyed, wherever in its life the universe is.        *)
QuitEnds == quit ~> main = "freed"

(* A debug quit ends by itself, once its ants have spent what they have.   *)
DebugQuitEnds == debug ~> main = "freed"

(* The universe is a client of the pool's contract.                        *)
Phase == IF open THEN "open" ELSE IF ctl \in {"suspend", "expired"} THEN "closing" ELSE "off"
Contract == INSTANCE PoolContract WITH
    Slots <- {1}, phase <- [s \in {1} |-> Phase], user <- [s \in {1} |-> users]
ContractUsed == Contract!Spec

=============================================================================
