------------------------------ MODULE NodeLoop ------------------------------
(***************************************************************************)
(* The libuv loop of node.js inside Chromium's message loop.               *)
(*                                                                         *)
(*   atom/common/node_bindings.cc         the two threads                  *)
(*   atom/common/node_bindings_linux.cc   PollEvents on epoll              *)
(*   atom/common/api/atom_bindings.cc     activateUvLoop                   *)
(*   atom/common/lib/init.coffee          the functions wrapped with it    *)
(*                                                                         *)
(* The main thread runs the libuv loop without blocking; a second thread,  *)
(* the embed thread, waits until there is something to run it for.         *)
(***************************************************************************)
EXTENDS Naturals

CONSTANT Contexts   \* the script contexts that call RunMessageLoop

ASSUME ContextsAssumption == Contexts \in Nat \ {0}

VARIABLES
  main,        \* what the main thread does, see below
  embed,       \* where the embed thread is in EmbedThreadRunner
  sem,         \* embed_sem_
  tasks,       \* the posted tasks of WakeupMainThread
  runs,        \* the calls of RunMessageLoop
  embedClosed, \* embed_closed_
  call,        \* the function whose wrapper has called activateUvLoop
  timer,       \* a timer of node: "none", "set" or "due"
  timeout,     \* how long PollEvents waits: "forever", "timer" or "now"
  watch,       \* a watcher: "off", "queued" by libuv or "added" to its backend
  io,          \* has the watcher's event happened?
  dummy,       \* is dummy_uv_handle_ sent?
  nextTick,    \* is call_next_tick_async_ sent?
  pending,     \* is the environment in pending_next_ticks_?
  ticks        \* has process.nextTick queued callbacks?

threads == <<main, embed, sem, tasks, runs, embedClosed>>
clock   == <<timer, timeout>>
watcher == <<watch, io, dummy>>
nextTicks == <<nextTick, pending, ticks>>
vars    == <<threads, call, clock, watcher, nextTicks>>

(* The main thread is idle in Chromium's loop, in one of the stages of     *)
(* uv_run, in OnCallNextTick, between uv_run and uv_sem_post, or in a      *)
(* stage of the destructors.                                               *)
InUvRun    == {"timers", "poll", "callbacks", "tick"}
Destroying == {"derived", "closed", "posted", "joining", "gone"}

Init ==
  /\ main = "idle" /\ embed = "none" /\ sem = 0 /\ tasks = 0 /\ runs = 0
  /\ embedClosed = FALSE
  /\ call = "none"
  /\ timer = "none" /\ timeout = "now"
  /\ watch = "off" /\ io = FALSE /\ dummy = FALSE
  /\ nextTick = FALSE /\ pending = FALSE /\ ticks = FALSE

-----------------------------------------------------------------------------
(* JavaScript on the main thread, called by Chromium or by libuv.          *)

Script == main \in {"idle", "poll", "callbacks", "tick"}

(* Mutant: the environment is listed and the handle is not sent.           *)
ActivateUVLoopSilently ==
  /\ pending' = TRUE
  /\ nextTick' = nextTick

ActivateUVLoop ==
  /\ pending' = TRUE
  /\ nextTick' = (nextTick \/ ~pending)

(* Mutant: setTimeout is not wrapped.                                      *)
CallSetTimeoutOnly(func) ==
  /\ Script /\ call = "none"
  /\ call' = func
  /\ IF func = "setTimeout" THEN UNCHANGED <<nextTick, pending>> ELSE ActivateUVLoop
  /\ UNCHANGED <<threads, clock, watcher, ticks>>

(* wrapWithActivateUvLoop, around setTimeout and process.nextTick.         *)
CallWrapped(func) ==
  /\ Script /\ call = "none"
  /\ call' = func
  /\ ActivateUVLoop
  /\ UNCHANGED <<threads, clock, watcher, ticks>>

SetTimeout ==
  /\ call = "setTimeout"
  /\ call' = "none"
  /\ timer' = IF timer = "none" THEN "set" ELSE timer
  /\ UNCHANGED <<threads, timeout, watcher, nextTicks>>

NextTick ==
  /\ call = "nextTick"
  /\ call' = "none"
  /\ ticks' = TRUE
  /\ UNCHANGED <<threads, clock, watcher, nextTick, pending>>

(* Mutant: libuv's hook is not installed.                                  *)
StartWatcherUnseen ==
  /\ Script /\ call = "none" /\ watch = "off"
  /\ watch' = "queued"
  /\ UNCHANGED <<threads, call, clock, io, dummy, nextTicks>>

(* uv__io_start, with OnWatcherQueueChanged once RunMessageLoop has        *)
(* installed it.                                                           *)
StartWatcher ==
  /\ Script /\ call = "none" /\ watch = "off"
  /\ watch' = "queued"
  /\ dummy' = (dummy \/ runs > 0)
  /\ UNCHANGED <<threads, call, clock, io, nextTicks>>

StopWatcher ==
  /\ Script /\ call = "none" /\ watch # "off"
  /\ watch' = "off" /\ io' = FALSE
  /\ UNCHANGED <<threads, call, clock, dummy, nextTicks>>

(* A call through node::MakeCallback, from Chromium or from libuv, ends    *)
(* with the ticks; other calls leave them queued.                          *)
RunTicks ==
  /\ main \in {"idle", "poll", "callbacks"} /\ call = "none" /\ ticks
  /\ ticks' = FALSE
  /\ UNCHANGED <<threads, call, clock, watcher, nextTick, pending>>

-----------------------------------------------------------------------------
(* The main thread.                                                        *)

PrepareMessageLoop ==
  /\ main = "idle" /\ embed = "none"
  /\ embed' = "wait" /\ sem' = 0
  /\ UNCHANGED <<main, tasks, runs, embedClosed, call, clock, watcher, nextTicks>>

(* RunMessageLoop calls UvRunOnce itself.                                  *)
RunMessageLoop ==
  /\ main = "idle" /\ call = "none" /\ embed # "none" /\ runs < Contexts
  /\ main' = "timers"
  /\ runs' = runs + 1
  /\ UNCHANGED <<embed, sem, tasks, embedClosed, call, clock, watcher, nextTicks>>

(* The task of WakeupMainThread: UvRunOnce.                                *)
RunTask ==
  /\ main = "idle" /\ call = "none" /\ tasks > 0
  /\ main' = "timers"
  /\ tasks' = tasks - 1
  /\ UNCHANGED <<embed, sem, runs, embedClosed, call, clock, watcher, nextTicks>>

(* uv_run: the timers that are due, whose callbacks run ...                *)
UvRunTimers ==
  /\ main = "timers"
  /\ timer' = IF timer = "due" THEN "none" ELSE timer
  /\ main' = "poll"
  /\ UNCHANGED <<embed, sem, tasks, runs, embedClosed, call, timeout, watcher, nextTicks>>

(* ... then the watchers in the queue are added to the backend, and what   *)
(* is ready is taken from it: the watcher's event and the two handles.     *)
UvPoll ==
  /\ main = "poll" /\ call = "none"
  /\ watch' = IF watch = "queued" THEN "added" ELSE watch
  /\ io' = FALSE /\ dummy' = FALSE
  /\ nextTick' = FALSE
  /\ main' = IF nextTick THEN "tick" ELSE "callbacks"
  /\ UNCHANGED <<embed, sem, tasks, runs, embedClosed, call, clock, pending, ticks>>

(* OnCallNextTick: the callbacks run, until none is left, before the list  *)
(* is cleared.                                                             *)
OnCallNextTick ==
  /\ main = "tick" /\ call = "none"
  /\ ticks' = FALSE
  /\ pending' = FALSE
  /\ main' = "callbacks"
  /\ UNCHANGED <<embed, sem, tasks, runs, embedClosed, call, clock, watcher, nextTick>>

(* The callbacks of the watchers are done.                                 *)
UvRunEnds ==
  /\ main = "callbacks" /\ call = "none"
  /\ main' = "post"
  /\ UNCHANGED <<embed, sem, tasks, runs, embedClosed, call, clock, watcher, nextTicks>>

UvSemPost ==
  /\ main = "post"
  /\ sem' = sem + 1
  /\ main' = "idle"
  /\ UNCHANGED <<embed, tasks, runs, embedClosed, call, clock, watcher, nextTicks>>

(* The destructors, after the message loop has ended: first that of the    *)
(* platform's class, which takes PollEvents away, ...                      *)
DestroyDerived ==
  /\ main = "idle" /\ call = "none" /\ embed # "none" /\ runs > 0
  /\ main' = "derived"
  /\ UNCHANGED <<embed, sem, tasks, runs, embedClosed, call, clock, watcher, nextTicks>>

CloseEmbed ==
  /\ main = "derived"
  /\ embedClosed' = TRUE
  /\ main' = "closed"
  /\ UNCHANGED <<embed, sem, tasks, runs, call, clock, watcher, nextTicks>>

PostToClosed ==
  /\ main = "closed"
  /\ sem' = sem + 1
  /\ main' = "posted"
  /\ UNCHANGED <<embed, tasks, runs, embedClosed, call, clock, watcher, nextTicks>>

(* Mutant: the destructor does not interrupt PollEvents.                   *)
WakeNobody ==
  /\ main = "posted"
  /\ main' = "joining"
  /\ UNCHANGED <<embed, sem, tasks, runs, embedClosed, call, clock, watcher, nextTicks>>

WakeClosed ==
  /\ main = "posted"
  /\ dummy' = TRUE
  /\ main' = "joining"
  /\ UNCHANGED <<embed, sem, tasks, runs, embedClosed, call, clock, watch, io, nextTicks>>

Join ==
  /\ main = "joining" /\ embed = "exited"
  /\ main' = "gone"
  /\ UNCHANGED <<embed, sem, tasks, runs, embedClosed, call, clock, watcher, nextTicks>>

-----------------------------------------------------------------------------
(* The embed thread.                                                       *)

SemWait ==
  /\ embed = "wait" /\ sem > 0
  /\ sem' = sem - 1
  /\ embed' = "check"
  /\ UNCHANGED <<main, tasks, runs, embedClosed, call, clock, watcher, nextTicks>>

Check ==
  /\ embed = "check"
  /\ embed' = IF embedClosed THEN "exited" ELSE "timeout"
  /\ UNCHANGED <<main, sem, tasks, runs, embedClosed, call, clock, watcher, nextTicks>>

(* PollEvents computes its timeout, ...                                    *)
BackendTimeout ==
  /\ embed = "timeout"
  /\ timeout' = CASE timer = "none" -> "forever" [] timer = "set" -> "timer" [] OTHER -> "now"
  /\ embed' = "epoll"
  /\ UNCHANGED <<main, sem, tasks, runs, embedClosed, call, timer, watcher, nextTicks>>

(* ... and waits for the backend to be readable.                           *)
Readable == nextTick \/ dummy \/ (watch = "added" /\ io)

EpollWait ==
  /\ embed = "epoll" /\ (Readable \/ timeout = "now")
  /\ embed' = IF embedClosed THEN "exited" ELSE "wakeup"
  /\ UNCHANGED <<main, sem, tasks, runs, embedClosed, call, clock, watcher, nextTicks>>

(* Mutant: the embed thread goes on polling.                               *)
WakeupMainThreadAndPoll ==
  /\ embed = "wakeup"
  /\ tasks' = tasks + 1
  /\ embed' = "check"
  /\ UNCHANGED <<main, sem, runs, embedClosed, call, clock, watcher, nextTicks>>

WakeupMainThread ==
  /\ embed = "wakeup"
  /\ tasks' = tasks + 1
  /\ embed' = "wait"
  /\ UNCHANGED <<main, sem, runs, embedClosed, call, clock, watcher, nextTicks>>

-----------------------------------------------------------------------------
(* The world.                                                              *)

TimePasses ==
  /\ timer = "set" \/ timeout = "timer"
  /\ timer' = IF timer = "set" THEN "due" ELSE timer
  /\ timeout' = IF timeout = "timer" THEN "now" ELSE timeout
  /\ UNCHANGED <<threads, call, watcher, nextTicks>>

IoHappens ==
  /\ watch # "off" /\ ~io
  /\ io' = TRUE
  /\ UNCHANGED <<threads, call, clock, watch, dummy, nextTicks>>

-----------------------------------------------------------------------------
Scripts ==
  \/ \E func \in {"setTimeout", "nextTick"} : CallWrapped(func)
  \/ SetTimeout \/ NextTick \/ StartWatcher \/ StopWatcher \/ RunTicks

Main ==
  \/ PrepareMessageLoop \/ RunMessageLoop \/ RunTask
  \/ UvRunTimers \/ UvPoll \/ OnCallNextTick \/ UvRunEnds \/ UvSemPost
  \/ CloseEmbed \/ PostToClosed \/ WakeClosed \/ Join

Embed == SemWait \/ Check \/ BackendTimeout \/ EpollWait \/ WakeupMainThread

World == TimePasses \/ IoHappens

Next == Scripts \/ Main \/ DestroyDerived \/ Embed \/ World

Spec == Init /\ [][Next]_vars

(* Scripts return, so the main thread comes to its next step although      *)
(* others run in between; the embed thread and time go on.                 *)
Fairness ==
  /\ SF_vars(Main) /\ WF_vars(SetTimeout \/ NextTick)
  /\ WF_vars(Embed) /\ WF_vars(TimePasses)

FairSpec == Spec /\ Fairness

-----------------------------------------------------------------------------
(* Properties.                                                             *)

TypeOK ==
  /\ main \in InUvRun \cup Destroying \cup {"idle", "post"}
  /\ embed \in {"none", "wait", "check", "timeout", "epoll", "wakeup", "exited"}
  /\ sem \in Nat /\ tasks \in Nat /\ runs \in 0 .. Contexts
  /\ embedClosed \in BOOLEAN
  /\ call \in {"none", "setTimeout", "nextTick"}
  /\ timer \in {"none", "set", "due"} /\ timeout \in {"forever", "timer", "now"}
  /\ watch \in {"off", "queued", "added"} /\ io \in BOOLEAN /\ dummy \in BOOLEAN
  /\ nextTick \in BOOLEAN /\ pending \in BOOLEAN /\ ticks \in BOOLEAN

(* The embed thread waits for the main thread to deal with events before   *)
(* it looks at the libuv loop again (the comment of EmbedThreadRunner):    *)
(* the two are never in the loop together, and wake-ups do not pile up.    *)
TurnsAlternate ==
  embed \in {"check", "timeout", "epoll", "wakeup"} /\ ~embedClosed =>
    main \notin InUvRun /\ tasks = 0

(* The early return of ActivateUVLoop relies on a wake-up that is coming:  *)
(* an environment in the list has its handle sent or is being called.      *)
PendingIsComing == pending => nextTick \/ main = "tick"

(* PollEvents does not sleep past a timer that was set after it computed   *)
(* its timeout (init.coffee: "we have to force the node's event loop to    *)
(* recalculate the timeout").                                              *)
NoSleepPastTimer ==
  embed = "epoll" /\ timeout = "forever" /\ timer # "none" => Readable

(* It does not sleep over a watcher it does not know (OnWatcherQueueChanged*)
(* says why).                                                              *)
NoSleepPastWatcher ==
  embed = "epoll" /\ watch = "queued" /\ ~embedClosed => Readable

(* What process.nextTick has queued is called.                             *)
TicksRun == ticks ~> ~ticks \/ main \in Destroying

(* The destructor ends: the embed thread leaves its loop from wherever it  *)
(* is.                                                                     *)
DestructorEnds == main = "derived" ~> main = "gone"
=============================================================================
