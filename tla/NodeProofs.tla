------------------------------ MODULE NodeProofs ------------------------------
(***************************************************************************)
(* Proofs about what is put under node.js.                                 *)
(*                                                                         *)
(*   NodeLoop   where the permission to look at the libuv loop is, and why *)
(*              PollEvents does not sleep over something to do             *)
(*   Asar       why an archive answers as a directory would: the two       *)
(*              recursive searches of the header in closed form, and the   *)
(*              temporary files                                            *)
(***************************************************************************)
EXTENDS NodeLoop, Asar, FiniteSetTheorems, SequenceTheorems, WellFoundedInduction, TLAPS

-----------------------------------------------------------------------------
(* The loop: NodeLoop.                                                     *)

(* A call of RunMessageLoop makes one permission to use the loop. It goes  *)
(* from the main thread to the semaphore, to the embed thread, to a posted *)
(* task and back to the main thread. The destructor makes another one.     *)
One(condition) == IF condition THEN 1 ELSE 0

Polling == embed \in {"check", "timeout", "epoll", "wakeup"}
Posted  == main \in {"posted", "joining", "gone"}

Permissions ==
  sem + tasks + One(main \in InUvRun \cup {"post"}) + One(Polling)

PermissionsBounded == Permissions <= runs + One(Posted)

Closing ==
  /\ embedClosed <=> main \in {"closed"} \cup {"posted", "joining", "gone"}
  /\ main \in Destroying => runs > 0

Apart == Polling => main \notin InUvRun

(* What a wrapper has asked for before its function runs.                  *)
TimeoutAsked == call = "setTimeout" => pending

(* What sleeps is woken by the handle, which only uv_run resets.           *)
SleeperAsked ==
  embed = "epoll" /\ timeout = "forever" /\ (timer # "none" \/ call = "setTimeout") =>
         nextTick

WatcherKnown == watch = "queued" => dummy \/ runs = 0 \/ main \in {"timers", "poll"}

NodeInv ==
  /\ TypeOK /\ PermissionsBounded /\ Closing
  /\ PendingIsComing /\ TimeoutAsked /\ WatcherKnown

SleepInv == NodeInv /\ SleeperAsked

-----------------------------------------------------------------------------
(* The types of NodeLoop hold initially ...                                 *)
LEMMA TypeInit == Init => TypeOK
<1> SUFFICES ASSUME Init PROVE TypeOK
  OBVIOUS
<1>1. /\ sem \in Nat /\ tasks \in Nat /\ runs \in 0 .. Contexts
  BY ContextsAssumption DEF Init
<1>2. /\ embedClosed \in BOOLEAN /\ io \in BOOLEAN /\ dummy \in BOOLEAN
      /\ nextTick \in BOOLEAN /\ pending \in BOOLEAN /\ ticks \in BOOLEAN
  BY DEF Init
<1> QED
  BY <1>1, <1>2 DEF Init, TypeOK

(* ... and are kept by each action.                                         *)
LEMMA TypeStep == TypeOK /\ [Next]_vars => TypeOK'
<1> SUFFICES ASSUME TypeOK, [Next]_vars PROVE TypeOK'
  OBVIOUS
<1> USE ContextsAssumption DEF TypeOK, InUvRun, Destroying, Script
<1>1. ASSUME NEW func \in {"setTimeout", "nextTick"}, CallWrapped(func) PROVE TypeOK'
  BY <1>1 DEF CallWrapped, ActivateUVLoop, threads, clock, watcher
<1>2. CASE SetTimeout
  BY <1>2 DEF SetTimeout, threads, clock, watcher, nextTicks
<1>3. CASE NextTick
  BY <1>3 DEF NextTick, threads, clock, watcher, nextTicks
<1>4. CASE StartWatcher
  BY <1>4 DEF StartWatcher, threads, clock, watcher, nextTicks
<1>5. CASE StopWatcher
  <2>1. /\ io' \in BOOLEAN /\ watch' \in {"off", "queued", "added"}
        /\ UNCHANGED <<main, embed, sem, tasks, runs, embedClosed, call, timer, timeout,
                       dummy, nextTick, pending, ticks>>
    BY <1>5 DEF StopWatcher, threads, clock, nextTicks
  <2> QED
    BY <2>1
<1>6. CASE RunTicks
  <2>1. /\ ticks' \in BOOLEAN
        /\ UNCHANGED <<main, embed, sem, tasks, runs, embedClosed, call, timer, timeout,
                       watch, io, dummy, nextTick, pending>>
    BY <1>6 DEF RunTicks, threads, clock, watcher
  <2> QED
    BY <2>1
<1>7. CASE PrepareMessageLoop
  BY <1>7 DEF PrepareMessageLoop, threads, clock, watcher, nextTicks
<1>8. CASE RunMessageLoop
  BY <1>8 DEF RunMessageLoop, threads, clock, watcher, nextTicks
<1>9. CASE RunTask
  BY <1>9 DEF RunTask, threads, clock, watcher, nextTicks
<1>10. CASE UvRunTimers
  BY <1>10 DEF UvRunTimers, threads, clock, watcher, nextTicks
<1>11. CASE UvPoll
  <2>1. /\ main' \in {"tick", "callbacks"} /\ watch' \in {"off", "queued", "added"}
        /\ io' \in BOOLEAN /\ dummy' \in BOOLEAN /\ nextTick' \in BOOLEAN
    BY <1>11 DEF UvPoll
  <2>2. UNCHANGED <<embed, sem, tasks, runs, embedClosed, call, timer, timeout,
                    pending, ticks>>
    BY <1>11 DEF UvPoll, clock
  <2> QED
    BY <2>1, <2>2
<1>12. CASE OnCallNextTick
  <2>1. main' = "callbacks" /\ pending' \in BOOLEAN /\ ticks' \in BOOLEAN
    BY <1>12 DEF OnCallNextTick
  <2>2. UNCHANGED <<embed, sem, tasks, runs, embedClosed, call, timer, timeout,
                    watch, io, dummy, nextTick>>
    BY <1>12 DEF OnCallNextTick, clock, watcher
  <2> QED
    BY <2>1, <2>2
<1>13. CASE UvRunEnds
  BY <1>13 DEF UvRunEnds, threads, clock, watcher, nextTicks
<1>14. CASE UvSemPost
  BY <1>14 DEF UvSemPost, threads, clock, watcher, nextTicks
<1>15. CASE CloseEmbed
  BY <1>15 DEF CloseEmbed, threads, clock, watcher, nextTicks
<1>16. CASE PostToClosed
  BY <1>16 DEF PostToClosed, threads, clock, watcher, nextTicks
<1>17. CASE WakeClosed
  BY <1>17 DEF WakeClosed, threads, clock, watcher, nextTicks
<1>18. CASE Join
  BY <1>18 DEF Join, threads, clock, watcher, nextTicks
<1>19. CASE DestroyDerived
  BY <1>19 DEF DestroyDerived, threads, clock, watcher, nextTicks
<1>20. CASE SemWait
  BY <1>20 DEF SemWait, threads, clock, watcher, nextTicks
<1>21. CASE Check
  BY <1>21 DEF Check, threads, clock, watcher, nextTicks
<1>22. CASE BackendTimeout
  BY <1>22 DEF BackendTimeout, threads, clock, watcher, nextTicks
<1>23. CASE EpollWait
  BY <1>23 DEF EpollWait, threads, clock, watcher, nextTicks
<1>24. CASE WakeupMainThread
  BY <1>24 DEF WakeupMainThread, threads, clock, watcher, nextTicks
<1>25. CASE TimePasses
  BY <1>25 DEF TimePasses, threads, clock, watcher, nextTicks
<1>26. CASE IoHappens
  BY <1>26 DEF IoHappens, threads, clock, watcher, nextTicks
<1>27. CASE UNCHANGED vars
  BY <1>27 DEF vars, threads, clock, watcher, nextTicks
<1> QED
  BY <1>1, <1>2, <1>3, <1>4, <1>5, <1>6, <1>7, <1>8, <1>9, <1>10, <1>11, <1>12, <1>13,
         <1>14, <1>15, <1>16, <1>17, <1>18, <1>19, <1>20, <1>21, <1>22, <1>23, <1>24,
         <1>25, <1>26, <1>27
  DEF Next, Scripts, Main, Embed, World

(* Every reachable state has the declared types.                            *)
THEOREM TypeCorrect == Spec => []TypeOK
  BY TypeInit, TypeStep, PTL DEF Spec

-----------------------------------------------------------------------------
(* No step makes a permission but RunMessageLoop and the destructor.        *)
LEMMA PermissionsStep == TypeOK /\ PermissionsBounded /\ [Next]_vars =>
       PermissionsBounded'
<1> SUFFICES ASSUME TypeOK, PermissionsBounded, [Next]_vars PROVE PermissionsBounded'
  OBVIOUS
<1> USE DEF TypeOK, PermissionsBounded, Permissions, One, Polling, Posted, InUvRun
<1>1. CASE PrepareMessageLoop
  BY <1>1 DEF PrepareMessageLoop, threads, clock, watcher, nextTicks
<1>2. CASE RunMessageLoop
  BY <1>2 DEF RunMessageLoop, threads, clock, watcher, nextTicks
<1>3. CASE RunTask
  BY <1>3 DEF RunTask, threads, clock, watcher, nextTicks
<1>4. CASE UvRunTimers
  BY <1>4 DEF UvRunTimers, threads, clock, watcher, nextTicks
<1>5. CASE UvPoll
  BY <1>5 DEF UvPoll, threads, clock, watcher, nextTicks
<1>6. CASE OnCallNextTick
  BY <1>6 DEF OnCallNextTick, threads, clock, watcher, nextTicks
<1>7. CASE UvRunEnds
  BY <1>7 DEF UvRunEnds, threads, clock, watcher, nextTicks
<1>8. CASE UvSemPost
  BY <1>8 DEF UvSemPost, threads, clock, watcher, nextTicks
<1>9. CASE CloseEmbed
  BY <1>9 DEF CloseEmbed, threads, clock, watcher, nextTicks
<1>10. CASE PostToClosed
  BY <1>10 DEF PostToClosed, threads, clock, watcher, nextTicks
<1>11. CASE WakeClosed
  BY <1>11 DEF WakeClosed, threads, clock, watcher, nextTicks
<1>12. CASE Join
  BY <1>12 DEF Join, threads, clock, watcher, nextTicks
<1>13. CASE DestroyDerived
  BY <1>13 DEF DestroyDerived, threads, clock, watcher, nextTicks
<1>14. CASE SemWait
  BY <1>14 DEF SemWait, threads, clock, watcher, nextTicks
<1>15. CASE Check
  BY <1>15 DEF Check, threads, clock, watcher, nextTicks
<1>16. CASE BackendTimeout
  BY <1>16 DEF BackendTimeout, threads, clock, watcher, nextTicks
<1>17. CASE EpollWait
  BY <1>17 DEF EpollWait, threads, clock, watcher, nextTicks
<1>18. CASE WakeupMainThread
  BY <1>18 DEF WakeupMainThread, threads, clock, watcher, nextTicks
<1>19. CASE UNCHANGED <<main, embed, sem, tasks, runs>>
  BY <1>19
<1>20. ASSUME SetTimeout \/ NextTick \/ StartWatcher \/ StopWatcher \/ RunTicks \/
              TimePasses \/ IoHappens \/ UNCHANGED vars \/ \E func \in {"setTimeout",
              "nextTick"} : CallWrapped(func)
      PROVE  UNCHANGED <<main, embed, sem, tasks, runs>>
  BY <1>20 DEF vars, SetTimeout, NextTick, StartWatcher, StopWatcher, RunTicks,
         TimePasses, IoHappens, CallWrapped, threads, clock, watcher, nextTicks
<1> QED
  BY <1>1, <1>2, <1>3, <1>4, <1>5, <1>6, <1>7, <1>8, <1>9, <1>10, <1>11, <1>12, <1>13,
         <1>14, <1>15, <1>16, <1>17, <1>18, <1>19, <1>20
  DEF Next, Scripts, Main, Embed, World

(* embed_closed_ is set by the destructor, which comes after a run.         *)
LEMMA ClosingStep == TypeOK /\ Closing /\ [Next]_vars => Closing'
<1> SUFFICES ASSUME TypeOK, Closing, [Next]_vars PROVE Closing'
  OBVIOUS
<1> USE DEF TypeOK, Closing, InUvRun, Destroying
<1>1. CASE RunMessageLoop
  BY <1>1 DEF RunMessageLoop, threads, clock, watcher, nextTicks
<1>2. CASE RunTask
  BY <1>2 DEF RunTask, threads, clock, watcher, nextTicks
<1>3. CASE UvRunTimers
  BY <1>3 DEF UvRunTimers, threads, clock, watcher, nextTicks
<1>4. CASE UvPoll
  BY <1>4 DEF UvPoll, threads, clock, watcher, nextTicks
<1>5. CASE OnCallNextTick
  BY <1>5 DEF OnCallNextTick, threads, clock, watcher, nextTicks
<1>6. CASE UvRunEnds
  BY <1>6 DEF UvRunEnds, threads, clock, watcher, nextTicks
<1>7. CASE UvSemPost
  BY <1>7 DEF UvSemPost, threads, clock, watcher, nextTicks
<1>8. CASE CloseEmbed
  BY <1>8 DEF CloseEmbed, threads, clock, watcher, nextTicks
<1>9. CASE PostToClosed
  BY <1>9 DEF PostToClosed, threads, clock, watcher, nextTicks
<1>10. CASE WakeClosed
  BY <1>10 DEF WakeClosed, threads, clock, watcher, nextTicks
<1>11. CASE Join
  BY <1>11 DEF Join, threads, clock, watcher, nextTicks
<1>12. CASE DestroyDerived
  BY <1>12 DEF DestroyDerived, threads, clock, watcher, nextTicks
<1>13. CASE UNCHANGED <<main, runs, embedClosed>>
  BY <1>13
<1>14. ASSUME SetTimeout \/ NextTick \/ StartWatcher \/ StopWatcher \/ RunTicks \/
              PrepareMessageLoop \/ SemWait \/ Check \/ BackendTimeout \/ EpollWait \/
              WakeupMainThread \/ TimePasses \/ IoHappens \/ UNCHANGED vars \/ \E func
              \in {"setTimeout", "nextTick"} : CallWrapped(func)
      PROVE  UNCHANGED <<main, runs, embedClosed>>
  BY <1>14 DEF vars, SetTimeout, NextTick, StartWatcher, StopWatcher, RunTicks,
         PrepareMessageLoop, SemWait, Check, BackendTimeout, EpollWait,
         WakeupMainThread, TimePasses, IoHappens, CallWrapped, threads, clock, watcher,
         nextTicks
<1> QED
  BY <1>1, <1>2, <1>3, <1>4, <1>5, <1>6, <1>7, <1>8, <1>9, <1>10, <1>11, <1>12, <1>13,
         <1>14
  DEF Next, Scripts, Main, Embed, World

(* The early return of ActivateUVLoop loses no wake-up.                     *)
LEMMA PendingStep == PendingIsComing /\ [Next]_vars => PendingIsComing'
<1> SUFFICES ASSUME PendingIsComing, [Next]_vars PROVE PendingIsComing'
  OBVIOUS
<1> USE DEF PendingIsComing
<1>1. ASSUME NEW func \in {"setTimeout", "nextTick"}, CallWrapped(func) PROVE
             PendingIsComing'
  BY <1>1 DEF CallWrapped, ActivateUVLoop, threads, clock, watcher
<1>2. CASE RunMessageLoop
  BY <1>2 DEF RunMessageLoop, threads, clock, watcher, nextTicks
<1>3. CASE RunTask
  BY <1>3 DEF RunTask, threads, clock, watcher, nextTicks
<1>4. CASE UvRunTimers
  BY <1>4 DEF UvRunTimers, threads, clock, watcher, nextTicks
<1>5. CASE UvPoll
  BY <1>5 DEF UvPoll, threads, clock, watcher, nextTicks
<1>6. CASE OnCallNextTick
  BY <1>6 DEF OnCallNextTick, threads, clock, watcher, nextTicks
<1>7. CASE UvRunEnds
  BY <1>7 DEF UvRunEnds, threads, clock, watcher, nextTicks
<1>8. CASE UvSemPost
  BY <1>8 DEF UvSemPost, threads, clock, watcher, nextTicks
<1>9. CASE CloseEmbed
  BY <1>9 DEF CloseEmbed, threads, clock, watcher, nextTicks
<1>10. CASE PostToClosed
  BY <1>10 DEF PostToClosed, threads, clock, watcher, nextTicks
<1>11. CASE WakeClosed
  BY <1>11 DEF WakeClosed, threads, clock, watcher, nextTicks
<1>12. CASE Join
  BY <1>12 DEF Join, threads, clock, watcher, nextTicks
<1>13. CASE DestroyDerived
  BY <1>13 DEF DestroyDerived, threads, clock, watcher, nextTicks
<1>14. CASE UNCHANGED <<main, nextTick, pending>>
  BY <1>14
<1>15. ASSUME SetTimeout \/ NextTick \/ StartWatcher \/ StopWatcher \/ RunTicks \/
              PrepareMessageLoop \/ SemWait \/ Check \/ BackendTimeout \/ EpollWait \/
              WakeupMainThread \/ TimePasses \/ IoHappens \/ UNCHANGED vars
      PROVE  UNCHANGED <<main, nextTick, pending>>
  BY <1>15 DEF vars, SetTimeout, NextTick, StartWatcher, StopWatcher, RunTicks,
         PrepareMessageLoop, SemWait, Check, BackendTimeout, EpollWait,
         WakeupMainThread, TimePasses, IoHappens, threads, clock, watcher, nextTicks
<1> QED
  BY <1>1, <1>2, <1>3, <1>4, <1>5, <1>6, <1>7, <1>8, <1>9, <1>10, <1>11, <1>12, <1>13,
         <1>14, <1>15
  DEF Next, Scripts, Main, Embed, World

(* A wrapper is on the list until its function has run.                     *)
LEMMA AskedStep == TimeoutAsked /\ [Next]_vars => TimeoutAsked'
<1> SUFFICES ASSUME TimeoutAsked, [Next]_vars PROVE TimeoutAsked'
  OBVIOUS
<1> USE DEF TimeoutAsked
<1>1. ASSUME NEW func \in {"setTimeout", "nextTick"}, CallWrapped(func) PROVE
             TimeoutAsked'
  BY <1>1 DEF CallWrapped, ActivateUVLoop, threads, clock, watcher
<1>2. CASE SetTimeout
  BY <1>2 DEF SetTimeout, threads, clock, watcher, nextTicks
<1>3. CASE NextTick
  BY <1>3 DEF NextTick, threads, clock, watcher, nextTicks
<1>4. CASE OnCallNextTick
  BY <1>4 DEF OnCallNextTick, threads, clock, watcher, nextTicks
<1>5. CASE UNCHANGED <<call, pending>>
  BY <1>5
<1>6. ASSUME StartWatcher \/ StopWatcher \/ RunTicks \/ PrepareMessageLoop \/
             RunMessageLoop \/ RunTask \/ UvRunTimers \/ UvPoll \/ UvRunEnds \/
             UvSemPost \/ CloseEmbed \/ PostToClosed \/ WakeClosed \/ Join \/
             DestroyDerived \/ SemWait \/ Check \/ BackendTimeout \/ EpollWait \/
             WakeupMainThread \/ TimePasses \/ IoHappens \/ UNCHANGED vars
      PROVE  UNCHANGED <<call, pending>>
  BY <1>6 DEF vars, StartWatcher, StopWatcher, RunTicks, PrepareMessageLoop,
         RunMessageLoop, RunTask, UvRunTimers, UvPoll, UvRunEnds, UvSemPost, CloseEmbed,
         PostToClosed, WakeClosed, Join, DestroyDerived, SemWait, Check, BackendTimeout,
         EpollWait, WakeupMainThread, TimePasses, IoHappens, threads, clock, watcher,
         nextTicks
<1> QED
  BY <1>1, <1>2, <1>3, <1>4, <1>5, <1>6
  DEF Next, Scripts, Main, Embed, World

(* A watcher that libuv has queued is announced by the dummy handle, or is  *)
(* added to the backend before the embed thread may look.                   *)
LEMMA WatcherStep == TypeOK /\ WatcherKnown /\ [Next]_vars => WatcherKnown'
<1> SUFFICES ASSUME TypeOK, WatcherKnown, [Next]_vars PROVE WatcherKnown'
  OBVIOUS
<1> USE DEF TypeOK, WatcherKnown, InUvRun
<1>1. CASE StartWatcher
  <2>1. runs > 0 => dummy'
    BY <1>1, Zenon DEF StartWatcher
  <2>2. runs > 0 \/ runs = 0
    BY DEF TypeOK
  <2>3. runs' = runs
    BY <1>1 DEF StartWatcher, threads
  <2> QED
    BY <2>1, <2>2, <2>3
<1>2. CASE StopWatcher
  BY <1>2 DEF StopWatcher, threads, clock, watcher, nextTicks
<1>3. CASE RunMessageLoop
  BY <1>3 DEF RunMessageLoop, threads, clock, watcher, nextTicks
<1>4. CASE RunTask
  BY <1>4 DEF RunTask, threads, clock, watcher, nextTicks
<1>5. CASE UvRunTimers
  BY <1>5 DEF UvRunTimers, threads, clock, watcher, nextTicks
<1>6. CASE UvPoll
  BY <1>6 DEF UvPoll, threads, clock, watcher, nextTicks
<1>7. CASE OnCallNextTick
  BY <1>7 DEF OnCallNextTick, threads, clock, watcher, nextTicks
<1>8. CASE UvRunEnds
  BY <1>8 DEF UvRunEnds, threads, clock, watcher, nextTicks
<1>9. CASE UvSemPost
  BY <1>9 DEF UvSemPost, threads, clock, watcher, nextTicks
<1>10. CASE CloseEmbed
  BY <1>10 DEF CloseEmbed, threads, clock, watcher, nextTicks
<1>11. CASE PostToClosed
  BY <1>11 DEF PostToClosed, threads, clock, watcher, nextTicks
<1>12. CASE WakeClosed
  BY <1>12 DEF WakeClosed, threads, clock, watcher, nextTicks
<1>13. CASE Join
  BY <1>13 DEF Join, threads, clock, watcher, nextTicks
<1>14. CASE DestroyDerived
  BY <1>14 DEF DestroyDerived, threads, clock, watcher, nextTicks
<1>15. CASE UNCHANGED <<main, runs, watch, dummy>>
  BY <1>15
<1>16. ASSUME SetTimeout \/ NextTick \/ RunTicks \/ PrepareMessageLoop \/ SemWait \/
              Check \/ BackendTimeout \/ EpollWait \/ WakeupMainThread \/ TimePasses \/
              IoHappens \/ UNCHANGED vars \/ \E func \in {"setTimeout", "nextTick"} :
              CallWrapped(func)
      PROVE  UNCHANGED <<main, runs, watch, dummy>>
  BY <1>16 DEF vars, SetTimeout, NextTick, RunTicks, PrepareMessageLoop, SemWait, Check,
         BackendTimeout, EpollWait, WakeupMainThread, TimePasses, IoHappens,
         CallWrapped, threads, clock, watcher, nextTicks
<1> QED
  BY <1>1, <1>2, <1>3, <1>4, <1>5, <1>6, <1>7, <1>8, <1>9, <1>10, <1>11, <1>12, <1>13,
         <1>14, <1>15, <1>16
  DEF Next, Scripts, Main, Embed, World

(* With one context the embed thread has the only permission: while it      *)
(* polls, the main thread is outside the loop.                              *)
LEMMA OneTurn ==
  ASSUME Contexts = 1, NodeInv
  PROVE  /\ TurnsAlternate
         /\ Apart
         /\ Polling => runs > 0
<1> USE DEF NodeInv, TypeOK, PermissionsBounded, Permissions, One, Polling, Posted,
       Closing,
            InUvRun, Destroying
<1>1. Polling /\ ~embedClosed => main \notin InUvRun /\ tasks = 0
  OBVIOUS
<1>2. Polling => main \notin InUvRun /\ runs > 0
  OBVIOUS
<1> QED
  BY <1>1, <1>2 DEF TurnsAlternate, Apart

(* What PollEvents sleeps over is announced while it sleeps.               *)
LEMMA SleeperStep == TypeOK /\ TimeoutAsked /\ PendingIsComing /\ Apart /\ SleeperAsked
       /\ [Next]_vars => SleeperAsked'
<1> SUFFICES ASSUME TypeOK, TimeoutAsked, PendingIsComing, Apart, SleeperAsked,
       [Next]_vars PROVE SleeperAsked'
  OBVIOUS
<1> USE DEF TypeOK, TimeoutAsked, PendingIsComing, SleeperAsked, Apart, InUvRun, Polling
<1>1. ASSUME NEW func \in {"setTimeout", "nextTick"}, CallWrapped(func) PROVE
             SleeperAsked'
  BY <1>1 DEF CallWrapped, ActivateUVLoop, threads, clock, watcher
<1>2. CASE SetTimeout
  BY <1>2 DEF SetTimeout, threads, clock, watcher, nextTicks
<1>3. CASE NextTick
  BY <1>3 DEF NextTick, threads, clock, watcher, nextTicks
<1>4. CASE PrepareMessageLoop
  BY <1>4 DEF PrepareMessageLoop, threads, clock, watcher, nextTicks
<1>5. CASE UvRunTimers
  BY <1>5 DEF UvRunTimers, threads, clock, watcher, nextTicks
<1>6. CASE UvPoll
  BY <1>6 DEF UvPoll, threads, clock, watcher, nextTicks
<1>7. CASE SemWait
  BY <1>7 DEF SemWait, threads, clock, watcher, nextTicks
<1>8. CASE Check
  BY <1>8 DEF Check, threads, clock, watcher, nextTicks
<1>9. CASE BackendTimeout
  BY <1>9 DEF BackendTimeout, threads, clock, watcher, nextTicks
<1>10. CASE EpollWait
  BY <1>10 DEF EpollWait, threads, clock, watcher, nextTicks
<1>11. CASE WakeupMainThread
  BY <1>11 DEF WakeupMainThread, threads, clock, watcher, nextTicks
<1>12. CASE TimePasses
  BY <1>12 DEF TimePasses, threads, clock, watcher, nextTicks
<1>13. CASE UNCHANGED <<embed, timeout, timer, call, nextTick>>
  BY <1>13
<1>14. ASSUME StartWatcher \/ StopWatcher \/ RunTicks \/ RunMessageLoop \/ RunTask \/
              OnCallNextTick \/ UvRunEnds \/ UvSemPost \/ CloseEmbed \/ PostToClosed \/
              WakeClosed \/ Join \/ DestroyDerived \/ IoHappens \/ UNCHANGED vars
      PROVE  UNCHANGED <<embed, timeout, timer, call, nextTick>>
  BY <1>14 DEF vars, StartWatcher, StopWatcher, RunTicks, RunMessageLoop, RunTask,
         OnCallNextTick, UvRunEnds, UvSemPost, CloseEmbed, PostToClosed, WakeClosed,
         Join, DestroyDerived, IoHappens, threads, clock, watcher, nextTicks
<1> QED
  BY <1>1, <1>2, <1>3, <1>4, <1>5, <1>6, <1>7, <1>8, <1>9, <1>10, <1>11, <1>12, <1>13,
         <1>14
  DEF Next, Scripts, Main, Embed, World

-----------------------------------------------------------------------------
(* The invariant of both threads holds in every reachable state, however   *)
(* many contexts run the loop.                                             *)
THEOREM NodeCorrect == Spec => []NodeInv
<1>1. Init => NodeInv
  <2> SUFFICES ASSUME Init PROVE NodeInv
    OBVIOUS
  <2>1. TypeOK
    BY TypeInit
  <2>2. PermissionsBounded
    BY DEF Init, PermissionsBounded, Permissions, One, Polling, Posted, InUvRun
  <2>3. Closing /\ PendingIsComing /\ TimeoutAsked
    BY DEF Init, Closing, Destroying, PendingIsComing, TimeoutAsked
  <2>4. WatcherKnown
    BY DEF Init, WatcherKnown
  <2> QED
    BY <2>1, <2>2, <2>3, <2>4 DEF NodeInv
<1>2. NodeInv /\ [Next]_vars => NodeInv'
  BY TypeStep, PermissionsStep, ClosingStep, PendingStep, AskedStep, WatcherStep DEF
         NodeInv
<1> QED
  BY <1>1, <1>2, PTL DEF Spec

(* The early return of ActivateUVLoop never loses a wake-up: a listed      *)
(* environment has its handle sent, or is being called.                    *)
THEOREM PendingComes == Spec => []PendingIsComing
<1>1. NodeInv => PendingIsComing
  BY DEF NodeInv
<1> QED
  BY <1>1, NodeCorrect, PTL

(* Where one context runs the loop, as in the browser process, the embed   *)
(* thread and the main thread take turns.                                  *)
THEOREM TurnsAlternateCorrect == ASSUME Contexts = 1 PROVE Spec => []TurnsAlternate
<1>1. NodeInv => TurnsAlternate
  BY OneTurn
<1> QED
  BY <1>1, NodeCorrect, PTL

(* Under the same condition PollEvents does not sleep over a watcher it    *)
(* does not know ...                                                       *)
THEOREM WatchersSeen == ASSUME Contexts = 1 PROVE Spec => []NoSleepPastWatcher
<1>1. NodeInv => NoSleepPastWatcher
  <2> SUFFICES ASSUME NodeInv, embed = "epoll", watch = "queued" PROVE dummy
    BY DEF NoSleepPastWatcher, Readable
  <2>1. main \notin InUvRun /\ runs > 0
    BY OneTurn DEF Polling, Apart
  <2> QED
    BY <2>1 DEF NodeInv, WatcherKnown, InUvRun
<1> QED
  BY <1>1, NodeCorrect, PTL

(* ... nor past a timer that was set after it computed its timeout.        *)
THEOREM TimersSeen == ASSUME Contexts = 1 PROVE Spec => []NoSleepPastTimer
<1>1. Init => SleeperAsked
  BY DEF Init, SleeperAsked
<1>2. NodeInv /\ SleeperAsked /\ [Next]_vars => SleeperAsked'
  BY OneTurn, SleeperStep DEF NodeInv
<1>3. SleeperAsked => NoSleepPastTimer
  BY DEF SleeperAsked, NoSleepPastTimer, Readable
<1> QED
  BY <1>1, <1>2, <1>3, NodeCorrect, PTL DEF Spec

-----------------------------------------------------------------------------
(* Archives: Asar.                                                         *)

(* A set of natural numbers with zero and the successors of its members.   *)
LEMMA SetInduction ==
  ASSUME NEW S, 0 \in S, \A n \in Nat : n \in S => n + 1 \in S
  PROVE  \A n \in Nat : n \in S
<1> DEFINE T == Nat \ S
<1> SUFFICES ASSUME T # {} PROVE FALSE
  OBVIOUS
<1>1. PICK x \in T : \A y \in T : ~ (<<y, x>> \in OpToRel(<, Nat))
  BY NatLessThanWellFounded, WFMin, Zenon
<1>2. \A y \in T : ~ (y < x)
  BY <1>1 DEF OpToRel
<1>3. x - 1 \in Nat /\ x - 1 \in S
  BY <1>2
<1> QED
  BY <1>3

(* The recursion that defines the places a path is rewritten to.           *)
LEMMA RewrittenIs ==
  ASSUME NEW root, NEW path, Len(path) \in Nat
  PROVE  Rewritten(root, path) =
           [n \in 0..Len(path) |->
              IF n = 0 THEN path ELSE Follow(root, Rewritten(root, path)[n - 1])]
<1> DEFINE Is(a, m) == a = [n \in 0..m |-> IF n = 0 THEN path ELSE Follow(root, a[n - 1])]
           S == {m \in Nat : \E a : Is(a, m)}
<1>1. 0 \in S
  <2>1. Is([n \in 0..0 |-> path], 0)
    OBVIOUS
  <2> QED
    BY <2>1
<1>2. ASSUME NEW m \in Nat, m \in S PROVE m + 1 \in S
  <2>1. PICK a : Is(a, m)
    BY <1>2
  <2> DEFINE b == [n \in 0..m + 1 |-> IF n = m + 1 THEN Follow(root, a[m]) ELSE a[n]]
  <2>2. Is(b, m + 1)
    BY <2>1
  <2> QED
    <3> HIDE DEF b, Is
    <3> QED
      BY <2>2
<1>3. Len(path) \in S
  <2> HIDE DEF S
  <2> QED
    BY <1>1, <1>2, SetInduction
<1>4. PICK a : a = [n \in 0..Len(path) |-> IF n = 0 THEN path ELSE Follow(root, a[n - 1])]
  BY <1>3
<1> QED
  BY <1>4 DEF Rewritten

-----------------------------------------------------------------------------
(* Paths are sequences.                                                    *)

LEMMA Slice ==
  ASSUME NEW p \in Seq(Names), NEW m \in 1..Len(p) + 1, NEW n \in 0..Len(p)
  PROVE  /\ SubSeq(p, m, n) \in Seq(Names)
         /\ Len(SubSeq(p, m, n)) = IF m <= n THEN n - m + 1 ELSE 0
         /\ \A i \in 1..n - m + 1 : SubSeq(p, m, n)[i] = p[m + i - 1]
<1>1. \A i \in m..n : p[i] \in Names
  OBVIOUS
<1> QED
  BY <1>1, SubSeqProperties

LEMMA Beginning ==
  ASSUME NEW p \in Seq(Names), NEW n \in 0..Len(p)
  PROVE  /\ SubSeq(p, 1, n) \in Seq(Names) /\ Len(SubSeq(p, 1, n)) = n
         /\ \A i \in 1..n : SubSeq(p, 1, n)[i] = p[i]
<1>0. Len(p) \in Nat /\ n \in Nat /\ 1 \in 1..Len(p) + 1
  OBVIOUS
<1>1. /\ SubSeq(p, 1, n) \in Seq(Names)
      /\ Len(SubSeq(p, 1, n)) = IF 1 <= n THEN n - 1 + 1 ELSE 0
      /\ \A i \in 1..n - 1 + 1 : SubSeq(p, 1, n)[i] = p[1 + i - 1]
  BY <1>0, Slice
<1>2. ASSUME NEW i \in 1..n PROVE SubSeq(p, 1, n)[i] = p[i]
  <2>1. i \in 1..n - 1 + 1 /\ 1 + i - 1 = i
    BY <1>0
  <2> QED
    BY <1>1, <2>1
<1> QED
  BY <1>0, <1>1, <1>2

LEMMA Rest ==
  ASSUME NEW p \in Seq(Names), NEW k \in 0..Len(p)
  PROVE  /\ SubSeq(p, k + 1, Len(p)) \in Seq(Names)
         /\ Len(SubSeq(p, k + 1, Len(p))) = Len(p) - k
         /\ \A i \in 1..Len(p) - k : SubSeq(p, k + 1, Len(p))[i] = p[k + i]
<1>0. Len(p) \in Nat /\ k \in Nat /\ k + 1 \in 1..Len(p) + 1 /\ Len(p) \in 0..Len(p)
  OBVIOUS
<1>1. /\ SubSeq(p, k + 1, Len(p)) \in Seq(Names)
      /\ Len(SubSeq(p, k + 1, Len(p))) = IF k + 1 <= Len(p) THEN Len(p) - (k + 1) + 1 ELSE 0
      /\ \A i \in 1..Len(p) - (k + 1) + 1 : SubSeq(p, k + 1, Len(p))[i] = p[(k + 1) + i - 1]
  BY <1>0, Slice
<1>2. ASSUME NEW i \in 1..Len(p) - k PROVE SubSeq(p, k + 1, Len(p))[i] = p[k + i]
  <2>1. i \in 1..Len(p) - (k + 1) + 1 /\ (k + 1) + i - 1 = k + i
    BY <1>0
  <2> QED
    BY <1>1, <2>1
<1> QED
  BY <1>0, <1>1, <1>2

LEMMA PrefixOfPrefix ==
  ASSUME NEW p \in Seq(Names), NEW m \in 0..Len(p), NEW k \in 0..m
  PROVE  SubSeq(SubSeq(p, 1, m), 1, k) = SubSeq(p, 1, k)
<1> DEFINE q == SubSeq(p, 1, m)
<1>1. q \in Seq(Names) /\ Len(q) = m /\ \A i \in 1..m : q[i] = p[i]
  BY Beginning
<1> HIDE DEF q
<1>2. SubSeq(q, 1, k) \in Seq(Names) /\ Len(SubSeq(q, 1, k)) = k
        /\ \A i \in 1..k : SubSeq(q, 1, k)[i] = q[i]
  BY <1>1, Beginning
<1>3. SubSeq(p, 1, k) \in Seq(Names) /\ Len(SubSeq(p, 1, k)) = k
        /\ \A i \in 1..k : SubSeq(p, 1, k)[i] = p[i]
  BY Beginning
<1>4. SubSeq(q, 1, k) = SubSeq(p, 1, k)
  BY <1>1, <1>2, <1>3, SeqEqual
<1> QED
  BY <1>4 DEF q

LEMMA FrontOf ==
  ASSUME NEW p \in Seq(Names), p # <<>>
  PROVE  /\ Len(p) \in Nat \ {0}
         /\ Front(p) = SubSeq(p, 1, Len(p) - 1)
         /\ Front(p) \in Seq(Names) /\ Len(Front(p)) = Len(p) - 1
         /\ Last(p) \in Names /\ p = Append(Front(p), Last(p))
<1>1. Len(p) \in Nat \ {0}
  BY EmptySeq
<1>2. Front(p) = SubSeq(p, 1, Len(p) - 1)
  BY DEF Front
<1>3. Front(p) \in Seq(Names) /\ Len(Front(p)) = Len(p) - 1
        /\ \A i \in 1..Len(p) - 1 : Front(p)[i] = p[i]
  <2>1. Len(p) - 1 \in 0..Len(p)
    BY <1>1
  <2> QED
    BY <2>1, <1>2, Beginning
<1>4. Last(p) \in Names
  BY <1>1 DEF Last
<1>5. p = Append(Front(p), Last(p))
  <2> DEFINE q == Append(Front(p), Last(p))
  <2>1. q \in Seq(Names) /\ Len(q) = Len(p)
    BY <1>1, <1>3, <1>4
  <2>2. \A i \in 1..Len(p) : p[i] = q[i]
    BY <1>1, <1>3, <1>4 DEF Last
  <2> QED
    BY <2>1, <2>2, SeqEqual
<1> QED
  BY <1>1, <1>2, <1>3, <1>4, <1>5

LEMMA AppendTo ==
  ASSUME NEW p \in Seq(Names), NEW name \in Names
  PROVE  /\ Append(p, name) \in Seq(Names) /\ Append(p, name) # <<>>
         /\ Len(Append(p, name)) = Len(p) + 1
         /\ \A k \in 0..Len(p) : SubSeq(Append(p, name), 1, k) = SubSeq(p, 1, k)
         /\ SubSeq(p, 1, Len(p)) = p
         /\ Front(Append(p, name)) = p /\ Last(Append(p, name)) = name
<1> DEFINE q == Append(p, name)
<1>1. q \in Seq(Names) /\ q # <<>> /\ Len(q) = Len(p) + 1 /\ q[Len(p) + 1] = name
        /\ \A i \in 1..Len(p) : q[i] = p[i]
  OBVIOUS
<1> HIDE DEF q
<1>2. ASSUME NEW k \in 0..Len(p) PROVE SubSeq(q, 1, k) = SubSeq(p, 1, k)
  <2>1. SubSeq(q, 1, k) \in Seq(Names) /\ Len(SubSeq(q, 1, k)) = k
          /\ \A i \in 1..k : SubSeq(q, 1, k)[i] = q[i]
    BY <1>1, Beginning
  <2>2. SubSeq(p, 1, k) \in Seq(Names) /\ Len(SubSeq(p, 1, k)) = k
          /\ \A i \in 1..k : SubSeq(p, 1, k)[i] = p[i]
    BY Beginning
  <2> QED
    BY <1>1, <2>1, <2>2, SeqEqual
<1>3. SubSeq(p, 1, Len(p)) = p
  BY SubSeqFull
<1>4. Front(q) = p /\ Last(q) = name
  BY <1>1, <1>2, <1>3 DEF Front, Last
<1> QED
  BY <1>1, <1>2, <1>3, <1>4 DEF q

LEMMA Associative ==
  \A u, v, w \in Seq(Names) : (u \o v) \o w = u \o (v \o w)
  BY ConcatAssociative

(* What follows the first k names, after another beginning.                *)
LEMMA AppendToRest ==
  ASSUME NEW p \in Seq(Names), NEW name \in Names, NEW t \in Seq(Names), NEW k \in 1..Len(p)
  PROVE  /\ t \o SubSeq(p, k + 1, Len(p)) \in Seq(Names)
         /\ t \o SubSeq(Append(p, name), k + 1, Len(p) + 1)
              = Append(t \o SubSeq(p, k + 1, Len(p)), name)
<1> DEFINE q == Append(p, name)
           a == SubSeq(p, k + 1, Len(p))
           b == SubSeq(q, k + 1, Len(p) + 1)
<1>1. /\ q \in Seq(Names) /\ Len(q) = Len(p) + 1 /\ q[Len(p) + 1] = name
      /\ q = p \o <<name>> /\ <<name>> \in Seq(Names)
      /\ Len(p) \in Nat /\ k + 1 \in 1..Len(q) /\ Len(p) + 1 \in k + 1..Len(q)
  BY AppendIsConcat
<1>2. a \in Seq(Names)
  <2>1. k \in 0..Len(p)
    OBVIOUS
  <2> QED
    BY <2>1, Rest
<1> HIDE DEF q
<1>3. b = SubSeq(q, k + 1, Len(p)) \o <<name>>
  <2>1. b = SubSeq(q, k + 1, (Len(p) + 1) - 1) \o <<q[Len(p) + 1]>>
    BY <1>1, SubSeqRecursiveSecond
  <2>2. (Len(p) + 1) - 1 = Len(p)
    BY <1>1
  <2> QED
    BY <2>1, <2>2, <1>1
<1>4. SubSeq(q, k + 1, Len(p)) = a
  <2>1. CASE k = Len(p)
    <3>1. SubSeq(q, k + 1, Len(p)) = <<>> /\ a = <<>>
      BY <2>1, <1>1, SubSeqEmpty
    <3> QED
      BY <3>1
  <2>2. CASE k # Len(p)
    <3>1. k + 1 \in 1..Len(p) /\ Len(p) \in 1..Len(p)
      BY <2>2, <1>1
    <3> QED
      BY <3>1, <1>1, SubSeqOfConcat1
  <2> QED
    BY <2>1, <2>2
<1> HIDE DEF a, b
<1>5. t \o a \in Seq(Names) /\ t \o b = (t \o a) \o <<name>>
  <2>1. t \o a \in Seq(Names)
    BY <1>2, ConcatProperties
  <2>2. (t \o a) \o <<name>> = t \o (a \o <<name>>)
    <3>1. t \in Seq(Names) /\ a \in Seq(Names) /\ <<name>> \in Seq(Names)
      BY <1>1, <1>2
    <3> QED
      BY ONLY <3>1, Associative, Zenon
  <2> QED
    BY <2>1, <2>2, <1>3, <1>4
<1>6. t \o b = Append(t \o a, name)
  BY <1>5, AppendIsConcat
<1> QED
  BY <1>5, <1>6 DEF a, b, q

-----------------------------------------------------------------------------
(* Places of an archive, and the links on the way of a path.               *)

Clean(root, p) == Links(root, p) = {}

LEMMA ArchiveFacts ==
  ASSUME NEW root \in Archives
  PROVE  /\ DOMAIN root \subseteq Seq(Names)
         /\ <<>> \in DOMAIN root /\ root[<<>>].kind = "dir"
         /\ \A p \in DOMAIN root : p # <<>> =>
              /\ root[p].kind \in Kinds
              /\ Front(p) \in DOMAIN root /\ root[Front(p)].kind = "dir"
         /\ \A p \in DOMAIN root : root[p].kind = "link" =>
              root[p].to \in DOMAIN root /\ root[root[p].to].kind # "link"
  BY ArchiveAssumption

(* What is before a place in the archive is a directory: no links there.   *)
LEMMA PlaceIsInDirectories ==
  ASSUME NEW root \in Archives, NEW p \in DOMAIN root, NEW k \in 0..Len(p), k # Len(p)
  PROVE  SubSeq(p, 1, k) \in DOMAIN root /\ root[SubSeq(p, 1, k)].kind = "dir"
<1> DEFINE Dir(q) == q \in DOMAIN root /\ root[q].kind = "dir"
           S == {j \in Nat : j + 1 <= Len(p) => Dir(SubSeq(p, 1, Len(p) - (j + 1)))}
<1>1. p \in Seq(Names) /\ Len(p) \in Nat /\ k \in Nat /\ k < Len(p)
  BY ArchiveFacts
<1>2. p # <<>>
  BY <1>1
<1>3. 0 \in S
  <2>1. Front(p) = SubSeq(p, 1, Len(p) - 1) /\ Dir(Front(p))
    BY <1>1, <1>2, FrontOf, ArchiveFacts
  <2> QED
    BY <2>1
<1>4. ASSUME NEW j \in Nat, j \in S PROVE j + 1 \in S
  <2> SUFFICES ASSUME (j + 1) + 1 <= Len(p)
               PROVE  Dir(SubSeq(p, 1, Len(p) - ((j + 1) + 1)))
    OBVIOUS
  <2> DEFINE m == Len(p) - (j + 1)
             q == SubSeq(p, 1, m)
  <2>1. m \in 1..Len(p) /\ m - 1 = Len(p) - ((j + 1) + 1) /\ m - 1 \in 0..m
    BY <1>1
  <2>2. Dir(q)
    BY <1>1, <1>4
  <2> HIDE DEF m
  <2>3. q \in Seq(Names) /\ Len(q) = m
    BY <1>1, <2>1, Beginning
  <2>4. SubSeq(q, 1, m - 1) = SubSeq(p, 1, m - 1)
    BY <1>1, <2>1, PrefixOfPrefix
  <2> HIDE DEF q
  <2>5. q # <<>>
    BY <2>1, <2>3
  <2>6. Front(q) = SubSeq(q, 1, m - 1) /\ Dir(Front(q))
    BY <2>2, <2>3, <2>5, FrontOf, ArchiveFacts
  <2> QED
    BY <2>1, <2>4, <2>6
<1>5. \A j \in Nat : j \in S
  <2> HIDE DEF S
  <2> QED
    BY <1>3, <1>4, SetInduction
<1>6. Len(p) - k - 1 \in S /\ Len(p) - k - 1 \in Nat
  <2>1. Len(p) - k - 1 \in Nat
    BY <1>1
  <2> HIDE DEF S
  <2> QED
    BY <1>5, <2>1
<1>7. (Len(p) - k - 1) + 1 <= Len(p) /\ Len(p) - ((Len(p) - k - 1) + 1) = k
  BY <1>1
<1> HIDE DEF Dir
<1>8. Dir(SubSeq(p, 1, k))
  BY <1>6, <1>7
<1> QED
  BY <1>8 DEF Dir

LEMMA PlaceIsClean ==
  ASSUME NEW root \in Archives, NEW p \in DOMAIN root, root[p].kind # "link"
  PROVE  Clean(root, p)
<1>1. p \in Seq(Names) /\ Len(p) \in Nat
  BY ArchiveFacts
<1>2. SubSeq(p, 1, Len(p)) = p
  BY <1>1, SubSeqFull
<1>3. ASSUME NEW k \in 1..Len(p) PROVE ~IsLink(root, SubSeq(p, 1, k))
  <2>1. CASE k = Len(p)
    BY <1>2, <2>1 DEF IsLink
  <2>2. CASE k # Len(p)
    <3>1. k \in 0..Len(p)
      BY <1>1
    <3>2. root[SubSeq(p, 1, k)].kind = "dir"
      BY <2>2, <3>1, PlaceIsInDirectories
    <3> QED
      BY <3>2 DEF IsLink
  <2> QED
    BY <2>1, <2>2
<1> QED
  BY <1>3 DEF Clean, Links

LEMMA TargetIsClean ==
  ASSUME NEW root \in Archives, NEW p, IsLink(root, p)
  PROVE  /\ root[p].to \in DOMAIN root /\ root[p].to \in Seq(Names)
         /\ root[root[p].to].kind # "link" /\ Clean(root, root[p].to)
<1>1. root[p].to \in DOMAIN root /\ root[p].to \in Seq(Names) /\ root[root[p].to].kind # "link"
  BY ArchiveFacts DEF IsLink
<1> QED
  BY <1>1, PlaceIsClean

-----------------------------------------------------------------------------
(* One rewriting.                                                          *)

LEMMA FollowClean ==
  ASSUME NEW root, NEW p, Clean(root, p)
  PROVE  Follow(root, p) = p
  BY DEF Follow, Clean

(* A set of numbers has one least member.                                  *)
LEMMA LeastOf ==
  ASSUME NEW T, T \subseteq Nat, T # {}
  PROVE  \E k \in T : (\A l \in T : k <= l) /\ k = CHOOSE m \in T : \A l \in T : m <= l
<1>1. PICK k \in T : \A y \in T : ~ (<<y, k>> \in OpToRel(<, Nat))
  BY NatLessThanWellFounded, WFMin, Zenon
<1>2. ASSUME NEW l \in T PROVE k <= l
  <2>1. ~ (l < k)
    <3>1. l < k => <<l, k>> \in OpToRel(<, Nat)
      BY DEF OpToRel
    <3>2. <<l, k>> \notin OpToRel(<, Nat)
      BY <1>1, Zenon
    <3> QED
      BY <3>1, <3>2, Zenon
  <2> QED
    BY <2>1
<1>3. \A m \in T : (\A l \in T : m <= l) => m = k
  BY <1>2
<1> QED
  BY <1>2, <1>3

LEMMA FollowLink ==
  ASSUME NEW root \in Archives, NEW p \in Seq(Names), ~Clean(root, p)
  PROVE  \E k \in Links(root, p) :
           /\ \A l \in Links(root, p) : k <= l
           /\ k \in 1..Len(p) /\ IsLink(root, SubSeq(p, 1, k))
           /\ Follow(root, p) = root[SubSeq(p, 1, k)].to \o SubSeq(p, k + 1, Len(p))
<1> DEFINE T == Links(root, p)
<1>1. T \subseteq Nat /\ T # {}
  BY DEF Links, Clean
<1>2. PICK k \in T : (\A l \in T : k <= l) /\ k = CHOOSE m \in T : \A l \in T : m <= l
  <2> HIDE DEF T
  <2> QED
    BY <1>1, LeastOf
<1>3. Follow(root, p) = root[SubSeq(p, 1, k)].to \o SubSeq(p, k + 1, Len(p))
  BY <1>1, <1>2 DEF Follow
<1>4. k \in 1..Len(p) /\ IsLink(root, SubSeq(p, 1, k))
  BY <1>2 DEF Links
<1> QED
  BY <1>2, <1>3, <1>4

LEMMA FollowTyped ==
  ASSUME NEW root \in Archives, NEW p \in Seq(Names)
  PROVE  Follow(root, p) \in Seq(Names)
<1>1. CASE Clean(root, p)
  BY <1>1, FollowClean
<1>2. CASE ~Clean(root, p)
  <2>1. PICK k \in Links(root, p) :
           /\ k \in 1..Len(p) /\ IsLink(root, SubSeq(p, 1, k))
           /\ Follow(root, p) = root[SubSeq(p, 1, k)].to \o SubSeq(p, k + 1, Len(p))
    BY <1>2, FollowLink
  <2>2. k \in 0..Len(p)
    BY <2>1
  <2>3. SubSeq(p, k + 1, Len(p)) \in Seq(Names) /\ root[SubSeq(p, 1, k)].to \in Seq(Names)
    BY <2>1, <2>2, Rest, TargetIsClean
  <2> QED
    BY <2>1, <2>3, ConcatProperties
<1> QED
  BY <1>1, <1>2

(* The links on the way of a longer path.                                  *)
LEMMA LinksOfAppend ==
  ASSUME NEW root, NEW p \in Seq(Names), NEW name \in Names
  PROVE  Links(root, Append(p, name)) =
           Links(root, p) \cup {k \in {Len(p) + 1} : IsLink(root, Append(p, name))}
<1> DEFINE q == Append(p, name)
<1>1. /\ q \in Seq(Names) /\ Len(q) = Len(p) + 1 /\ Len(p) \in Nat
      /\ \A k \in 0..Len(p) : SubSeq(q, 1, k) = SubSeq(p, 1, k)
  BY AppendTo
<1> HIDE DEF q
<1>2. SubSeq(q, 1, Len(p) + 1) = q
  BY <1>1, SubSeqFull
<1>3. ASSUME NEW k \in 1..Len(p) PROVE SubSeq(q, 1, k) = SubSeq(p, 1, k)
  BY <1>1
<1>4. 1..Len(q) = 1..Len(p) \cup {Len(p) + 1}
  BY <1>1
<1>5. Links(root, q) = Links(root, p) \cup {k \in {Len(p) + 1} : IsLink(root, q)}
  BY <1>2, <1>3, <1>4 DEF Links
<1> QED
  BY <1>5 DEF q

(* A link on the way is followed as if the last name were not there.       *)
LEMMA FollowBefore ==
  ASSUME NEW root \in Archives, NEW p \in Seq(Names), NEW name \in Names, ~Clean(root, p)
  PROVE  Follow(root, Append(p, name)) = Append(Follow(root, p), name)
<1> DEFINE q == Append(p, name)
<1>1. PICK k \in Links(root, p) :
           /\ \A l \in Links(root, p) : k <= l
           /\ k \in 1..Len(p) /\ IsLink(root, SubSeq(p, 1, k))
           /\ Follow(root, p) = root[SubSeq(p, 1, k)].to \o SubSeq(p, k + 1, Len(p))
  BY FollowLink
<1>2. /\ q \in Seq(Names) /\ Len(q) = Len(p) + 1 /\ Len(p) \in Nat
      /\ SubSeq(q, 1, k) = SubSeq(p, 1, k)
  <2>1. k \in 0..Len(p)
    BY <1>1
  <2> QED
    BY <2>1, AppendTo
<1>3. root[SubSeq(p, 1, k)].to \o SubSeq(q, k + 1, Len(q))
        = Append(root[SubSeq(p, 1, k)].to \o SubSeq(p, k + 1, Len(p)), name)
  <2> DEFINE t == root[SubSeq(p, 1, k)].to
  <2>1. t \in Seq(Names) /\ k \in 1..Len(p)
    BY <1>1, TargetIsClean
  <2> HIDE DEF t
  <2>2. t \o SubSeq(q, k + 1, Len(p) + 1) = Append(t \o SubSeq(p, k + 1, Len(p)), name)
    BY <2>1, AppendToRest
  <2> QED
    BY <2>2, <1>2 DEF t
<1>4. Links(root, q) = Links(root, p) \cup {l \in {Len(p) + 1} : IsLink(root, q)}
  BY LinksOfAppend
<1> HIDE DEF q
<1>5. PICK j \in Links(root, q) :
           /\ \A l \in Links(root, q) : j <= l
           /\ Follow(root, q) = root[SubSeq(q, 1, j)].to \o SubSeq(q, j + 1, Len(q))
  <2>1. ~Clean(root, q)
    BY <1>4, <1>1 DEF Clean
  <2> QED
    BY <2>1, <1>2, FollowLink
<1>6. j = k
  <2>1. k \in Links(root, q) /\ Links(root, p) \subseteq 1..Len(p)
    BY <1>1, <1>4 DEF Links
  <2>2. j <= k
    BY <2>1, <1>5
  <2>3. j \in Links(root, p)
    BY <2>1, <2>2, <1>1, <1>2, <1>4
  <2> QED
    BY <2>1, <2>2, <2>3, <1>1, <1>2
<1> QED
  BY <1>1, <1>2, <1>3, <1>5, <1>6 DEF q

(* A path without a link on the way to its last name.                      *)
LEMMA FollowLast ==
  ASSUME NEW root \in Archives, NEW p \in Seq(Names), NEW name \in Names, Clean(root, p)
  PROVE  LET q == Append(p, name)
             r == IF IsLink(root, q) THEN root[q].to ELSE q
         IN  Follow(root, q) = r /\ Clean(root, r) /\ r \in Seq(Names)
<1> DEFINE q == Append(p, name)
<1>1. q \in Seq(Names) /\ Len(q) = Len(p) + 1 /\ Len(p) \in Nat
  BY AppendTo
<1>2. Links(root, q) = {l \in {Len(p) + 1} : IsLink(root, q)}
  BY LinksOfAppend DEF Clean
<1> HIDE DEF q
<1>3. CASE IsLink(root, q)
  <2>1. ~Clean(root, q)
    BY <1>2, <1>3 DEF Clean
  <2>2. PICK j \in Links(root, q) :
             Follow(root, q) = root[SubSeq(q, 1, j)].to \o SubSeq(q, j + 1, Len(q))
    BY <1>1, <2>1, FollowLink
  <2>3. j = Len(q)
    BY <2>2, <1>1, <1>2
  <2>4. SubSeq(q, 1, Len(q)) = q
    BY <1>1, SubSeqFull
  <2>5. SubSeq(q, Len(q) + 1, Len(q)) = <<>>
    BY <1>1, SubSeqEmpty
  <2>6. root[q].to \in Seq(Names) /\ Clean(root, root[q].to)
    BY <1>3, TargetIsClean
  <2>7. root[q].to \o <<>> = root[q].to
    BY <2>6, ConcatEmptySeq
  <2> QED
    BY <1>3, <2>2, <2>3, <2>4, <2>5, <2>6, <2>7 DEF q
<1>4. CASE ~IsLink(root, q)
  <2>1. Clean(root, q)
    BY <1>2, <1>4 DEF Clean
  <2> QED
    BY <1>1, <1>4, <2>1, FollowClean DEF q
<1> QED
  BY <1>3, <1>4

-----------------------------------------------------------------------------
(* The reference: where a path leads.                                      *)

LEMMA RewrittenSteps ==
  ASSUME NEW root \in Archives, NEW p \in Seq(Names)
  PROVE  /\ Rewritten(root, p)[0] = p
         /\ \A i \in Nat : i + 1 <= Len(p) =>
              Rewritten(root, p)[i + 1] = Follow(root, Rewritten(root, p)[i])
<1> DEFINE A == Rewritten(root, p)
<1>1. Len(p) \in Nat
  OBVIOUS
<1>2. A = [n \in 0..Len(p) |-> IF n = 0 THEN p ELSE Follow(root, A[n - 1])]
  BY <1>1, RewrittenIs
<1> HIDE DEF A
<1>3. A[0] = p
  BY <1>1, <1>2
<1>4. ASSUME NEW i \in Nat, i + 1 <= Len(p) PROVE A[i + 1] = Follow(root, A[i])
  <2>1. i + 1 \in 0..Len(p) /\ i + 1 # 0 /\ (i + 1) - 1 = i
    BY <1>1, <1>4
  <2> QED
    BY <1>2, <2>1
<1> QED
  BY <1>3, <1>4 DEF A

(* Each rewriting leaves fewer names that may be links.                    *)
LEMMA FollowShrinks ==
  ASSUME NEW root \in Archives, NEW t \in Seq(Names), NEW s \in Seq(Names), Clean(root, t)
  PROVE  \E u, v \in Seq(Names) :
           /\ Follow(root, t \o s) = u \o v /\ Clean(root, u)
           /\ Len(v) = 0 \/ Len(v) + 1 <= Len(s)
<1> DEFINE p == t \o s
<1>1. p \in Seq(Names) /\ Len(p) = Len(t) + Len(s) /\ Len(t) \in Nat /\ Len(s) \in Nat
  BY ConcatProperties
<1>2. CASE Clean(root, p)
  <2> HIDE DEF p
  <2>1. Follow(root, p) = p /\ p \o <<>> = p /\ <<>> \in Seq(Names) /\ Len(<<>>) = 0
    BY <1>1, <1>2, FollowClean, ConcatEmptySeq
  <2>2. Follow(root, p) = p \o <<>> /\ Clean(root, p)
    BY <1>2, <2>1
  <2> QED
    BY <1>1, <2>1, <2>2 DEF p
<1>3. CASE ~Clean(root, p)
  <2>1. PICK k \in Links(root, p) :
           /\ k \in 1..Len(p) /\ IsLink(root, SubSeq(p, 1, k))
           /\ Follow(root, p) = root[SubSeq(p, 1, k)].to \o SubSeq(p, k + 1, Len(p))
    BY <1>1, <1>3, FollowLink
  <2>2. k > Len(t)
    <3> SUFFICES ASSUME k <= Len(t) PROVE FALSE
      BY <1>1, <2>1
    <3>1. k \in 1..Len(t) /\ 1 \in 1..Len(t)
      BY <1>1, <2>1
    <3>2. SubSeq(p, 1, k) = SubSeq(t, 1, k)
      BY <3>1, SubSeqOfConcat1
    <3> QED
      BY <2>1, <3>1, <3>2 DEF Clean, Links
  <2> DEFINE u == root[SubSeq(p, 1, k)].to
             v == SubSeq(p, k + 1, Len(p))
  <2>3. u \in Seq(Names) /\ Clean(root, u)
    BY <2>1, TargetIsClean
  <2>4. v \in Seq(Names) /\ Len(v) = Len(p) - k
    <3>1. k \in 0..Len(p)
      BY <2>1, <1>1
    <3> QED
      BY <3>1, <1>1, Rest
  <2>5. Follow(root, p) = u \o v
    BY <2>1
  <2> HIDE DEF u, v, p
  <2>6. Len(v) + 1 <= Len(s)
    BY <1>1, <2>1, <2>2, <2>4
  <2> QED
    BY <2>3, <2>4, <2>5, <2>6 DEF p
<1> QED
  BY <1>2, <1>3

LEMMA RewrittenShrinks ==
  ASSUME NEW root \in Archives, NEW p \in Seq(Names)
  PROVE  \A i \in Nat : i <= Len(p) =>
           \E t, s \in Seq(Names) :
             /\ Rewritten(root, p)[i] = t \o s /\ Clean(root, t)
             /\ Len(s) + i <= Len(p)
<1> DEFINE A == Rewritten(root, p)
           Split(i) == \E t, s \in Seq(Names) :
                         A[i] = t \o s /\ Clean(root, t) /\ Len(s) + i <= Len(p)
           S == {i \in Nat : i <= Len(p) => Split(i)}
<1>0. Len(p) \in Nat
  OBVIOUS
<1>1. 0 \in S
  <2>1. A[0] = <<>> \o p /\ <<>> \in Seq(Names)
    BY RewrittenSteps, ConcatEmptySeq
  <2>2. Clean(root, <<>>)
    BY DEF Clean, Links
  <2>3. Len(p) + 0 <= Len(p)
    BY <1>0
  <2> HIDE DEF A
  <2>4. Split(0)
    BY <2>1, <2>2, <2>3
  <2> HIDE DEF Split
  <2> QED
    BY <2>4
<1>2. ASSUME NEW i \in Nat, i \in S PROVE i + 1 \in S
  <2> SUFFICES ASSUME i + 1 <= Len(p) PROVE Split(i + 1)
    <3> HIDE DEF Split
    <3> QED
      OBVIOUS
  <2>1. i <= Len(p)
    BY <1>0
  <2>2. PICK t \in Seq(Names), s \in Seq(Names) :
          A[i] = t \o s /\ Clean(root, t) /\ Len(s) + i <= Len(p)
    BY <1>2, <2>1
  <2>3. A[i + 1] = Follow(root, A[i])
    BY RewrittenSteps
  <2>4. PICK u \in Seq(Names), v \in Seq(Names) :
           /\ Follow(root, t \o s) = u \o v /\ Clean(root, u)
           /\ Len(v) = 0 \/ Len(v) + 1 <= Len(s)
    BY <2>2, FollowShrinks
  <2>5. Len(v) + (i + 1) <= Len(p)
    <3>1. Len(v) \in Nat /\ Len(s) \in Nat
      OBVIOUS
    <3> QED
      BY <3>1, <1>0, <2>2, <2>4
  <2> HIDE DEF A
  <2> QED
    BY <2>2, <2>3, <2>4, <2>5
<1>3. \A i \in Nat : i \in S
  <2> HIDE DEF S
  <2> QED
    BY <1>1, <1>2, SetInduction
<1> QED
  BY <1>3

LEMMA RewrittenTyped ==
  ASSUME NEW root \in Archives, NEW p \in Seq(Names), NEW i \in Nat, i <= Len(p)
  PROVE  Rewritten(root, p)[i] \in Seq(Names)
<1>1. PICK t \in Seq(Names), s \in Seq(Names) : Rewritten(root, p)[i] = t \o s
  BY RewrittenShrinks
<1> QED
  BY <1>1, ConcatProperties

(* The reference is defined for every archive and path: after as many      *)
(* rewritings as the path has names no link is left on the way.            *)
THEOREM RealPathIsClean ==
  ASSUME NEW root \in Archives, NEW p \in Seq(Names)
  PROVE  RealPath(root, p) \in Seq(Names) /\ Clean(root, RealPath(root, p))
<1>1. Len(p) \in Nat
  OBVIOUS
<1>2. PICK t \in Seq(Names), s \in Seq(Names) :
        /\ Rewritten(root, p)[Len(p)] = t \o s /\ Clean(root, t)
        /\ Len(s) + Len(p) <= Len(p)
  <2>1. Len(p) <= Len(p)
    BY <1>1
  <2> QED
    BY <1>1, <2>1, RewrittenShrinks
<1>3. s = <<>>
  <2>1. Len(s) \in Nat /\ Len(s) = 0
    BY <1>1, <1>2
  <2> QED
    BY <2>1, EmptySeq
<1>4. t \o s = t
  BY <1>3, ConcatEmptySeq
<1> QED
  BY <1>2, <1>4 DEF RealPath

LEMMA RealPathOfRoot ==
  ASSUME NEW root \in Archives
  PROVE  RealPath(root, <<>>) = <<>>
<1>1. <<>> \in Seq(Names) /\ Len(<<>>) = 0
  OBVIOUS
<1>2. Rewritten(root, <<>>)[0] = <<>>
  BY <1>1, RewrittenSteps
<1> QED
  BY <1>1, <1>2 DEF RealPath

(* One more name is looked up where the path leads, and followed once.     *)
LEMMA RealPathOfAppend ==
  ASSUME NEW root \in Archives, NEW p \in Seq(Names), NEW name \in Names
  PROVE  LET q == Append(RealPath(root, p), name)
         IN  RealPath(root, Append(p, name)) = IF IsLink(root, q) THEN root[q].to ELSE q
<1> DEFINE A == Rewritten(root, p)
           B == Rewritten(root, Append(p, name))
           Final(a) == IF IsLink(root, Append(a, name)) THEN root[Append(a, name)].to
                       ELSE Append(a, name)
           Along(i) == \/ B[i] = Append(A[i], name)
                       \/ Clean(root, A[i]) /\ B[i] = Final(A[i])
           S == {i \in Nat : i <= Len(p) => Along(i)}
<1>0. Len(p) \in Nat /\ Append(p, name) \in Seq(Names) /\ Len(Append(p, name)) = Len(p) + 1
  BY AppendTo
<1>1. /\ A[0] = p /\ B[0] = Append(p, name)
      /\ \A i \in Nat : i + 1 <= Len(p) => A[i + 1] = Follow(root, A[i])
      /\ \A i \in Nat : i + 1 <= Len(p) + 1 => B[i + 1] = Follow(root, B[i])
      /\ \A i \in Nat : i <= Len(p) => A[i] \in Seq(Names)
  BY <1>0, RewrittenSteps, RewrittenTyped
<1>2. ASSUME NEW a \in Seq(Names)
      PROVE  /\ ~Clean(root, a) => Follow(root, Append(a, name)) = Append(Follow(root, a), name)
             /\ Clean(root, a) => /\ Follow(root, a) = a
                                  /\ Follow(root, Append(a, name)) = Final(a)
                                  /\ Follow(root, Final(a)) = Final(a)
  <2>1. ASSUME Clean(root, a)
        PROVE  Follow(root, Append(a, name)) = Final(a) /\ Clean(root, Final(a))
    BY <2>1, FollowLast
  <2> HIDE DEF Final
  <2> QED
    BY <2>1, FollowBefore, FollowClean
<1> HIDE DEF A, B, Final
<1>3. 0 \in S
  BY <1>1
<1>4. ASSUME NEW i \in Nat, i \in S PROVE i + 1 \in S
  <2> SUFFICES ASSUME i + 1 <= Len(p) PROVE Along(i + 1)
    OBVIOUS
  <2>1. i <= Len(p) /\ i + 1 <= Len(p) + 1
    BY <1>0
  <2>2. Along(i) /\ A[i] \in Seq(Names) /\ A[i + 1] = Follow(root, A[i])
          /\ B[i + 1] = Follow(root, B[i])
    BY <1>1, <1>4, <2>1
  <2> QED
    BY <1>2, <2>2
<1>5. Along(Len(p))
  <2>1. \A i \in Nat : i \in S
    <3> HIDE DEF S
    <3> QED
      BY <1>3, <1>4, SetInduction
  <2> QED
    BY <1>0, <2>1
<1>6. A[Len(p)] \in Seq(Names) /\ Clean(root, A[Len(p)])
  BY RealPathIsClean DEF RealPath, A
<1>7. B[Len(p) + 1] = Follow(root, B[Len(p)])
  BY <1>0, <1>1
<1>8. B[Len(p) + 1] = Final(A[Len(p)])
  BY <1>2, <1>5, <1>6, <1>7
<1> QED
  BY <1>0, <1>8 DEF RealPath, A, B, Final

-----------------------------------------------------------------------------
(* The code's search for a node: where the path leads up to its last name. *)

LEMMA PlaceIsItself ==
  ASSUME NEW root \in Archives, NEW p \in DOMAIN root, root[p].kind # "link"
  PROVE  p \in Seq(Names) /\ RealPath(root, p) = p /\ Entry(root, p) = p
<1>1. ASSUME NEW q \in Seq(Names), Clean(root, q) PROVE RealPath(root, q) = q
  <2> DEFINE A == Rewritten(root, q)
             S == {i \in Nat : i <= Len(q) => A[i] = q}
  <2>1. /\ A[0] = q /\ Len(q) \in Nat
        /\ \A i \in Nat : i + 1 <= Len(q) => A[i + 1] = Follow(root, A[i])
    BY RewrittenSteps
  <2>2. Follow(root, q) = q
    BY <1>1, FollowClean
  <2> HIDE DEF A
  <2>3. 0 \in S
    BY <2>1
  <2>4. ASSUME NEW i \in Nat, i \in S PROVE i + 1 \in S
    BY <2>1, <2>2, <2>4
  <2>5. \A i \in Nat : i \in S
    <3> HIDE DEF S
    <3> QED
      BY <2>3, <2>4, SetInduction
  <2>6. A[Len(q)] = q
    BY <2>1, <2>5
  <2> QED
    BY <2>6 DEF A, RealPath
<1>2. p \in Seq(Names) /\ Clean(root, p)
  BY PlaceIsClean, ArchiveFacts
<1>3. CASE p = <<>>
  BY <1>1, <1>2, <1>3 DEF Entry
<1>4. CASE p # <<>>
  <2>1. Front(p) \in DOMAIN root /\ root[Front(p)].kind = "dir" /\ Front(p) \in Seq(Names)
          /\ p = Append(Front(p), Last(p))
    BY <1>2, <1>4, FrontOf, ArchiveFacts
  <2>2. RealPath(root, Front(p)) = Front(p)
    BY <1>1, <2>1, PlaceIsClean
  <2>3. Entry(root, p) = p
    BY <1>4, <2>1, <2>2 DEF Entry
  <2> QED
    BY <1>1, <1>2, <2>3
<1> QED
  BY <1>3, <1>4

(* An entry leads where its link names, or to itself.                      *)
LEMMA EntryLeads ==
  ASSUME NEW root \in Archives, NEW p \in Seq(Names)
  PROVE  /\ Entry(root, p) \in Seq(Names)
         /\ RealPath(root, p) = IF IsLink(root, Entry(root, p)) THEN root[Entry(root, p)].to
                                ELSE Entry(root, p)
<1>1. CASE p = <<>>
  BY <1>1, RealPathOfRoot, ArchiveFacts DEF Entry, IsLink
<1>2. CASE p # <<>>
  <2>1. Front(p) \in Seq(Names) /\ Last(p) \in Names /\ p = Append(Front(p), Last(p))
    BY <1>2, FrontOf
  <2>2. Entry(root, p) = Append(RealPath(root, Front(p)), Last(p))
    BY <1>2 DEF Entry
  <2>3. RealPath(root, Append(Front(p), Last(p))) =
          IF IsLink(root, Entry(root, p)) THEN root[Entry(root, p)].to ELSE Entry(root, p)
    BY <2>1, <2>2, RealPathOfAppend
  <2>4. Entry(root, p) \in Seq(Names)
    BY <2>1, <2>2, RealPathIsClean, AppendTo
  <2> QED
    BY <2>1, <2>3, <2>4
<1> QED
  BY <1>1, <1>2

(* What GetNodeFromPath does for one name more.                            *)
NodeStep(root, nodes, path) ==
  IF path = <<>> THEN {<<>>}
  ELSE UNION {GetChildNode(root, nodes, Last(path), dir) : dir \in nodes[Front(path)]}

Found(root, path) == {Entry(root, path)} \cap DOMAIN root

LEMMA NodeStepFinds ==
  ASSUME NEW root \in Archives, NEW nodes, NEW p \in Seq(Names),
         \A t \in DOMAIN root : root[t].kind # "link" => nodes[t] = {t},
         p # <<>> => nodes[Front(p)] = Found(root, Front(p))
  PROVE  NodeStep(root, nodes, p) = Found(root, p)
<1>1. CASE p = <<>>
  BY <1>1, ArchiveFacts DEF NodeStep, Found, Entry
<1>2. CASE p # <<>>
  <2> DEFINE f == Front(p)
             name == Last(p)
             e == Entry(root, f)
             r == RealPath(root, f)
             q == Append(r, name)
  <2>1. f \in Seq(Names) /\ name \in Names
    BY <1>2, FrontOf
  <2>2. r \in Seq(Names) /\ e \in Seq(Names)
          /\ r = IF IsLink(root, e) THEN root[e].to ELSE e
    <3> HIDE DEF f
    <3> QED
      BY <2>1, EntryLeads, RealPathIsClean
  <2>3. Entry(root, p) = q
    BY <1>2 DEF Entry
  <2>4. q # <<>> /\ Front(q) = r
    <3> HIDE DEF f, r, name
    <3> QED
      BY <2>1, <2>2, AppendTo
  <2>5. q \in DOMAIN root => r \in DOMAIN root /\ root[r].kind = "dir"
    <3> HIDE DEF q
    <3> QED
      BY <2>4, ArchiveFacts
  <2>6. NodeStep(root, nodes, p) =
          UNION {GetChildNode(root, nodes, name, dir) : dir \in {e} \cap DOMAIN root}
    BY <1>2 DEF NodeStep, Found
  <2> HIDE DEF f, name, e, r
  <2>7. CASE e \notin DOMAIN root
    <3>1. r = e
      BY <2>2, <2>7 DEF IsLink
    <3>2. q \notin DOMAIN root
      BY <2>5, <2>7, <3>1
    <3> HIDE DEF q
    <3>3. {e} \cap DOMAIN root = {} /\ Found(root, p) = {}
      BY <2>3, <2>7, <3>2 DEF Found
    <3> QED
      BY <2>6, <3>3
  <2>8. CASE e \in DOMAIN root
    <3>1. NodeStep(root, nodes, p) = GetChildNode(root, nodes, name, e)
      BY <2>6, <2>8
    <3>2. GetFilesNode(root, nodes, e) = {d \in {r} : root[d].kind = "dir"}
      <4>1. CASE root[e].kind = "link"
        <5>1. r = root[e].to /\ r \in DOMAIN root /\ root[r].kind # "link"
          BY <2>2, <2>8, <4>1, ArchiveFacts DEF IsLink
        <5>2. nodes[root[e].to] = {r}
          BY <5>1
        <5> QED
          BY <4>1, <5>2 DEF GetFilesNode
      <4>2. CASE root[e].kind # "link"
        BY <2>2, <4>2 DEF GetFilesNode, IsLink
      <4> QED
        BY <4>1, <4>2
    <3>3. GetChildNode(root, nodes, name, e) = {q} \cap DOMAIN root
      <4>1. GetChildNode(root, nodes, name, e) =
              {Append(d, name) : d \in {c \in {r} : root[c].kind = "dir"}} \cap DOMAIN root
        BY <3>2 DEF GetChildNode
      <4> QED
        BY <4>1, <2>5
    <3> QED
      BY <3>1, <3>3, <2>3 DEF Found
  <2> QED
    BY <2>7, <2>8
<1> QED
  BY <1>1, <1>2

(* Any function with the recursion of GetNodeFromPath finds these nodes.   *)
LEMMA NodesUnique ==
  ASSUME NEW root \in Archives, NEW nodes,
         \A p \in Seq(Names) : nodes[p] = NodeStep(root, nodes, p)
  PROVE  \A p \in Seq(Names) : nodes[p] = Found(root, p)
<1> DEFINE Place(p) == p \in DOMAIN root /\ root[p].kind # "link" => nodes[p] = {p}
           S == {n \in Nat : \A p \in Seq(Names) : Len(p) = n => Place(p)}
           T == {n \in Nat : \A p \in Seq(Names) : Len(p) = n => nodes[p] = Found(root, p)}
<1>1. nodes[<<>>] = {<<>>}
  <2>1. <<>> \in Seq(Names)
    OBVIOUS
  <2>2. nodes[<<>>] = NodeStep(root, nodes, <<>>)
    BY <2>1
  <2> QED
    BY <2>2 DEF NodeStep
<1>2. ASSUME NEW p \in Seq(Names), Len(p) = 0 PROVE p = <<>>
  BY <1>2, EmptySeq
<1>3. ASSUME NEW n \in Nat, NEW p \in Seq(Names), Len(p) = n + 1
      PROVE  /\ p # <<>> /\ Front(p) \in Seq(Names) /\ Len(Front(p)) = n
             /\ Last(p) \in Names /\ p = Append(Front(p), Last(p))
  <2>1. p # <<>>
    BY <1>3
  <2>2. /\ Len(p) \in Nat \ {0} /\ Front(p) \in Seq(Names) /\ Len(Front(p)) = Len(p) - 1
        /\ Last(p) \in Names /\ p = Append(Front(p), Last(p))
    BY <2>1, FrontOf
  <2> QED
    BY <1>3, <2>1, <2>2
<1>4. 0 \in S
  BY <1>1, <1>2
<1>5. ASSUME NEW n \in Nat, n \in S PROVE n + 1 \in S
  <2> SUFFICES ASSUME NEW p \in Seq(Names), Len(p) = n + 1,
                      p \in DOMAIN root, root[p].kind # "link"
               PROVE  nodes[p] = {p}
    OBVIOUS
  <2> DEFINE f == Front(p)
  <2>1. p # <<>> /\ f \in Seq(Names) /\ Len(f) = n /\ p = Append(f, Last(p))
    BY <1>3
  <2>2. f \in DOMAIN root /\ root[f].kind = "dir"
    BY <2>1, ArchiveFacts
  <2>3. nodes[f] = {f}
    <3> HIDE DEF f
    <3> QED
      BY <1>5, <2>1, <2>2
  <2>4. nodes[p] = UNION {GetChildNode(root, nodes, Last(p), d) : d \in nodes[f]}
    BY <2>1 DEF NodeStep
  <2> HIDE DEF f
  <2>5. nodes[p] = GetChildNode(root, nodes, Last(p), f)
    BY <2>3, <2>4
  <2>6. GetFilesNode(root, nodes, f) = {f}
    BY <2>2 DEF GetFilesNode
  <2>7. GetChildNode(root, nodes, Last(p), f) = {p}
    BY <2>1, <2>6 DEF GetChildNode
  <2> QED
    BY <2>5, <2>7
<1>6. \A t \in DOMAIN root : root[t].kind # "link" => nodes[t] = {t}
  <2>1. \A n \in Nat : n \in S
    <3> HIDE DEF S
    <3> QED
      BY <1>4, <1>5, SetInduction
  <2>2. \A t \in DOMAIN root : t \in Seq(Names) /\ Len(t) \in Nat
    BY ArchiveFacts
  <2> QED
    BY <2>1, <2>2
<1>7. 0 \in T
  <2>1. nodes[<<>>] = Found(root, <<>>)
    BY <1>1, ArchiveFacts DEF Found, Entry
  <2> QED
    BY <2>1, <1>2
<1>8. ASSUME NEW n \in Nat, n \in T PROVE n + 1 \in T
  <2> SUFFICES ASSUME NEW p \in Seq(Names), Len(p) = n + 1
               PROVE  nodes[p] = Found(root, p)
    OBVIOUS
  <2>1. Front(p) \in Seq(Names) /\ Len(Front(p)) = n
    BY <1>3
  <2>2. nodes[Front(p)] = Found(root, Front(p))
    BY <1>8, <2>1
  <2>3. NodeStep(root, nodes, p) = Found(root, p)
    BY <1>6, <2>2, NodeStepFinds
  <2> QED
    BY <2>3
<1>9. \A n \in Nat : n \in T
  <2> HIDE DEF T
  <2> QED
    BY <1>7, <1>8, SetInduction
<1> QED
  BY <1>9

(* The recursion of GetNodeFromPath, which looks at one name and follows   *)
(* one link at a time, finds the entry the whole path leads to, or none.   *)
THEOREM GetNodeFromPathFinds ==
  ASSUME NEW root \in Archives, NEW p \in Seq(Names)
  PROVE  GetNodeFromPath(root)[p] = Found(root, p)
<1> DEFINE N == GetNodeFromPath(root)
           witness == [q \in Seq(Names) |-> Found(root, q)]
<1>1. witness = [q \in Seq(Names) |-> NodeStep(root, witness, q)]
  <2>1. \A t \in DOMAIN root : root[t].kind # "link" => witness[t] = {t}
    BY PlaceIsItself DEF Found
  <2>2. \A q \in Seq(Names) : q # <<>> => witness[Front(q)] = Found(root, Front(q))
    BY FrontOf
  <2> HIDE DEF witness
  <2>3. \A q \in Seq(Names) : NodeStep(root, witness, q) = Found(root, q)
    BY <2>1, <2>2, NodeStepFinds
  <2> QED
    BY <2>3 DEF witness
<1>2. N = CHOOSE nodes : nodes = [q \in Seq(Names) |-> NodeStep(root, nodes, q)]
  BY DEF GetNodeFromPath, NodeStep
<1> HIDE DEF N, witness
<1>3. N = [q \in Seq(Names) |-> NodeStep(root, N, q)]
  BY <1>1, <1>2
<1>4. \A q \in Seq(Names) : N[q] = NodeStep(root, N, q)
  BY <1>3
<1> QED
  BY <1>4, NodesUnique DEF N

(* GetFileInfo follows a last link again and finds what the path leads to, *)
(* if it is a file.                                                        *)
THEOREM GetFileInfoFinds ==
  ASSUME NEW root \in Archives, NEW p \in Seq(Names)
  PROVE  GetFileInfo(root)[p] = NodesAt(root, RealPath(root, p), {"file", "unpacked"})
<1> DEFINE At(q) == NodesAt(root, RealPath(root, q), {"file", "unpacked"})
           Step(f, q) == UNION {IF root[n].kind = "link" THEN f[root[n].to]
                                ELSE {m \in {n} : root[m].kind \in {"file", "unpacked"}}
                                : n \in Found(root, q)}
           Info == GetFileInfo(root)
           witness == [q \in Seq(Names) |-> At(q)]
<1>1. ASSUME NEW t \in DOMAIN root, root[t].kind # "link"
      PROVE  /\ t \in Seq(Names) /\ Found(root, t) = {t}
             /\ At(t) = {m \in {t} : root[m].kind \in {"file", "unpacked"}}
  BY <1>1, PlaceIsItself DEF Found, NodesAt
<1>2. ASSUME NEW f, NEW q \in Seq(Names),
             \A t \in DOMAIN root : root[t].kind # "link" => f[t] = At(t)
      PROVE  Step(f, q) = At(q)
  <2> DEFINE e == Entry(root, q)
             r == RealPath(root, q)
  <2>1. r = IF IsLink(root, e) THEN root[e].to ELSE e
    BY EntryLeads
  <2>2. IsLink(root, e) => /\ r \in DOMAIN root /\ root[r].kind # "link"
                           /\ f[r] = At(r) /\ At(r) = At(q)
    <3> SUFFICES ASSUME IsLink(root, e)
                 PROVE  /\ r \in DOMAIN root /\ root[r].kind # "link"
                        /\ f[r] = At(r) /\ At(r) = At(q)
      OBVIOUS
    <3>1. r \in DOMAIN root /\ root[r].kind # "link"
      BY <2>1, TargetIsClean
    <3>2. RealPath(root, r) = r
      BY <3>1, PlaceIsItself
    <3>3. f[r] = At(r)
      BY <1>2, <3>1
    <3> QED
      BY <3>1, <3>2, <3>3
  <2>3. At(q) = {m \in {r} \cap DOMAIN root : root[m].kind \in {"file", "unpacked"}}
    BY DEF NodesAt
  <2>4. Found(root, q) = {e} \cap DOMAIN root
    BY DEF Found
  <2> HIDE DEF At, e, r
  <2>5. CASE e \notin DOMAIN root
    <3>1. Found(root, q) = {} /\ r = e
      BY <2>1, <2>4, <2>5 DEF IsLink
    <3> QED
      BY <2>3, <2>5, <3>1
  <2>6. CASE IsLink(root, e)
    <3>1. Found(root, q) = {e} /\ root[e].kind = "link" /\ root[e].to = r
      BY <2>1, <2>4, <2>6 DEF IsLink
    <3> QED
      BY <2>2, <2>6, <3>1
  <2>7. CASE e \in DOMAIN root /\ ~IsLink(root, e)
    <3>1. Found(root, q) = {e} /\ root[e].kind # "link" /\ r = e
      BY <2>1, <2>4, <2>7 DEF IsLink
    <3> QED
      BY <2>3, <2>7, <3>1
  <2> QED
    BY <2>5, <2>6, <2>7 DEF IsLink
<1> HIDE DEF At
<1>3. witness = [q \in Seq(Names) |-> Step(witness, q)]
  <2>1. \A t \in DOMAIN root : root[t].kind # "link" => witness[t] = At(t)
    BY <1>1
  <2> HIDE DEF witness, Step
  <2>2. \A q \in Seq(Names) : Step(witness, q) = At(q)
    BY <1>2, <2>1
  <2> QED
    BY <2>2 DEF witness
<1>4. \A q \in Seq(Names) : GetNodeFromPath(root)[q] = Found(root, q)
  BY GetNodeFromPathFinds
<1>5. Info = [q \in Seq(Names) |-> Step(Info, q)]
  <2> DEFINE Body(f) == [q \in Seq(Names) |->
                           UNION {IF root[n].kind = "link" THEN f[root[n].to]
                                  ELSE {m \in {n} : root[m].kind \in {"file", "unpacked"}}
                                  : n \in GetNodeFromPath(root)[q]}]
  <2>1. \A f : Body(f) = [q \in Seq(Names) |-> Step(f, q)]
    BY <1>4
  <2>2. Info = CHOOSE f : f = Body(f)
    BY DEF GetFileInfo
  <2> HIDE DEF Info, witness, Step, Body
  <2>3. witness = Body(witness)
    BY <1>3, <2>1
  <2>4. Info = Body(Info)
    BY <2>2, <2>3
  <2> QED
    BY <2>1, <2>4
<1> HIDE DEF Info, witness, Step
<1>6. \A q \in Seq(Names) : Info[q] = Step(Info, q)
  BY <1>5
<1>7. ASSUME NEW t \in DOMAIN root, root[t].kind # "link" PROVE Info[t] = At(t)
  <2>1. Info[t] = Step(Info, t)
    BY <1>1, <1>6, <1>7
  <2>2. Step(Info, t) = {m \in {t} : root[m].kind \in {"file", "unpacked"}}
    BY <1>1, <1>7 DEF Step
  <2> QED
    BY <1>1, <1>7, <2>1, <2>2
<1>8. Info[p] = At(p)
  BY <1>2, <1>6, <1>7
<1> QED
  BY <1>8 DEF Info, At

-----------------------------------------------------------------------------
(* What the functions of fs answer, and what a directory would.            *)

LEMMA FoundIs ==
  ASSUME NEW root \in Archives, NEW path \in Seq(Names)
  PROVE  LET e == Entry(root, path)
             r == RealPath(root, path)
         IN  /\ e \in Seq(Names) /\ GetNodeFromPath(root)[path] = {e} \cap DOMAIN root
             /\ e \in DOMAIN root => root[e].kind \in Kinds
             /\ IsLink(root, e) => /\ r = root[e].to /\ r \in DOMAIN root
                                   /\ root[r].kind \in Kinds \ {"link"}
                                   /\ GetNodeFromPath(root)[r] = {r}
             /\ ~IsLink(root, e) => r = e
<1> DEFINE e == Entry(root, path)
           r == RealPath(root, path)
<1>1. e \in Seq(Names) /\ r = IF IsLink(root, e) THEN root[e].to ELSE e
  BY EntryLeads
<1>2. GetNodeFromPath(root)[path] = {e} \cap DOMAIN root
  BY GetNodeFromPathFinds DEF Found
<1>3. \A p \in DOMAIN root : root[p].kind \in Kinds
  BY ArchiveFacts DEF Kinds
<1> HIDE DEF e, r
<1>4. ASSUME IsLink(root, e)
      PROVE  /\ r \in DOMAIN root /\ root[r].kind \in Kinds \ {"link"}
             /\ GetNodeFromPath(root)[r] = {r}
  <2>1. r \in DOMAIN root /\ root[r].kind # "link"
    BY <1>1, <1>4, TargetIsClean
  <2>2. r \in Seq(Names) /\ Found(root, r) = {r}
    BY <2>1, PlaceIsItself DEF Found
  <2> QED
    BY <1>3, <2>1, <2>2, GetNodeFromPathFinds
<1> QED
  BY <1>1, <1>2, <1>3, <1>4 DEF e, r

LEMMA StatIs ==
  ASSUME NEW root \in Archives, NEW path \in Seq(Names)
  PROVE  Stat(root, path) = KindsAt(root, Entry(root, path))
<1> DEFINE e == Entry(root, path)
<1>1. GetNodeFromPath(root)[path] = {e} \cap DOMAIN root
        /\ (e \in DOMAIN root => root[e].kind \in Kinds)
  BY FoundIs
<1> HIDE DEF e
<1>2. NodesAt(root, e, Kinds) = {e} \cap DOMAIN root
  BY <1>1 DEF NodesAt
<1>3. Stat(root, path) = {IF root[p].kind = "unpacked" THEN "file" ELSE root[p].kind
                            : p \in NodesAt(root, e, Kinds)}
  BY <1>1, <1>2 DEF Stat
<1> QED
  BY <1>3 DEF KindsAt, e

LEMMA LstatAnswers ==
  ASSUME NEW root \in Archives, NEW path \in Seq(Names), NEW packed, NEW beside
  PROVE  Stat(root, path) = InDirectory(root, "lstat", path, packed, beside)
  BY StatIs DEF InDirectory

(* A link is told of as one, which nothing that is followed to its end is. *)
LEMMA StatAnswers ==
  ASSUME NEW root \in Archives, NEW path \in Seq(Names), NEW packed, NEW beside
  PROVE  Stat(root, path) = InDirectory(root, "stat", path, packed, beside)
           <=> ~Differs(root, "stat", path)
<1> DEFINE e == Entry(root, path)
           r == RealPath(root, path)
<1>1. /\ IsLink(root, e) => r \in DOMAIN root /\ root[r].kind \in Kinds \ {"link"}
      /\ ~IsLink(root, e) => r = e
  BY FoundIs
<1>2. Stat(root, path) = KindsAt(root, e)
        /\ InDirectory(root, "stat", path, packed, beside) = KindsAt(root, r)
  BY StatIs DEF InDirectory
<1>3. Differs(root, "stat", path) <=> IsLink(root, e)
  BY DEF Differs, StatOfLink, RealpathThroughLink, UnpackedThroughLink
<1> HIDE DEF e, r
<1>4. ASSUME IsLink(root, e) PROVE KindsAt(root, e) # KindsAt(root, r)
  <2>1. NodesAt(root, e, Kinds) = {e} /\ root[e].kind = "link"
    BY <1>4 DEF IsLink, NodesAt, Kinds
  <2>2. "link" \in KindsAt(root, e)
    BY <2>1 DEF KindsAt
  <2>3. NodesAt(root, r, Kinds) \subseteq {r} /\ root[r].kind # "link"
    BY <1>1, <1>4 DEF NodesAt
  <2>4. "link" \notin KindsAt(root, r)
    BY <2>3 DEF KindsAt
  <2> QED
    BY <2>2, <2>4
<1> QED
  BY <1>1, <1>2, <1>3, <1>4

LEMMA ReaddirAnswers ==
  ASSUME NEW root \in Archives, NEW path \in Seq(Names), NEW packed, NEW beside
  PROVE  Readdir(root, path) = InDirectory(root, "readdir", path, packed, beside)
<1> DEFINE e == Entry(root, path)
           r == RealPath(root, path)
           nodes == GetNodeFromPath(root)
<1>1. /\ nodes[path] = {e} \cap DOMAIN root
      /\ IsLink(root, e) => r = root[e].to /\ r \in DOMAIN root /\ nodes[r] = {r}
      /\ ~IsLink(root, e) => r = e
  BY FoundIs
<1>2. UNION {GetFilesNode(root, nodes, n) : n \in nodes[path]} = NodesAt(root, r, {"dir"})
  <2> HIDE DEF e, r, nodes
  <2>1. CASE e \notin DOMAIN root
    <3>1. nodes[path] = {} /\ r = e
      BY <1>1, <2>1 DEF IsLink
    <3> QED
      BY <2>1, <3>1 DEF NodesAt
  <2>2. CASE IsLink(root, e)
    <3>1. nodes[path] = {e} /\ GetFilesNode(root, nodes, e) = {d \in {r} : root[d].kind = "dir"}
      BY <1>1, <2>2 DEF IsLink, GetFilesNode
    <3> QED
      BY <1>1, <2>2, <3>1 DEF NodesAt
  <2>3. CASE e \in DOMAIN root /\ ~IsLink(root, e)
    <3>1. nodes[path] = {e} /\ GetFilesNode(root, nodes, e) = {d \in {r} : root[d].kind = "dir"}
      BY <1>1, <2>3 DEF IsLink, GetFilesNode
    <3> QED
      BY <1>1, <2>3, <3>1 DEF NodesAt
  <2> QED
    BY <2>1, <2>2, <2>3 DEF IsLink
<1>3. Readdir(root, path) =
        {{name \in Names : Append(p, name) \in DOMAIN root} : p \in NodesAt(root, r, {"dir"})}
  BY <1>2 DEF Readdir
<1> QED
  BY <1>3 DEF InDirectory

LEMMA RealpathAnswers ==
  ASSUME NEW root \in Archives, NEW path \in Seq(Names), NEW packed, NEW beside
  PROVE  Realpath(root, path) = InDirectory(root, "realpath", path, packed, beside)
           <=> ~Differs(root, "realpath", path)
<1> DEFINE e == Entry(root, path)
           r == RealPath(root, path)
<1>1. /\ GetNodeFromPath(root)[path] = {e} \cap DOMAIN root
      /\ e \in DOMAIN root => root[e].kind \in Kinds
      /\ IsLink(root, e) => r = root[e].to /\ r \in DOMAIN root /\ root[r].kind \in Kinds
      /\ ~IsLink(root, e) => r = e
  BY FoundIs
<1>2. Differs(root, "realpath", path)
        <=> e # path /\ NodesAt(root, e, Kinds \ {"link"}) # {}
  BY DEF Differs, StatOfLink, RealpathThroughLink, UnpackedThroughLink
<1>3. InDirectory(root, "realpath", path, packed, beside) = NodesAt(root, r, Kinds)
  BY DEF InDirectory
<1> HIDE DEF e, r
<1>4. CASE e \notin DOMAIN root
  <2>1. GetNodeFromPath(root)[path] = {} /\ r = e
    BY <1>1, <1>4 DEF IsLink
  <2>2. Realpath(root, path) = {}
    BY <2>1 DEF Realpath
  <2>3. NodesAt(root, r, Kinds) = {} /\ NodesAt(root, e, Kinds \ {"link"}) = {}
    BY <1>4, <2>1 DEF NodesAt
  <2> QED
    BY <1>2, <1>3, <2>2, <2>3
<1>5. CASE IsLink(root, e)
  <2>1. GetNodeFromPath(root)[path] = {e} /\ root[e].kind = "link"
    BY <1>1, <1>5 DEF IsLink
  <2>2. Realpath(root, path) = {r}
    BY <1>1, <1>5, <2>1 DEF Realpath
  <2>3. NodesAt(root, r, Kinds) = {r} /\ NodesAt(root, e, Kinds \ {"link"}) = {}
    BY <1>1, <1>5, <2>1 DEF NodesAt
  <2> QED
    BY <1>2, <1>3, <2>2, <2>3
<1>6. CASE e \in DOMAIN root /\ ~IsLink(root, e)
  <2>1. GetNodeFromPath(root)[path] = {e} /\ root[e].kind # "link" /\ r = e
    BY <1>1, <1>6 DEF IsLink
  <2>2. Realpath(root, path) = {path}
    BY <2>1 DEF Realpath
  <2>3. NodesAt(root, r, Kinds) = {e} /\ NodesAt(root, e, Kinds \ {"link"}) = {e}
    BY <1>1, <1>6, <2>1 DEF NodesAt
  <2> QED
    BY <1>2, <1>3, <2>2, <2>3
<1> QED
  BY <1>4, <1>5, <1>6 DEF IsLink

LEMMA FilesAt ==
  ASSUME NEW root \in Archives, NEW path \in Seq(Names), NEW version
  PROVE  LET r == RealPath(root, path) IN
         /\ Packed(version, root, path) = {<<version, p>> : p \in NodesAt(root, r, {"file"})}
         /\ Unpacked(version, root, path) =
              {<<version, path>> : p \in {n \in NodesAt(root, r, {"unpacked"}) :
                 path \in DOMAIN root /\ root[path].kind = "unpacked"}}
<1> DEFINE r == RealPath(root, path)
<1>1. GetFileInfo(root)[path] = NodesAt(root, r, {"file", "unpacked"})
  BY GetFileInfoFinds
<1> HIDE DEF r
<1>2. {g \in NodesAt(root, r, {"file", "unpacked"}) : root[g].kind = "file"}
        = NodesAt(root, r, {"file"})
  BY DEF NodesAt
<1>3. {g \in NodesAt(root, r, {"file", "unpacked"}) :
         /\ root[g].kind = "unpacked"
         /\ path \in DOMAIN root /\ root[path].kind = "unpacked"}
        = {n \in NodesAt(root, r, {"unpacked"}) :
             path \in DOMAIN root /\ root[path].kind = "unpacked"}
  BY DEF NodesAt
<1> QED
  BY <1>1, <1>2, <1>3 DEF Packed, Unpacked, r

(* An entry beside the archive has the path it was asked for, or is none.  *)
LEMMA FileAnswers ==
  ASSUME NEW root \in Archives, NEW path \in Seq(Names), NEW packed, NEW beside,
         NEW func \in {"read", "open"}
  PROVE  Packed(packed, root, path) \cup Unpacked(beside, root, path)
           = InDirectory(root, func, path, packed, beside)
           <=> ~Differs(root, func, path)
<1> DEFINE r == RealPath(root, path)
           inside == {<<packed, p>> : p \in NodesAt(root, r, {"file"})}
           apart == {<<beside, p>> : p \in NodesAt(root, r, {"unpacked"})}
<1>1. Differs(root, func, path) <=> r # path /\ NodesAt(root, r, {"unpacked"}) # {}
  BY DEF Differs, StatOfLink, RealpathThroughLink, UnpackedThroughLink
<1>2. /\ Packed(packed, root, path) = inside
      /\ Unpacked(beside, root, path) =
           {<<beside, path>> : p \in {n \in NodesAt(root, r, {"unpacked"}) :
              path \in DOMAIN root /\ root[path].kind = "unpacked"}}
  BY FilesAt
<1>3. InDirectory(root, func, path, packed, beside) = inside \cup apart
  BY DEF InDirectory
<1>4. path \in DOMAIN root /\ root[path].kind = "unpacked" => r = path
  BY PlaceIsItself
<1> HIDE DEF r
<1>5. CASE NodesAt(root, r, {"unpacked"}) = {}
  <2>1. Unpacked(beside, root, path) = {} /\ apart = {}
    BY <1>2, <1>5
  <2> QED
    BY <1>1, <1>2, <1>3, <1>5, <2>1
<1>6. CASE r = path /\ NodesAt(root, r, {"unpacked"}) # {}
  <2>1. NodesAt(root, r, {"unpacked"}) = {path}
          /\ path \in DOMAIN root /\ root[path].kind = "unpacked"
    BY <1>6 DEF NodesAt
  <2>2. {n \in NodesAt(root, r, {"unpacked"}) :
           path \in DOMAIN root /\ root[path].kind = "unpacked"} = {path}
    BY <2>1
  <2>3. Unpacked(beside, root, path) = apart
    BY <1>2, <2>1, <2>2
  <2> QED
    BY <1>1, <1>2, <1>3, <1>6, <2>3
<1>7. CASE r # path /\ NodesAt(root, r, {"unpacked"}) # {}
  <2>1. {n \in NodesAt(root, r, {"unpacked"}) :
           path \in DOMAIN root /\ root[path].kind = "unpacked"} = {}
    BY <1>4, <1>7
  <2>2. Unpacked(beside, root, path) = {}
    BY <1>2, <2>1
  <2>3. inside = {}
    BY <1>7 DEF NodesAt
  <2>4. apart # {}
    BY <1>7
  <2> QED
    BY <1>1, <1>2, <1>3, <1>7, <2>2, <2>3, <2>4
<1> QED
  BY <1>5, <1>6, <1>7

-----------------------------------------------------------------------------
(* The calls of scripts.                                                   *)

Holds(path) == NodesAt(header, RealPath(header, path), {"file"})

(* Once an archive is open it stays the one that is read.                  *)
Opened ==
  /\ header \in Archives
  /\ destroyed => exiting
  /\ answer.call # "none" /\ answer.at # 0 => archive # 0
  /\ copies # {} => archive # 0

(* external_files_ has the temporary files it names, and they what they    *)
(* were made for; what scripts were given is in it.                        *)
CopiesKept ==
  /\ \A c \in copies :
       /\ c = [path |-> c.path, temp |-> c.temp]
       /\ c.path \in Paths /\ c.temp \in Nat /\ c.temp < nextTemp /\ Holds(c.path) # {}
       /\ \E t \in temps : t.temp = c.temp
       /\ \A t \in temps : t.temp = c.temp => t.content = <<archive, RealPath(header, c.path)>>
  /\ \A t \in temps : t.temp \in Nat /\ t.temp < nextTemp
  /\ \A h \in handed : [path |-> h.path, temp |-> h.temp] \in copies /\ h.version = archive

AsarInv == FsTypeOK /\ Opened /\ CopiesKept /\ LikeDirectory

Call(path) ==
  \/ ReadFile(path) \/ LstatFile(path) \/ StatFile(path) \/ ReadDirectory(path)
  \/ RealpathOf(path) \/ OpenFile(path) \/ OpenFileWithoutCopy(path)

LEMMA OneAtMost ==
  ASSUME NEW S, \A v, w \in S : v = w
  PROVE  Cardinality(S) <= 1
<1>1. CASE S = {}
  BY <1>1, FS_EmptySet
<1>2. CASE S # {}
  <2>1. PICK v : v \in S
    BY <1>2
  <2>2. S = {v}
    BY <2>1
  <2>3. Cardinality({v}) = 1
    BY FS_Singleton
  <2> QED
    BY <2>2, <2>3
<1> QED
  BY <1>1, <1>2

LEMMA OpensOnce ==
  ASSUME FsTypeOK, Opened, GetOrCreateArchive
  PROVE  /\ archive' \in 0..disk /\ disk' = disk /\ header' = header
         /\ destroyed' = destroyed /\ exiting' = exiting
         /\ archive # 0 => archive' = archive
         /\ disk # 0 => archive' # 0
  BY BoundsAssumption DEF FsTypeOK, Opened, GetOrCreateArchive

LEMMA PackedIsHeld ==
  ASSUME Opened, NEW path \in Paths, NEW version
  PROVE  Packed(version, header, path) =
           IF Holds(path) = {} THEN {} ELSE {<<version, RealPath(header, path)>>}
<1>1. path \in Seq(Names)
  BY PathsAssumption
<1>2. Packed(version, header, path) =
        {<<version, p>> : p \in NodesAt(header, RealPath(header, path), {"file"})}
  BY <1>1, FilesAt DEF Opened
<1>3. Holds(path) # {} => Holds(path) = {RealPath(header, path)}
  BY DEF Holds, NodesAt
<1>4. Packed(version, header, path) = {<<version, p>> : p \in Holds(path)}
  BY <1>2 DEF Holds
<1> QED
  BY <1>3, <1>4

LEMMA CopyFileOutKeeps ==
  ASSUME FsTypeOK, Opened, CopiesKept, NEW path \in Paths,
         GetOrCreateArchive, CopyFileOut(path) \/ NoCopy
  PROVE  CopiesKept' /\ (copies' # {} => archive' # 0) /\ nextTemp' \in 0..MaxCopies
<1>1. /\ archive' \in 0..disk /\ header' = header /\ (archive # 0 => archive' = archive)
      /\ nextTemp \in Nat /\ nextTemp \in 0..MaxCopies /\ MaxCopies \in Nat
  BY OpensOnce, BoundsAssumption DEF FsTypeOK
<1>2. copies # {} => archive # 0 /\ archive' = archive
  BY <1>1 DEF Opened
<1>3. handed # {} => copies # {}
  BY DEF CopiesKept
<1>4. CASE NoCopy
  BY <1>1, <1>2, <1>3, <1>4 DEF NoCopy, CopiesKept, Holds
<1>5. CASE /\ Usable /\ {c \in copies : c.path = path} # {}
           /\ \E c \in {d \in copies : d.path = path} : Hand(path, c.temp)
           /\ UNCHANGED <<copies, temps, nextTemp>>
  <2>1. PICK c \in copies : c.path = path /\ Hand(path, c.temp)
    BY <1>5
  <2>2. archive # 0 /\ archive' = archive
    BY <1>2, <2>1
  <2>3. handed' = handed \cup {[path |-> path, temp |-> c.temp, version |-> archive]}
    BY <2>1, <2>2 DEF Hand
  <2>4. c = [path |-> path, temp |-> c.temp]
    BY <2>1 DEF CopiesKept
  <2>5. \A h \in handed' : [path |-> h.path, temp |-> h.temp] \in copies' /\ h.version = archive'
    <3> SUFFICES ASSUME NEW h \in handed'
                 PROVE  [path |-> h.path, temp |-> h.temp] \in copies' /\ h.version = archive'
      OBVIOUS
    <3>1. CASE h \in handed
      BY <1>5, <2>2, <3>1 DEF CopiesKept
    <3>2. CASE h = [path |-> path, temp |-> c.temp, version |-> archive]
      BY <1>5, <2>1, <2>2, <2>4, <3>2
    <3> QED
      BY <2>3, <3>1, <3>2
  <2> QED
    BY <1>1, <1>5, <2>2, <2>5 DEF CopiesKept, Holds
<1>6. CASE /\ Usable /\ Packed(archive', header, path) # {}
           /\ nextTemp < MaxCopies
           /\ nextTemp' = nextTemp + 1
           /\ copies' = copies \cup {[path |-> path, temp |-> nextTemp]}
           /\ temps' = temps \cup {[temp |-> nextTemp, content |-> c] : c \in Packed(archive', header, path)}
           /\ Hand(path, nextTemp)
  <2> DEFINE copy == [path |-> path, temp |-> nextTemp]
             temp == [temp |-> nextTemp, content |-> <<archive', RealPath(header, path)>>]
             given == [path |-> path, temp |-> nextTemp, version |-> archive']
  <2>1. Holds(path) # {} /\ Packed(archive', header, path) = {<<archive', RealPath(header, path)>>}
    BY <1>6, PackedIsHeld
  <2>2. temps' = temps \cup {temp} /\ copies' = copies \cup {copy} /\ handed' = handed \cup {given}
    BY <1>6, <2>1 DEF Hand
  <2>3. archive' # 0
    BY <1>6 DEF Usable
  <2>4. /\ copy.path = path /\ copy.temp = nextTemp /\ temp.temp = nextTemp
        /\ temp.content = <<archive', RealPath(header, path)>>
        /\ copy = [path |-> copy.path, temp |-> copy.temp]
        /\ given.version = archive' /\ [path |-> given.path, temp |-> given.temp] = copy
    OBVIOUS
  <2> HIDE DEF copy, temp, given
  <2>5. \A t \in temps' : t.temp \in Nat /\ t.temp < nextTemp'
    BY <1>1, <1>6, <2>2, <2>4 DEF CopiesKept
  <2>6. \A h \in handed' : [path |-> h.path, temp |-> h.temp] \in copies' /\ h.version = archive'
    BY <1>2, <1>3, <2>2, <2>4 DEF CopiesKept
  <2>7. ASSUME NEW c \in copies'
        PROVE  /\ c = [path |-> c.path, temp |-> c.temp]
               /\ c.path \in Paths /\ c.temp \in Nat /\ c.temp < nextTemp'
               /\ Holds(c.path)' # {}
               /\ \E t \in temps' : t.temp = c.temp
               /\ \A t \in temps' : t.temp = c.temp =>
                    t.content = <<archive', RealPath(header', c.path)>>
    <3>1. \A p : Holds(p)' = Holds(p)
      BY <1>1 DEF Holds
    <3>2. CASE c \in copies
      <4>1. /\ c = [path |-> c.path, temp |-> c.temp]
            /\ c.path \in Paths /\ c.temp \in Nat /\ c.temp < nextTemp /\ Holds(c.path) # {}
            /\ \E t \in temps : t.temp = c.temp
            /\ \A t \in temps : t.temp = c.temp =>
                 t.content = <<archive, RealPath(header, c.path)>>
        BY <3>2 DEF CopiesKept
      <4>2. archive' = archive
        BY <1>2, <3>2
      <4>3. c.temp # nextTemp /\ c.temp < nextTemp'
        BY <1>1, <1>6, <4>1
      <4> QED
        BY <1>1, <2>2, <2>4, <3>1, <4>1, <4>2, <4>3
    <3>3. CASE c = copy
      <4>1. \A t \in temps' : t.temp = nextTemp => t = temp
        BY <1>1, <2>2 DEF CopiesKept
      <4>2. nextTemp < nextTemp'
        BY <1>1, <1>6
      <4> QED
        BY <1>1, <2>1, <2>2, <2>4, <3>1, <3>3, <4>1, <4>2
    <3> QED
      BY <2>2, <3>2, <3>3
  <2>8. nextTemp' \in 0..MaxCopies
    BY <1>1, <1>6
  <2> QED
    BY <2>3, <2>5, <2>6, <2>7, <2>8 DEF CopiesKept
<1> QED
  BY <1>4, <1>5, <1>6 DEF CopyFileOut

LEMMA OneCopyKept ==
  ASSUME Opened', CopiesKept', NEW path \in Paths,
         (\E c \in copies' : c.path = path) \/ Packed(archive', header', path) = {}
  PROVE  {t.content : t \in {u \in temps' : [path |-> path, temp |-> u.temp] \in copies'}}
           = Packed(archive', header', path)
<1> DEFINE made == {u \in temps' : [path |-> path, temp |-> u.temp] \in copies'}
           value == <<archive', RealPath(header', path)>>
<1>1. Packed(archive', header', path) = IF Holds(path)' = {} THEN {} ELSE {value}
  <2>1. path \in Seq(Names) /\ header' \in Archives
    BY PathsAssumption DEF Opened
  <2>2. Packed(archive', header', path) =
          {<<archive', p>> : p \in NodesAt(header', RealPath(header', path), {"file"})}
    BY <2>1, FilesAt
  <2>3. Holds(path)' # {} => Holds(path)' = {RealPath(header', path)}
    BY DEF Holds, NodesAt
  <2>4. Packed(archive', header', path) = {<<archive', p>> : p \in Holds(path)'}
    BY <2>2 DEF Holds
  <2> QED
    BY <2>3, <2>4
<1>2. ASSUME NEW u \in made PROVE u.content = value /\ Holds(path)' # {}
  <2> DEFINE c == [path |-> path, temp |-> u.temp]
  <2>1. c \in copies' /\ u \in temps' /\ c.path = path /\ c.temp = u.temp
    OBVIOUS
  <2> HIDE DEF c, value
  <2> QED
    BY <2>1 DEF CopiesKept, value
<1>3. CASE Holds(path)' = {}
  <2>1. made = {}
    BY <1>2, <1>3
  <2> QED
    BY <1>1, <1>3, <2>1
<1>4. CASE Holds(path)' # {}
  <2>1. PICK c \in copies' : c.path = path
    BY <1>1, <1>4
  <2>2. c = [path |-> path, temp |-> c.temp] /\ \E t \in temps' : t.temp = c.temp
    BY <2>1 DEF CopiesKept
  <2>3. PICK t \in temps' : t.temp = c.temp
    BY <2>2
  <2>4. t \in made
    BY <2>1, <2>2, <2>3
  <2> HIDE DEF made, value
  <2>5. {u.content : u \in made} = {value}
    BY <1>2, <2>4
  <2> QED
    BY <1>1, <1>4, <2>5 DEF made
<1> QED
  BY <1>3, <1>4

(* What open answers is what a read would, whichever copy is handed out.   *)
LEMMA OpenIsRead ==
  ASSUME FsTypeOK, Opened, CopiesKept, NEW path \in Paths,
         GetOrCreateArchive, CopyFileOut(path), Usable, Opened', CopiesKept'
  PROVE  {t.content : t \in {u \in temps' : [path |-> path, temp |-> u.temp] \in copies'}}
           = Packed(archive', header, path)
<1>1. header' = header
  BY OpensOnce
<1>2. (\E c \in copies' : c.path = path) \/ Packed(archive', header, path) = {}
  <2>1. CASE {c \in copies : c.path = path} # {}
    <3>1. copies' = copies
      BY <2>1 DEF CopyFileOut
    <3> QED
      BY <2>1, <3>1
  <2>2. CASE {c \in copies : c.path = path} = {} /\ Packed(archive', header, path) # {}
    <3>1. copies' = copies \cup {[path |-> path, temp |-> nextTemp]}
      BY <2>2 DEF CopyFileOut
    <3>2. [path |-> path, temp |-> nextTemp].path = path
      OBVIOUS
    <3> QED
      BY <3>1, <3>2
  <2> QED
    BY <2>1, <2>2
<1> QED
  BY <1>1, <1>2, OneCopyKept

(* One file, or none, is found under a path.                               *)
LEMMA OneAnswer ==
  ASSUME NEW root \in Archives, NEW path \in Seq(Names), NEW packed, NEW beside
  PROVE  /\ Cardinality(Stat(root, path)) <= 1
         /\ Cardinality(Readdir(root, path)) <= 1
         /\ Cardinality(Realpath(root, path)) <= 1
         /\ Cardinality(Packed(packed, root, path) \cup Unpacked(beside, root, path)) <= 1
<1> DEFINE r == RealPath(root, path)
           e == Entry(root, path)
<1>1. GetNodeFromPath(root)[path] = {e} \cap DOMAIN root
  BY FoundIs
<1> HIDE DEF r, e
<1>2. \A v, w \in Stat(root, path) : v = w
  BY <1>1 DEF Stat
<1>3. \A v, w \in Realpath(root, path) : v = w
  BY <1>1 DEF Realpath
<1>4. \A v, w \in Readdir(root, path) : v = w
  <2>1. Readdir(root, path) =
          {{name \in Names : Append(p, name) \in DOMAIN root} : p \in NodesAt(root, r, {"dir"})}
    BY ReaddirAnswers DEF InDirectory, r
  <2>2. \A v, w \in NodesAt(root, r, {"dir"}) : v = w
    BY DEF NodesAt
  <2> HIDE DEF r
  <2> QED
    BY <2>1, <2>2
<1>5. \A v, w \in Packed(packed, root, path) \cup Unpacked(beside, root, path) : v = w
  <2>1. /\ Packed(packed, root, path) = {<<packed, p>> : p \in NodesAt(root, r, {"file"})}
        /\ Unpacked(beside, root, path) =
             {<<beside, path>> : p \in {n \in NodesAt(root, r, {"unpacked"}) :
                path \in DOMAIN root /\ root[path].kind = "unpacked"}}
    BY FilesAt DEF r
  <2>2. \A p \in NodesAt(root, r, {"file"}) : p = r /\ NodesAt(root, r, {"unpacked"}) = {}
    BY DEF NodesAt
  <2> QED
    BY <2>1, <2>2
<1> QED
  BY <1>2, <1>3, <1>4, <1>5, OneAtMost

(* A call leaves an answer that a directory would give.                    *)
LEMMA AnswerLikeDirectory ==
  ASSUME FsTypeOK, Opened, NEW path \in Paths, GetOrCreateArchive, NEW value,
         NEW func \in {"read", "lstat", "stat", "readdir", "realpath", "open"},
         Answer(func, path, value),
         Usable => Cardinality(value) <= 1,
         Usable => (value = InDirectory(header, func, path, archive', disk)
                      <=> ~Differs(header, func, path))
  PROVE  /\ LikeDirectory' /\ Cardinality(answer'.value) <= 1
         /\ (answer'.call # "none" /\ answer'.at # 0 => archive' # 0)
<1>1. /\ archive' \in 0..disk /\ header' = header /\ destroyed' = destroyed /\ exiting' = exiting
      /\ (disk # 0 => archive' # 0) /\ (destroyed => exiting)
  BY OpensOnce DEF Opened
<1>2. answer' = [call |-> func, path |-> path, at |-> disk,
                 value |-> IF Usable THEN value ELSE {}]
  BY DEF Answer
<1>3. /\ answer'.call = func /\ answer'.path = path /\ answer'.at = disk
      /\ answer'.value = IF Usable THEN value ELSE {}
  BY <1>2
<1>4. Cardinality(answer'.value) <= 1
  BY <1>3, FS_EmptySet
<1>5. ASSUME archive' # 0, ~exiting'
      PROVE  answer'.value = InDirectory(header', answer'.call, answer'.path, archive', answer'.at)
               <=> ~Differs(header', answer'.call, answer'.path)
  <2>1. Usable
    BY <1>1, <1>5 DEF Usable
  <2>2. value = InDirectory(header, func, path, archive', disk) <=> ~Differs(header, func, path)
    BY <2>1
  <2> QED
    BY <1>1, <1>3, <2>1, <2>2
<1>6. LikeDirectory'
  BY <1>5 DEF LikeDirectory
<1> QED
  BY <1>1, <1>3, <1>4, <1>6

LEMMA CallStep ==
  ASSUME AsarInv, NEW path \in Paths, Call(path)
  PROVE  AsarInv'
<1>1. path \in Seq(Names) /\ header \in Archives
  BY PathsAssumption DEF AsarInv, Opened
<1>2. FsTypeOK /\ Opened /\ CopiesKept /\ GetOrCreateArchive /\ (CopyFileOut(path) \/ NoCopy)
  BY DEF AsarInv, Call, ReadFile, LstatFile, StatFile, ReadDirectory, RealpathOf, OpenFile,
         OpenFileWithoutCopy
<1>3. /\ archive' \in 0..disk /\ disk' = disk /\ header' = header
      /\ destroyed' = destroyed /\ exiting' = exiting
  BY <1>2, OpensOnce
<1>4. CopiesKept' /\ (copies' # {} => archive' # 0) /\ nextTemp' \in 0..MaxCopies
  BY <1>2, CopyFileOutKeeps
<1>5. /\ LikeDirectory' /\ Cardinality(answer'.value) <= 1
      /\ (answer'.call # "none" /\ answer'.at # 0 => archive' # 0)
  <2>1. CASE ReadFile(path)
    <3> DEFINE value == Packed(archive', header, path) \cup Unpacked(disk, header, path)
    <3>1. Answer("read", path, value)
      BY <2>1 DEF ReadFile
    <3>2. value = InDirectory(header, "read", path, archive', disk)
            <=> ~Differs(header, "read", path)
      BY <1>1, FileAnswers
    <3>3. Cardinality(value) <= 1
      BY <1>1, OneAnswer
    <3> HIDE DEF value
    <3> QED
      BY <1>2, <3>1, <3>2, <3>3, AnswerLikeDirectory
  <2>2. CASE LstatFile(path)
    <3>1. Answer("lstat", path, Stat(header, path))
      BY <2>2 DEF LstatFile
    <3>2. Stat(header, path) = InDirectory(header, "lstat", path, archive', disk)
            /\ Cardinality(Stat(header, path)) <= 1
      BY <1>1, LstatAnswers, OneAnswer
    <3>3. ~Differs(header, "lstat", path)
      BY DEF Differs, StatOfLink, RealpathThroughLink, UnpackedThroughLink
    <3> QED
      BY <1>2, <3>1, <3>2, <3>3, AnswerLikeDirectory
  <2>3. CASE ReadDirectory(path)
    <3>1. Answer("readdir", path, Readdir(header, path))
      BY <2>3 DEF ReadDirectory
    <3>2. Readdir(header, path) = InDirectory(header, "readdir", path, archive', disk)
            /\ Cardinality(Readdir(header, path)) <= 1
      BY <1>1, ReaddirAnswers, OneAnswer
    <3>3. ~Differs(header, "readdir", path)
      BY DEF Differs, StatOfLink, RealpathThroughLink, UnpackedThroughLink
    <3> QED
      BY <1>2, <3>1, <3>2, <3>3, AnswerLikeDirectory
  <2>4. CASE RealpathOf(path)
    <3>1. Answer("realpath", path, Realpath(header, path))
      BY <2>4 DEF RealpathOf
    <3>2. Cardinality(Realpath(header, path)) <= 1
            /\ (Realpath(header, path) = InDirectory(header, "realpath", path, archive', disk)
                  <=> ~Differs(header, "realpath", path))
      BY <1>1, RealpathAnswers, OneAnswer
    <3> QED
      BY <1>2, <3>1, <3>2, AnswerLikeDirectory
  <2>5. CASE OpenFile(path)
    <3> DEFINE made == {t.content : t \in {u \in temps' : [path |-> path, temp |-> u.temp] \in copies'}}
               value == made \cup Unpacked(disk, header, path)
    <3>1. Answer("open", path, value) /\ CopyFileOut(path)
      BY <2>5 DEF OpenFile
    <3>2. Answer("open", path, value) =>
            (answer'.call # "none" /\ answer'.at # 0 => archive' # 0)
      BY <1>2, OpensOnce DEF Answer
    <3>3. Opened'
      BY <1>2, <1>3, <1>4, <3>1, <3>2 DEF Opened
    <3>4. Usable => made = Packed(archive', header, path)
      BY <1>2, <1>4, <3>1, <3>3, OpenIsRead
    <3>5. Usable => (value = InDirectory(header, "open", path, archive', disk)
                       <=> ~Differs(header, "open", path))
      BY <1>1, <3>4, FileAnswers
    <3>6. Usable => Cardinality(value) <= 1
      BY <1>1, <3>4, OneAnswer
    <3> HIDE DEF value
    <3> QED
      BY <1>2, <3>1, <3>5, <3>6, AnswerLikeDirectory
  <2>6. CASE StatFile(path)
    <3>1. Answer("stat", path, Stat(header, path))
      BY <2>6 DEF StatFile
    <3>2. Cardinality(Stat(header, path)) <= 1
            /\ (Stat(header, path) = InDirectory(header, "stat", path, archive', disk)
                  <=> ~Differs(header, "stat", path))
      BY <1>1, StatAnswers, OneAnswer
    <3> QED
      BY <1>2, <3>1, <3>2, AnswerLikeDirectory
  <2>7. CASE OpenFileWithoutCopy(path)
    <3>1. /\ answer'.call = "notCopied" /\ answer'.value = {}
          /\ archive' # 0
      BY <2>7 DEF OpenFileWithoutCopy, Answer, Usable
    <3>2. LikeDirectory'
      BY <3>1 DEF LikeDirectory
    <3>3. Cardinality(answer'.value) <= 1
      BY <3>1, FS_EmptySet
    <3> QED
      BY <3>1, <3>2, <3>3
  <2> QED
    BY <2>1, <2>2, <2>3, <2>4, <2>5, <2>6, <2>7 DEF Call
<1>6. Opened'
  BY <1>2, <1>3, <1>4, <1>5 DEF Opened
<1>7. FsTypeOK'
  <2>1. \A c \in copies' : c.path \in Paths /\ c.temp \in 0..MaxCopies
    BY <1>4, BoundsAssumption DEF CopiesKept
  <2>2. \A t \in temps' : t.temp \in 0..MaxCopies
    BY <1>4, BoundsAssumption DEF CopiesKept
  <2> QED
    BY <1>1, <1>2, <1>3, <1>4, <1>5, <2>1, <2>2 DEF FsTypeOK
<1> QED
  BY <1>4, <1>5, <1>6, <1>7 DEF AsarInv

LEMMA InstallStep == AsarInv /\ Install => AsarInv'
<1> SUFFICES ASSUME AsarInv, Install PROVE AsarInv'
  OBVIOUS
<1>1. /\ UNCHANGED <<header, archive, destroyed, exiting, answer, copies, temps, nextTemp, handed>>
      /\ disk' = disk + 1 /\ disk < MaxVersion
  BY DEF Install, NoCopy
<1>2. disk' \in 0..MaxVersion /\ archive' \in 0..disk'
  BY <1>1, BoundsAssumption DEF AsarInv, FsTypeOK
<1>3. FsTypeOK'
  BY <1>1, <1>2 DEF AsarInv, FsTypeOK
<1> QED
  BY <1>1, <1>3 DEF AsarInv, Opened, CopiesKept, Holds, LikeDirectory

LEMMA ExitStep == AsarInv /\ Exit => AsarInv'
  BY DEF AsarInv, Exit, FsTypeOK, Opened, CopiesKept, LikeDirectory

LEMMA AsarStep == AsarInv /\ [FsNext]_fsVars => AsarInv'
<1>1. CASE UNCHANGED fsVars
  BY <1>1 DEF fsVars, AsarInv, FsTypeOK, Opened, CopiesKept, Holds, LikeDirectory
<1> QED
  BY <1>1, CallStep, InstallStep, ExitStep DEF FsNext, Call

LEMMA AsarStarts == FsInit => AsarInv
<1> SUFFICES ASSUME FsInit PROVE AsarInv
  OBVIOUS
<1>1. FsTypeOK
  <2>1. disk \in 0..MaxVersion /\ archive \in 0..disk
    BY BoundsAssumption DEF FsInit
  <2>2. Cardinality(answer.value) <= 1
    <3>1. answer.value = {}
      BY DEF FsInit
    <3> QED
      BY <3>1, FS_EmptySet
  <2>3. nextTemp \in 0..MaxCopies
    BY BoundsAssumption DEF FsInit
  <2> QED
    BY <2>1, <2>2, <2>3 DEF FsInit, FsTypeOK
<1> QED
  BY <1>1 DEF FsInit, AsarInv, Opened, CopiesKept, LikeDirectory

(* The invariant behind the three theorems below.                          *)
THEOREM AsarCorrect == FsSpec => []AsarInv
  BY AsarStarts, AsarStep, PTL DEF FsSpec

(* The values have their types: in particular no call finds two answers.   *)
THEOREM FsTypeCorrect == FsSpec => []FsTypeOK
<1>1. AsarInv => FsTypeOK
  BY DEF AsarInv
<1> QED
  BY <1>1, AsarCorrect, PTL

(* Whatever the archive and the path, the functions of fs answer what they *)
(* would for a directory, but in the three cases of Differs (stat of a     *)
(* link, realpath of what is reached through a linked directory, unpacked  *)
(* files reached through a link), where they never do.  Files in the       *)
(* archive are those of the version opened first, unpacked files those of  *)
(* the version that is on disk.                                            *)
THEOREM AnswersLikeDirectory == FsSpec => []LikeDirectory
<1>1. AsarInv => LikeDirectory
  BY DEF AsarInv
<1> QED
  BY <1>1, AsarCorrect, PTL

(* A temporary file given to a script stays, with what it was made for.    *)
THEOREM TempFilesStay == FsSpec => []TempFilesKept
<1>1. AsarInv => TempFilesKept
  <2> SUFFICES ASSUME AsarInv, NEW h \in handed
               PROVE  \E t \in temps : t.temp = h.temp
                        /\ t.content = <<h.version, RealPath(header, h.path)>>
    BY DEF TempFilesKept
  <2> DEFINE c == [path |-> h.path, temp |-> h.temp]
  <2>1. c \in copies /\ h.version = archive /\ c.path = h.path /\ c.temp = h.temp
    BY DEF AsarInv, CopiesKept
  <2> HIDE DEF c
  <2> QED
    BY <2>1 DEF AsarInv, CopiesKept
<1> QED
  BY <1>1, AsarCorrect, PTL

===============================================================================
