------------------------------ MODULE Printing ------------------------------
(***************************************************************************)
(* Printing a page (on Linux).                                             *)
(*                                                                         *)
(*   renderer/printing/print_web_view_helper*.cc   the renderer            *)
(*   browser/printing/printing_message_filter.cc   IO thread: settings     *)
(*   browser/printing/printer_query.cc                                     *)
(*   browser/printing/print_view_manager_base.cc   UI thread: pages        *)
(*   browser/printing/print_job.cc, print_job_manager.cc                   *)
(*   browser/printing/print_job_worker.cc          a thread for each job   *)
(*                                                                         *)
(* (all under chromium_src/chrome).  A query gets the settings and has a   *)
(* worker; when the first message about its pages comes, a job takes the   *)
(* worker over.  Query and job are known by their cookie.                  *)
(***************************************************************************)
EXTENDS Naturals, Sequences, FiniteSets

CONSTANTS
  MaxPrints,    \* bounds the prints asked for
  MaxPages,     \* bounds the pages of one
  Ways,         \* how a print may be asked for
  MaxFaults     \* bounds the failures of printers, renderers and pages

ASSUME PrintingAssumption ==
  /\ MaxPrints \in Nat /\ MaxPages \in Nat \ {0} /\ MaxFaults \in Nat
  /\ Ways \subseteq {"silent", "dialog", "selection"}

VARIABLES
  renderer,     \* its PrintWebViewHelper
  frames,       \* its calls of Print that wait for an answer, innermost last
  asks,         \* questions of the renderer to the IO thread
  replies,      \* answers to the renderer
  queue,        \* queued_queries_, by their cookies
  lastCookie,   \* PrintSettings::NewCookie
  toBrowser,    \* messages of the renderer to the UI thread
  tasks,        \* tasks the workers and jobs have posted to the UI thread
  ui,           \* the UI thread: PrintViewManagerBase and PrintJobManager
  jobs,         \* the PrintJob and the PrintJobWorker of each cookie
  rendered,     \* auxiliary: how many pages were sent for each cookie
  faults        \* auxiliary: how many faults there were

settings == <<asks, replies, queue, lastCookie>>
vars == <<renderer, frames, settings, toBrowser, tasks, ui, jobs, rendered, faults>>

Cookie == 1..(2 * MaxPrints)
NoCookie == 0
NoPage == 0

(* A job and its worker before they are made.  thread is the worker's,     *)
(* todo what it has to run, and stopping whether PrintJobWorker::Stop was  *)
(* posted to the pool of threads (once or more).                           *)
NewJob == [document |-> FALSE, pending |-> FALSE, registered |-> FALSE,
           count |-> 0, got |-> {}, thread |-> "none", todo |-> <<>>, stopping |-> FALSE,
           held |-> FALSE, page |-> NoPage, busy |-> FALSE, poll |-> FALSE,
           cancelled |-> FALSE, spooled |-> {}]

Init ==
  /\ renderer = [alive |-> TRUE, params |-> NoCookie, prepared |-> FALSE,
                 notify |-> TRUE, prints |-> 0]
  /\ frames = <<>>
  /\ asks = {} /\ replies = {} /\ queue = {}
  /\ lastCookie = 0
  /\ toBrowser = <<>> /\ tasks = <<>>
  /\ ui = [open |-> TRUE, live |-> TRUE, job |-> NoCookie, number |-> 0,
           succeeded |-> FALSE, expecting |-> TRUE, current |-> {}, sent |-> <<>>]
  /\ jobs = [c \in Cookie |-> NewJob]
  /\ rendered = [c \in Cookie |-> 0]
  /\ faults = 0

Fault == faults < MaxFaults /\ faults' = faults + 1
NoFault == UNCHANGED faults

-----------------------------------------------------------------------------
(* The renderer.  It waits in Print for the answers of the IO thread; a    *)
(* question about the user's settings lets it handle messages meanwhile.   *)

Message(type, cookie) == [type |-> type, cookie |-> cookie, page |-> NoPage, valid |-> FALSE]

Top == frames[Len(frames)]
Waiting(kind) == frames # <<>> /\ Top.kind = kind
Handles == renderer.alive /\ (frames = <<>> \/ Waiting("user"))
Return == SubSeq(frames, 1, Len(frames) - 1)

(* Print, up to the question of InitPrintSettings.                         *)
StartPrint(way) ==
  /\ Handles /\ ~renderer.prepared /\ renderer.prints < MaxPrints
  /\ renderer' = [renderer EXCEPT !.prints = @ + 1]
  /\ frames' = Append(frames, [kind |-> "default", id |-> renderer.prints + 1, way |-> way])
  /\ asks' = asks \cup {[kind |-> "default", id |-> renderer.prints + 1, cookie |-> NoCookie]}
  /\ UNCHANGED <<replies, queue, lastCookie, toBrowser, tasks, ui, jobs, rendered, faults>>

(* DidFinishPrinting: r is the helper it leaves.                           *)
Finished(r) == [r EXCEPT !.prepared = FALSE, !.params = NoCookie, !.notify = TRUE]

(* DidFinishPrinting(FAIL_PRINT) of a helper.                              *)
FailPrint(r) ==
  /\ renderer' = Finished(r)
  /\ toBrowser' = IF r.notify /\ r.params # NoCookie
                  THEN Append(toBrowser, Message("PrintingFailed", r.params)) ELSE toBrowser
  /\ UNCHANGED rendered

PageMessages(c, n) ==
  [i \in 1..n |-> [type |-> "DidPrintPage", cookie |-> c, page |-> i, valid |-> i = 1]]

(* PrintPages of a helper that has its frame prepared: the count, then     *)
(* PrintPagesNative, which may fail before it sends a page.                *)
PrintPages(r) ==
  \/ Fault /\ FailPrint(r)
  \/ \E n \in 1..MaxPages :
       LET count == [Message("DidGetPrintedPagesCount", r.params) EXCEPT !.page = n] IN
       \/ /\ renderer' = [r EXCEPT !.prepared = FALSE]
          /\ toBrowser' = Append(toBrowser, count) \o PageMessages(r.params, n)
          /\ rendered' = [rendered EXCEPT ![r.params] = n]
          /\ NoFault
       \/ /\ Fault
          /\ renderer' = Finished(r)
          /\ toBrowser' = Append(toBrowser, count)
                            \o (IF r.notify THEN <<Message("PrintingFailed", r.params)>> ELSE <<>>)
          /\ UNCHANGED rendered

(* RenderPagesForPrint with the settings of cookie c.  A selection is      *)
(* loaded into a page of its own first.                                    *)
RenderPagesForPrint(c, way) ==
  LET r == [renderer EXCEPT !.params = c] IN
  \/ renderer.prepared /\ FailPrint(r) /\ NoFault
  \/ /\ ~renderer.prepared /\ way = "selection"
     /\ renderer' = [r EXCEPT !.prepared = TRUE]
     /\ UNCHANGED <<toBrowser, rendered, faults>>
  \/ ~renderer.prepared /\ way # "selection" /\ PrintPages([r EXCEPT !.prepared = TRUE])

ReplyTo(frame) == {a \in replies : a.id = frame.id /\ a.kind = frame.kind}

(* Print goes on with the default settings.                                *)
DefaultSettings ==
  /\ renderer.alive /\ Waiting("default")
  /\ \E a \in ReplyTo(Top) :
       /\ replies' = replies \ {a}
       /\ \/ /\ a.cookie = NoCookie
             /\ renderer' = Finished(renderer)
             /\ frames' = Return
             /\ UNCHANGED <<toBrowser, asks, rendered, faults>>
          \/ /\ a.cookie # NoCookie /\ Fault      \* there are no pages
             /\ FailPrint([renderer EXCEPT !.params = a.cookie])
             /\ frames' = Return
             /\ UNCHANGED asks
          \/ /\ a.cookie # NoCookie /\ Top.way = "silent"
             /\ RenderPagesForPrint(a.cookie, Top.way)
             /\ frames' = Return
             /\ UNCHANGED asks
          \/ /\ a.cookie # NoCookie /\ Top.way # "silent"
             /\ renderer' = [renderer EXCEPT !.params = NoCookie]
             /\ frames' = [frames EXCEPT ![Len(frames)].kind = "user"]
             /\ asks' = asks \cup {[kind |-> "user", id |-> Top.id, cookie |-> a.cookie]}
             /\ UNCHANGED <<toBrowser, rendered, faults>>
  /\ UNCHANGED <<queue, lastCookie, tasks, ui, jobs>>

(* Print goes on with what the user chose in the dialog, or without.       *)
UserSettings ==
  /\ renderer.alive /\ Waiting("user")
  /\ \E a \in ReplyTo(Top) :
       /\ replies' = replies \ {a}
       /\ \/ /\ a.cookie = NoCookie
             /\ renderer' = Finished(renderer)
             /\ UNCHANGED <<toBrowser, rendered, faults>>
          \/ a.cookie # NoCookie /\ RenderPagesForPrint(a.cookie, Top.way)
  /\ frames' = Return
  /\ UNCHANGED <<asks, queue, lastCookie, tasks, ui, jobs>>

(* The selection is loaded: OnFramePreparedForPrintPages.                  *)
SelectionLoaded ==
  /\ Handles /\ renderer.prepared
  /\ PrintPages(renderer)
  /\ UNCHANGED <<frames, settings, tasks, ui, jobs>>

(* OnPrintingDone.                                                         *)
OnPrintingDone ==
  /\ Handles /\ ui.sent # <<>>
  /\ renderer' = Finished(renderer)
  /\ ui' = [ui EXCEPT !.sent = Tail(@)]
  /\ UNCHANGED <<frames, settings, toBrowser, tasks, jobs, rendered, faults>>

(* The process ends.  What it has sent still arrives.                      *)
RendererCrashes ==
  /\ Fault /\ renderer.alive
  /\ renderer' = [Finished(renderer) EXCEPT !.alive = FALSE]
  /\ frames' = <<>>
  /\ replies' = {}
  /\ toBrowser' = Append(toBrowser, Message("Gone", NoCookie))
  /\ ui' = [ui EXCEPT !.sent = <<>>]
  /\ UNCHANGED <<asks, queue, lastCookie, tasks, jobs, rendered>>

-----------------------------------------------------------------------------
(* The IO thread: PrintingMessageFilter and PrinterQuery.                  *)

Reply(a, cookie) ==
  replies' = IF renderer.alive THEN replies \cup {[a EXCEPT !.cookie = cookie]} ELSE replies

(* The worker of the query got settings: these get a cookie, by which the  *)
(* query is queued.                                                        *)
Granted(a) ==
  /\ lastCookie' = lastCookie + 1
  /\ queue' = (queue \ {a.cookie}) \cup {lastCookie + 1}
  /\ Reply(a, lastCookie + 1)
  /\ NoFault

(* There is no printer, or the user cancelled: the query stops its worker. *)
Refused(a) ==
  /\ Fault
  /\ queue' = queue \ {a.cookie}
  /\ Reply(a, NoCookie)
  /\ UNCHANGED lastCookie

(* OnGetDefaultPrintSettings, OnScriptedPrint, which takes the query of    *)
(* the default settings off the queue, and their replies, after the worker *)
(* and the UI thread got the settings.                                     *)
GetSettings ==
  /\ \E a \in asks : asks' = asks \ {a} /\ (Granted(a) \/ Refused(a))
  /\ UNCHANGED <<renderer, frames, toBrowser, tasks, ui, jobs, rendered>>

-----------------------------------------------------------------------------
(* The UI thread.  What its functions do, with the notifications they send *)
(* and the observers these call, is a function of s = [ui, jobs].          *)

IsRunning(job) == job.thread \in {"running", "stopping"}
IsComplete(job) == job.count > 0 /\ job.got = 1..job.count
PostTask(job, task) == IF IsRunning(job) THEN [job EXCEPT !.todo = Append(@, task)] ELSE job

(* UpdatePrintedDocument(NULL).                                            *)
WithoutDocument(job) ==
  IF job.document THEN PostTask([job EXCEPT !.document = FALSE], "no document") ELSE job

(* Mutant: the job does not wait for its worker to stop.                   *)
ShutdownNow(job) ==
  IF IsRunning(job)
  THEN WithoutDocument([job EXCEPT !.pending = FALSE, !.registered = FALSE])
  ELSE WithoutDocument(job)

(* PrintJob::Stop, with ControlledWorkerShutdown.                          *)
Shutdown(job) ==
  IF IsRunning(job)
  THEN WithoutDocument([job EXCEPT !.pending = FALSE, !.registered = FALSE,
                                  !.stopping = TRUE])
  ELSE WithoutDocument(job)

Stop(s, c) == [s EXCEPT !.jobs[c] = Shutdown(@)]

(* ReleasePrintJob, with PrintingDone.                                     *)
Release(s) ==
  IF s.ui.job = NoCookie THEN s
  ELSE [s EXCEPT !.ui.job = NoCookie,
                 !.ui.sent = IF s.ui.live
                             THEN Append(@, [job |-> s.ui.job, success |-> s.ui.succeeded]) ELSE @]

(* PrintJobManager::OnPrintJobEvent of a job that ended.                   *)
Forget(s, c) == [s EXCEPT !.ui.current = @ \ {c}]

(* NOTIFICATION_PRINT_JOB_EVENT of type FAILED: its observers are the      *)
(* manager, the job itself and the view manager, which terminates its job. *)
(* (Within Cancel, is_canceling_ ends that at once.)                       *)
NotifyFailed(s, c) ==
  IF s.jobs[c].registered THEN Stop(Forget(s, c), c) ELSE Forget(s, c)

Cancel(s, c) ==
  LET r == [s EXCEPT !.jobs[c].cancelled = @ \/ IsRunning(s.jobs[c])]
      t == NotifyFailed(r, c)
  IN Stop(IF t.ui.job = c THEN Release(t) ELSE t, c)

(* TerminatePrintJob(cancel).                                              *)
Terminate(s, cancel) ==
  IF s.ui.job = NoCookie THEN s
  ELSE Release(IF cancel THEN Cancel(s, s.ui.job) ELSE Stop(s, s.ui.job))

State == [ui |-> ui, jobs |-> jobs]
Become(s) == ui' = s.ui /\ jobs' = s.jobs

(* Initialize and StartPrinting of a job of n pages, and the first tasks   *)
(* of its worker.                                                          *)
StartedJob(n) ==
  [NewJob EXCEPT !.document = TRUE, !.pending = TRUE, !.registered = TRUE, !.count = n,
                 !.thread = "running", !.todo = <<"document", "start">>]

(* CreateNewPrintJob.  DisconnectFromCurrentPrintJob has nothing to do:    *)
(* there is no job.                                                        *)
CreateNewPrintJob(s, c) ==
  [s EXCEPT !.ui = [@ EXCEPT !.job = c, !.succeeded = FALSE, !.expecting = TRUE,
                             !.current = s.ui.current \cup {c}],
            !.jobs[c] = StartedJob(s.ui.number)]

(* OpportunisticallyCreatePrintJob: what it leaves, with or without a job. *)
Opportunistically(s, c) ==
  IF s.ui.job = NoCookie /\ c \in queue /\ s.ui.live THEN CreateNewPrintJob(s, c) ELSE s

TakesQuery(c) == ui.job = NoCookie /\ c \in queue

OnDidGetPrintedPagesCount(m) ==
  Become(Opportunistically([State EXCEPT !.ui.number = m.page], m.cookie))

(* Mutant: pages are put into the job there is.                            *)
OnDidPrintPageAny(m) ==
  LET s == Opportunistically(State, m.cookie)
      c == s.ui.job
  IN IF c = NoCookie \/ ~s.jobs[c].document
     THEN Become(s)
     ELSE LET r == [s EXCEPT !.ui.expecting = FALSE] IN
          Become(IF s.ui.expecting /\ ~m.valid
                 THEN Terminate(r, TRUE)
                 ELSE [r EXCEPT !.jobs[c].got = @ \cup {m.page}])

(* The first page of a job brings the data of all: without, web_contents() *)
(* is stopped, and NavigationStopped cancels the job.                      *)
OnDidPrintPage(m) ==
  LET s == Opportunistically(State, m.cookie)
      c == s.ui.job
  IN IF c = NoCookie \/ ~s.jobs[c].document \/ c # m.cookie
     THEN Become(s)
     ELSE LET r == [s EXCEPT !.ui.expecting = FALSE] IN
          Become(IF s.ui.expecting /\ ~m.valid
                 THEN Terminate(r, TRUE)
                 ELSE [r EXCEPT !.jobs[c].got = @ \cup {m.page}])

(* RenderProcessGone.                                                      *)
OnGone ==
  LET s == [State EXCEPT !.ui.live = FALSE, !.ui.sent = <<>>] IN
  Become(IF ui.job # NoCookie /\ jobs[ui.job].document
         THEN Terminate(s, ~IsComplete(jobs[ui.job])) ELSE s)

(* OnMessageReceived of the view manager.  OnPrintingFailed compares the   *)
(* cookie with cookie_, which nothing sends: it returns at once.           *)
OnMessageReceived ==
  /\ toBrowser # <<>> /\ toBrowser' = Tail(toBrowser)
  /\ LET m == Head(toBrowser) IN
     /\ queue' = IF ui.open /\ TakesQuery(m.cookie) /\ m.type # "PrintingFailed"
                 THEN queue \ {m.cookie} ELSE queue
     /\ \/ ~ui.open /\ UNCHANGED <<ui, jobs>>
        \/ ui.open /\ m.type = "DidGetPrintedPagesCount" /\ OnDidGetPrintedPagesCount(m)
        \/ ui.open /\ m.type = "DidPrintPage" /\ OnDidPrintPage(m)
        \/ ui.open /\ m.type = "PrintingFailed" /\ UNCHANGED <<ui, jobs>>
        \/ ui.open /\ m.type = "Gone" /\ OnGone
  /\ UNCHANGED <<renderer, frames, asks, replies, lastCookie, tasks, rendered, faults>>

NavigationStopped ==
  /\ Fault /\ ui.open /\ ui.job # NoCookie
  /\ Become(Terminate(State, TRUE))
  /\ UNCHANGED <<renderer, frames, settings, toBrowser, tasks, rendered>>

(* ~PrintViewManagerBase.  Its web_contents() is gone by then, so that     *)
(* RenderAllMissingPagesNow does not run its inner message loop.           *)
PageClosed ==
  /\ Fault /\ ui.open
  /\ LET s == [State EXCEPT !.ui.open = FALSE, !.ui.live = FALSE, !.ui.sent = <<>>]
         incomplete == ui.job # NoCookie /\ jobs[ui.job].document /\ ~IsComplete(jobs[ui.job])
     IN Become(IF incomplete THEN Terminate(s, TRUE) ELSE Release(s))
  /\ renderer' = [Finished(renderer) EXCEPT !.alive = FALSE]
  /\ frames' = <<>> /\ replies' = {} /\ toBrowser' = <<>>
  /\ UNCHANGED <<asks, queue, lastCookie, tasks, rendered>>

(* Mutant: a job that is done does not stop its worker.                    *)
DocumentDoneKeeping(s, c) ==
  IF s.ui.job = c THEN Release([Forget(s, c) EXCEPT !.ui.succeeded = TRUE]) ELSE Forget(s, c)

(* PrintJob::OnDocumentDone of a job, and JOB_DONE.                        *)
DocumentDone(s, c) ==
  LET t == Forget(Stop(s, c), c)
  IN IF t.ui.job = c THEN Release([t EXCEPT !.ui.succeeded = TRUE]) ELSE t

(* A task of the UI thread: the notification FAILED or DOC_DONE of a       *)
(* worker, or OnDocumentDone, which the latter posts.                      *)
RunTask ==
  /\ tasks # <<>>
  /\ LET c == Head(tasks).job
         r == NotifyFailed(State, c)
     IN \/ /\ Head(tasks).type = "Failed"
           /\ Become(IF r.ui.job = c THEN Terminate(r, TRUE) ELSE r)
           /\ tasks' = Tail(tasks)
        \/ /\ Head(tasks).type = "DocDone"
           /\ tasks' = Tail(tasks) \o (IF jobs[c].registered
                                       THEN <<[type |-> "Done", job |-> c]>> ELSE <<>>)
           /\ UNCHANGED <<ui, jobs>>
        \/ /\ Head(tasks).type = "Done"
           /\ Become(DocumentDone(State, c))
           /\ tasks' = Tail(tasks)
  /\ UNCHANGED <<renderer, frames, settings, toBrowser, rendered, faults>>

-----------------------------------------------------------------------------
(* The thread of a worker, and the pool of threads that stop it.           *)

Post(type, c) == [type |-> type, job |-> c]

(* OnFailure: the context is cancelled and the UI thread told.             *)
Failed(job) == [job EXCEPT !.cancelled = TRUE, !.held = FALSE, !.page = NoPage, !.busy = FALSE]

(* The context fails once it is cancelled, and by a fault.                 *)
FailsHere(job) == (job.cancelled /\ NoFault) \/ (~job.cancelled /\ Fault)

(* Runs its next task: OnDocumentChanged, StartPrinting, or the end.       *)
WorkerTask(c) ==
  /\ IsRunning(jobs[c]) /\ ~jobs[c].busy /\ jobs[c].todo # <<>>
  /\ LET task == Head(jobs[c].todo)
         job  == [jobs[c] EXCEPT !.todo = Tail(@)]
     IN \/ /\ task \in {"document", "no document"}
           /\ jobs' = [jobs EXCEPT ![c] =
                IF job.page = NoPage THEN [job EXCEPT !.held = (task = "document")] ELSE job]
           /\ UNCHANGED <<tasks, faults>>
        \/ /\ task = "start" /\ job.held /\ ~job.cancelled
           /\ jobs' = [jobs EXCEPT ![c] = [job EXCEPT !.page = 1, !.busy = TRUE]]
           /\ UNCHANGED <<tasks, faults>>
        \/ /\ task = "start" /\ job.held /\ FailsHere(job)
           /\ jobs' = [jobs EXCEPT ![c] = Failed(job)]
           /\ tasks' = Append(tasks, Post("Failed", c))
        \/ /\ task = "quit"
           /\ jobs' = [jobs EXCEPT ![c] =
                [job EXCEPT !.thread = "stopped", !.todo = <<>>, !.poll = FALSE]]
           /\ UNCHANGED <<tasks, faults>>
  /\ UNCHANGED <<renderer, frames, settings, toBrowser, ui, rendered>>

(* The delayed task OnNewPage.                                             *)
OnNewPage(c) ==
  /\ IsRunning(jobs[c]) /\ ~jobs[c].busy /\ jobs[c].poll
  /\ jobs' = [jobs EXCEPT ![c] = [@ EXCEPT !.poll = FALSE, !.busy = jobs[c].held]]
  /\ UNCHANGED <<renderer, frames, settings, toBrowser, tasks, ui, rendered, faults>>

(* One round of the loop of OnNewPage: SpoolPage, and OnDocumentDone after *)
(* the last page.  A page that fails makes two failures: the loop goes on  *)
(* to OnDocumentDone, because npos() is its own successor.                 *)
SpoolUpTo(c, end) ==
  /\ jobs[c].busy
  /\ LET job  == jobs[c]
         next == [job EXCEPT !.spooled = @ \cup {job.page}]
     IN \/ /\ job.page \notin job.got
           /\ jobs' = [jobs EXCEPT ![c] = [job EXCEPT !.busy = FALSE, !.poll = TRUE]]
           /\ UNCHANGED <<tasks, faults>>
        \/ /\ job.page \in job.got /\ FailsHere(job)
           /\ jobs' = [jobs EXCEPT ![c] = Failed(job)]
           /\ tasks' = tasks \o <<Post("Failed", c), Post("Failed", c)>>
        \/ /\ job.page \in job.got /\ ~job.cancelled /\ job.page < end
           /\ jobs' = [jobs EXCEPT ![c] = [next EXCEPT !.page = job.page + 1]]
           /\ UNCHANGED <<tasks, faults>>
        \/ /\ job.page \in job.got /\ ~job.cancelled /\ job.page >= end
           /\ jobs' = [jobs EXCEPT ![c] =
                [next EXCEPT !.page = NoPage, !.busy = FALSE, !.held = FALSE]]
           /\ tasks' = Append(tasks, Post("DocDone", c))
           /\ NoFault
  /\ UNCHANGED <<renderer, frames, settings, toBrowser, ui, rendered>>

(* Mutant: the last page is not spooled.                                   *)
SpoolPageShort(c) == SpoolUpTo(c, jobs[c].count - 1)

SpoolPage(c) == SpoolUpTo(c, jobs[c].count)

(* A thread of the pool runs PrintJobWorker::Stop, which makes the thread  *)
(* quit after its tasks, and is back once it has ended.                    *)
StopWorker(c) ==
  /\ jobs[c].stopping /\ jobs[c].thread = "running"
  /\ jobs' = [jobs EXCEPT ![c] = [@ EXCEPT !.thread = "stopping",
                                          !.todo = Append(jobs[c].todo, "quit")]]
  /\ UNCHANGED <<renderer, frames, settings, toBrowser, tasks, ui, rendered, faults>>

HoldUntilStopIsCalled(c) ==
  /\ jobs[c].stopping /\ jobs[c].thread = "stopped"
  /\ jobs' = [jobs EXCEPT ![c].stopping = FALSE]
  /\ UNCHANGED <<renderer, frames, settings, toBrowser, tasks, ui, rendered, faults>>

-----------------------------------------------------------------------------
Renderer == DefaultSettings \/ UserSettings \/ SelectionLoaded \/ OnPrintingDone
UIThread == OnMessageReceived \/ RunTask
Worker(c) == WorkerTask(c) \/ OnNewPage(c) \/ SpoolPage(c)
Pool(c) == StopWorker(c) \/ HoldUntilStopIsCalled(c)

Next ==
  \/ \E way \in Ways : StartPrint(way)
  \/ Renderer \/ RendererCrashes
  \/ GetSettings
  \/ UIThread \/ NavigationStopped \/ PageClosed
  \/ \E c \in Cookie : Worker(c)
  \/ \E c \in Cookie : Pool(c)

(* Every thread goes on with what it has to do; a worker runs its tasks    *)
(* although it looks for a page again and again.                           *)
Fairness ==
  /\ WF_vars(Renderer) /\ WF_vars(GetSettings)
  /\ WF_vars(OnMessageReceived) /\ WF_vars(RunTask)
  /\ SF_vars(\E c \in Cookie : WorkerTask(c))
  /\ WF_vars(\E c \in Cookie : Pool(c))
  /\ \A c \in Cookie : WF_vars(OnNewPage(c) \/ SpoolPage(c))

Spec == Init /\ [][Next]_vars
FairSpec == Spec /\ Fairness

-----------------------------------------------------------------------------
(* Something keeps the job: the view manager, the job manager, a task of   *)
(* the worker or of the UI thread, or the stop it waits for.               *)
Referenced(c) ==
  \/ ui.job = c \/ c \in ui.current
  \/ jobs[c].todo # <<>> \/ jobs[c].busy
  \/ \E i \in 1..Len(tasks) : tasks[i].job = c
  \/ jobs[c].stopping

(* A job is not destroyed before its worker's thread has ended (the        *)
(* assertions of ~PrintJob), in whatever order the printer, the page and   *)
(* the tasks of the two threads end it.                                    *)
JobOutlivesWorker == \A c \in Cookie : IsRunning(jobs[c]) => Referenced(c)

(* What the page is told it has printed was spooled: every page that the   *)
(* renderer made for that job, and none of another one.                    *)
SuccessMeansSpooled ==
  \A i \in 1..Len(ui.sent) :
    LET done == ui.sent[i] IN
    done.success => /\ jobs[done.job].spooled = 1..jobs[done.job].count
                    /\ jobs[done.job].count = rendered[done.job]

(* A job gets pages of its own document only, and only those the renderer  *)
(* has made, although messages of an earlier print arrive late.            *)
PagesOfOwnDocument == \A c \in Cookie : jobs[c].got \subseteq 1..rendered[c]

(* Workers whose job has all its pages, or has ended, do not stay: their   *)
(* threads end, also when the job was cancelled while they looked for a    *)
(* page or while the printer failed.                                       *)
WorkersStop ==
  []<>(\A c \in Cookie : IsRunning(jobs[c]) => jobs[c].document /\ ~IsComplete(jobs[c]))

=============================================================================
