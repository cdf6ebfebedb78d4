--------------------------- MODULE PrintingProofs ---------------------------
(***************************************************************************)
(* What holds of a print in every order of the steps of the renderer, the  *)
(* IO thread, the UI thread and the workers: a job outlives its worker,    *)
(* gets the pages of its own document only, and the page is told of a      *)
(* success only when all of them were spooled.                             *)
(***************************************************************************)
EXTENDS Printing, FiniteSetTheorems, SequenceTheorems, TLAPS

Flag     == {TRUE, FALSE}
Kinds    == {"default", "user"}
Threads  == {"none", "running", "stopping", "stopped"}
Todo     == {"document", "start", "no document", "quit"}
Frame    == [kind : Kinds, id : Nat, way : Ways]
Asked    == [kind : Kinds, id : Nat, cookie : Nat]
Messages == [type : {"DidGetPrintedPagesCount", "DidPrintPage", "PrintingFailed", "Gone"},
             cookie : Nat, page : Nat, valid : Flag]
Task     == [type : {"Failed", "DocDone", "Done"}, job : Cookie]
Job      == [document : Flag, pending : Flag, registered : Flag,
             count : Nat, got : SUBSET Nat, thread : Threads, todo : Seq(Todo),
             stopping : Flag, held : Flag, page : Nat, busy : Flag, poll : Flag,
             cancelled : Flag, spooled : SUBSET Nat]
Sent     == [job : Cookie, success : Flag]
Ui       == [open : Flag, live : Flag, job : Cookie \cup {NoCookie}, number : Nat,
             succeeded : Flag, expecting : Flag, current : SUBSET Cookie, sent : Seq(Sent)]
Browser  == [ui : Ui, jobs : [Cookie -> Job]]
Helper   == [alive : Flag, params : Cookie \cup {NoCookie}, prepared : Flag,
             notify : Flag, prints : 0..MaxPrints]

TypeOK ==
  /\ renderer \in Helper
  /\ frames \in Seq(Frame)
  /\ asks \in SUBSET Asked /\ IsFiniteSet(asks) /\ replies \in SUBSET Asked
  /\ queue \in SUBSET Cookie /\ lastCookie \in Nat
  /\ toBrowser \in Seq(Messages)
  /\ tasks \in Seq(Task)
  /\ State \in Browser
  /\ rendered \in [Cookie -> Nat]
  /\ faults \in Nat

-----------------------------------------------------------------------------
(* Every print may ask twice, and each question gets one cookie at most.   *)
Blocked == IF Waiting("default") THEN 1 ELSE 0

PrintsInv ==
  /\ \A i \in 1..Len(frames) - 1 : frames[i].kind = "user"
  /\ Waiting("default") => ~renderer.prepared
  /\ lastCookie + Cardinality(asks) + Blocked <= 2 * renderer.prints

(* The renderer has a cookie that it has not printed with.                 *)
Unused(c) == (\E a \in replies : a.cookie = c) \/ (renderer.prepared /\ renderer.params = c)

(* No page was made with such a cookie, nor with one not given out, no     *)
(* message has it and no job.  It is in one place.                         *)
CookieInv ==
  /\ \A a \in replies : a.cookie <= lastCookie
  /\ \A a, b \in replies : a.cookie = b.cookie /\ a.cookie # NoCookie => a = b
  /\ renderer.params <= lastCookie
  /\ renderer.prepared =>
       /\ renderer.params # NoCookie
       /\ \A a \in replies : a.cookie # renderer.params
  /\ \A c \in Cookie : (c > lastCookie \/ Unused(c)) =>
       /\ rendered[c] = 0 /\ jobs[c].thread = "none"
       /\ \A i \in 1..Len(toBrowser) : toBrowser[i].cookie # c
  /\ \A c \in Cookie : jobs[c].thread # "none" => c \notin queue

(* Messages of pages follow the count of these pages, which is number once *)
(* it was received.                                                        *)
InOrder(q, number, made) ==
  \A i \in 1..Len(q) :
    /\ q[i].type = "DidPrintPage" =>
         /\ q[i].cookie \in Cookie /\ q[i].page \in 1..made[q[i].cookie]
         /\ IF i = 1 THEN number = made[q[i].cookie]
            ELSE /\ q[i - 1].cookie = q[i].cookie
                 /\ q[i - 1].type \in {"DidPrintPage", "DidGetPrintedPagesCount"}
    /\ q[i].type = "DidGetPrintedPagesCount" =>
         /\ q[i].cookie \in Cookie /\ q[i].page >= 1
         /\ made[q[i].cookie] \in {0, q[i].page}

MessageInv ==
  /\ InOrder(toBrowser, ui.number, rendered)
  /\ ~ui.open => toBrowser = <<>> /\ ~renderer.alive

(* A worker gets its document, starts once, and spools page after page.    *)
Working(job, n) ==
  /\ job.thread # "none" => job.count >= 1 /\ n \in {0, job.count}
  /\ job.got \subseteq 1..n
  /\ \A i \in 1..Len(job.todo) :
       /\ job.todo[i] = "document" => i = 1 /\ job.page = NoPage
       /\ job.todo[i] = "start" => /\ job.spooled = {} /\ job.page = NoPage
                                   /\ i = 1 \/ (i = 2 /\ job.todo[1] = "document")
  /\ job.page # NoPage =>
       job.thread # "none" /\ job.spooled = 1..job.page - 1 /\ job.page <= job.count
  /\ job.busy => job.page # NoPage /\ ~job.poll
  /\ job.poll => job.page # NoPage

(* All n pages are spooled and the worker has nothing more to spool.       *)
Complete(job, n) ==
  /\ job.thread # "none" /\ job.count = n /\ job.spooled = 1..n
  /\ ~job.held /\ job.page = NoPage
  /\ \A i \in 1..Len(job.todo) : job.todo[i] # "document"

(* A worker that runs is being stopped, or else its job still listens to   *)
(* the notifications and the job manager keeps it.                         *)
Kept(s) ==
  \A c \in Cookie : IsRunning(s.jobs[c]) =>
    s.jobs[c].stopping \/ (s.jobs[c].registered /\ c \in s.ui.current)

Reported(s, made) ==
  /\ s.ui.job # NoCookie => s.jobs[s.ui.job].thread # "none" /\ ~s.ui.succeeded
  /\ \A i \in 1..Len(s.ui.sent) : s.ui.sent[i].success =>
       Complete(s.jobs[s.ui.sent[i].job], made[s.ui.sent[i].job])

JobsInv(s, made) ==
  /\ \A c \in Cookie : Working(s.jobs[c], made[c])
  /\ Kept(s)
  /\ Reported(s, made)

(* A worker says that its document is done when it is.                     *)
Announced(q, s, made) ==
  \A i \in 1..Len(q) : q[i].type \in {"DocDone", "Done"} =>
    Complete(s.jobs[q[i].job], made[q[i].job])

PrintInv ==
  /\ TypeOK
  /\ PrintsInv
  /\ CookieInv
  /\ MessageInv
  /\ JobsInv(State, rendered)
  /\ Announced(tasks, State, rendered)

-----------------------------------------------------------------------------
(* What the UI thread does to end a job changes this much of it at most.   *)
Stopped(a, b) ==
  /\ b \in Job
  /\ b.thread = a.thread /\ b.count = a.count /\ b.got = a.got /\ b.spooled = a.spooled
  /\ b.held = a.held /\ b.page = a.page /\ b.busy = a.busy /\ b.poll = a.poll
  /\ Len(a.todo) <= Len(b.todo)
  /\ \A i \in 1..Len(b.todo) :
       b.todo[i] = IF i <= Len(a.todo) THEN a.todo[i] ELSE "no document"

(* And this much of all: the view manager may release its job, of which it *)
(* tells the page.                                                         *)
Ends(s, t) ==
  /\ t \in Browser
  /\ \A c \in Cookie : Stopped(s.jobs[c], t.jobs[c])
  /\ Kept(s) => Kept(t)
  /\ t.ui.open = s.ui.open /\ t.ui.live = s.ui.live /\ t.ui.number = s.ui.number
  /\ t.ui.succeeded = s.ui.succeeded /\ t.ui.job \in {s.ui.job, NoCookie}
  /\ \/ t.ui.sent = s.ui.sent
     \/ /\ s.ui.job # NoCookie /\ t.ui.job = NoCookie
        /\ t.ui.sent = Append(s.ui.sent, [job |-> s.ui.job, success |-> s.ui.succeeded])

LEMMA StoppedRefl ==
  ASSUME NEW a \in Job
  PROVE  Stopped(a, a)
<1>1. a.todo \in Seq(Todo)
  BY DEF Job
<1>2. Len(a.todo) \in Nat
  BY <1>1
<1>3. Len(a.todo) <= Len(a.todo) /\ \A i \in 1..Len(a.todo) : i <= Len(a.todo)
  BY <1>2
<1>. QED
  BY <1>3 DEF Stopped

LEMMA StoppedTrans ==
  ASSUME NEW a \in Job, NEW b \in Job, NEW d \in Job, Stopped(a, b), Stopped(b, d)
  PROVE  Stopped(a, d)
<1>1. a.todo \in Seq(Todo) /\ b.todo \in Seq(Todo) /\ d.todo \in Seq(Todo)
  BY DEF Job
<1>2. Len(a.todo) \in Nat /\ Len(b.todo) \in Nat /\ Len(d.todo) \in Nat
  BY <1>1
<1>3. Len(a.todo) <= Len(d.todo)
  <2>1. Len(a.todo) <= Len(b.todo) /\ Len(b.todo) <= Len(d.todo)
    BY DEF Stopped
  <2>. QED
    BY <1>2, <2>1
<1>4. ASSUME NEW i \in 1..Len(d.todo)
      PROVE  d.todo[i] = IF i <= Len(a.todo) THEN a.todo[i] ELSE "no document"
  <2>1. CASE i <= Len(b.todo)
    <3>1. i \in 1..Len(b.todo)
      BY <1>2, <2>1
    <3>. QED
      BY <2>1, <3>1 DEF Stopped
  <2>2. CASE ~(i <= Len(b.todo))
    <3>1. Len(a.todo) <= Len(b.todo)
      BY DEF Stopped
    <3>2. ~(i <= Len(a.todo))
      BY <1>2, <2>2, <3>1
    <3>. QED
      BY <2>2, <3>2 DEF Stopped
  <2>. QED
    BY <2>1, <2>2
<1>. QED
  BY <1>3, <1>4 DEF Stopped

LEMMA EndsTrans ==
  ASSUME NEW r \in Browser, NEW s \in Browser, NEW t, Ends(r, s), Ends(s, t)
  PROVE  Ends(r, t)
<1>1. t \in Browser
  BY DEF Ends
<1>2. ASSUME NEW c \in Cookie PROVE Stopped(r.jobs[c], t.jobs[c])
  <2>1. r.jobs[c] \in Job /\ s.jobs[c] \in Job /\ t.jobs[c] \in Job
    BY <1>1 DEF Browser
  <2>2. Stopped(r.jobs[c], s.jobs[c]) /\ Stopped(s.jobs[c], t.jobs[c])
    BY DEF Ends
  <2>. QED
    BY <2>1, <2>2, StoppedTrans
<1>3. Kept(r) => Kept(t)
  BY DEF Ends
<1>4. /\ t.ui.open = r.ui.open /\ t.ui.live = r.ui.live /\ t.ui.number = r.ui.number
      /\ t.ui.succeeded = r.ui.succeeded /\ t.ui.job \in {r.ui.job, NoCookie}
  BY DEF Ends
<1>5. \/ t.ui.sent = r.ui.sent
      \/ /\ r.ui.job # NoCookie /\ t.ui.job = NoCookie
         /\ t.ui.sent = Append(r.ui.sent, [job |-> r.ui.job, success |-> r.ui.succeeded])
  BY DEF Ends
<1>. QED
  BY <1>1, <1>2, <1>3, <1>4, <1>5 DEF Ends

(* The steps of an end.                                                    *)
LEMMA Appended ==
  ASSUME NEW S, NEW q \in Seq(S), NEW x \in S
  PROVE  /\ Append(q, x) \in Seq(S) /\ Len(q) \in Nat /\ Len(Append(q, x)) = Len(q) + 1
         /\ \A i \in 1..Len(q) : Append(q, x)[i] = q[i]
         /\ Append(q, x)[Len(q) + 1] = x
  OBVIOUS

LEMMA TodoAppend ==
  ASSUME NEW job \in Job, IsRunning(job)
  PROVE  LET b == [job EXCEPT !.todo = Append(@, "no document")]
         IN  Stopped(job, b) /\ b.stopping = job.stopping
<1> DEFINE q == Append(job.todo, "no document")
<1> DEFINE b == [job EXCEPT !.todo = q]
<1>1. job.todo \in Seq(Todo) /\ "no document" \in Todo
  BY DEF Job, Todo
<1> HIDE DEF q
<1>2. q \in Seq(Todo) /\ Len(q) = Len(job.todo) + 1 /\ Len(job.todo) \in Nat
  BY <1>1, Appended, ZenonT(40) DEF q
<1>3. /\ \A i \in 1..Len(job.todo) : q[i] = job.todo[i]
      /\ q[Len(job.todo) + 1] = "no document"
  <2>1. ASSUME NEW x \in Todo, NEW todo \in Seq(Todo)
        PROVE  /\ \A i \in 1..Len(todo) : Append(todo, x)[i] = todo[i]
               /\ Append(todo, x)[Len(todo) + 1] = x
    BY Appended
  <2>. QED
    BY <1>1, <2>1 DEF q
<1>7. ASSUME NEW i \in 1..Len(q)
      PROVE  q[i] = IF i <= Len(job.todo) THEN job.todo[i] ELSE "no document"
  <2>1. CASE i <= Len(job.todo)
    <3>1. i \in 1..Len(job.todo)
      BY <1>2, <2>1
    <3>. QED
      BY <1>3, <2>1, <3>1
  <2>2. CASE i = Len(job.todo) + 1
    <3>1. ~(i <= Len(job.todo))
      BY <1>2, <2>2
    <3>. QED
      BY <1>3, <2>2, <3>1
  <2>3. i <= Len(job.todo) \/ i = Len(job.todo) + 1
    BY <1>2
  <2>. QED
    BY <2>1, <2>2, <2>3
<1>4. b \in Job /\ b.todo = q
  BY <1>2 DEF Job
<1>5. /\ b.thread = job.thread /\ b.count = job.count /\ b.got = job.got
      /\ b.spooled = job.spooled /\ b.held = job.held /\ b.page = job.page
      /\ b.busy = job.busy /\ b.poll = job.poll /\ b.stopping = job.stopping
  BY DEF Job
<1>6. Stopped(job, b)
  <2>1. Len(job.todo) <= Len(q)
    BY <1>2
  <2> HIDE DEF b
  <2>. QED
    BY <1>4, <1>5, <1>7, <2>1 DEF Stopped
<1>. QED
  BY <1>5, <1>6 DEF q

LEMMA WithoutDocumentStops ==
  ASSUME NEW job \in Job
  PROVE  Stopped(job, WithoutDocument(job)) /\ WithoutDocument(job).stopping = job.stopping
<1> DEFINE b == [job EXCEPT !.document = FALSE]
<1>1. b \in Job
  BY DEF Job, Flag
<1>2. b.todo = job.todo /\ b.thread = job.thread /\ b.stopping = job.stopping
  BY DEF Job
<1>3. Stopped(job, b)
  <2>1. /\ b.count = job.count /\ b.got = job.got
        /\ b.spooled = job.spooled /\ b.held = job.held /\ b.page = job.page
        /\ b.busy = job.busy /\ b.poll = job.poll
    BY DEF Job
  <2>2. Stopped(job, job)
    BY StoppedRefl
  <2>. HIDE DEF b
  <2>. QED
    BY <1>1, <1>2, <2>1, <2>2 DEF Stopped
<1>4. CASE ~job.document
  BY <1>4, StoppedRefl DEF WithoutDocument
<1>5. CASE job.document /\ ~IsRunning(b)
  BY <1>2, <1>3, <1>5 DEF WithoutDocument, PostTask
<1>6. CASE job.document /\ IsRunning(b)
  <2> DEFINE d == [b EXCEPT !.todo = Append(@, "no document")]
  <2>1. WithoutDocument(job) = d
    BY <1>6 DEF WithoutDocument, PostTask
  <2> HIDE DEF b
  <2>2. Stopped(b, d) /\ d.stopping = b.stopping
    BY <1>1, <1>6, TodoAppend
  <2> HIDE DEF d
  <2>3. Stopped(job, d)
    <3>1. d \in Job
      BY <2>2 DEF Stopped
    <3>. QED
      BY <1>1, <1>3, <2>2, <3>1, StoppedTrans
  <2>. QED
    BY <1>2, <2>1, <2>2, <2>3
<1>. QED
  BY <1>4, <1>5, <1>6

LEMMA ShutdownStops ==
  ASSUME NEW job \in Job
  PROVE  /\ Stopped(job, Shutdown(job))
         /\ IsRunning(job) \/ job.stopping => Shutdown(job).stopping
<1> DEFINE b == [job EXCEPT !.pending = FALSE, !.registered = FALSE, !.stopping = TRUE]
<1>1. b \in Job /\ b.stopping
  BY DEF Job, Flag
<1>2. Stopped(job, b)
  <2>1. /\ b.count = job.count /\ b.got = job.got /\ b.todo = job.todo /\ b.thread = job.thread
        /\ b.spooled = job.spooled /\ b.held = job.held /\ b.page = job.page
        /\ b.busy = job.busy /\ b.poll = job.poll
    BY DEF Job
  <2>2. Stopped(job, job)
    BY StoppedRefl
  <2>. HIDE DEF b
  <2>. QED
    BY <1>1, <2>1, <2>2 DEF Stopped
<1>3. CASE ~IsRunning(job)
  BY <1>3, WithoutDocumentStops DEF Shutdown
<1>4. CASE IsRunning(job)
  <2>1. Shutdown(job) = WithoutDocument(b)
    BY <1>4 DEF Shutdown
  <2> HIDE DEF b
  <2>2. Stopped(b, WithoutDocument(b)) /\ WithoutDocument(b).stopping
    BY <1>1, WithoutDocumentStops
  <2>3. WithoutDocument(b) \in Job
    BY <2>2 DEF Stopped
  <2>. QED
    BY <1>1, <1>2, <2>1, <2>2, <2>3, StoppedTrans
<1>. QED
  BY <1>3, <1>4

LEMMA StoppedRuns ==
  ASSUME NEW a, NEW b, Stopped(a, b)
  PROVE  IsRunning(b) <=> IsRunning(a)
  BY DEF Stopped, IsRunning

-----------------------------------------------------------------------------
LEMMA SetJob ==
  ASSUME NEW s \in Browser, NEW c \in Cookie, NEW job \in Job
  PROVE  LET t == [s EXCEPT !.jobs[c] = job] IN
         /\ t \in Browser /\ t.ui = s.ui /\ t.jobs[c] = job
         /\ \A d \in Cookie : d # c => t.jobs[d] = s.jobs[d]
  BY DEF Browser

LEMMA BrowserTypes ==
  ASSUME NEW s \in Browser
  PROVE  s.ui \in Ui /\ \A c \in Cookie : s.jobs[c] \in Job
  BY DEF Browser

LEMMA SetCurrent ==
  ASSUME NEW s \in Browser, NEW C \in SUBSET Cookie
  PROVE  LET t == [s EXCEPT !.ui.current = C] IN
         /\ t \in Browser /\ t.jobs = s.jobs /\ t.ui.current = C
         /\ t.ui.open = s.ui.open /\ t.ui.live = s.ui.live /\ t.ui.number = s.ui.number
         /\ t.ui.succeeded = s.ui.succeeded /\ t.ui.job = s.ui.job /\ t.ui.sent = s.ui.sent
  BY DEF Browser, Ui

LEMMA StopEnds ==
  ASSUME NEW s \in Browser, NEW c \in Cookie
  PROVE  /\ Ends(s, Stop(s, c)) /\ Stop(s, c).ui = s.ui
         /\ IsRunning(Stop(s, c).jobs[c]) => Stop(s, c).jobs[c].stopping
         /\ \A d \in Cookie : d # c => Stop(s, c).jobs[d] = s.jobs[d]
<1> DEFINE job == Shutdown(s.jobs[c])
           t == [s EXCEPT !.jobs[c] = job]
<1>1. s.ui \in Ui /\ \A d \in Cookie : s.jobs[d] \in Job
  BY BrowserTypes
<1>2. /\ Stopped(s.jobs[c], job)
      /\ IsRunning(s.jobs[c]) \/ s.jobs[c].stopping => job.stopping
  BY <1>1, ShutdownStops
<1>3. Stop(s, c) = t
  BY DEF Stop
<1> HIDE DEF job
<1>4. job \in Job
  BY <1>2 DEF Stopped
<1>5. /\ t \in Browser /\ t.ui = s.ui /\ t.jobs[c] = job
      /\ \A d \in Cookie : d # c => t.jobs[d] = s.jobs[d]
  BY <1>4, SetJob
<1> HIDE DEF t
<1>6. \A d \in Cookie : Stopped(s.jobs[d], t.jobs[d])
  BY <1>1, <1>2, <1>5, StoppedRefl
<1>7. IsRunning(job) => job.stopping
  BY <1>2, StoppedRuns
<1>8. Kept(s) => Kept(t)
  BY <1>5, <1>7 DEF Kept
<1>. QED
  BY <1>3, <1>5, <1>6, <1>7, <1>8 DEF Ends

LEMMA ReleaseEnds ==
  ASSUME NEW s \in Browser
  PROVE  Ends(s, Release(s)) /\ Release(s).ui.job = NoCookie /\ Release(s).jobs = s.jobs
<1>1. s.ui \in Ui /\ \A d \in Cookie : s.jobs[d] \in Job
  BY BrowserTypes
<1>2. \A d \in Cookie : Stopped(s.jobs[d], s.jobs[d])
  BY <1>1, StoppedRefl
<1>3. CASE s.ui.job = NoCookie
  <2>1. Release(s) = s
    BY <1>3 DEF Release
  <2>. QED
    BY <1>2, <1>3, <2>1 DEF Ends
<1>4. CASE s.ui.job # NoCookie
  <2> DEFINE told == [job |-> s.ui.job, success |-> s.ui.succeeded]
             sent == IF s.ui.live THEN Append(s.ui.sent, told) ELSE s.ui.sent
             t == [s EXCEPT !.ui.job = NoCookie, !.ui.sent = sent]
  <2>1. Release(s) = t
    BY <1>4 DEF Release
  <2>2. told \in Sent /\ s.ui.sent \in Seq(Sent)
    BY <1>1, <1>4 DEF Ui, Sent
  <2>3. sent \in Seq(Sent) /\ sent \in {s.ui.sent, Append(s.ui.sent, told)}
    <3> HIDE DEF told
    <3>. QED
      BY <2>2, Appended
  <2> HIDE DEF sent
  <2>4. /\ t \in Browser /\ t.jobs = s.jobs /\ t.ui.current = s.ui.current
        /\ t.ui.open = s.ui.open /\ t.ui.live = s.ui.live /\ t.ui.number = s.ui.number
        /\ t.ui.succeeded = s.ui.succeeded /\ t.ui.job = NoCookie /\ t.ui.sent = sent
    BY <2>3 DEF Browser, Ui
  <2> HIDE DEF t
  <2>5. Kept(s) => Kept(t)
    BY <2>4 DEF Kept
  <2>. QED
    BY <1>2, <1>4, <2>1, <2>3, <2>4, <2>5 DEF Ends
<1>. QED
  BY <1>3, <1>4

LEMMA NotifyFailedEnds ==
  ASSUME NEW s \in Browser, NEW c \in Cookie
  PROVE  Ends(s, NotifyFailed(s, c)) /\ NotifyFailed(s, c).ui.job = s.ui.job
<1> DEFINE C == s.ui.current \ {c}
           f == [s EXCEPT !.ui.current = C]
<1>1. s.ui \in Ui /\ \A d \in Cookie : s.jobs[d] \in Job
  BY BrowserTypes
<1>2. C \in SUBSET Cookie
  BY <1>1 DEF Ui
<1>3. Forget(s, c) = f
  BY DEF Forget
<1>4. /\ f \in Browser /\ f.jobs = s.jobs /\ f.ui.current = C
      /\ f.ui.open = s.ui.open /\ f.ui.live = s.ui.live /\ f.ui.number = s.ui.number
      /\ f.ui.succeeded = s.ui.succeeded /\ f.ui.job = s.ui.job /\ f.ui.sent = s.ui.sent
  <2> HIDE DEF C
  <2>. QED
    BY <1>2, SetCurrent
<1> HIDE DEF f
<1>5. \A d \in Cookie : Stopped(s.jobs[d], s.jobs[d])
  BY <1>1, StoppedRefl
<1>6. CASE s.jobs[c].registered
  <2> DEFINE t == Stop(f, c)
  <2>1. NotifyFailed(s, c) = t
    BY <1>3, <1>6 DEF NotifyFailed
  <2>2. /\ Ends(f, t) /\ t.ui = f.ui
        /\ IsRunning(t.jobs[c]) => t.jobs[c].stopping
        /\ \A d \in Cookie : d # c => t.jobs[d] = f.jobs[d]
    BY <1>4, StopEnds
  <2> HIDE DEF t
  <2>3. Kept(s) => Kept(t)
    BY <1>4, <2>2 DEF Kept
  <2>. QED
    BY <1>4, <2>1, <2>2, <2>3 DEF Ends
<1>7. CASE ~s.jobs[c].registered
  <2>1. NotifyFailed(s, c) = f
    BY <1>3, <1>7 DEF NotifyFailed
  <2>2. Kept(s) => Kept(f)
    BY <1>4, <1>7 DEF Kept
  <2>. QED
    BY <1>4, <1>5, <2>1, <2>2 DEF Ends
<1>. QED
  BY <1>6, <1>7

LEMMA CancelEnds ==
  ASSUME NEW s \in Browser, NEW c \in Cookie
  PROVE  Ends(s, Cancel(s, c))
<1> DEFINE flag == s.jobs[c].cancelled \/ IsRunning(s.jobs[c])
           job == [s.jobs[c] EXCEPT !.cancelled = flag]
           r == [s EXCEPT !.jobs[c] = job]
           t == NotifyFailed(r, c)
           u == IF t.ui.job = c THEN Release(t) ELSE t
<1>1. s.ui \in Ui /\ \A d \in Cookie : s.jobs[d] \in Job
  BY BrowserTypes
<1>2. flag \in Flag
  BY DEF Flag
<1>3. r = [s EXCEPT !.jobs[c].cancelled = @ \/ IsRunning(s.jobs[c])]
  BY DEF Browser
<1>4. Cancel(s, c) = Stop(u, c)
  BY <1>3 DEF Cancel
<1> HIDE DEF flag
<1>5. /\ job \in Job /\ job.thread = s.jobs[c].thread /\ job.count = s.jobs[c].count
      /\ job.got = s.jobs[c].got /\ job.spooled = s.jobs[c].spooled
      /\ job.held = s.jobs[c].held /\ job.page = s.jobs[c].page
      /\ job.busy = s.jobs[c].busy /\ job.poll = s.jobs[c].poll
      /\ job.todo = s.jobs[c].todo /\ job.stopping = s.jobs[c].stopping
      /\ job.registered = s.jobs[c].registered
  <2>1. s.jobs[c] \in Job
    BY <1>1
  <2>. QED
    BY <1>2, <2>1 DEF Job
<1> HIDE DEF job
<1>6. Stopped(s.jobs[c], job)
  <2>1. Stopped(s.jobs[c], s.jobs[c])
    BY <1>1, StoppedRefl
  <2>. QED
    BY <1>5, <2>1 DEF Stopped
<1>7. /\ r \in Browser /\ r.ui = s.ui /\ r.jobs[c] = job
      /\ \A d \in Cookie : d # c => r.jobs[d] = s.jobs[d]
  BY <1>5, SetJob
<1> HIDE DEF r
<1>8. \A d \in Cookie : Stopped(s.jobs[d], r.jobs[d])
  BY <1>1, <1>6, <1>7, StoppedRefl
<1>9. Kept(s) => Kept(r)
  BY <1>5, <1>7 DEF Kept, IsRunning
<1>10. Ends(s, r)
  BY <1>7, <1>8, <1>9 DEF Ends
<1>11. Ends(r, t)
  BY <1>7, NotifyFailedEnds
<1>12. t \in Browser
  BY <1>11 DEF Ends
<1>13. Ends(s, t)
  BY <1>7, <1>10, <1>11, EndsTrans
<1> HIDE DEF t
<1>14. Ends(s, u) /\ u \in Browser
  <2>1. CASE t.ui.job = c
    <3>1. Ends(t, Release(t))
      BY <1>12, ReleaseEnds
    <3>2. Release(t) \in Browser
      BY <3>1 DEF Ends
    <3>. QED
      BY <1>12, <1>13, <2>1, <3>1, <3>2, EndsTrans
  <2>2. CASE t.ui.job # c
    BY <1>12, <1>13, <2>2
  <2>. QED
    BY <2>1, <2>2
<1> HIDE DEF u
<1>15. Ends(u, Stop(u, c))
  BY <1>14, StopEnds
<1>. QED
  BY <1>4, <1>14, <1>15, EndsTrans

LEMMA TerminateEnds ==
  ASSUME NEW s \in Browser, NEW cancel
  PROVE  Ends(s, Terminate(s, cancel))
<1>1. CASE s.ui.job = NoCookie
  <2>1. Release(s) = s /\ Terminate(s, cancel) = s
    BY <1>1 DEF Release, Terminate
  <2>. QED
    BY <2>1, ReleaseEnds
<1>2. CASE s.ui.job # NoCookie
  <2> DEFINE t == IF cancel THEN Cancel(s, s.ui.job) ELSE Stop(s, s.ui.job)
  <2>1. s.ui.job \in Cookie
    BY <1>2, BrowserTypes DEF Ui
  <2>2. Ends(s, t)
    BY <2>1, CancelEnds, StopEnds
  <2>3. Terminate(s, cancel) = Release(t)
    BY <1>2 DEF Terminate
  <2> HIDE DEF t
  <2>4. t \in Browser
    BY <2>2 DEF Ends
  <2>5. Ends(t, Release(t))
    BY <2>4, ReleaseEnds
  <2>. QED
    BY <2>2, <2>3, <2>4, <2>5, EndsTrans
<1>. QED
  BY <1>1, <1>2

-----------------------------------------------------------------------------
(* The invariants of the jobs.  made says how many pages were made.        *)
Keeps(s, t, made) ==
  /\ t \in Browser /\ JobsInv(t, made)
  /\ \A c \in Cookie : /\ t.jobs[c].thread = s.jobs[c].thread
                       /\ Complete(s.jobs[c], made[c]) => Complete(t.jobs[c], made[c])
  /\ t.ui.open = s.ui.open /\ t.ui.number = s.ui.number

LEMMA WorkingStopped ==
  ASSUME NEW a \in Job, NEW b \in Job, NEW n \in Nat, Stopped(a, b), Working(a, n)
  PROVE  Working(b, n)
<1>1. a.todo \in Seq(Todo) /\ b.todo \in Seq(Todo)
  BY DEF Job
<1>2. Len(a.todo) \in Nat /\ Len(b.todo) \in Nat
  BY <1>1
<1>3. ASSUME NEW i \in 1..Len(b.todo)
      PROVE  /\ b.todo[i] = "document" => i = 1 /\ b.page = NoPage
             /\ b.todo[i] = "start" => /\ b.spooled = {} /\ b.page = NoPage
                                       /\ i = 1 \/ (i = 2 /\ b.todo[1] = "document")
  <2>1. CASE i <= Len(a.todo)
    <3>1. i \in 1..Len(a.todo) /\ 1 \in 1..Len(b.todo) /\ 1 <= Len(a.todo)
      BY <1>2, <2>1
    <3>2. b.todo[i] = a.todo[i] /\ b.todo[1] = a.todo[1]
      BY <2>1, <3>1 DEF Stopped
    <3>3. b.page = a.page /\ b.spooled = a.spooled
      BY DEF Stopped
    <3>4. /\ a.todo[i] = "document" => i = 1 /\ a.page = NoPage
          /\ a.todo[i] = "start" => /\ a.spooled = {} /\ a.page = NoPage
                                    /\ i = 1 \/ (i = 2 /\ a.todo[1] = "document")
      BY <3>1 DEF Working
    <3>. QED
      BY <3>2, <3>3, <3>4
  <2>2. CASE ~(i <= Len(a.todo))
    <3>1. b.todo[i] = "no document"
      BY <2>2 DEF Stopped
    <3>. QED
      BY <3>1
  <2>. QED
    BY <2>1, <2>2
<1>4. /\ b.thread # "none" => b.count >= 1 /\ n \in {0, b.count}
      /\ b.got \subseteq 1..n
      /\ b.page # NoPage =>
           b.thread # "none" /\ b.spooled = 1..b.page - 1 /\ b.page <= b.count
      /\ b.busy => b.page # NoPage /\ ~b.poll
      /\ b.poll => b.page # NoPage
  BY DEF Stopped, Working
<1>. QED
  BY <1>3, <1>4 DEF Working

LEMMA CompleteStopped ==
  ASSUME NEW a \in Job, NEW b \in Job, NEW n \in Nat, Stopped(a, b), Complete(a, n)
  PROVE  Complete(b, n)
<1>1. a.todo \in Seq(Todo) /\ b.todo \in Seq(Todo)
  BY DEF Job
<1>2. Len(a.todo) \in Nat /\ Len(b.todo) \in Nat
  BY <1>1
<1>3. ASSUME NEW i \in 1..Len(b.todo) PROVE b.todo[i] # "document"
  <2>1. CASE i <= Len(a.todo)
    <3>1. i \in 1..Len(a.todo)
      BY <1>2, <2>1
    <3>. QED
      BY <2>1, <3>1 DEF Stopped, Complete
  <2>2. CASE ~(i <= Len(a.todo))
    BY <2>2 DEF Stopped
  <2>. QED
    BY <2>1, <2>2
<1>4. /\ b.thread # "none" /\ b.count = n /\ b.spooled = 1..n
      /\ ~b.held /\ b.page = NoPage
  BY DEF Stopped, Complete
<1>. QED
  BY <1>3, <1>4 DEF Complete

(* What ends a job keeps the invariants.                                   *)
LEMMA EndsKeeps ==
  ASSUME NEW s \in Browser, NEW t, NEW made \in [Cookie -> Nat],
         JobsInv(s, made), Ends(s, t)
  PROVE  Keeps(s, t, made)
<1>1. t \in Browser
  BY DEF Ends
<1>2. /\ s.ui \in Ui /\ \A c \in Cookie : s.jobs[c] \in Job
      /\ t.ui \in Ui /\ \A c \in Cookie : t.jobs[c] \in Job
  BY <1>1, BrowserTypes
<1>3. \A c \in Cookie : Working(t.jobs[c], made[c])
  <2>1. ASSUME NEW c \in Cookie PROVE Working(t.jobs[c], made[c])
    <3>1. Stopped(s.jobs[c], t.jobs[c]) /\ Working(s.jobs[c], made[c]) /\ made[c] \in Nat
      BY DEF Ends, JobsInv
    <3>. QED
      BY <1>2, <3>1, WorkingStopped
  <2>. QED
    BY <2>1
<1>4. \A c \in Cookie : /\ t.jobs[c].thread = s.jobs[c].thread
                        /\ Complete(s.jobs[c], made[c]) => Complete(t.jobs[c], made[c])
  <2>1. ASSUME NEW c \in Cookie
        PROVE  /\ t.jobs[c].thread = s.jobs[c].thread
               /\ Complete(s.jobs[c], made[c]) => Complete(t.jobs[c], made[c])
    <3>1. Stopped(s.jobs[c], t.jobs[c]) /\ made[c] \in Nat
      BY DEF Ends
    <3>2. t.jobs[c].thread = s.jobs[c].thread
      BY <3>1 DEF Stopped
    <3>. QED
      BY <1>2, <3>1, <3>2, CompleteStopped
  <2>. QED
    BY <2>1
<1>5. Kept(t)
  BY DEF Ends, JobsInv
<1>6. t.ui.job # NoCookie => t.jobs[t.ui.job].thread # "none" /\ ~t.ui.succeeded
  <2>1. ASSUME t.ui.job # NoCookie
        PROVE  t.jobs[t.ui.job].thread # "none" /\ ~t.ui.succeeded
    <3>1. t.ui.job = s.ui.job /\ t.ui.succeeded = s.ui.succeeded /\ s.ui.job \in Cookie
      BY <1>2, <2>1 DEF Ends, Ui
    <3>. QED
      BY <1>4, <2>1, <3>1 DEF JobsInv, Reported
  <2>. QED
    BY <2>1
<1>7. ASSUME NEW i \in 1..Len(t.ui.sent), t.ui.sent[i].success
      PROVE  Complete(t.jobs[t.ui.sent[i].job], made[t.ui.sent[i].job])
  <2>1. s.ui.sent \in Seq(Sent) /\ t.ui.sent \in Seq(Sent)
    BY <1>2 DEF Ui
  <2>2. i \in 1..Len(s.ui.sent) /\ t.ui.sent[i] = s.ui.sent[i]
    <3>1. CASE t.ui.sent = s.ui.sent
      BY <3>1
    <3>2. CASE /\ s.ui.job # NoCookie
               /\ t.ui.sent = Append(s.ui.sent, [job |-> s.ui.job, success |-> s.ui.succeeded])
      <4> DEFINE told == [job |-> s.ui.job, success |-> s.ui.succeeded]
      <4>1. told \in Sent /\ ~told.success
        BY <1>2, <3>2 DEF Ui, Sent, JobsInv, Reported
      <4> HIDE DEF told
      <4>2. /\ Len(t.ui.sent) = Len(s.ui.sent) + 1 /\ Len(s.ui.sent) \in Nat
            /\ \A j \in 1..Len(s.ui.sent) : t.ui.sent[j] = s.ui.sent[j]
            /\ t.ui.sent[Len(s.ui.sent) + 1] = told
        BY <2>1, <3>2, <4>1, Appended DEF told
      <4>3. i # Len(s.ui.sent) + 1
        BY <1>7, <4>1, <4>2
      <4>4. i \in 1..Len(s.ui.sent)
        BY <4>2, <4>3
      <4>. QED
        BY <4>2, <4>4
    <3>. QED
      BY <3>1, <3>2 DEF Ends
  <2>3. s.ui.sent[i] \in Sent
    BY <2>1, <2>2
  <2>4. s.ui.sent[i].job \in Cookie
    BY <2>3 DEF Sent
  <2>. QED
    BY <1>4, <1>7, <2>2, <2>4 DEF JobsInv, Reported
<1>8. Reported(t, made)
  BY <1>6, <1>7 DEF Reported
<1>. QED
  BY <1>1, <1>3, <1>4, <1>5, <1>8 DEF Keeps, JobsInv, Ends

(* A job that is done is reported to the page as a success.                *)
LEMMA DocumentDoneKeeps ==
  ASSUME NEW s \in Browser, NEW c \in Cookie, NEW made \in [Cookie -> Nat],
         JobsInv(s, made), Complete(s.jobs[c], made[c])
  PROVE  Keeps(s, DocumentDone(s, c), made)
<1> DEFINE r == Stop(s, c)
           C == r.ui.current \ {c}
           t == [r EXCEPT !.ui.current = C]
<1>1. /\ Ends(s, r) /\ r.ui = s.ui
      /\ IsRunning(r.jobs[c]) => r.jobs[c].stopping
  BY StopEnds
<1>2. Keeps(s, r, made) /\ r \in Browser
  BY <1>1, EndsKeeps DEF Keeps
<1>3. t = Forget(Stop(s, c), c)
  BY DEF Forget
<1> HIDE DEF r
<1>4. r.ui \in Ui /\ \A d \in Cookie : r.jobs[d] \in Job
  BY <1>2, BrowserTypes
<1>5. /\ t \in Browser /\ t.jobs = r.jobs /\ t.ui.current = C
      /\ t.ui.open = r.ui.open /\ t.ui.live = r.ui.live /\ t.ui.number = r.ui.number
      /\ t.ui.succeeded = r.ui.succeeded /\ t.ui.job = r.ui.job /\ t.ui.sent = r.ui.sent
  <2>1. C \in SUBSET Cookie
    BY <1>4 DEF Ui
  <2> HIDE DEF C
  <2>. QED
    BY <1>2, <2>1, SetCurrent
<1> HIDE DEF t
<1>6. Kept(t)
  BY <1>1, <1>2, <1>5 DEF Keeps, JobsInv, Kept
<1>7. Keeps(s, t, made)
  BY <1>2, <1>5, <1>6 DEF Keeps, JobsInv, Reported
<1>8. CASE t.ui.job # c
  BY <1>3, <1>7, <1>8 DEF DocumentDone
<1>9. CASE t.ui.job = c
  <2> DEFINE v == [t EXCEPT !.ui.succeeded = TRUE]
             told == [job |-> c, success |-> TRUE]
             d == Release(v)
  <2>1. DocumentDone(s, c) = d
    BY <1>3, <1>9 DEF DocumentDone
  <2>2. /\ v \in Browser /\ v.jobs = t.jobs /\ v.ui.current = t.ui.current
        /\ v.ui.open = t.ui.open /\ v.ui.live = t.ui.live /\ v.ui.number = t.ui.number
        /\ v.ui.succeeded = TRUE /\ v.ui.job = t.ui.job /\ v.ui.sent = t.ui.sent
    BY <1>5 DEF Browser, Ui, Flag
  <2> HIDE DEF v
  <2>3. /\ Ends(v, d) /\ d.ui.job = NoCookie /\ d.jobs = v.jobs
    BY <2>2, ReleaseEnds
  <2> HIDE DEF d
  <2>4. d \in Browser /\ Kept(d) /\ d.ui.open = t.ui.open /\ d.ui.number = t.ui.number
    BY <1>6, <2>2, <2>3 DEF Ends, Kept
  <2>5. t.ui.sent \in Seq(Sent) /\ told \in Sent /\ Len(t.ui.sent) \in Nat
    <3>1. t.ui \in Ui
      BY <1>5, BrowserTypes
    <3>2. t.ui.sent \in Seq(Sent)
      BY <3>1 DEF Ui
    <3>3. told \in Sent
      BY DEF Sent, Flag
    <3>. QED
      BY <3>2, <3>3
  <2>6. Complete(d.jobs[c], made[c])
    BY <1>7, <2>2, <2>3 DEF Keeps
  <2>7. d.ui.sent = t.ui.sent \/ d.ui.sent = Append(t.ui.sent, told)
    BY <1>9, <2>2, <2>3 DEF Ends
  <2>8. ASSUME NEW i \in 1..Len(d.ui.sent), d.ui.sent[i].success
        PROVE  Complete(d.jobs[d.ui.sent[i].job], made[d.ui.sent[i].job])
    <3>1. \A j \in 1..Len(t.ui.sent) : t.ui.sent[j].success =>
            Complete(d.jobs[t.ui.sent[j].job], made[t.ui.sent[j].job])
      BY <1>7, <2>2, <2>3 DEF Keeps, JobsInv, Reported
    <3>2. CASE d.ui.sent = t.ui.sent
      BY <2>8, <3>1, <3>2
    <3>3. CASE d.ui.sent = Append(t.ui.sent, told)
      <4> HIDE DEF told
      <4>1. /\ Len(d.ui.sent) = Len(t.ui.sent) + 1
            /\ \A j \in 1..Len(t.ui.sent) : d.ui.sent[j] = t.ui.sent[j]
            /\ d.ui.sent[Len(t.ui.sent) + 1] = told
        BY <2>5, <3>3, Appended
      <4>2. i \in 1..Len(t.ui.sent) \/ i = Len(t.ui.sent) + 1
        BY <2>5, <4>1
      <4>3. CASE i \in 1..Len(t.ui.sent)
        BY <2>8, <3>1, <4>1, <4>3
      <4>4. CASE i = Len(t.ui.sent) + 1
        BY <2>6, <4>1, <4>4 DEF told
      <4>. QED
        BY <4>2, <4>3, <4>4
    <3>. QED
      BY <2>7, <3>2, <3>3
  <2>9. Reported(d, made)
    BY <2>3, <2>8 DEF Reported
  <2>. QED
    BY <1>7, <2>1, <2>2, <2>3, <2>4, <2>9 DEF Keeps, JobsInv
<1>. QED
  BY <1>8, <1>9

(* What was reported stays so while jobs only go on.                       *)
LEMMA ReportedKept ==
  ASSUME NEW s \in Browser, NEW t \in Browser, NEW made \in [Cookie -> Nat],
         Reported(s, made), t.ui.sent = s.ui.sent,
         \A c \in Cookie : Complete(s.jobs[c], made[c]) => Complete(t.jobs[c], made[c]),
         t.ui.job # NoCookie => t.jobs[t.ui.job].thread # "none" /\ ~t.ui.succeeded
  PROVE  Reported(t, made)
<1>1. ASSUME NEW i \in 1..Len(t.ui.sent), t.ui.sent[i].success
      PROVE  Complete(t.jobs[t.ui.sent[i].job], made[t.ui.sent[i].job])
  <2>1. s.ui.sent \in Seq(Sent)
    BY BrowserTypes DEF Ui
  <2>2. s.ui.sent[i] \in Sent
    BY <1>1, <2>1
  <2>3. s.ui.sent[i].job \in Cookie
    BY <2>2 DEF Sent
  <2>. QED
    BY <1>1, <2>3 DEF Reported
<1>. QED
  BY <1>1 DEF Reported

(* A new job has done nothing yet; its number of pages is number.          *)
LEMMA NewJobWorks ==
  ASSUME NEW number \in Nat \ {0}, NEW n \in {0, number}
  PROVE  /\ StartedJob(number) \in Job /\ Working(StartedJob(number), n)
         /\ StartedJob(number).registered
<1> DEFINE job == StartedJob(number)
<1>1. NewJob \in Job
  <2>1. <<>> \in Seq(Todo)
    OBVIOUS
  <2>. QED
    BY <2>1 DEF NewJob, Job, Flag, Threads, NoPage
<1>2. <<"document", "start">> \in Seq(Todo)
  BY DEF Todo
<1>3. job \in Job
  <2> HIDE DEF NewJob
  <2>. QED
    BY <1>1, <1>2 DEF StartedJob, Job, Flag, Threads
<1>4. /\ job.count = number /\ job.got = {} /\ job.page = NoPage /\ job.spooled = {}
      /\ ~job.busy /\ ~job.poll /\ job.registered /\ job.todo = <<"document", "start">>
  BY DEF StartedJob, NewJob
<1>5. Len(job.todo) = 2 /\ job.todo[1] = "document" /\ job.todo[2] = "start"
  BY <1>4
<1> HIDE DEF job
<1>6. Working(job, n)
  BY <1>4, <1>5 DEF Working
<1>. QED
  BY <1>3, <1>4, <1>6 DEF job

(* A job is made for a cookie that has none and when there is no other.    *)
LEMMA OpportunisticallyKeeps ==
  ASSUME NEW s \in Browser, NEW c, NEW made \in [Cookie -> Nat], JobsInv(s, made),
         c \in queue => /\ c \in Cookie /\ s.jobs[c].thread = "none"
                        /\ s.ui.number > 0 /\ made[c] \in {0, s.ui.number}
  PROVE  LET t == Opportunistically(s, c) IN
         /\ t \in Browser /\ JobsInv(t, made)
         /\ t.ui.open = s.ui.open /\ t.ui.number = s.ui.number
         /\ \/ t = s
            \/ /\ s.ui.job = NoCookie /\ c \in queue /\ t.ui.job = c
               /\ \A d \in Cookie : d # c => t.jobs[d] = s.jobs[d]
         /\ \A d \in Cookie : Complete(s.jobs[d], made[d]) => Complete(t.jobs[d], made[d])
<1> DEFINE t == Opportunistically(s, c)
<1>1. CASE ~(s.ui.job = NoCookie /\ c \in queue /\ s.ui.live)
  BY <1>1 DEF Opportunistically
<1>2. CASE s.ui.job = NoCookie /\ c \in queue /\ s.ui.live
  <2> DEFINE job == StartedJob(s.ui.number)
             u == [s.ui EXCEPT !.job = c, !.succeeded = FALSE, !.expecting = TRUE,
                               !.current = @ \cup {c}]
             v == [s EXCEPT !.ui = u, !.jobs[c] = job]
  <2>1. s.ui \in Ui /\ c \in Cookie /\ \A d \in Cookie : s.jobs[d] \in Job
    BY <1>2, BrowserTypes
  <2>2. t = v
    <3>1. t = CreateNewPrintJob(s, c)
      BY <1>2 DEF Opportunistically
    <3>2. CreateNewPrintJob(s, c) = v
      BY DEF CreateNewPrintJob
    <3>. QED
      BY <3>1, <3>2
  <2>3. s.ui.number \in Nat \ {0}
    BY <1>2, <2>1 DEF Ui
  <2>4. job \in Job /\ Working(job, made[c]) /\ job.registered
    BY <1>2, <2>3, NewJobWorks
  <2> HIDE DEF job
  <2>5. /\ u \in Ui /\ u.job = c /\ u.succeeded = FALSE /\ u.current = s.ui.current \cup {c}
        /\ u.open = s.ui.open /\ u.number = s.ui.number /\ u.sent = s.ui.sent
    BY <2>1 DEF Ui, Flag
  <2> HIDE DEF u
  <2>6. /\ v \in Browser /\ v.ui = u /\ v.jobs[c] = job
        /\ \A d \in Cookie : d # c => v.jobs[d] = s.jobs[d]
    BY <2>1, <2>4, <2>5 DEF Browser
  <2> HIDE DEF t, v
  <2>7. \A d \in Cookie : Working(v.jobs[d], made[d])
    BY <2>4, <2>6 DEF JobsInv
  <2>8. Kept(v)
    BY <2>1, <2>4, <2>5, <2>6 DEF JobsInv, Kept
  <2>9. \A d \in Cookie : Complete(s.jobs[d], made[d]) => Complete(v.jobs[d], made[d])
    BY <1>2, <2>6 DEF Complete
  <2>10. v.jobs[c].thread # "none"
    BY <2>6 DEF job, StartedJob, NewJob
  <2>11. Reported(v, made)
    BY <2>5, <2>6, <2>9, <2>10, ReportedKept DEF JobsInv
  <2>. QED
    BY <1>2, <2>2, <2>5, <2>6, <2>7, <2>8, <2>9, <2>11 DEF JobsInv, t
<1>. QED
  BY <1>1, <1>2

(* A page of its own is added to a job.                                    *)
LEMMA PageKeeps ==
  ASSUME NEW s \in Browser, NEW c \in Cookie, NEW made \in [Cookie -> Nat],
         NEW page \in 1..made[c], JobsInv(s, made)
  PROVE  Keeps(s, [s EXCEPT !.jobs[c].got = @ \cup {page}], made)
<1> DEFINE got == s.jobs[c].got \cup {page}
           job == [s.jobs[c] EXCEPT !.got = got]
           t == [s EXCEPT !.jobs[c] = job]
<1>1. s.ui \in Ui /\ (\A d \in Cookie : s.jobs[d] \in Job) /\ made[c] \in Nat
  BY BrowserTypes
<1>2. s.jobs[c] \in Job /\ Working(s.jobs[c], made[c])
  BY <1>1 DEF JobsInv
<1>3. got \in SUBSET Nat /\ got \subseteq 1..made[c]
  BY <1>1, <1>2 DEF Job, Working
<1>4. [s EXCEPT !.jobs[c].got = @ \cup {page}] = t
  BY DEF Browser
<1> HIDE DEF got
<1>5. /\ job \in Job /\ job.thread = s.jobs[c].thread /\ job.count = s.jobs[c].count
      /\ job.got = got /\ job.spooled = s.jobs[c].spooled
      /\ job.held = s.jobs[c].held /\ job.page = s.jobs[c].page
      /\ job.busy = s.jobs[c].busy /\ job.poll = s.jobs[c].poll
      /\ job.todo = s.jobs[c].todo /\ job.stopping = s.jobs[c].stopping
      /\ job.registered = s.jobs[c].registered
  BY <1>2, <1>3 DEF Job
<1> HIDE DEF job
<1>6. Working(job, made[c])
  BY <1>2, <1>3, <1>5 DEF Working
<1>7. /\ t \in Browser /\ t.ui = s.ui /\ t.jobs[c] = job
      /\ \A d \in Cookie : d # c => t.jobs[d] = s.jobs[d]
  BY <1>5, SetJob
<1> HIDE DEF t
<1>8. \A d \in Cookie : Working(t.jobs[d], made[d])
  BY <1>6, <1>7 DEF JobsInv
<1>9. \A d \in Cookie : /\ t.jobs[d].thread = s.jobs[d].thread
                        /\ Complete(s.jobs[d], made[d]) => Complete(t.jobs[d], made[d])
  BY <1>5, <1>7 DEF Complete
<1>10. Kept(t)
  BY <1>5, <1>7 DEF JobsInv, Kept, IsRunning
<1>11. t.ui.job # NoCookie => t.jobs[t.ui.job].thread # "none" /\ ~t.ui.succeeded
  BY <1>1, <1>7, <1>9 DEF JobsInv, Reported, Ui
<1>12. Reported(t, made)
  BY <1>7, <1>9, <1>11, ReportedKept DEF JobsInv
<1>. QED
  BY <1>4, <1>7, <1>8, <1>9, <1>10, <1>12 DEF Keeps, JobsInv

(* A worker goes on.                                                       *)
LEMMA JobStep ==
  ASSUME NEW s \in Browser, NEW c \in Cookie, NEW made \in [Cookie -> Nat], JobsInv(s, made),
         NEW job \in Job, job.thread # "none", Working(job, made[c]),
         IsRunning(job) => job.stopping \/ (job.registered /\ c \in s.ui.current),
         Complete(s.jobs[c], made[c]) => Complete(job, made[c])
  PROVE  LET t == [s EXCEPT !.jobs[c] = job] IN
         /\ t \in Browser /\ t.ui = s.ui /\ JobsInv(t, made) /\ t.jobs[c] = job
         /\ \A d \in Cookie : /\ d # c => t.jobs[d] = s.jobs[d]
                              /\ Complete(s.jobs[d], made[d]) => Complete(t.jobs[d], made[d])
<1> DEFINE t == [s EXCEPT !.jobs[c] = job]
<1>1. /\ t \in Browser /\ t.ui = s.ui /\ t.jobs[c] = job
      /\ \A d \in Cookie : d # c => t.jobs[d] = s.jobs[d]
  BY SetJob
<1> HIDE DEF t
<1>2. \A d \in Cookie : Working(t.jobs[d], made[d])
  BY <1>1 DEF JobsInv
<1>3. Kept(t)
  BY <1>1 DEF JobsInv, Kept
<1>4. \A d \in Cookie : Complete(s.jobs[d], made[d]) => Complete(t.jobs[d], made[d])
  BY <1>1
<1>5. t.ui.job # NoCookie => t.jobs[t.ui.job].thread # "none" /\ ~t.ui.succeeded
  BY <1>1, BrowserTypes DEF JobsInv, Reported, Ui
<1>6. Reported(t, made)
  BY <1>1, <1>4, <1>5, ReportedKept DEF JobsInv
<1>. QED
  BY <1>1, <1>2, <1>3, <1>4, <1>6 DEF JobsInv, t

(* Pages are made with a cookie that has no job.                           *)
LEMMA MadeKeeps ==
  ASSUME NEW s \in Browser, NEW c \in Cookie, NEW made \in [Cookie -> Nat], NEW n \in Nat,
         JobsInv(s, made), s.jobs[c].thread = "none", made[c] = 0
  PROVE  LET new == [made EXCEPT ![c] = n] IN
         /\ new \in [Cookie -> Nat] /\ JobsInv(s, new)
         /\ \A q \in Seq(Task) : Announced(q, s, made) => Announced(q, s, new)
<1> DEFINE new == [made EXCEPT ![c] = n]
<1>1. new \in [Cookie -> Nat] /\ new[c] = n /\ \A d \in Cookie : d # c => new[d] = made[d]
  OBVIOUS
<1> HIDE DEF new
<1>2. s.ui \in Ui /\ \A d \in Cookie : s.jobs[d] \in Job
  BY BrowserTypes
<1>3. Working(s.jobs[c], new[c])
  <2>1. Working(s.jobs[c], 0)
    BY DEF JobsInv
  <2>. QED
    BY <1>1, <1>2, <2>1 DEF Working
<1>4. \A d \in Cookie : Working(s.jobs[d], new[d])
  BY <1>1, <1>3 DEF JobsInv
<1>5. \A d \in Cookie : Complete(s.jobs[d], made[d]) => Complete(s.jobs[d], new[d])
  BY <1>1 DEF Complete
<1>6. ASSUME NEW i \in 1..Len(s.ui.sent), s.ui.sent[i].success
      PROVE  Complete(s.jobs[s.ui.sent[i].job], new[s.ui.sent[i].job])
  <2>1. s.ui.sent \in Seq(Sent)
    BY <1>2 DEF Ui
  <2>2. s.ui.sent[i] \in Sent
    BY <2>1
  <2>3. s.ui.sent[i].job \in Cookie
    BY <2>2 DEF Sent
  <2>. QED
    BY <1>5, <1>6, <2>3 DEF JobsInv, Reported
<1>7. Reported(s, new)
  BY <1>6 DEF Reported, JobsInv
<1>8. ASSUME NEW q \in Seq(Task), Announced(q, s, made) PROVE Announced(q, s, new)
  <2>1. ASSUME NEW i \in 1..Len(q) PROVE q[i].job \in Cookie
    <3>1. q[i] \in Task
      OBVIOUS
    <3>. QED
      BY <3>1 DEF Task
  <2>. QED
    BY <1>5, <1>8, <2>1 DEF Announced
<1>. QED
  BY <1>1, <1>4, <1>7, <1>8 DEF JobsInv, new

LEMMA AnnouncedKept ==
  ASSUME NEW s \in Browser, NEW t \in Browser, NEW made \in [Cookie -> Nat], NEW q \in Seq(Task),
         \A c \in Cookie : Complete(s.jobs[c], made[c]) => Complete(t.jobs[c], made[c]),
         Announced(q, s, made)
  PROVE  Announced(q, t, made)
<1>1. ASSUME NEW i \in 1..Len(q) PROVE q[i].job \in Cookie
  <2>1. q[i] \in Task
    OBVIOUS
  <2>. QED
    BY <2>1 DEF Task
<1>. QED
  BY <1>1 DEF Announced

LEMMA Tailed ==
  ASSUME NEW S, NEW q \in Seq(S), q # <<>>
  PROVE  /\ Tail(q) \in Seq(S) /\ Head(q) = q[1] /\ q[1] \in S /\ Len(q) \in Nat \ {0}
         /\ Len(Tail(q)) = Len(q) - 1 /\ 1 \in 1..Len(q)
         /\ \A i \in 1..Len(Tail(q)) : i + 1 \in 1..Len(q) /\ Tail(q)[i] = q[i + 1]
<1>1. Len(q) \in Nat \ {0}
  OBVIOUS
<1>2. Tail(q) \in Seq(S) /\ Head(q) = q[1] /\ Len(Tail(q)) = Len(q) - 1
  OBVIOUS
<1>3. \A i \in 1..Len(q) - 1 : Tail(q)[i] = q[i + 1]
  OBVIOUS
<1>. QED
  BY <1>1, <1>2, <1>3

LEMMA AnnouncedTail ==
  ASSUME NEW s, NEW made, NEW q \in Seq(Task), q # <<>>, Announced(q, s, made)
  PROVE  /\ Tail(q) \in Seq(Task) /\ Head(q) \in Task
         /\ Announced(Tail(q), s, made) /\ Announced(<<Head(q)>>, s, made)
<1>1. /\ Tail(q) \in Seq(Task) /\ Head(q) = q[1] /\ q[1] \in Task /\ 1 \in 1..Len(q)
      /\ \A i \in 1..Len(Tail(q)) : i + 1 \in 1..Len(q) /\ Tail(q)[i] = q[i + 1]
  BY Tailed
<1>2. Announced(Tail(q), s, made)
  <2> DEFINE u == Tail(q)
  <2> HIDE DEF u
  <2>1. \A i \in 1..Len(u) : i + 1 \in 1..Len(q) /\ u[i] = q[i + 1]
    BY <1>1 DEF u
  <2>2. Announced(u, s, made)
    BY <2>1 DEF Announced
  <2>. QED
    BY <2>2 DEF u
<1>3. Announced(<<Head(q)>>, s, made)
  <2> DEFINE m == q[1]
  <2> HIDE DEF m
  <2>1. m.type \in {"DocDone", "Done"} => Complete(s.jobs[m.job], made[m.job])
    BY <1>1 DEF Announced, m
  <2>2. Announced(<<m>>, s, made)
    BY <2>1 DEF Announced
  <2>. QED
    BY <1>1, <2>2 DEF m
<1>. QED
  BY <1>1, <1>2, <1>3

LEMMA AnnouncedAppend ==
  ASSUME NEW s, NEW made, NEW q \in Seq(Task), NEW task \in Task, Announced(q, s, made),
         task.type \in {"DocDone", "Done"} => Complete(s.jobs[task.job], made[task.job])
  PROVE  Append(q, task) \in Seq(Task) /\ Announced(Append(q, task), s, made)
<1> DEFINE u == Append(q, task)
<1>1. /\ u \in Seq(Task) /\ Len(q) \in Nat /\ Len(u) = Len(q) + 1
      /\ \A i \in 1..Len(q) : u[i] = q[i]
      /\ u[Len(q) + 1] = task
  BY Appended
<1> HIDE DEF u
<1>2. ASSUME NEW i \in 1..Len(u), u[i].type \in {"DocDone", "Done"}
      PROVE  Complete(s.jobs[u[i].job], made[u[i].job])
  <2>1. i \in 1..Len(q) \/ i = Len(q) + 1
    BY <1>1
  <2>2. CASE i \in 1..Len(q)
    BY <1>1, <1>2, <2>2 DEF Announced
  <2>3. CASE i = Len(q) + 1
    BY <1>1, <1>2, <2>3
  <2>. QED
    BY <2>1, <2>2, <2>3
<1>. QED
  BY <1>1, <1>2 DEF Announced, u

-----------------------------------------------------------------------------
(* The order of messages.                                                  *)
LEMMA InOrderTail ==
  ASSUME NEW q \in Seq(Messages), q # <<>>, NEW number \in Nat, NEW new \in Nat,
         NEW made \in [Cookie -> Nat], InOrder(q, number, made),
         Head(q).type = "DidGetPrintedPagesCount" => new = Head(q).page,
         Head(q).type = "DidPrintPage" => new = number
  PROVE  Tail(q) \in Seq(Messages) /\ InOrder(Tail(q), new, made)
<1> DEFINE u == Tail(q)
<1>1. /\ u \in Seq(Messages) /\ Head(q) = q[1] /\ q[1] \in Messages /\ Len(q) \in Nat \ {0}
      /\ Len(u) = Len(q) - 1 /\ 1 \in 1..Len(q)
      /\ \A i \in 1..Len(u) : i + 1 \in 1..Len(q) /\ u[i] = q[i + 1]
  BY Tailed
<1> HIDE DEF u
<1>2. ASSUME NEW i \in 1..Len(u)
      PROVE  /\ u[i].type = "DidPrintPage" =>
                  /\ u[i].cookie \in Cookie /\ u[i].page \in 1..made[u[i].cookie]
                  /\ IF i = 1 THEN new = made[u[i].cookie]
                     ELSE /\ u[i - 1].cookie = u[i].cookie
                          /\ u[i - 1].type \in {"DidPrintPage", "DidGetPrintedPagesCount"}
             /\ u[i].type = "DidGetPrintedPagesCount" =>
                  /\ u[i].cookie \in Cookie /\ u[i].page >= 1
                  /\ made[u[i].cookie] \in {0, u[i].page}
  <2>1. i + 1 \in 1..Len(q) /\ u[i] = q[i + 1] /\ i + 1 # 1 /\ (i + 1) - 1 = i /\ i \in 1..Len(q)
    BY <1>1
  <2>2. /\ u[i].type = "DidPrintPage" =>
             /\ u[i].cookie \in Cookie /\ u[i].page \in 1..made[u[i].cookie]
             /\ q[i].cookie = u[i].cookie
             /\ q[i].type \in {"DidPrintPage", "DidGetPrintedPagesCount"}
        /\ u[i].type = "DidGetPrintedPagesCount" =>
             /\ u[i].cookie \in Cookie /\ u[i].page >= 1
             /\ made[u[i].cookie] \in {0, u[i].page}
    BY <2>1 DEF InOrder
  <2>3. CASE i = 1
    <3>1. u[1].type = "DidPrintPage" => new = made[u[1].cookie]
      <4>1. ASSUME u[1].type = "DidPrintPage" PROVE new = made[u[1].cookie]
        <5>1. /\ u[1].cookie \in Cookie /\ u[1].page \in 1..made[u[1].cookie]
              /\ q[1].cookie = u[1].cookie
              /\ q[1].type \in {"DidPrintPage", "DidGetPrintedPagesCount"}
          BY <2>2, <2>3, <4>1
        <5>2. made[u[1].cookie] # 0
          BY <5>1
        <5>3. CASE q[1].type = "DidPrintPage"
          <6>1. number = made[q[1].cookie]
            BY <1>1, <5>3 DEF InOrder
          <6>. QED
            BY <1>1, <5>1, <5>3, <6>1
        <5>4. CASE q[1].type = "DidGetPrintedPagesCount"
          <6>1. made[q[1].cookie] \in {0, q[1].page}
            BY <1>1, <5>4 DEF InOrder
          <6>. QED
            BY <1>1, <5>1, <5>2, <5>4, <6>1
        <5>. QED
          BY <5>1, <5>3, <5>4
      <4>. QED
        BY <4>1
    <3>. QED
      BY <2>2, <2>3, <3>1
  <2>4. CASE i # 1
    <3>1. i - 1 \in 1..Len(u) /\ (i - 1) + 1 = i
      BY <1>1, <2>4
    <3>2. u[i - 1] = q[i]
      BY <1>1, <3>1
    <3>. QED
      BY <2>2, <2>4, <3>2
  <2>. QED
    BY <2>3, <2>4
<1>3. InOrder(u, new, made)
  BY <1>2 DEF InOrder
<1>. QED
  BY <1>1, <1>3 DEF u

LEMMA InOrderAppend ==
  ASSUME NEW q \in Seq(Messages), NEW number, NEW made, InOrder(q, number, made),
         NEW m \in Messages, m.type # "DidPrintPage",
         m.type = "DidGetPrintedPagesCount" =>
           m.cookie \in Cookie /\ m.page >= 1 /\ made[m.cookie] \in {0, m.page}
  PROVE  Append(q, m) \in Seq(Messages) /\ InOrder(Append(q, m), number, made)
<1> DEFINE u == Append(q, m)
<1>1. /\ u \in Seq(Messages) /\ Len(q) \in Nat /\ Len(u) = Len(q) + 1
      /\ \A i \in 1..Len(q) : u[i] = q[i]
      /\ u[Len(q) + 1] = m
  BY Appended
<1> HIDE DEF u
<1>2. ASSUME NEW i \in 1..Len(u)
      PROVE  /\ u[i].type = "DidPrintPage" =>
                  /\ u[i].cookie \in Cookie /\ u[i].page \in 1..made[u[i].cookie]
                  /\ IF i = 1 THEN number = made[u[i].cookie]
                     ELSE /\ u[i - 1].cookie = u[i].cookie
                          /\ u[i - 1].type \in {"DidPrintPage", "DidGetPrintedPagesCount"}
             /\ u[i].type = "DidGetPrintedPagesCount" =>
                  /\ u[i].cookie \in Cookie /\ u[i].page >= 1
                  /\ made[u[i].cookie] \in {0, u[i].page}
  <2>1. i \in 1..Len(q) \/ i = Len(q) + 1
    BY <1>1
  <2>2. CASE i = Len(q) + 1
    BY <1>1, <2>2
  <2>3. CASE i \in 1..Len(q)
    <3>1. u[i] = q[i] /\ (i # 1 => u[i - 1] = q[i - 1])
      BY <1>1, <2>3
    <3>. QED
      BY <2>3, <3>1 DEF InOrder
  <2>. QED
    BY <2>1, <2>2, <2>3
<1>. QED
  BY <1>1, <1>2 DEF InOrder, u

(* A count and all its pages, with a cookie that has no messages yet.      *)
LEMMA InOrderPages ==
  ASSUME NEW q \in Seq(Messages), NEW number, NEW made \in [Cookie -> Nat],
         InOrder(q, number, made), NEW c \in Cookie, NEW n \in Nat \ {0},
         \A i \in 1..Len(q) : q[i].cookie # c,
         NEW count \in Messages, count.type = "DidGetPrintedPagesCount",
         count.cookie = c, count.page = n
  PROVE  /\ Append(q, count) \o PageMessages(c, n) \in Seq(Messages)
         /\ InOrder(Append(q, count) \o PageMessages(c, n), number, [made EXCEPT ![c] = n])
<1> DEFINE new == [made EXCEPT ![c] = n]
           pages == PageMessages(c, n)
           v == Append(q, count)
           u == v \o pages
<1>1. new[c] = n /\ \A d \in Cookie : d # c => new[d] = made[d]
  OBVIOUS
<1>2. InOrder(q, number, new)
  BY <1>1 DEF InOrder
<1> HIDE DEF new
<1>3. v \in Seq(Messages) /\ InOrder(v, number, new)
  BY <1>1, <1>2, InOrderAppend
<1>4. Len(v) = Len(q) + 1 /\ Len(q) \in Nat /\ v[Len(q) + 1] = count
  BY Appended
<1> HIDE DEF v
<1>5. /\ \A i \in 1..n : pages[i] = [type |-> "DidPrintPage", cookie |-> c, page |-> i, valid |-> i = 1]
      /\ pages \in Seq(Messages) /\ Len(pages) = n
  <2>1. \A i \in 1..n : pages[i] = [type |-> "DidPrintPage", cookie |-> c, page |-> i, valid |-> i = 1]
    BY DEF PageMessages
  <2>2. \A i \in 1..n : [type |-> "DidPrintPage", cookie |-> c, page |-> i, valid |-> i = 1] \in Messages
    <3>1. ASSUME NEW i \in 1..n, NEW b \in Flag
          PROVE  [type |-> "DidPrintPage", cookie |-> c, page |-> i, valid |-> b] \in Messages
      BY DEF Messages, Cookie
    <3>2. \A i \in 1..n : (i = 1) \in Flag
      BY DEF Flag
    <3>. QED
      BY <3>1, <3>2
  <2>3. pages \in [1..n -> Messages]
    BY <2>2 DEF PageMessages
  <2>4. pages \in Seq(Messages)
    BY <2>3
  <2>5. DOMAIN pages = 1..n
    BY DEF PageMessages
  <2>6. DOMAIN pages = 1..Len(pages) /\ Len(pages) \in Nat
    <3> HIDE DEF pages
    <3>. QED
      BY <2>4
  <2>7. Len(pages) = n
    <3> HIDE DEF pages
    <3>1. n \in 1..n /\ (Len(pages) # 0 => Len(pages) \in 1..Len(pages))
      BY <2>6
    <3>. QED
      BY <2>5, <2>6, <3>1
  <2>. QED
    BY <2>1, <2>4, <2>7
<1> HIDE DEF pages
<1>6. /\ u \in Seq(Messages) /\ Len(u) = Len(v) + n /\ Len(v) \in Nat
      /\ \A i \in 1..Len(v) : u[i] = v[i]
      /\ \A i \in 1..n : u[Len(v) + i] = pages[i]
  <2>1. pages \in Seq(Messages) /\ Len(pages) = n /\ v \in Seq(Messages)
    BY <1>3, <1>5
  <2>2. u \in Seq(Messages)
    BY <2>1
  <2>3. Len(u) = Len(v) + Len(pages) /\ Len(v) \in Nat
    <3>1. pages \in Seq(Messages) /\ v \in Seq(Messages)
      BY <2>1
    <3>. QED
      BY <3>1
  <2>4. \A i \in 1..Len(v) : u[i] = v[i]
    BY <2>1
  <2>5. \A i \in 1..Len(pages) : u[Len(v) + i] = pages[i]
    BY <2>1
  <2>. QED
    BY <2>1, <2>2, <2>3, <2>4, <2>5
<1> HIDE DEF u
<1>7. ASSUME NEW i \in 1..Len(u)
      PROVE  /\ u[i].type = "DidPrintPage" =>
                  /\ u[i].cookie \in Cookie /\ u[i].page \in 1..new[u[i].cookie]
                  /\ IF i = 1 THEN number = new[u[i].cookie]
                     ELSE /\ u[i - 1].cookie = u[i].cookie
                          /\ u[i - 1].type \in {"DidPrintPage", "DidGetPrintedPagesCount"}
             /\ u[i].type = "DidGetPrintedPagesCount" =>
                  /\ u[i].cookie \in Cookie /\ u[i].page >= 1
                  /\ new[u[i].cookie] \in {0, u[i].page}
  <2>1. CASE i \in 1..Len(v)
    <3>1. i # 1 => i - 1 \in 1..Len(v)
      BY <1>6, <2>1
    <3>2. u[i] = v[i] /\ (i # 1 => u[i - 1] = v[i - 1])
      BY <1>6, <2>1, <3>1
    <3>. QED
      BY <1>3, <2>1, <3>2 DEF InOrder
  <2>2. CASE i \notin 1..Len(v)
    <3> DEFINE j == i - Len(v)
    <3>1. j \in 1..n /\ i = Len(v) + j /\ i # 1
      BY <1>4, <1>6, <2>2
    <3> HIDE DEF j
    <3>2. /\ u[i].type = "DidPrintPage" /\ u[i].cookie = c /\ u[i].page = j
      BY <1>5, <1>6, <3>1
    <3>3. u[i - 1].cookie = c /\ u[i - 1].type \in {"DidPrintPage", "DidGetPrintedPagesCount"}
      <4>1. CASE j = 1
        <5>1. i - 1 = Len(v) /\ Len(v) \in 1..Len(v)
          BY <1>4, <1>6, <3>1, <4>1
        <5>. QED
          BY <1>4, <1>6, <5>1
      <4>2. CASE j # 1
        <5>1. j - 1 \in 1..n /\ i - 1 = Len(v) + (j - 1)
          BY <1>6, <3>1, <4>2
        <5>2. u[i - 1] = pages[j - 1]
          BY <1>6, <5>1
        <5>. QED
          BY <1>5, <5>1, <5>2
      <4>. QED
        BY <4>1, <4>2
    <3>. QED
      BY <1>1, <3>1, <3>2, <3>3
  <2>. QED
    BY <2>1, <2>2
<1>. QED
  BY <1>6, <1>7 DEF InOrder, u, v, pages, new

-----------------------------------------------------------------------------
(* The steps.  First what each invariant needs of a step.                  *)
LEMMA BecomeIs ==
  ASSUME NEW s \in Browser, Become(s)
  PROVE  State' = s
  BY DEF Become, Browser, State

LEMMA Types ==
  ASSUME TypeOK
  PROVE  /\ renderer \in Helper /\ frames \in Seq(Frame)
         /\ asks \in SUBSET Asked /\ IsFiniteSet(asks) /\ replies \in SUBSET Asked
         /\ queue \in SUBSET Cookie /\ lastCookie \in Nat /\ toBrowser \in Seq(Messages)
         /\ tasks \in Seq(Task) /\ State \in Browser /\ rendered \in [Cookie -> Nat]
         /\ faults \in Nat
         /\ State.ui = ui /\ State.jobs = jobs /\ ui \in Ui /\ \A c \in Cookie : jobs[c] \in Job
<1>1. State.ui = ui /\ State.jobs = jobs
  BY DEF State
<1>. QED
  BY <1>1, BrowserTypes DEF TypeOK

(* The cookies: nothing new was sent, and no job was made.                 *)
LEMMA CookieKept ==
  ASSUME CookieInv, UNCHANGED <<renderer, replies, lastCookie, rendered>>,
         \A c \in Cookie : jobs'[c].thread # "none" => jobs[c].thread # "none",
         queue' \subseteq queue,
         \A i \in 1..Len(toBrowser') :
           \E j \in 1..Len(toBrowser) : toBrowser'[i].cookie = toBrowser[j].cookie
  PROVE  CookieInv'
<1>1. \A c : Unused(c)' <=> Unused(c)
  BY DEF Unused
<1>2. ASSUME NEW c \in Cookie, c > lastCookie \/ Unused(c)
      PROVE  /\ rendered[c] = 0 /\ jobs'[c].thread = "none"
             /\ \A i \in 1..Len(toBrowser') : toBrowser'[i].cookie # c
  BY <1>2 DEF CookieInv
<1>. QED
  BY <1>1, <1>2 DEF CookieInv

LEMMA TwoPosts ==
  ASSUME NEW q \in Seq(Task), NEW a \in Task, NEW b \in Task
  PROVE  q \o <<a, b>> = Append(Append(q, a), b)
  OBVIOUS

(* A worker goes on, and may have told the UI thread something.            *)
LEMMA WorkerStep ==
  ASSUME NEW c \in Cookie, NEW job \in Job, PrintInv,
         jobs' = [jobs EXCEPT ![c] = job], faults' \in Nat,
         UNCHANGED <<renderer, frames, settings, toBrowser, ui, rendered>>,
         \/ tasks' = tasks
         \/ tasks' = Append(tasks, Post("Failed", c))
         \/ tasks' = tasks \o <<Post("Failed", c), Post("Failed", c)>>
         \/ tasks' = Append(tasks, Post("DocDone", c)) /\ Complete(job, rendered[c]),
         jobs[c].thread # "none", job.thread # "none", Working(job, rendered[c]),
         IsRunning(job) => job.stopping \/ (job.registered /\ c \in ui.current),
         Complete(jobs[c], rendered[c]) => Complete(job, rendered[c])
  PROVE  PrintInv'
<1> DEFINE t == [State EXCEPT !.jobs[c] = job]
<1>1. /\ tasks \in Seq(Task) /\ State \in Browser /\ rendered \in [Cookie -> Nat]
      /\ State.ui = ui /\ State.jobs = jobs /\ toBrowser \in Seq(Messages)
  BY Types DEF PrintInv
<1>2. State' = t
  <2>1. State' = [ui |-> ui, jobs |-> [jobs EXCEPT ![c] = job]]
    BY DEF State
  <2>2. t = [ui |-> ui, jobs |-> [jobs EXCEPT ![c] = job]]
    BY DEF State
  <2>. QED
    BY <2>1, <2>2
<1>3. /\ t \in Browser /\ t.ui = State.ui /\ JobsInv(t, rendered) /\ t.jobs[c] = job
      /\ \A d \in Cookie : /\ d # c => t.jobs[d] = State.jobs[d]
                           /\ Complete(State.jobs[d], rendered[d]) => Complete(t.jobs[d], rendered[d])
  BY <1>1, JobStep DEF PrintInv
<1> HIDE DEF t
<1>4. Announced(tasks, t, rendered)
  BY <1>1, <1>3, AnnouncedKept DEF PrintInv
<1>5. tasks' \in Seq(Task) /\ Announced(tasks', t, rendered)
  <2> DEFINE fail == Post("Failed", c)
             done == Post("DocDone", c)
  <2>1. /\ fail \in Task /\ fail.type = "Failed"
        /\ done \in Task /\ done.job = c
    BY DEF Post, Task
  <2> HIDE DEF fail, done
  <2>2. Append(tasks, fail) \in Seq(Task) /\ Announced(Append(tasks, fail), t, rendered)
    BY <1>1, <1>4, <2>1, AnnouncedAppend
  <2>3. CASE tasks' = tasks
    BY <1>1, <1>4, <2>3
  <2>4. CASE tasks' = Append(tasks, fail)
    BY <2>2, <2>4
  <2>5. CASE tasks' = tasks \o <<fail, fail>>
    <3> DEFINE one == Append(tasks, fail)
               two == Append(one, fail)
    <3>1. tasks' = two
      BY <1>1, <2>1, <2>5, TwoPosts
    <3> HIDE DEF one
    <3>2. one \in Seq(Task) /\ Announced(one, t, rendered)
      BY <2>2 DEF one
    <3>3. two \in Seq(Task) /\ Announced(two, t, rendered)
      BY <2>1, <3>2, AnnouncedAppend
    <3>. QED
      BY <3>1, <3>3
  <2>6. CASE tasks' = Append(tasks, done) /\ Complete(job, rendered[c])
    <3>1. Append(tasks, done) \in Seq(Task) /\ Announced(Append(tasks, done), t, rendered)
      BY <1>1, <1>3, <1>4, <2>1, <2>6, AnnouncedAppend
    <3>. QED
      BY <2>6, <3>1
  <2>. QED
    BY <2>3, <2>4, <2>5, <2>6 DEF fail, done
<1>6. TypeOK'
  BY <1>2, <1>3, <1>5 DEF PrintInv, TypeOK, settings
<1>7. PrintsInv'
  BY DEF PrintInv, PrintsInv, settings, Waiting, Top, Blocked
<1>8. CookieInv'
  <2>1. \A d \in Cookie : jobs'[d].thread # "none" => jobs[d].thread # "none"
    BY <1>1 DEF Browser
  <2>. QED
    BY <2>1, CookieKept DEF PrintInv, settings
<1>9. MessageInv'
  BY DEF PrintInv, MessageInv
<1>. QED
  BY <1>2, <1>3, <1>5, <1>6, <1>7, <1>8, <1>9 DEF PrintInv

(* A task of a worker leaves the queue of its thread.                      *)
LEMMA TodoTail ==
  ASSUME NEW j \in Job, NEW n \in Nat, Working(j, n), j.todo # <<>>
  PROVE  LET b == [j EXCEPT !.todo = Tail(@)] IN
         /\ b \in Job /\ Working(b, n) /\ Head(j.todo) \in Todo
         /\ b.thread = j.thread /\ b.stopping = j.stopping /\ b.registered = j.registered
         /\ b.held = j.held /\ b.page = j.page /\ b.busy = j.busy /\ b.poll = j.poll
         /\ b.count = j.count /\ b.got = j.got /\ b.spooled = j.spooled
         /\ \A i \in 1..Len(b.todo) :
              b.todo[i] # "document" /\ (b.todo[i] = "start" => Head(j.todo) = "document")
         /\ Complete(j, n) => Complete(b, n) /\ Head(j.todo) # "document"
         /\ Head(j.todo) = "start" => j.page = NoPage /\ j.spooled = {}
<1> DEFINE q == Tail(j.todo)
           b == [j EXCEPT !.todo = q]
<1>1. j.todo \in Seq(Todo)
  BY DEF Job
<1>2. /\ q \in Seq(Todo) /\ Head(j.todo) = j.todo[1] /\ j.todo[1] \in Todo
      /\ Len(j.todo) \in Nat \ {0} /\ 1 \in 1..Len(j.todo)
      /\ \A i \in 1..Len(q) : i + 1 \in 1..Len(j.todo) /\ q[i] = j.todo[i + 1]
  BY <1>1, Tailed
<1> HIDE DEF q
<1>3. /\ b \in Job /\ b.todo = q
      /\ b.thread = j.thread /\ b.stopping = j.stopping /\ b.registered = j.registered
      /\ b.held = j.held /\ b.page = j.page /\ b.busy = j.busy /\ b.poll = j.poll
      /\ b.count = j.count /\ b.got = j.got /\ b.spooled = j.spooled
  BY <1>2 DEF Job
<1> HIDE DEF b
<1>4. ASSUME NEW i \in 1..Len(q)
      PROVE  /\ q[i] # "document"
             /\ q[i] = "start" => /\ i = 1 /\ Head(j.todo) = "document"
                                  /\ j.spooled = {} /\ j.page = NoPage
  <2>1. i + 1 \in 1..Len(j.todo) /\ q[i] = j.todo[i + 1] /\ i + 1 # 1 /\ (i + 1 = 2 => i = 1)
    BY <1>2
  <2>. QED
    BY <1>2, <2>1 DEF Working
<1>5. Working(b, n)
  BY <1>3, <1>4 DEF Working
<1>6. Head(j.todo) = "start" => j.page = NoPage /\ j.spooled = {}
  BY <1>2 DEF Working
<1>7. Complete(j, n) => Complete(b, n) /\ Head(j.todo) # "document"
  BY <1>2, <1>3, <1>4 DEF Complete
<1>. QED
  BY <1>2, <1>3, <1>4, <1>5, <1>6, <1>7 DEF b, q

-----------------------------------------------------------------------------
(* The actions of the workers and of the pool of threads.                  *)
LEMMA JobFacts ==
  ASSUME PrintInv, NEW c \in Cookie
  PROVE  /\ jobs[c] \in Job /\ Working(jobs[c], rendered[c]) /\ rendered[c] \in Nat
         /\ jobs[c].todo \in Seq(Todo) /\ jobs[c].count \in Nat /\ jobs[c].page \in Nat
         /\ IsRunning(jobs[c]) =>
              /\ jobs[c].thread # "none"
              /\ jobs[c].stopping \/ (jobs[c].registered /\ c \in ui.current)
         /\ faults \in Nat
<1>1. /\ jobs[c] \in Job /\ rendered[c] \in Nat /\ faults \in Nat
      /\ State.ui = ui /\ State.jobs = jobs
  BY Types DEF PrintInv
<1>2. jobs[c].todo \in Seq(Todo) /\ jobs[c].count \in Nat /\ jobs[c].page \in Nat
  BY <1>1 DEF Job
<1>3. Working(jobs[c], rendered[c])
  BY <1>1 DEF PrintInv, JobsInv
<1>4. IsRunning(jobs[c]) =>
        /\ jobs[c].thread # "none"
        /\ jobs[c].stopping \/ (jobs[c].registered /\ c \in ui.current)
  BY <1>1 DEF PrintInv, JobsInv, Kept, IsRunning
<1>. QED
  BY <1>1, <1>2, <1>3, <1>4

LEMMA FaultType ==
  ASSUME faults \in Nat, Fault \/ NoFault
  PROVE  faults' \in Nat
  BY DEF Fault, NoFault

LEMMA FailedJob ==
  ASSUME NEW j \in Job
  PROVE  /\ Failed(j) \in Job /\ Failed(j).thread = j.thread /\ Failed(j).count = j.count
         /\ Failed(j).got = j.got /\ Failed(j).todo = j.todo /\ Failed(j).spooled = j.spooled
         /\ Failed(j).stopping = j.stopping /\ Failed(j).registered = j.registered
         /\ Failed(j).page = NoPage /\ ~Failed(j).busy /\ Failed(j).poll = j.poll
  BY DEF Failed, Job, Flag, NoPage

LEMMA WorkerTaskKeeps ==
  ASSUME PrintInv, NEW c \in Cookie, WorkerTask(c)
  PROVE  PrintInv'
<1> DEFINE old == jobs[c]
           n == rendered[c]
           task == Head(old.todo)
           job == [old EXCEPT !.todo = Tail(@)]
<1>1. IsRunning(old) /\ ~old.busy /\ old.todo # <<>>
  BY DEF WorkerTask
<1>2. UNCHANGED <<renderer, frames, settings, toBrowser, ui, rendered>>
  BY DEF WorkerTask
<1>3. /\ old \in Job /\ Working(old, n) /\ n \in Nat /\ old.thread # "none" /\ faults \in Nat
      /\ old.stopping \/ (old.registered /\ c \in ui.current)
      /\ old.count \in Nat
  BY <1>1, JobFacts
<1>4. /\ job \in Job /\ Working(job, n) /\ task \in Todo
      /\ job.thread = old.thread /\ job.stopping = old.stopping /\ job.registered = old.registered
      /\ job.held = old.held /\ job.page = old.page /\ job.busy = old.busy /\ job.poll = old.poll
      /\ job.count = old.count /\ job.got = old.got /\ job.spooled = old.spooled
      /\ \A i \in 1..Len(job.todo) :
           job.todo[i] # "document" /\ (job.todo[i] = "start" => task = "document")
      /\ Complete(old, n) => Complete(job, n) /\ task # "document"
      /\ task = "start" => old.page = NoPage /\ old.spooled = {}
  <2> HIDE DEF old, n
  <2>. QED
    BY <1>1, <1>3, TodoTail
<1>5. \/ /\ task \in {"document", "no document"} /\ UNCHANGED <<tasks, faults>>
         /\ jobs' = [jobs EXCEPT ![c] =
              IF job.page = NoPage THEN [job EXCEPT !.held = (task = "document")] ELSE job]
      \/ /\ task = "start" /\ job.held /\ UNCHANGED <<tasks, faults>>
         /\ jobs' = [jobs EXCEPT ![c] = [job EXCEPT !.page = 1, !.busy = TRUE]]
      \/ /\ task = "start" /\ job.held /\ (Fault \/ NoFault)
         /\ jobs' = [jobs EXCEPT ![c] = Failed(job)]
         /\ tasks' = Append(tasks, Post("Failed", c))
      \/ /\ task = "quit" /\ UNCHANGED <<tasks, faults>>
         /\ jobs' = [jobs EXCEPT ![c] =
              [job EXCEPT !.thread = "stopped", !.todo = <<>>, !.poll = FALSE]]
  BY DEF WorkerTask, FailsHere
<1> HIDE DEF old, n, task, job
<1>6. CASE /\ task \in {"document", "no document"} /\ UNCHANGED <<tasks, faults>>
           /\ jobs' = [jobs EXCEPT ![c] =
                IF job.page = NoPage THEN [job EXCEPT !.held = (task = "document")] ELSE job]
  <2> DEFINE held == task = "document"
             next == [job EXCEPT !.held = held]
             new == IF job.page = NoPage THEN next ELSE job
  <2>1. held \in Flag
    BY DEF Flag
  <2>2. Complete(job, n) => ~job.held
    BY DEF Complete
  <2>3. Complete(old, n) => ~held
    BY <1>4
  <2> HIDE DEF held
  <2>4. /\ next \in Job /\ next.thread = job.thread /\ next.count = job.count
        /\ next.got = job.got /\ next.todo = job.todo /\ next.spooled = job.spooled
        /\ next.stopping = job.stopping /\ next.registered = job.registered
        /\ next.page = job.page /\ next.busy = job.busy /\ next.poll = job.poll
        /\ next.held = held
    BY <1>4, <2>1 DEF Job
  <2> HIDE DEF next
  <2>5. Working(next, n)
    BY <1>4, <2>4 DEF Working
  <2>6. Complete(old, n) => Complete(next, n)
    BY <1>4, <2>3, <2>4 DEF Complete
  <2>7. /\ new \in Job /\ new.thread = job.thread /\ Working(new, n)
        /\ new.stopping = job.stopping /\ new.registered = job.registered
        /\ Complete(old, n) => Complete(new, n)
    BY <1>4, <2>4, <2>5, <2>6
  <2>8. jobs' = [jobs EXCEPT ![c] = new]
    BY <1>6 DEF next, held
  <2> HIDE DEF new
  <2>. QED
    BY <1>2, <1>3, <1>4, <1>6, <2>7, <2>8, WorkerStep DEF old, n
<1>7. CASE /\ task = "start" /\ job.held /\ UNCHANGED <<tasks, faults>>
           /\ jobs' = [jobs EXCEPT ![c] = [job EXCEPT !.page = 1, !.busy = TRUE]]
  <2> DEFINE new == [job EXCEPT !.page = 1, !.busy = TRUE]
  <2>1. /\ new \in Job /\ new.thread = job.thread /\ new.count = job.count
        /\ new.got = job.got /\ new.todo = job.todo /\ new.spooled = job.spooled
        /\ new.stopping = job.stopping /\ new.registered = job.registered
        /\ new.page = 1 /\ new.busy = TRUE /\ new.poll = job.poll
    BY <1>4 DEF Job, Flag
  <2>2. jobs' = [jobs EXCEPT ![c] = new]
    BY <1>7
  <2> HIDE DEF new
  <2>3. job.spooled = {} /\ ~job.poll /\ job.count >= 1 /\ job.thread # "none"
    BY <1>3, <1>4, <1>7 DEF Working
  <2>4. Working(new, n)
    <3>1. new.spooled = 1..new.page - 1 /\ new.page # NoPage
      BY <2>1, <2>3 DEF NoPage
    <3>2. new.thread # "none" => new.count >= 1 /\ n \in {0, new.count}
      BY <1>4, <2>1 DEF Working
    <3>3. new.got \subseteq 1..n
      BY <1>4, <2>1 DEF Working
    <3>. QED
      BY <1>4, <1>7, <2>1, <2>3, <3>1, <3>2, <3>3 DEF Working
  <2>5. ~Complete(old, n)
    BY <1>4, <1>7 DEF Complete
  <2>. QED
    BY <1>2, <1>3, <1>4, <1>7, <2>1, <2>2, <2>4, <2>5, WorkerStep DEF old, n
<1>8. CASE /\ task = "start" /\ job.held /\ (Fault \/ NoFault)
           /\ jobs' = [jobs EXCEPT ![c] = Failed(job)]
           /\ tasks' = Append(tasks, Post("Failed", c))
  <2> DEFINE new == Failed(job)
  <2>1. /\ new \in Job /\ new.thread = job.thread /\ new.count = job.count
        /\ new.got = job.got /\ new.todo = job.todo /\ new.spooled = job.spooled
        /\ new.stopping = job.stopping /\ new.registered = job.registered
        /\ new.page = NoPage /\ ~new.busy /\ new.poll = job.poll
    BY <1>4, FailedJob
  <2>2. jobs' = [jobs EXCEPT ![c] = new] /\ faults' \in Nat
    BY <1>3, <1>8, FaultType
  <2> HIDE DEF new
  <2>3. Working(new, n)
    BY <1>4, <1>8, <2>1 DEF Working
  <2>4. ~Complete(old, n)
    BY <1>4, <1>8 DEF Complete
  <2>. QED
    BY <1>2, <1>3, <1>4, <1>8, <2>1, <2>2, <2>3, <2>4, WorkerStep DEF old, n
<1>9. CASE /\ task = "quit" /\ UNCHANGED <<tasks, faults>>
           /\ jobs' = [jobs EXCEPT ![c] =
                [job EXCEPT !.thread = "stopped", !.todo = <<>>, !.poll = FALSE]]
  <2> DEFINE new == [job EXCEPT !.thread = "stopped", !.todo = <<>>, !.poll = FALSE]
  <2>1. /\ new \in Job /\ new.thread = "stopped" /\ new.count = job.count
        /\ new.got = job.got /\ new.todo = <<>> /\ new.spooled = job.spooled
        /\ new.held = job.held /\ new.page = job.page /\ new.busy = job.busy /\ new.poll = FALSE
    <3>1. <<>> \in Seq(Todo)
      OBVIOUS
    <3>. QED
      BY <1>4, <3>1 DEF Job, Flag, Threads
  <2>2. jobs' = [jobs EXCEPT ![c] = new]
    BY <1>9
  <2> HIDE DEF new
  <2>3. Len(new.todo) = 0
    BY <2>1
  <2>4. Working(new, n)
    BY <1>3, <1>4, <2>1, <2>3 DEF Working
  <2>5. Complete(old, n) => Complete(new, n)
    BY <1>4, <2>1, <2>3 DEF Complete
  <2>6. ~IsRunning(new)
    BY <2>1 DEF IsRunning
  <2>. QED
    BY <1>2, <1>3, <1>4, <1>9, <2>1, <2>2, <2>4, <2>5, <2>6, WorkerStep DEF old, n
<1>. QED
  BY <1>5, <1>6, <1>7, <1>8, <1>9

LEMMA OnNewPageKeeps ==
  ASSUME PrintInv, NEW c \in Cookie, OnNewPage(c)
  PROVE  PrintInv'
<1> DEFINE old == jobs[c]
           n == rendered[c]
           new == [old EXCEPT !.poll = FALSE, !.busy = old.held]
<1>1. /\ IsRunning(old) /\ old.poll /\ jobs' = [jobs EXCEPT ![c] = new]
      /\ UNCHANGED <<renderer, frames, settings, toBrowser, ui, rendered, tasks, faults>>
  BY DEF OnNewPage
<1>2. /\ old \in Job /\ Working(old, n) /\ old.thread # "none" /\ faults \in Nat
      /\ old.stopping \/ (old.registered /\ c \in ui.current)
  BY <1>1, JobFacts
<1> HIDE DEF old, n
<1>3. /\ new \in Job /\ new.thread = old.thread /\ new.count = old.count
      /\ new.got = old.got /\ new.todo = old.todo /\ new.spooled = old.spooled
      /\ new.stopping = old.stopping /\ new.registered = old.registered
      /\ new.page = old.page /\ new.poll = FALSE
  BY <1>2 DEF Job, Flag
<1> HIDE DEF new
<1>4. old.page # NoPage
  BY <1>1, <1>2 DEF Working
<1>5. Working(new, n)
  BY <1>2, <1>3, <1>4 DEF Working
<1>6. ~Complete(old, n)
  BY <1>4 DEF Complete
<1>. QED
  BY <1>1, <1>2, <1>3, <1>5, <1>6, WorkerStep DEF old, n

LEMMA SpoolPageKeeps ==
  ASSUME PrintInv, NEW c \in Cookie, SpoolPage(c)
  PROVE  PrintInv'
<1> DEFINE job == jobs[c]
           n == rendered[c]
           spooled == job.spooled \cup {job.page}
           next == [job EXCEPT !.spooled = spooled]
<1>1. job.busy /\ UNCHANGED <<renderer, frames, settings, toBrowser, ui, rendered>>
  BY DEF SpoolPage, SpoolUpTo
<1>2. \/ /\ UNCHANGED <<tasks, faults>>
         /\ jobs' = [jobs EXCEPT ![c] = [job EXCEPT !.busy = FALSE, !.poll = TRUE]]
      \/ /\ Fault \/ NoFault
         /\ jobs' = [jobs EXCEPT ![c] = Failed(job)]
         /\ tasks' = tasks \o <<Post("Failed", c), Post("Failed", c)>>
      \/ /\ job.page < job.count /\ UNCHANGED <<tasks, faults>>
         /\ jobs' = [jobs EXCEPT ![c] = [next EXCEPT !.page = job.page + 1]]
      \/ /\ job.page \in job.got /\ job.page >= job.count /\ NoFault
         /\ jobs' = [jobs EXCEPT ![c] =
              [next EXCEPT !.page = NoPage, !.busy = FALSE, !.held = FALSE]]
         /\ tasks' = Append(tasks, Post("DocDone", c))
  BY DEF SpoolPage, SpoolUpTo, FailsHere
<1>3. /\ job \in Job /\ Working(job, n) /\ n \in Nat /\ faults \in Nat
      /\ job.count \in Nat /\ job.page \in Nat
      /\ IsRunning(job) => job.stopping \/ (job.registered /\ c \in ui.current)
  BY JobFacts
<1> HIDE DEF job, n
<1>4. /\ job.page # NoPage /\ ~job.poll /\ job.thread # "none" /\ job.spooled = 1..job.page - 1
      /\ job.page <= job.count /\ n \in {0, job.count} /\ job.got \subseteq 1..n
  BY <1>1, <1>3 DEF Working
<1>5. \A i \in 1..Len(job.todo) : job.todo[i] # "document" /\ job.todo[i] # "start"
  BY <1>3, <1>4 DEF Working
<1>6. ~Complete(job, n)
  BY <1>4 DEF Complete
<1>7. spooled = 1..job.page /\ spooled \in SUBSET Nat
  BY <1>3, <1>4 DEF NoPage
<1> HIDE DEF spooled
<1>8. /\ next \in Job /\ next.thread = job.thread /\ next.count = job.count
      /\ next.got = job.got /\ next.todo = job.todo /\ next.spooled = spooled
      /\ next.stopping = job.stopping /\ next.registered = job.registered
      /\ next.poll = job.poll /\ next.busy = job.busy
  BY <1>3, <1>7 DEF Job
<1> HIDE DEF next
<1>9. CASE /\ UNCHANGED <<tasks, faults>>
           /\ jobs' = [jobs EXCEPT ![c] = [job EXCEPT !.busy = FALSE, !.poll = TRUE]]
  <2> DEFINE new == [job EXCEPT !.busy = FALSE, !.poll = TRUE]
  <2>1. /\ new \in Job /\ new.thread = job.thread /\ new.count = job.count
        /\ new.got = job.got /\ new.todo = job.todo /\ new.spooled = job.spooled
        /\ new.stopping = job.stopping /\ new.registered = job.registered
        /\ new.page = job.page /\ new.busy = FALSE
    BY <1>3 DEF Job, Flag
  <2>2. jobs' = [jobs EXCEPT ![c] = new]
    BY <1>9
  <2> HIDE DEF new
  <2>3. Working(new, n)
    BY <1>3, <1>4, <2>1 DEF Working
  <2>4. IsRunning(new) <=> IsRunning(job)
    BY <2>1 DEF IsRunning
  <2>. QED
    BY <1>1, <1>3, <1>4, <1>6, <1>9, <2>1, <2>2, <2>3, <2>4, WorkerStep DEF job, n
<1>10. CASE /\ Fault \/ NoFault
            /\ jobs' = [jobs EXCEPT ![c] = Failed(job)]
            /\ tasks' = tasks \o <<Post("Failed", c), Post("Failed", c)>>
  <2> DEFINE new == Failed(job)
  <2>1. /\ new \in Job /\ new.thread = job.thread /\ new.count = job.count
        /\ new.got = job.got /\ new.todo = job.todo /\ new.spooled = job.spooled
        /\ new.stopping = job.stopping /\ new.registered = job.registered
        /\ new.page = NoPage /\ ~new.busy /\ new.poll = job.poll
    BY <1>3, FailedJob
  <2>2. jobs' = [jobs EXCEPT ![c] = new] /\ faults' \in Nat
    BY <1>3, <1>10, FaultType
  <2> HIDE DEF new
  <2>3. Working(new, n)
    BY <1>3, <1>4, <1>5, <2>1 DEF Working
  <2>4. IsRunning(new) <=> IsRunning(job)
    BY <2>1 DEF IsRunning
  <2>. QED
    BY <1>1, <1>3, <1>4, <1>6, <1>10, <2>1, <2>2, <2>3, <2>4, WorkerStep DEF job, n
<1>11. CASE /\ job.page < job.count /\ UNCHANGED <<tasks, faults>>
            /\ jobs' = [jobs EXCEPT ![c] = [next EXCEPT !.page = job.page + 1]]
  <2> DEFINE page == job.page + 1
             new == [next EXCEPT !.page = page]
  <2>1. page \in Nat /\ page # NoPage /\ page - 1 = job.page /\ page <= job.count
    BY <1>3, <1>11 DEF NoPage
  <2>2. jobs' = [jobs EXCEPT ![c] = new]
    BY <1>11
  <2> HIDE DEF page
  <2>3. /\ new \in Job /\ new.thread = job.thread /\ new.count = job.count
        /\ new.got = job.got /\ new.todo = job.todo /\ new.spooled = spooled
        /\ new.stopping = job.stopping /\ new.registered = job.registered
        /\ new.page = page /\ new.poll = job.poll
    BY <1>8, <2>1 DEF Job
  <2> HIDE DEF new
  <2>4. Working(new, n)
    BY <1>3, <1>4, <1>5, <1>7, <2>1, <2>3 DEF Working
  <2>5. IsRunning(new) <=> IsRunning(job)
    BY <2>3 DEF IsRunning
  <2>. QED
    BY <1>1, <1>3, <1>4, <1>6, <1>11, <2>2, <2>3, <2>4, <2>5, WorkerStep DEF job, n
<1>12. CASE /\ job.page \in job.got /\ job.page >= job.count /\ NoFault
            /\ jobs' = [jobs EXCEPT ![c] =
                 [next EXCEPT !.page = NoPage, !.busy = FALSE, !.held = FALSE]]
            /\ tasks' = Append(tasks, Post("DocDone", c))
  <2> DEFINE new == [next EXCEPT !.page = NoPage, !.busy = FALSE, !.held = FALSE]
  <2>1. /\ new \in Job /\ new.thread = job.thread /\ new.count = job.count
        /\ new.got = job.got /\ new.todo = job.todo /\ new.spooled = spooled
        /\ new.stopping = job.stopping /\ new.registered = job.registered
        /\ new.page = NoPage /\ new.poll = job.poll /\ new.busy = FALSE /\ new.held = FALSE
    BY <1>8 DEF Job, Flag, NoPage
  <2>2. jobs' = [jobs EXCEPT ![c] = new] /\ faults' \in Nat
    BY <1>3, <1>12, FaultType
  <2> HIDE DEF new
  <2>3. job.page = job.count /\ n = job.count
    BY <1>3, <1>4, <1>12
  <2>4. Working(new, n)
    BY <1>3, <1>4, <1>5, <2>1 DEF Working
  <2>5. Complete(new, n)
    BY <1>4, <1>5, <1>7, <2>1, <2>3 DEF Complete
  <2>6. IsRunning(new) <=> IsRunning(job)
    BY <2>1 DEF IsRunning
  <2>. QED
    BY <1>1, <1>3, <1>4, <1>6, <1>12, <2>1, <2>2, <2>4, <2>5, <2>6, WorkerStep DEF job, n
<1>. QED
  BY <1>2, <1>9, <1>10, <1>11, <1>12

LEMMA StopWorkerKeeps ==
  ASSUME PrintInv, NEW c \in Cookie, StopWorker(c)
  PROVE  PrintInv'
<1> DEFINE old == jobs[c]
           n == rendered[c]
           todo == Append(old.todo, "quit")
           new == [old EXCEPT !.thread = "stopping", !.todo = todo]
<1>1. /\ old.stopping /\ old.thread = "running" /\ jobs' = [jobs EXCEPT ![c] = new]
      /\ UNCHANGED <<renderer, frames, settings, toBrowser, ui, rendered, tasks, faults>>
  BY DEF StopWorker
<1>2. /\ old \in Job /\ Working(old, n) /\ faults \in Nat /\ old.todo \in Seq(Todo)
  BY JobFacts
<1>3. /\ todo \in Seq(Todo) /\ Len(todo) = Len(old.todo) + 1 /\ Len(old.todo) \in Nat
      /\ \A i \in 1..Len(old.todo) : todo[i] = old.todo[i]
      /\ todo[Len(old.todo) + 1] = "quit"
  <2> DEFINE q == old.todo
             quit == "quit"
  <2>1. q \in Seq(Todo) /\ quit \in Todo
    BY <1>2 DEF Todo
  <2> HIDE DEF q, quit
  <2>2. /\ Append(q, quit) \in Seq(Todo) /\ Len(q) \in Nat /\ Len(Append(q, quit)) = Len(q) + 1
        /\ \A i \in 1..Len(q) : Append(q, quit)[i] = q[i]
        /\ Append(q, quit)[Len(q) + 1] = quit
    BY <2>1, Appended
  <2>. QED
    BY <2>2 DEF q, quit
<1> HIDE DEF old, n, todo
<1>4. /\ new \in Job /\ new.thread = "stopping" /\ new.count = old.count
      /\ new.got = old.got /\ new.todo = todo /\ new.spooled = old.spooled
      /\ new.stopping = old.stopping /\ new.registered = old.registered
      /\ new.page = old.page /\ new.poll = old.poll /\ new.busy = old.busy /\ new.held = old.held
  BY <1>2, <1>3 DEF Job, Threads
<1> HIDE DEF new
<1>5. ASSUME NEW i \in 1..Len(todo)
      PROVE  (i \in 1..Len(old.todo) /\ todo[i] = old.todo[i]) \/ todo[i] = "quit"
  BY <1>3
<1>6. todo[1] = old.todo[1] \/ Len(old.todo) = 0
  BY <1>3
<1>7. Working(new, n)
  <2>1. ASSUME NEW i \in 1..Len(todo)
        PROVE  /\ todo[i] = "document" => i = 1 /\ old.page = NoPage
               /\ todo[i] = "start" => /\ old.spooled = {} /\ old.page = NoPage
                                       /\ i = 1 \/ (i = 2 /\ todo[1] = "document")
    <3>1. CASE i \in 1..Len(old.todo) /\ todo[i] = old.todo[i]
      <4>1. todo[1] = old.todo[1]
        BY <1>6, <3>1
      <4>. QED
        BY <1>2, <3>1, <4>1 DEF Working
    <3>2. CASE todo[i] = "quit"
      BY <3>2
    <3>. QED
      BY <1>5, <3>1, <3>2
  <2>2. /\ new.count >= 1 /\ n \in {0, new.count}
        /\ new.got \subseteq 1..n
        /\ new.page # NoPage => new.spooled = 1..new.page - 1 /\ new.page <= new.count
        /\ new.busy => new.page # NoPage /\ ~new.poll
        /\ new.poll => new.page # NoPage
    BY <1>1, <1>2, <1>4 DEF Working
  <2>. QED
    BY <1>4, <2>1, <2>2 DEF Working
<1>8. Complete(old, n) => Complete(new, n)
  BY <1>4, <1>5 DEF Complete
<1>. QED
  BY <1>1, <1>2, <1>4, <1>7, <1>8, WorkerStep DEF old, n

LEMMA HoldUntilStopIsCalledKeeps ==
  ASSUME PrintInv, NEW c \in Cookie, HoldUntilStopIsCalled(c)
  PROVE  PrintInv'
<1> DEFINE old == jobs[c]
           n == rendered[c]
           new == [old EXCEPT !.stopping = FALSE]
<1>1. /\ old.thread = "stopped"
      /\ UNCHANGED <<renderer, frames, settings, toBrowser, ui, rendered, tasks, faults>>
  BY DEF HoldUntilStopIsCalled
<1>2. jobs' = [jobs EXCEPT ![c] = new]
  BY DEF HoldUntilStopIsCalled
<1>3. old \in Job /\ Working(old, n) /\ faults \in Nat
  BY JobFacts
<1> HIDE DEF old, n
<1>4. /\ new \in Job /\ new.thread = "stopped" /\ new.count = old.count
      /\ new.got = old.got /\ new.todo = old.todo /\ new.spooled = old.spooled
      /\ new.page = old.page /\ new.poll = old.poll /\ new.busy = old.busy /\ new.held = old.held
  BY <1>1, <1>3 DEF Job, Flag
<1> HIDE DEF new
<1>5. Working(new, n) /\ ~IsRunning(new)
  BY <1>1, <1>3, <1>4 DEF Working, IsRunning
<1>6. Complete(old, n) => Complete(new, n)
  BY <1>4 DEF Complete
<1>. QED
  BY <1>1, <1>2, <1>3, <1>4, <1>5, <1>6, WorkerStep DEF old, n

-----------------------------------------------------------------------------
(* The UI thread.                                                          *)
LEMMA UiKeeps ==
  ASSUME NEW s \in Browser, NEW t \in Browser, NEW made \in [Cookie -> Nat], JobsInv(s, made),
         t.jobs = s.jobs, t.ui.job = s.ui.job, t.ui.succeeded = s.ui.succeeded,
         t.ui.current = s.ui.current,
         \/ t.ui.sent = s.ui.sent
         \/ t.ui.sent = <<>>
         \/ s.ui.sent # <<>> /\ t.ui.sent = Tail(s.ui.sent)
  PROVE  JobsInv(t, made)
<1>1. Kept(t)
  BY DEF JobsInv, Kept
<1>2. ASSUME NEW i \in 1..Len(t.ui.sent), t.ui.sent[i].success
      PROVE  Complete(t.jobs[t.ui.sent[i].job], made[t.ui.sent[i].job])
  <2>1. s.ui.sent \in Seq(Sent)
    BY BrowserTypes DEF Ui
  <2>2. CASE t.ui.sent = s.ui.sent
    BY <1>2, <2>2 DEF JobsInv, Reported
  <2>3. CASE t.ui.sent = <<>>
    BY <1>2, <2>3
  <2>4. CASE s.ui.sent # <<>> /\ t.ui.sent = Tail(s.ui.sent)
    <3>1. i + 1 \in 1..Len(s.ui.sent) /\ t.ui.sent[i] = s.ui.sent[i + 1]
      BY <1>2, <2>1, <2>4, Tailed
    <3>. QED
      BY <1>2, <3>1 DEF JobsInv, Reported
  <2>. QED
    BY <2>2, <2>3, <2>4
<1>3. Reported(t, made)
  BY <1>2 DEF JobsInv, Reported
<1>. QED
  BY <1>1, <1>3 DEF JobsInv

LEMMA KeepsTrans ==
  ASSUME NEW r, NEW s, NEW t, NEW made, Keeps(r, s, made), Keeps(s, t, made)
  PROVE  Keeps(r, t, made)
  BY DEF Keeps

(* A message was handled.                                                  *)
LEMMA MessageStep ==
  ASSUME PrintInv, toBrowser # <<>>, toBrowser' = Tail(toBrowser),
         NEW t \in Browser, State' = t, JobsInv(t, rendered),
         \A c \in Cookie : Complete(jobs[c], rendered[c]) => Complete(t.jobs[c], rendered[c]),
         \A c \in Cookie : t.jobs[c].thread # "none" =>
           jobs[c].thread # "none" \/ (c = Head(toBrowser).cookie /\ c \notin queue'),
         t.ui.open = ui.open, queue' \subseteq queue,
         Head(toBrowser).type = "DidGetPrintedPagesCount" =>
           t.ui.number = Head(toBrowser).page,
         Head(toBrowser).type = "DidPrintPage" => t.ui.number = ui.number,
         UNCHANGED <<renderer, frames, asks, replies, lastCookie, tasks, rendered, faults>>
  PROVE  PrintInv'
<1>1. /\ tasks \in Seq(Task) /\ State \in Browser /\ rendered \in [Cookie -> Nat]
      /\ toBrowser \in Seq(Messages) /\ ui \in Ui /\ t.ui \in Ui
      /\ State.ui = ui /\ State.jobs = jobs /\ t.ui = ui' /\ t.jobs = jobs'
  BY Types, BrowserTypes DEF PrintInv, State
<1>2. /\ Tail(toBrowser) \in Seq(Messages) /\ Head(toBrowser) = toBrowser[1]
      /\ 1 \in 1..Len(toBrowser)
      /\ \A i \in 1..Len(Tail(toBrowser)) :
           i + 1 \in 1..Len(toBrowser) /\ Tail(toBrowser)[i] = toBrowser[i + 1]
  BY <1>1, Tailed
<1>3. TypeOK'
  BY <1>2 DEF PrintInv, TypeOK
<1>4. PrintsInv'
  BY DEF PrintInv, PrintsInv, Waiting, Top, Blocked
<1>5. CookieInv'
  <2>1. \A c : Unused(c)' <=> Unused(c)
    BY DEF Unused
  <2>2. ASSUME NEW c \in Cookie, c > lastCookie \/ Unused(c)
        PROVE  /\ rendered[c] = 0 /\ jobs'[c].thread = "none"
               /\ \A i \in 1..Len(toBrowser') : toBrowser'[i].cookie # c
    <3>1. /\ rendered[c] = 0 /\ jobs[c].thread = "none"
          /\ \A i \in 1..Len(toBrowser) : toBrowser[i].cookie # c
      BY <2>2 DEF PrintInv, CookieInv
    <3>. QED
      BY <1>1, <1>2, <3>1
  <2>3. \A c \in Cookie : jobs'[c].thread # "none" => c \notin queue'
    BY <1>1 DEF PrintInv, CookieInv
  <2>. QED
    BY <2>1, <2>2, <2>3 DEF PrintInv, CookieInv
<1>6. MessageInv'
  <2>1. ui.number \in Nat /\ t.ui.number \in Nat
    BY <1>1 DEF Ui
  <2>2. InOrder(Tail(toBrowser), t.ui.number, rendered)
    BY <1>1, <2>1, InOrderTail DEF PrintInv, MessageInv
  <2>. QED
    BY <1>1, <2>2 DEF PrintInv, MessageInv
<1>7. Announced(tasks, t, rendered)
  BY <1>1, AnnouncedKept DEF PrintInv
<1>. QED
  BY <1>1, <1>3, <1>4, <1>5, <1>6, <1>7 DEF PrintInv

LEMMA OnDidGetPrintedPagesCountKeeps ==
  ASSUME PrintInv, toBrowser # <<>>, toBrowser' = Tail(toBrowser), ui.open,
         Head(toBrowser).type = "DidGetPrintedPagesCount",
         OnDidGetPrintedPagesCount(Head(toBrowser)),
         queue' = IF TakesQuery(Head(toBrowser).cookie) THEN queue \ {Head(toBrowser).cookie}
                  ELSE queue,
         UNCHANGED <<renderer, frames, asks, replies, lastCookie, tasks, rendered, faults>>
  PROVE  PrintInv'
<1> DEFINE m == Head(toBrowser)
           s == [State EXCEPT !.ui.number = m.page]
           t == Opportunistically(s, m.cookie)
<1>1. /\ State \in Browser /\ rendered \in [Cookie -> Nat] /\ queue \in SUBSET Cookie
      /\ toBrowser \in Seq(Messages) /\ State.ui = ui /\ State.jobs = jobs
  BY Types DEF PrintInv
<1>2. m = toBrowser[1] /\ m \in Messages /\ 1 \in 1..Len(toBrowser)
  BY <1>1, Tailed
<1>3. m.cookie \in Cookie /\ m.page >= 1 /\ rendered[m.cookie] \in {0, m.page} /\ m.page \in Nat
  BY <1>2 DEF PrintInv, MessageInv, InOrder, Messages
<1>4. Become(t)
  BY DEF OnDidGetPrintedPagesCount
<1>5. m.type = "DidGetPrintedPagesCount"
  OBVIOUS
<1>6. queue' = IF ui.job = NoCookie /\ m.cookie \in queue THEN queue \ {m.cookie} ELSE queue
  BY DEF TakesQuery
<1>7. /\ s \in Browser /\ s.jobs = jobs /\ s.ui.job = ui.job /\ s.ui.succeeded = ui.succeeded
      /\ s.ui.current = ui.current /\ s.ui.sent = ui.sent /\ s.ui.open = ui.open
      /\ s.ui.number = m.page
  BY <1>1, <1>3 DEF Browser, Ui
<1> HIDE DEF s
<1>8. JobsInv(s, rendered)
  BY <1>1, <1>7, UiKeeps DEF PrintInv
<1>9. m.cookie \in queue => jobs[m.cookie].thread = "none"
  BY <1>3 DEF PrintInv, CookieInv
<1>10. /\ t \in Browser /\ JobsInv(t, rendered)
       /\ t.ui.open = s.ui.open /\ t.ui.number = s.ui.number
       /\ \/ t = s
          \/ /\ s.ui.job = NoCookie /\ m.cookie \in queue /\ t.ui.job = m.cookie
             /\ \A d \in Cookie : d # m.cookie => t.jobs[d] = s.jobs[d]
       /\ \A d \in Cookie : Complete(s.jobs[d], rendered[d]) => Complete(t.jobs[d], rendered[d])
  <2> DEFINE c == m.cookie
  <2>1. c \in queue => /\ c \in Cookie /\ s.jobs[c].thread = "none"
                       /\ s.ui.number > 0 /\ rendered[c] \in {0, s.ui.number}
    BY <1>3, <1>7, <1>9
  <2> HIDE DEF c
  <2>2. LET u == Opportunistically(s, c) IN
        /\ u \in Browser /\ JobsInv(u, rendered)
        /\ u.ui.open = s.ui.open /\ u.ui.number = s.ui.number
        /\ \/ u = s
           \/ /\ s.ui.job = NoCookie /\ c \in queue /\ u.ui.job = c
              /\ \A d \in Cookie : d # c => u.jobs[d] = s.jobs[d]
        /\ \A d \in Cookie : Complete(s.jobs[d], rendered[d]) => Complete(u.jobs[d], rendered[d])
    BY <1>1, <1>7, <1>8, <2>1, OpportunisticallyKeeps
  <2>. QED
    BY <2>2 DEF c
<1> HIDE DEF t
<1>11. State' = t
  BY <1>4, <1>10, BecomeIs
<1>12. \A c \in Cookie : t.jobs[c].thread # "none" =>
         jobs[c].thread # "none" \/ (c = m.cookie /\ c \notin queue')
  BY <1>6, <1>7, <1>10
<1>. QED
  BY <1>5, <1>6, <1>7, <1>10, <1>11, <1>12, MessageStep

LEMMA OnDidPrintPageKeeps ==
  ASSUME PrintInv, toBrowser # <<>>, toBrowser' = Tail(toBrowser), ui.open,
         Head(toBrowser).type = "DidPrintPage", OnDidPrintPage(Head(toBrowser)),
         queue' = IF TakesQuery(Head(toBrowser).cookie) THEN queue \ {Head(toBrowser).cookie}
                  ELSE queue,
         UNCHANGED <<renderer, frames, asks, replies, lastCookie, tasks, rendered, faults>>
  PROVE  PrintInv'
<1> DEFINE m == Head(toBrowser)
           s == Opportunistically(State, m.cookie)
           c == s.ui.job
           r == [s EXCEPT !.ui.expecting = FALSE]
           t == IF c = NoCookie \/ ~s.jobs[c].document \/ c # m.cookie THEN s
                ELSE IF s.ui.expecting /\ ~m.valid THEN Terminate(r, TRUE)
                     ELSE [r EXCEPT !.jobs[c].got = @ \cup {m.page}]
<1>1. /\ State \in Browser /\ rendered \in [Cookie -> Nat] /\ queue \in SUBSET Cookie
      /\ toBrowser \in Seq(Messages) /\ State.ui = ui /\ State.jobs = jobs /\ ui \in Ui
  BY Types DEF PrintInv
<1>2. m = toBrowser[1] /\ m \in Messages /\ 1 \in 1..Len(toBrowser)
  BY <1>1, Tailed
<1>3. /\ m.cookie \in Cookie /\ m.page \in 1..rendered[m.cookie] /\ ui.number = rendered[m.cookie]
  BY <1>2, SMTT(30) DEF PrintInv, MessageInv, InOrder
<1>4. Become(t)
  BY DEF OnDidPrintPage
<1>5. m.type = "DidPrintPage"
  OBVIOUS
<1>6. queue' = IF ui.job = NoCookie /\ m.cookie \in queue THEN queue \ {m.cookie} ELSE queue
  BY DEF TakesQuery
<1>7. m.cookie \in queue => jobs[m.cookie].thread = "none"
  BY <1>3 DEF PrintInv, CookieInv
<1> HIDE DEF m
<1>8. rendered[m.cookie] \in Nat /\ ui.number > 0
  BY <1>1, <1>3
<1>9. /\ s \in Browser /\ JobsInv(s, rendered)
      /\ s.ui.open = ui.open /\ s.ui.number = ui.number
      /\ \/ s = State
         \/ /\ ui.job = NoCookie /\ m.cookie \in queue /\ s.ui.job = m.cookie
            /\ \A d \in Cookie : d # m.cookie => s.jobs[d] = jobs[d]
      /\ \A d \in Cookie : Complete(jobs[d], rendered[d]) => Complete(s.jobs[d], rendered[d])
  <2> DEFINE d == m.cookie
  <2>1. d \in queue => /\ d \in Cookie /\ State.jobs[d].thread = "none"
                       /\ State.ui.number > 0 /\ rendered[d] \in {0, State.ui.number}
    BY <1>1, <1>3, <1>7, <1>8
  <2>2. JobsInv(State, rendered)
    BY DEF PrintInv
  <2> HIDE DEF d
  <2>3. LET u == Opportunistically(State, d) IN
        /\ u \in Browser /\ JobsInv(u, rendered)
        /\ u.ui.open = State.ui.open /\ u.ui.number = State.ui.number
        /\ \/ u = State
           \/ /\ State.ui.job = NoCookie /\ d \in queue /\ u.ui.job = d
              /\ \A e \in Cookie : e # d => u.jobs[e] = State.jobs[e]
        /\ \A e \in Cookie : Complete(State.jobs[e], rendered[e]) => Complete(u.jobs[e], rendered[e])
    BY <1>1, <2>1, <2>2, OpportunisticallyKeeps
  <2>. QED
    BY <1>1, <2>3 DEF d
<1> HIDE DEF s
<1>10. Keeps(s, t, rendered)
  <2>1. Keeps(s, s, rendered)
    BY <1>9 DEF Keeps
  <2>2. /\ r \in Browser /\ r.jobs = s.jobs /\ r.ui.job = s.ui.job
        /\ r.ui.succeeded = s.ui.succeeded /\ r.ui.current = s.ui.current
        /\ r.ui.sent = s.ui.sent /\ r.ui.open = s.ui.open /\ r.ui.number = s.ui.number
    BY <1>9 DEF Browser, Ui, Flag
  <2> HIDE DEF r
  <2>3. JobsInv(r, rendered)
    BY <1>1, <1>9, <2>2, UiKeeps
  <2>4. Keeps(s, r, rendered)
    BY <2>2, <2>3 DEF Keeps
  <2>5. Keeps(s, Terminate(r, TRUE), rendered)
    <3>1. Keeps(r, Terminate(r, TRUE), rendered)
      BY <1>1, <2>2, <2>3, TerminateEnds, EndsKeeps
    <3>. QED
      BY <2>4, <3>1, KeepsTrans
  <2>6. ASSUME c = m.cookie
        PROVE  Keeps(s, [r EXCEPT !.jobs[c].got = @ \cup {m.page}], rendered)
    <3>1. c \in Cookie /\ m.page \in 1..rendered[c]
      BY <1>3, <2>6
    <3>2. Keeps(r, [r EXCEPT !.jobs[c].got = @ \cup {m.page}], rendered)
      <4> HIDE DEF c
      <4>. QED
        BY <1>1, <2>2, <2>3, <3>1, PageKeeps
    <3>. QED
      BY <2>4, <3>2, KeepsTrans
  <2>. QED
    BY <2>1, <2>5, <2>6
<1> HIDE DEF t
<1>11. t \in Browser /\ State' = t
  BY <1>4, <1>10, BecomeIs DEF Keeps
<1>12. /\ JobsInv(t, rendered) /\ t.ui.open = ui.open /\ t.ui.number = ui.number
       /\ \A d \in Cookie : Complete(jobs[d], rendered[d]) => Complete(t.jobs[d], rendered[d])
  BY <1>9, <1>10 DEF Keeps
<1>13. \A d \in Cookie : t.jobs[d].thread # "none" =>
         jobs[d].thread # "none" \/ (d = m.cookie /\ d \notin queue')
  BY <1>1, <1>6, <1>9, <1>10 DEF Keeps
<1>. QED
  BY <1>5, <1>6, <1>11, <1>12, <1>13, MessageStep DEF m

LEMMA OnGoneKeeps ==
  ASSUME PrintInv, toBrowser # <<>>, toBrowser' = Tail(toBrowser), ui.open,
         Head(toBrowser).type = "Gone", OnGone, queue' \subseteq queue,
         UNCHANGED <<renderer, frames, asks, replies, lastCookie, tasks, rendered, faults>>
  PROVE  PrintInv'
<1> DEFINE s == [State EXCEPT !.ui.live = FALSE, !.ui.sent = <<>>]
           cancel == ~IsComplete(jobs[ui.job])
           t == IF ui.job # NoCookie /\ jobs[ui.job].document THEN Terminate(s, cancel) ELSE s
<1>1. /\ State \in Browser /\ rendered \in [Cookie -> Nat] /\ State.ui = ui /\ State.jobs = jobs
  BY Types DEF PrintInv
<1>2. Become(t)
  BY DEF OnGone
<1>3. /\ s \in Browser /\ s.jobs = jobs /\ s.ui.job = ui.job /\ s.ui.succeeded = ui.succeeded
      /\ s.ui.current = ui.current /\ s.ui.sent = <<>> /\ s.ui.open = ui.open
      /\ s.ui.number = ui.number
  <2>1. <<>> \in Seq(Sent)
    OBVIOUS
  <2>. QED
    BY <1>1, <2>1 DEF Browser, Ui, Flag
<1> HIDE DEF s, cancel
<1>4. JobsInv(s, rendered)
  BY <1>1, <1>3, UiKeeps DEF PrintInv
<1>5. Keeps(s, t, rendered)
  <2>1. Keeps(s, s, rendered)
    BY <1>3, <1>4 DEF Keeps
  <2>2. Keeps(s, Terminate(s, cancel), rendered)
    BY <1>1, <1>3, <1>4, TerminateEnds, EndsKeeps
  <2>. QED
    BY <2>1, <2>2
<1> HIDE DEF t
<1>6. t \in Browser /\ State' = t
  BY <1>2, <1>5, BecomeIs DEF Keeps
<1>7. /\ JobsInv(t, rendered) /\ t.ui.open = ui.open
      /\ \A d \in Cookie : /\ Complete(jobs[d], rendered[d]) => Complete(t.jobs[d], rendered[d])
                           /\ t.jobs[d].thread # "none" => jobs[d].thread # "none"
  BY <1>3, <1>5 DEF Keeps
<1>. QED
  BY <1>6, <1>7, MessageStep

LEMMA OnMessageReceivedKeeps ==
  ASSUME PrintInv, OnMessageReceived
  PROVE  PrintInv'
<1> DEFINE m == Head(toBrowser)
<1>1. /\ toBrowser # <<>> /\ toBrowser' = Tail(toBrowser)
      /\ queue' = IF ui.open /\ TakesQuery(m.cookie) /\ m.type # "PrintingFailed"
                  THEN queue \ {m.cookie} ELSE queue
      /\ UNCHANGED <<renderer, frames, asks, replies, lastCookie, tasks, rendered, faults>>
      /\ \/ ~ui.open /\ UNCHANGED <<ui, jobs>>
         \/ ui.open /\ m.type = "DidGetPrintedPagesCount" /\ OnDidGetPrintedPagesCount(m)
         \/ ui.open /\ m.type = "DidPrintPage" /\ OnDidPrintPage(m)
         \/ ui.open /\ m.type = "PrintingFailed" /\ UNCHANGED <<ui, jobs>>
         \/ ui.open /\ m.type = "Gone" /\ OnGone
  BY DEF OnMessageReceived
<1>2. ui.open
  BY <1>1 DEF PrintInv, MessageInv
<1>3. CASE m.type = "DidGetPrintedPagesCount" /\ OnDidGetPrintedPagesCount(m)
  BY <1>1, <1>2, <1>3, OnDidGetPrintedPagesCountKeeps
<1>4. CASE m.type = "DidPrintPage" /\ OnDidPrintPage(m)
  BY <1>1, <1>2, <1>4, OnDidPrintPageKeeps
<1>5. CASE m.type = "PrintingFailed" /\ UNCHANGED <<ui, jobs>>
  <2>1. State' = State /\ State \in Browser /\ State.ui = ui /\ State.jobs = jobs
    BY <1>5, Types DEF PrintInv, State
  <2>2. JobsInv(State, rendered)
    BY DEF PrintInv
  <2>3. queue' \subseteq queue
    BY <1>1
  <2>4. \A c \in Cookie : Complete(jobs[c], rendered[c]) => Complete(State.jobs[c], rendered[c])
    BY <2>1
  <2>5. \A c \in Cookie : State.jobs[c].thread # "none" => jobs[c].thread # "none"
    BY <2>1
  <2>. QED
    BY <1>1, <1>5, <2>1, <2>2, <2>3, <2>4, <2>5, MessageStep
<1>6. CASE m.type = "Gone" /\ OnGone
  BY <1>1, <1>2, <1>6, OnGoneKeeps
<1>. QED
  BY <1>1, <1>2, <1>3, <1>4, <1>5, <1>6

(* A task, or the end of a navigation.                                     *)
LEMMA UiStep ==
  ASSUME PrintInv, NEW t \in Browser, State' = t, Keeps(State, t, rendered),
         UNCHANGED <<renderer, frames, settings, toBrowser, rendered>>, faults' \in Nat,
         tasks' \in Seq(Task), Announced(tasks', State, rendered)
  PROVE  PrintInv'
<1>1. /\ State \in Browser /\ rendered \in [Cookie -> Nat]
      /\ State.ui = ui /\ State.jobs = jobs /\ t.ui = ui' /\ t.jobs = jobs'
  BY Types DEF PrintInv, State
<1>2. TypeOK'
  BY DEF PrintInv, TypeOK, settings
<1>3. PrintsInv'
  BY DEF PrintInv, PrintsInv, settings, Waiting, Top, Blocked
<1>4. CookieInv'
  <2>1. \A c \in Cookie : jobs'[c].thread # "none" => jobs[c].thread # "none"
    BY <1>1 DEF Keeps
  <2>. QED
    BY <2>1, CookieKept DEF PrintInv, settings
<1>5. MessageInv'
  BY <1>1 DEF PrintInv, MessageInv, Keeps
<1>6. Announced(tasks', t, rendered)
  <2> DEFINE q == tasks'
  <2>1. \A c \in Cookie : Complete(State.jobs[c], rendered[c]) => Complete(t.jobs[c], rendered[c])
    BY DEF Keeps
  <2>2. q \in Seq(Task) /\ Announced(q, State, rendered)
    OBVIOUS
  <2> HIDE DEF q
  <2>3. Announced(q, t, rendered)
    BY <1>1, <2>1, <2>2, AnnouncedKept
  <2>. QED
    BY <2>3 DEF q
<1>. QED
  BY <1>2, <1>3, <1>4, <1>5, <1>6 DEF PrintInv, Keeps

LEMMA RunTaskKeeps ==
  ASSUME PrintInv, RunTask
  PROVE  PrintInv'
<1> DEFINE c == Head(tasks).job
           r == NotifyFailed(State, c)
           rest == Tail(tasks)
           done == [type |-> "Done", job |-> c]
<1>1. /\ tasks # <<>> /\ UNCHANGED <<renderer, frames, settings, toBrowser, rendered, faults>>
      /\ \/ /\ Head(tasks).type = "Failed" /\ tasks' = rest
            /\ Become(IF r.ui.job = c THEN Terminate(r, TRUE) ELSE r)
         \/ /\ Head(tasks).type = "DocDone" /\ UNCHANGED <<ui, jobs>>
            /\ tasks' = rest \o (IF jobs[c].registered THEN <<done>> ELSE <<>>)
         \/ /\ Head(tasks).type = "Done" /\ tasks' = rest
            /\ Become(DocumentDone(State, c))
  BY DEF RunTask
<1>2. /\ tasks \in Seq(Task) /\ State \in Browser /\ rendered \in [Cookie -> Nat]
      /\ faults \in Nat /\ JobsInv(State, rendered) /\ Announced(tasks, State, rendered)
  BY Types DEF PrintInv
<1>3. /\ rest \in Seq(Task) /\ Head(tasks) \in Task
      /\ Announced(rest, State, rendered) /\ Announced(<<Head(tasks)>>, State, rendered)
  BY <1>1, <1>2, AnnouncedTail
<1>4. c \in Cookie
  BY <1>3 DEF Task
<1>5. Head(tasks).type \in {"DocDone", "Done"} => Complete(State.jobs[c], rendered[c])
  <2> DEFINE m == Head(tasks)
  <2>1. Announced(<<m>>, State, rendered)
    BY <1>3
  <2> HIDE DEF m
  <2>2. m.type \in {"DocDone", "Done"} => Complete(State.jobs[m.job], rendered[m.job])
    BY <2>1 DEF Announced
  <2>. QED
    BY <2>2 DEF m
<1> HIDE DEF rest, c
<1>6. CASE /\ Head(tasks).type = "Failed" /\ tasks' = rest
           /\ Become(IF r.ui.job = c THEN Terminate(r, TRUE) ELSE r)
  <2> DEFINE t == IF r.ui.job = c THEN Terminate(r, TRUE) ELSE r
  <2>1. Keeps(State, r, rendered)
    BY <1>2, <1>4, NotifyFailedEnds, EndsKeeps
  <2> HIDE DEF r
  <2>2. Keeps(State, Terminate(r, TRUE), rendered)
    <3>1. r \in Browser /\ JobsInv(r, rendered)
      BY <2>1 DEF Keeps
    <3>2. Keeps(r, Terminate(r, TRUE), rendered)
      BY <1>2, <3>1, TerminateEnds, EndsKeeps
    <3>. QED
      BY <2>1, <3>2, KeepsTrans
  <2>3. Keeps(State, t, rendered)
    BY <2>1, <2>2
  <2>4. Become(t)
    BY <1>6 DEF r
  <2> HIDE DEF t
  <2>5. t \in Browser /\ State' = t
    BY <2>3, <2>4, BecomeIs DEF Keeps
  <2>. QED
    BY <1>1, <1>2, <1>3, <1>6, <2>3, <2>5, UiStep
<1>7. CASE /\ Head(tasks).type = "DocDone" /\ UNCHANGED <<ui, jobs>>
           /\ tasks' = rest \o (IF jobs[c].registered THEN <<done>> ELSE <<>>)
  <2>1. State' = State /\ Keeps(State, State, rendered)
    BY <1>2, <1>7 DEF State, Keeps
  <2>2. done \in Task /\ done.job = c
    BY <1>4 DEF Task
  <2> HIDE DEF done
  <2>3. tasks' \in {rest, Append(rest, done)}
    BY <1>3, <1>7, <2>2
  <2>4. Append(rest, done) \in Seq(Task) /\ Announced(Append(rest, done), State, rendered)
    BY <1>3, <1>5, <1>7, <2>2, AnnouncedAppend
  <2>5. tasks' \in Seq(Task) /\ Announced(tasks', State, rendered)
    BY <1>3, <2>3, <2>4
  <2>. QED
    BY <1>1, <1>2, <2>1, <2>5, UiStep
<1>8. CASE /\ Head(tasks).type = "Done" /\ tasks' = rest
           /\ Become(DocumentDone(State, c))
  <2> DEFINE t == DocumentDone(State, c)
  <2>1. Keeps(State, t, rendered)
    BY <1>2, <1>4, <1>5, <1>8, DocumentDoneKeeps
  <2>2. Become(t)
    BY <1>8
  <2> HIDE DEF t
  <2>3. t \in Browser /\ State' = t
    BY <2>1, <2>2, BecomeIs DEF Keeps
  <2>. QED
    BY <1>1, <1>2, <1>3, <1>8, <2>1, <2>3, UiStep
<1>. QED
  BY <1>1, <1>6, <1>7, <1>8 DEF c, rest

LEMMA NavigationStoppedKeeps ==
  ASSUME PrintInv, NavigationStopped
  PROVE  PrintInv'
<1> DEFINE t == Terminate(State, TRUE)
<1>1. /\ Fault /\ Become(t)
      /\ UNCHANGED <<renderer, frames, settings, toBrowser, tasks, rendered>>
  BY DEF NavigationStopped
<1>2. /\ tasks \in Seq(Task) /\ State \in Browser /\ rendered \in [Cookie -> Nat]
      /\ faults \in Nat /\ JobsInv(State, rendered) /\ Announced(tasks, State, rendered)
  BY Types DEF PrintInv
<1>3. Keeps(State, t, rendered)
  BY <1>2, TerminateEnds, EndsKeeps
<1> HIDE DEF t
<1>4. t \in Browser /\ State' = t /\ faults' \in Nat
  BY <1>1, <1>2, <1>3, BecomeIs, FaultType DEF Keeps
<1>. QED
  BY <1>1, <1>2, <1>3, <1>4, UiStep

LEMMA FinishedHelper ==
  ASSUME NEW r \in Helper
  PROVE  /\ Finished(r) \in Helper /\ ~Finished(r).prepared /\ Finished(r).params = NoCookie
         /\ Finished(r).alive = r.alive /\ Finished(r).prints = r.prints
         /\ [Finished(r) EXCEPT !.alive = FALSE] \in Helper
         /\ ~[Finished(r) EXCEPT !.alive = FALSE].alive
         /\ ~[Finished(r) EXCEPT !.alive = FALSE].prepared
         /\ [Finished(r) EXCEPT !.alive = FALSE].params = NoCookie
         /\ [Finished(r) EXCEPT !.alive = FALSE].prints = r.prints
<1> DEFINE f == Finished(r)
<1>1. f = [r EXCEPT !.prepared = FALSE, !.params = NoCookie, !.notify = TRUE]
  BY DEF Finished
<1>2. /\ f \in Helper /\ ~f.prepared /\ f.params = NoCookie /\ f.alive = r.alive
      /\ f.prints = r.prints
  BY <1>1 DEF Helper, Flag
<1> HIDE DEF f
<1>3. /\ [f EXCEPT !.alive = FALSE] \in Helper /\ ~[f EXCEPT !.alive = FALSE].alive
      /\ ~[f EXCEPT !.alive = FALSE].prepared /\ [f EXCEPT !.alive = FALSE].params = NoCookie
      /\ [f EXCEPT !.alive = FALSE].prints = r.prints
  BY <1>2 DEF Helper, Flag
<1>. QED
  BY <1>2, <1>3 DEF f

(* The cookies of the renderer: none that it has is new.                   *)
LEMMA CookieRenderer ==
  ASSUME CookieInv, replies' \subseteq replies, UNCHANGED <<lastCookie, queue>>,
         \A c \in Cookie : jobs'[c].thread # "none" => jobs[c].thread # "none",
         renderer'.params <= lastCookie,
         renderer'.prepared => /\ renderer'.params # NoCookie
                               /\ \A a \in replies' : a.cookie # renderer'.params,
         \A c \in Cookie : c > lastCookie \/ Unused(c)' =>
           /\ c > lastCookie \/ Unused(c)
           /\ rendered'[c] = rendered[c]
           /\ (\A i \in 1..Len(toBrowser) : toBrowser[i].cookie # c) =>
                 \A i \in 1..Len(toBrowser') : toBrowser'[i].cookie # c
  PROVE  CookieInv'
<1>1. ASSUME NEW c \in Cookie, c > lastCookie \/ Unused(c)'
      PROVE  /\ rendered'[c] = 0 /\ jobs'[c].thread = "none"
             /\ \A i \in 1..Len(toBrowser') : toBrowser'[i].cookie # c
  <2>1. /\ c > lastCookie \/ Unused(c)
        /\ rendered'[c] = rendered[c]
        /\ (\A i \in 1..Len(toBrowser) : toBrowser[i].cookie # c) =>
              \A i \in 1..Len(toBrowser') : toBrowser'[i].cookie # c
    BY <1>1
  <2>. QED
    BY <2>1 DEF CookieInv
<1>2. /\ \A a \in replies' : a.cookie <= lastCookie
      /\ \A a, b \in replies' : a.cookie = b.cookie /\ a.cookie # NoCookie => a = b
  BY DEF CookieInv
<1>3. \A c \in Cookie : jobs'[c].thread # "none" => c \notin queue'
  BY DEF CookieInv
<1>. QED
  BY <1>1, <1>2, <1>3 DEF CookieInv

LEMMA PageClosedKeeps ==
  ASSUME PrintInv, PageClosed
  PROVE  PrintInv'
<1> DEFINE s == [State EXCEPT !.ui.open = FALSE, !.ui.live = FALSE, !.ui.sent = <<>>]
           incomplete == ui.job # NoCookie /\ jobs[ui.job].document /\ ~IsComplete(jobs[ui.job])
           t == IF incomplete THEN Terminate(s, TRUE) ELSE Release(s)
<1>1. /\ Fault /\ Become(t)
      /\ renderer' = [Finished(renderer) EXCEPT !.alive = FALSE]
      /\ frames' = <<>> /\ replies' = {} /\ toBrowser' = <<>>
      /\ UNCHANGED <<asks, queue, lastCookie, tasks, rendered>>
  BY DEF PageClosed
<1>2. /\ tasks \in Seq(Task) /\ State \in Browser /\ rendered \in [Cookie -> Nat]
      /\ faults \in Nat /\ JobsInv(State, rendered) /\ Announced(tasks, State, rendered)
      /\ State.ui = ui /\ State.jobs = jobs /\ renderer \in Helper /\ lastCookie \in Nat
  BY Types DEF PrintInv
<1> HIDE DEF incomplete
<1>3. /\ s \in Browser /\ s.jobs = jobs /\ s.ui.job = ui.job /\ s.ui.succeeded = ui.succeeded
      /\ s.ui.current = ui.current /\ s.ui.sent = <<>> /\ ~s.ui.open
  <2>1. <<>> \in Seq(Sent)
    OBVIOUS
  <2>. QED
    BY <1>2, <2>1 DEF Browser, Ui, Flag
<1> HIDE DEF s
<1>4. JobsInv(s, rendered)
  BY <1>2, <1>3, UiKeeps
<1>5. Keeps(s, t, rendered)
  BY <1>2, <1>3, <1>4, TerminateEnds, ReleaseEnds, EndsKeeps
<1> HIDE DEF t
<1>6. t \in Browser /\ State' = t /\ faults' \in Nat /\ ui' = t.ui /\ jobs' = t.jobs
  BY <1>1, <1>2, <1>5, BecomeIs, FaultType DEF Keeps, Become
<1>7. /\ renderer' \in Helper /\ ~renderer'.alive /\ ~renderer'.prepared
      /\ renderer'.params = NoCookie /\ renderer'.prints = renderer.prints
  BY <1>1, <1>2, FinishedHelper
<1>8. TypeOK'
  <2>1. frames' \in Seq(Frame) /\ toBrowser' \in Seq(Messages)
    BY <1>1
  <2>. QED
    BY <1>1, <1>6, <1>7, <2>1 DEF PrintInv, TypeOK
<1>9. PrintsInv'
  <2>1. Blocked' = 0 /\ Blocked \in {0, 1} /\ ~Waiting("default")'
    BY <1>1 DEF Blocked, Waiting
  <2>2. lastCookie + Cardinality(asks) + Blocked <= 2 * renderer.prints
    BY DEF PrintInv, PrintsInv
  <2>3. Cardinality(asks) \in Nat
    BY Types, FS_CardinalityType DEF PrintInv
  <2>4. lastCookie + Cardinality(asks) + 0 <= 2 * renderer.prints
    <3>1. renderer.prints \in Nat
      BY <1>2, PrintingAssumption DEF Helper
    <3>. QED
      BY <1>2, <2>1, <2>2, <2>3, <3>1
  <2>5. Len(frames') = 0
    BY <1>1
  <2>. QED
    BY <1>1, <1>7, <2>1, <2>4, <2>5 DEF PrintsInv
<1>10. CookieInv'
  <2>1. \A c \in Cookie : jobs'[c].thread # "none" => jobs[c].thread # "none"
    BY <1>3, <1>5, <1>6 DEF Keeps
  <2>2. \A c \in Cookie : ~Unused(c)'
    BY <1>1, <1>7 DEF Unused
  <2>3. renderer'.params <= lastCookie
    BY <1>2, <1>7 DEF NoCookie
  <2>4. Len(toBrowser') = 0
    BY <1>1
  <2>. QED
    BY <1>1, <1>7, <2>1, <2>2, <2>3, <2>4, CookieRenderer DEF PrintInv
<1>11. MessageInv'
  <2>1. Len(toBrowser') = 0
    BY <1>1
  <2>. QED
    BY <1>1, <1>7, <2>1 DEF MessageInv, InOrder
<1>12. Announced(tasks, t, rendered)
  BY <1>2, <1>3, <1>5, <1>6, AnnouncedKept DEF Keeps
<1>. QED
  BY <1>1, <1>5, <1>6, <1>8, <1>9, <1>10, <1>11, <1>12 DEF PrintInv, Keeps

-----------------------------------------------------------------------------
(* The renderer.  What it may send with the settings of cookie c.          *)
Sends(c) ==
  /\ toBrowser' \in Seq(Messages) /\ rendered' \in [Cookie -> Nat] /\ faults' \in Nat
  /\ InOrder(toBrowser', ui.number, rendered')
  /\ JobsInv(State, rendered') /\ Announced(tasks, State, rendered')
  /\ \A d \in Cookie : d # c =>
       /\ rendered'[d] = rendered[d]
       /\ (\A i \in 1..Len(toBrowser) : toBrowser[i].cookie # d) =>
             \A i \in 1..Len(toBrowser') : toBrowser'[i].cookie # d

(* The helper after it printed or failed.                                  *)
Leaves(r) ==
  /\ renderer' \in Helper /\ ~renderer'.prepared /\ renderer'.params \in {r.params, NoCookie}
  /\ renderer'.prints = r.prints

LEMMA AppendCookie ==
  ASSUME NEW q \in Seq(Messages), NEW m \in Messages, NEW d, m.cookie # d,
         \A i \in 1..Len(q) : q[i].cookie # d
  PROVE  \A i \in 1..Len(Append(q, m)) : Append(q, m)[i].cookie # d
<1> DEFINE u == Append(q, m)
<1>1. /\ Len(q) \in Nat /\ Len(u) = Len(q) + 1 /\ \A i \in 1..Len(q) : u[i] = q[i]
      /\ u[Len(q) + 1] = m
  BY Appended
<1> HIDE DEF u
<1>2. ASSUME NEW i \in 1..Len(u) PROVE u[i].cookie # d
  <2>1. i \in 1..Len(q) \/ i = Len(q) + 1
    BY <1>1
  <2>. QED
    BY <1>1, <2>1
<1>. QED
  BY <1>2 DEF u

LEMMA PagesCookie ==
  ASSUME NEW q \in Seq(Messages), NEW c \in Cookie, NEW n \in Nat, NEW d, c # d,
         \A i \in 1..Len(q) : q[i].cookie # d
  PROVE  \A i \in 1..Len(q \o PageMessages(c, n)) : (q \o PageMessages(c, n))[i].cookie # d
<1> DEFINE pages == PageMessages(c, n)
           u == q \o pages
<1>1. /\ \A i \in 1..n : pages[i].cookie = c
      /\ pages \in Seq({pages[i] : i \in 1..n}) /\ DOMAIN pages = 1..n
  <2>1. pages \in [1..n -> {pages[i] : i \in 1..n}]
    BY DEF PageMessages
  <2>2. DOMAIN pages = 1..n
    BY DEF PageMessages
  <2>3. \A i \in 1..n : pages[i].cookie = c
    BY DEF PageMessages
  <2>4. pages \in Seq({pages[i] : i \in 1..n})
    <3> HIDE DEF pages
    <3>. QED
      BY <2>1
  <2>. QED
    BY <2>2, <2>3, <2>4
<1> HIDE DEF pages
<1>2. \A i \in 1..Len(pages) : pages[i].cookie = c
  <2>1. DOMAIN pages = 1..Len(pages)
    BY <1>1
  <2>. QED
    BY <1>1, <2>1
<1>3. /\ Len(u) = Len(q) + Len(pages) /\ Len(q) \in Nat /\ Len(pages) \in Nat
      /\ \A i \in 1..Len(q) : u[i] = q[i]
      /\ \A i \in Len(q) + 1..Len(q) + Len(pages) : u[i] = pages[i - Len(q)]
  BY <1>1
<1> HIDE DEF u
<1>4. ASSUME NEW i \in 1..Len(u) PROVE u[i].cookie # d
  <2>1. CASE i \in 1..Len(q)
    BY <1>3, <2>1
  <2>2. CASE i \in Len(q) + 1..Len(q) + Len(pages)
    <3>1. i - Len(q) \in 1..Len(pages)
      BY <1>3, <2>2
    <3>. QED
      BY <1>2, <1>3, <2>2, <3>1
  <2>. QED
    BY <1>3, <2>1, <2>2
<1>. QED
  BY <1>4 DEF u, pages

LEMMA MessageType ==
  ASSUME NEW type \in {"DidGetPrintedPagesCount", "PrintingFailed", "Gone"}, NEW c \in Nat
  PROVE  /\ Message(type, c) \in Messages /\ Message(type, c).type = type
         /\ Message(type, c).cookie = c
         /\ \A n \in Nat : LET m == [Message(type, c) EXCEPT !.page = n] IN
              m \in Messages /\ m.type = type /\ m.cookie = c /\ m.page = n
  BY DEF Message, Messages, Flag, NoPage

(* One message that is not a page nor a count.                             *)
LEMMA SendsOne ==
  ASSUME PrintInv, NEW c \in Cookie \cup {NoCookie}, UNCHANGED rendered, faults' \in Nat,
         NEW type \in {"PrintingFailed", "Gone"},
         toBrowser' \in {toBrowser, Append(toBrowser, Message(type, c))}
  PROVE  Sends(c)
<1> DEFINE m == Message(type, c)
           u == Append(toBrowser, m)
<1>1. /\ toBrowser \in Seq(Messages) /\ rendered \in [Cookie -> Nat]
      /\ InOrder(toBrowser, ui.number, rendered)
      /\ JobsInv(State, rendered) /\ Announced(tasks, State, rendered)
  BY Types DEF PrintInv, MessageInv
<1>2. m \in Messages /\ m.type = type /\ m.cookie = c
  <2>1. c \in Nat
    BY DEF Cookie, NoCookie
  <2>. QED
    BY <2>1, MessageType
<1> HIDE DEF m
<1>3. u \in Seq(Messages) /\ InOrder(u, ui.number, rendered)
  BY <1>1, <1>2, InOrderAppend
<1>4. \A d \in Cookie : d # c /\ (\A i \in 1..Len(toBrowser) : toBrowser[i].cookie # d) =>
        \A i \in 1..Len(u) : u[i].cookie # d
  BY <1>1, <1>2, AppendCookie
<1> HIDE DEF u
<1>5. CASE toBrowser' = toBrowser
  BY <1>1, <1>5 DEF Sends
<1>6. CASE toBrowser' = u
  BY <1>1, <1>3, <1>4, <1>6 DEF Sends
<1>. QED
  BY <1>5, <1>6 DEF u, m

LEMMA FailPrintSends ==
  ASSUME PrintInv, NEW r \in Helper, FailPrint(r), faults' \in Nat
  PROVE  Sends(r.params) /\ Leaves(r)
<1>1. r.params \in Cookie \cup {NoCookie}
  BY DEF Helper
<1>2. /\ renderer' = Finished(r) /\ UNCHANGED rendered
      /\ toBrowser' \in {toBrowser, Append(toBrowser, Message("PrintingFailed", r.params))}
  BY DEF FailPrint
<1>3. Sends(r.params)
  BY <1>1, <1>2, SendsOne
<1>. QED
  BY <1>2, <1>3, FinishedHelper DEF Leaves

(* The pages of a cookie that was not used yet.                            *)
LEMMA PrintPagesSends ==
  ASSUME PrintInv, NEW r \in Helper, PrintPages(r), r.params # NoCookie,
         rendered[r.params] = 0, jobs[r.params].thread = "none",
         \A i \in 1..Len(toBrowser) : toBrowser[i].cookie # r.params
  PROVE  Sends(r.params) /\ Leaves(r)
<1> DEFINE c == r.params
<1>1. c \in Cookie /\ c \in Nat
  BY DEF Helper, Cookie, NoCookie
<1>2. /\ toBrowser \in Seq(Messages) /\ rendered \in [Cookie -> Nat] /\ faults \in Nat
      /\ InOrder(toBrowser, ui.number, rendered)
      /\ JobsInv(State, rendered) /\ Announced(tasks, State, rendered)
      /\ State \in Browser /\ State.jobs = jobs /\ tasks \in Seq(Task)
  BY Types DEF PrintInv, MessageInv
<1>3. CASE Fault /\ FailPrint(r)
  BY <1>2, <1>3, FaultType, FailPrintSends
<1>4. ASSUME NEW n \in 1..MaxPages,
             \/ /\ renderer' = [r EXCEPT !.prepared = FALSE]
                /\ toBrowser' = Append(toBrowser, [Message("DidGetPrintedPagesCount", c) EXCEPT !.page = n])
                                  \o PageMessages(c, n)
                /\ rendered' = [rendered EXCEPT ![c] = n]
                /\ NoFault
             \/ /\ Fault
                /\ renderer' = Finished(r)
                /\ toBrowser' = Append(toBrowser, [Message("DidGetPrintedPagesCount", c) EXCEPT !.page = n])
                                  \o (IF r.notify THEN <<Message("PrintingFailed", c)>> ELSE <<>>)
                /\ UNCHANGED rendered
      PROVE  Sends(c) /\ Leaves(r)
  <2> DEFINE count == [Message("DidGetPrintedPagesCount", c) EXCEPT !.page = n]
             failed == Message("PrintingFailed", c)
             one == Append(toBrowser, count)
             all == one \o PageMessages(c, n)
  <2>1. n \in Nat \ {0}
    BY <1>4, PrintingAssumption
  <2>2. /\ count \in Messages /\ count.type = "DidGetPrintedPagesCount" /\ count.cookie = c
        /\ count.page = n
        /\ failed \in Messages /\ failed.type = "PrintingFailed" /\ failed.cookie = c
    <3> HIDE DEF c
    <3>. QED
      BY <1>1, <2>1, MessageType
  <2>3. \/ /\ renderer' = [r EXCEPT !.prepared = FALSE] /\ toBrowser' = all
           /\ rendered' = [rendered EXCEPT ![c] = n] /\ NoFault
        \/ /\ Fault /\ renderer' = Finished(r) /\ UNCHANGED rendered
           /\ toBrowser' = one \o (IF r.notify THEN <<failed>> ELSE <<>>)
    BY <1>4
  <2>4. /\ rendered[c] = 0 /\ jobs[c].thread = "none"
        /\ \A i \in 1..Len(toBrowser) : toBrowser[i].cookie # c
    OBVIOUS
  <2> HIDE DEF count, failed, c
  <2>5. /\ one \in Seq(Messages) /\ InOrder(one, ui.number, rendered)
        /\ \A d \in Cookie : d # c /\ (\A i \in 1..Len(toBrowser) : toBrowser[i].cookie # d) =>
             \A i \in 1..Len(one) : one[i].cookie # d
    <3>1. count.page >= 1 /\ rendered[count.cookie] \in {0, count.page}
      BY <2>1, <2>2, <2>4
    <3>2. one \in Seq(Messages) /\ InOrder(one, ui.number, rendered)
      BY <1>1, <1>2, <2>2, <3>1, InOrderAppend
    <3>. QED
      BY <1>2, <2>2, <3>2, AppendCookie
  <2>6. CASE /\ renderer' = [r EXCEPT !.prepared = FALSE] /\ toBrowser' = all
             /\ rendered' = [rendered EXCEPT ![c] = n] /\ NoFault
    <3> DEFINE made == [rendered EXCEPT ![c] = n]
    <3>1. /\ made \in [Cookie -> Nat] /\ JobsInv(State, made) /\ Announced(tasks, State, made)
      <4>1. n \in Nat
        BY <2>1
      <4>. QED
        BY <1>1, <1>2, <2>4, <4>1, MadeKeeps
    <3>2. all \in Seq(Messages) /\ InOrder(all, ui.number, made)
      BY <1>1, <1>2, <2>1, <2>2, <2>4, InOrderPages
    <3>3. \A d \in Cookie : d # c /\ (\A i \in 1..Len(toBrowser) : toBrowser[i].cookie # d) =>
             \A i \in 1..Len(all) : all[i].cookie # d
      <4> HIDE DEF one
      <4>1. n \in Nat
        BY <2>1
      <4>. QED
        BY <1>1, <2>5, <4>1, PagesCookie
    <3>4. \A d \in Cookie : d # c => made[d] = rendered[d]
      BY <1>2
    <3>5. Leaves(r)
      <4>1. /\ [r EXCEPT !.prepared = FALSE] \in Helper
            /\ ~[r EXCEPT !.prepared = FALSE].prepared
            /\ [r EXCEPT !.prepared = FALSE].params = r.params
            /\ [r EXCEPT !.prepared = FALSE].prints = r.prints
        BY DEF Helper, Flag
      <4>. QED
        BY <2>6, <4>1 DEF Leaves
    <3>6. faults' \in Nat
      BY <1>2, <2>6, FaultType
    <3> HIDE DEF made, all
    <3>7. toBrowser' = all /\ rendered' = made
      BY <2>6 DEF made
    <3>. QED
      BY <3>1, <3>2, <3>3, <3>4, <3>5, <3>6, <3>7 DEF Sends
  <2>7. CASE /\ Fault /\ renderer' = Finished(r) /\ UNCHANGED rendered
             /\ toBrowser' = one \o (IF r.notify THEN <<failed>> ELSE <<>>)
    <3> DEFINE two == Append(one, failed)
    <3> HIDE DEF one
    <3>1. /\ two \in Seq(Messages) /\ InOrder(two, ui.number, rendered)
          /\ \A d \in Cookie : d # c /\ (\A i \in 1..Len(toBrowser) : toBrowser[i].cookie # d) =>
               \A i \in 1..Len(two) : two[i].cookie # d
      BY <2>2, <2>5, InOrderAppend, AppendCookie
    <3>2. toBrowser' \in {one, two}
      BY <2>2, <2>5, <2>7
    <3>3. Leaves(r)
      BY <2>7, FinishedHelper DEF Leaves
    <3>4. faults' \in Nat
      BY <1>2, <2>7, FaultType
    <3> HIDE DEF two
    <3>5. /\ toBrowser' \in Seq(Messages) /\ InOrder(toBrowser', ui.number, rendered)
          /\ \A d \in Cookie : d # c /\ (\A i \in 1..Len(toBrowser) : toBrowser[i].cookie # d) =>
               \A i \in 1..Len(toBrowser') : toBrowser'[i].cookie # d
      BY <2>5, <3>1, <3>2
    <3>. QED
      BY <1>2, <2>7, <3>3, <3>4, <3>5 DEF Sends
  <2>. QED
    BY <2>3, <2>6, <2>7
<1>5. \/ Fault /\ FailPrint(r)
      \/ \E n \in 1..MaxPages :
           \/ /\ renderer' = [r EXCEPT !.prepared = FALSE]
              /\ toBrowser' = Append(toBrowser, [Message("DidGetPrintedPagesCount", c) EXCEPT !.page = n])
                                \o PageMessages(c, n)
              /\ rendered' = [rendered EXCEPT ![c] = n]
              /\ NoFault
           \/ /\ Fault
              /\ renderer' = Finished(r)
              /\ toBrowser' = Append(toBrowser, [Message("DidGetPrintedPagesCount", c) EXCEPT !.page = n])
                                \o (IF r.notify THEN <<Message("PrintingFailed", c)>> ELSE <<>>)
              /\ UNCHANGED rendered
  BY DEF PrintPages
<1>. QED
  BY <1>3, <1>4, <1>5

(* The other steps of the renderer while it is alive.                      *)
LEMMA RendererStep ==
  ASSUME PrintInv, renderer.alive, NEW c,
         renderer' \in Helper, frames' \in Seq(Frame),
         asks' \in SUBSET Asked, IsFiniteSet(asks'), replies' \subseteq replies,
         PrintsInv', CookieInv', Sends(c),
         UNCHANGED <<queue, lastCookie, tasks, ui, jobs>>
  PROVE  PrintInv'
<1>1. State' = State
  BY DEF State
<1>2. TypeOK'
  BY <1>1 DEF PrintInv, TypeOK, Sends
<1>3. MessageInv'
  BY DEF PrintInv, MessageInv, Sends
<1>. QED
  BY <1>1, <1>2, <1>3 DEF PrintInv, Sends

(* Frames that return or that ask again.                                   *)
LEMMA FramesFacts ==
  ASSUME PrintInv, frames # <<>>
  PROVE  /\ Return \in Seq(Frame) /\ Top \in Frame
         /\ \A i \in 1..Len(Return) : Return[i].kind = "user"
         /\ LET again == [frames EXCEPT ![Len(frames)].kind = "user"] IN
            again \in Seq(Frame) /\ \A i \in 1..Len(again) : again[i].kind = "user"
<1>1. frames \in Seq(Frame) /\ Len(frames) \in Nat \ {0}
  BY Types DEF PrintInv
<1>2. \A i \in 1..Len(frames) - 1 : frames[i].kind = "user"
  BY DEF PrintInv, PrintsInv
<1>3. /\ Return \in Seq(Frame) /\ Len(Return) = Len(frames) - 1
      /\ \A i \in 1..Len(frames) - 1 : Return[i] = frames[i]
  <2> DEFINE n == Len(frames) - 1
             back == SubSeq(frames, 1, n)
  <2>1. n \in Nat /\ \A i \in 1..n : frames[i] \in Frame
    BY <1>1
  <2> HIDE DEF n
  <2>2. /\ back \in Seq(Frame) /\ Len(back) = (IF 1 <= n THEN n - 1 + 1 ELSE 0)
        /\ \A i \in 1..n - 1 + 1 : back[i] = frames[1 + i - 1]
    BY <2>1, SubSeqProperties
  <2> HIDE DEF back
  <2>3. Len(back) = n /\ \A i \in 1..n : back[i] = frames[i]
    BY <2>1, <2>2
  <2>. QED
    BY <2>2, <2>3 DEF back, n, Return
<1>4. Top \in Frame
  BY <1>1 DEF Top
<1>5. LET again == [frames EXCEPT ![Len(frames)].kind = "user"] IN
        again \in Seq(Frame) /\ \A i \in 1..Len(again) : again[i].kind = "user"
  <2> DEFINE last == [frames[Len(frames)] EXCEPT !.kind = "user"]
             again == [frames EXCEPT ![Len(frames)] = last]
  <2>1. last \in Frame /\ last.kind = "user"
    BY <1>4 DEF Top, Frame, Kinds
  <2> HIDE DEF last
  <2>2. /\ again \in Seq(Frame) /\ Len(again) = Len(frames)
        /\ again[Len(frames)] = last
        /\ \A i \in 1..Len(frames) - 1 : again[i] = frames[i]
    BY <1>1, <2>1
  <2>3. \A i \in 1..Len(again) : again[i].kind = "user"
    <3> HIDE DEF again
    <3>1. ASSUME NEW i \in 1..Len(again) PROVE again[i].kind = "user"
      <4>1. i = Len(frames) \/ i \in 1..Len(frames) - 1
        BY <1>1, <2>2
      <4>. QED
        BY <1>2, <2>1, <2>2, <4>1
    <3>. QED
      BY <3>1
  <2>. QED
    BY <2>2, <2>3 DEF last
<1>. QED
  BY <1>1, <1>2, <1>3, <1>4, <1>5

(* The count of cookies, when a call returns or asks again.                *)
LEMMA PrintsKept ==
  ASSUME PrintInv, frames' \in Seq(Frame),
         \A i \in 1..Len(frames') : frames'[i].kind = "user",
         renderer'.prints = renderer.prints, UNCHANGED lastCookie,
         \/ UNCHANGED asks
         \/ Waiting("default") /\ \E a : asks' = asks \cup {a}
  PROVE  PrintsInv' /\ (asks' \in SUBSET Asked => IsFiniteSet(asks'))
<1>1. /\ asks \in SUBSET Asked /\ IsFiniteSet(asks) /\ lastCookie \in Nat
      /\ renderer \in Helper
  BY Types DEF PrintInv
<1>2. renderer.prints \in Nat
  BY <1>1, PrintingAssumption DEF Helper
<1>3. ~Waiting("default")' /\ Blocked' = 0
  <2>1. frames' # <<>> => Len(frames') \in 1..Len(frames')
    OBVIOUS
  <2>2. ~Waiting("default")'
    BY <2>1 DEF Waiting, Top
  <2>. QED
    BY <2>2 DEF Blocked
<1>4. lastCookie + Cardinality(asks) + Blocked <= 2 * renderer.prints
  BY DEF PrintInv, PrintsInv
<1>5. Cardinality(asks) \in Nat
  BY <1>1, FS_CardinalityType
<1>6. IsFiniteSet(asks') /\ lastCookie + Cardinality(asks') + 0 <= 2 * renderer.prints
  <2>1. CASE UNCHANGED asks
    BY <1>1, <1>2, <1>4, <1>5, <2>1 DEF Blocked
  <2>2. ASSUME Waiting("default"), NEW a, asks' = asks \cup {a}
        PROVE  IsFiniteSet(asks') /\ lastCookie + Cardinality(asks') + 0 <= 2 * renderer.prints
    <3>1. Blocked = 1
      BY <2>2 DEF Blocked
    <3>2. /\ IsFiniteSet(asks \cup {a})
          /\ Cardinality(asks \cup {a}) \in {Cardinality(asks), Cardinality(asks) + 1}
      BY <1>1, FS_AddElement
    <3> DEFINE more == Cardinality(asks \cup {a})
    <3>3. more <= Cardinality(asks) + 1 /\ more \in Nat
      BY <1>5, <3>2
    <3> HIDE DEF more
    <3>4. lastCookie + more <= 2 * renderer.prints
      BY <1>1, <1>2, <1>4, <1>5, <3>1, <3>3
    <3>. QED
      BY <1>1, <2>2, <3>2, <3>3, <3>4 DEF more
  <2>. QED
    BY <2>1, <2>2
<1>7. \A i \in 1..Len(frames') - 1 : frames'[i].kind = "user"
  BY Len(frames') \in Nat
<1>. QED
  BY <1>3, <1>6, <1>7 DEF PrintsInv

(* A reply that the renderer takes.                                        *)
LEMMA ReplyFacts ==
  ASSUME PrintInv, NEW a \in replies
  PROVE  /\ a \in Asked /\ a.cookie \in Nat /\ a.cookie <= lastCookie
         /\ a.cookie # NoCookie =>
              /\ a.cookie \in Cookie /\ Unused(a.cookie)
              /\ rendered[a.cookie] = 0 /\ jobs[a.cookie].thread = "none"
              /\ \A i \in 1..Len(toBrowser) : toBrowser[i].cookie # a.cookie
              /\ \A b \in replies \ {a} : b.cookie # a.cookie
<1>1. /\ replies \in SUBSET Asked /\ lastCookie \in Nat /\ renderer \in Helper
      /\ asks \in SUBSET Asked /\ IsFiniteSet(asks)
  BY Types DEF PrintInv
<1>2. a \in Asked /\ a.cookie \in Nat /\ a.cookie <= lastCookie
  BY <1>1 DEF PrintInv, CookieInv, Asked
<1>3. lastCookie <= 2 * MaxPrints /\ MaxPrints \in Nat
  <2>1. lastCookie + Cardinality(asks) + Blocked <= 2 * renderer.prints
    BY DEF PrintInv, PrintsInv
  <2>2. Cardinality(asks) \in Nat /\ Blocked \in Nat
    BY <1>1, FS_CardinalityType DEF Blocked
  <2>3. MaxPrints \in Nat /\ renderer.prints \in 0..MaxPrints
    BY <1>1, PrintingAssumption DEF Helper
  <2>. QED
    BY <1>1, <2>1, <2>2, <2>3
<1>4. a.cookie # NoCookie => a.cookie \in Cookie
  BY <1>1, <1>2, <1>3 DEF Cookie, NoCookie
<1>5. Unused(a.cookie)
  BY DEF Unused
<1>. QED
  BY <1>2, <1>4, <1>5 DEF PrintInv, CookieInv

(* After a print with the cookie of a reply, or with the cookie that the   *)
(* helper had prepared a frame for.                                        *)
LEMMA PrintedCookie ==
  ASSUME PrintInv, NEW r \in Helper, Sends(r.params), Leaves(r), r.params <= lastCookie,
         replies' \subseteq replies,
         r.params # NoCookie => \A b \in replies' : b.cookie # r.params,
         UNCHANGED <<queue, lastCookie, jobs>>
  PROVE  CookieInv'
<1>1. lastCookie \in Nat
  BY Types DEF PrintInv
<1>2. renderer'.params <= lastCookie
  BY <1>1 DEF Leaves, NoCookie
<1>3. ASSUME NEW d \in Cookie, d > lastCookie \/ Unused(d)'
      PROVE  d # r.params /\ (d > lastCookie \/ Unused(d))
  <2>1. CASE d > lastCookie
    <3>1. r.params \in Nat /\ d \in Nat
      BY DEF Helper, Cookie, NoCookie
    <3>. QED
      BY <1>1, <2>1, <3>1
  <2>2. CASE Unused(d)'
    <3>1. d # NoCookie
      BY DEF Cookie, NoCookie
    <3>. QED
      BY <2>2, <3>1 DEF Unused, Leaves
  <2>. QED
    BY <1>3, <2>1, <2>2
<1>5. ASSUME NEW d \in Cookie, d > lastCookie \/ Unused(d)'
      PROVE  /\ rendered'[d] = rendered[d]
             /\ (\A i \in 1..Len(toBrowser) : toBrowser[i].cookie # d) =>
                   \A i \in 1..Len(toBrowser') : toBrowser'[i].cookie # d
  BY <1>3, <1>5 DEF Sends
<1>. QED
  BY <1>2, <1>3, <1>5, CookieRenderer DEF PrintInv, Leaves

(* A helper that handles messages is in no call that waits for the default *)
(* settings.                                                               *)
LEMMA HandlesFacts ==
  ASSUME PrintInv, Handles
  PROVE  /\ renderer.alive /\ ~Waiting("default") /\ Blocked = 0
         /\ frames \in Seq(Frame) /\ \A i \in 1..Len(frames) : frames[i].kind = "user"
<1>1. frames \in Seq(Frame) /\ Len(frames) \in Nat
  BY Types DEF PrintInv
<1>2. \A i \in 1..Len(frames) - 1 : frames[i].kind = "user"
  BY DEF PrintInv, PrintsInv
<1>3. frames = <<>> \/ Top.kind = "user"
  BY DEF Handles, Waiting
<1>4. ~Waiting("default")
  BY <1>3 DEF Waiting
<1>5. ASSUME NEW i \in 1..Len(frames) PROVE frames[i].kind = "user"
  <2>1. i \in 1..Len(frames) - 1 \/ (i = Len(frames) /\ frames # <<>>)
    BY <1>1
  <2>. QED
    BY <1>2, <1>3, <2>1 DEF Top
<1>. QED
  BY <1>1, <1>4, <1>5 DEF Handles, Blocked

(* A step that sends nothing.                                              *)
LEMMA SendsNothing ==
  ASSUME PrintInv, UNCHANGED <<toBrowser, rendered>>, faults' \in Nat,
         NEW c \in Cookie \cup {NoCookie}
  PROVE  Sends(c)
<1>1. toBrowser' \in {toBrowser, Append(toBrowser, Message("Gone", c))}
  OBVIOUS
<1>. QED
  BY <1>1, SendsOne

(* The helper gives its cookie up, or keeps that of its frame.             *)
LEMMA NoNewCookie ==
  ASSUME PrintInv, UNCHANGED <<toBrowser, rendered, lastCookie, queue, jobs>>,
         replies' \subseteq replies,
         renderer'.params \in {renderer.params, NoCookie},
         renderer'.prepared => renderer.prepared /\ renderer'.params = renderer.params
  PROVE  CookieInv'
<1>1. lastCookie \in Nat /\ renderer.params <= lastCookie
  BY Types DEF PrintInv, CookieInv
<1>2. renderer'.params <= lastCookie
  BY <1>1 DEF NoCookie
<1>3. \A c : Unused(c)' => Unused(c)
  BY DEF Unused
<1>4. renderer'.prepared => /\ renderer'.params # NoCookie
                            /\ \A a \in replies' : a.cookie # renderer'.params
  BY DEF PrintInv, CookieInv
<1>. QED
  BY <1>2, <1>3, <1>4, CookieRenderer DEF PrintInv

LEMMA StartPrintKeeps ==
  ASSUME PrintInv, NEW way \in Ways, StartPrint(way)
  PROVE  PrintInv'
<1> DEFINE frame == [kind |-> "default", id |-> renderer.prints + 1, way |-> way]
           question == [kind |-> "default", id |-> renderer.prints + 1, cookie |-> NoCookie]
<1>1. /\ Handles /\ ~renderer.prepared /\ renderer.prints < MaxPrints
      /\ renderer' = [renderer EXCEPT !.prints = renderer.prints + 1]
      /\ frames' = Append(frames, frame) /\ asks' = asks \cup {question}
      /\ UNCHANGED <<replies, queue, lastCookie, toBrowser, tasks, ui, jobs, rendered, faults>>
  BY DEF StartPrint
<1>2. /\ renderer \in Helper /\ lastCookie \in Nat /\ asks \in SUBSET Asked /\ IsFiniteSet(asks)
      /\ faults \in Nat
  BY Types DEF PrintInv
<1>3. /\ renderer.alive /\ Blocked = 0
      /\ frames \in Seq(Frame) /\ \A i \in 1..Len(frames) : frames[i].kind = "user"
  BY <1>1, HandlesFacts
<1>4. renderer.prints \in Nat /\ MaxPrints \in Nat
  BY <1>2, PrintingAssumption DEF Helper
<1>5. /\ renderer' \in Helper /\ renderer'.prints = renderer.prints + 1
      /\ renderer'.params = renderer.params /\ renderer'.prepared = renderer.prepared
  BY <1>1, <1>2, <1>4 DEF Helper
<1>6. frame \in Frame /\ question \in Asked /\ frame.kind = "default"
  BY <1>4 DEF Frame, Asked, Kinds, NoCookie
<1> HIDE DEF frame, question
<1>7. /\ frames' \in Seq(Frame) /\ Len(frames') = Len(frames) + 1 /\ Len(frames) \in Nat
      /\ \A i \in 1..Len(frames) : frames'[i] = frames[i]
  BY <1>1, <1>3, <1>6
<1>8. asks' \in SUBSET Asked /\ IsFiniteSet(asks')
  BY <1>1, <1>2, <1>6, FS_AddElement
<1>9. PrintsInv'
  <2>1. \A i \in 1..Len(frames') - 1 : frames'[i].kind = "user"
    BY <1>3, <1>7
  <2>2. Blocked' \in {0, 1}
    BY DEF Blocked
  <2>3. Cardinality(asks') \in {Cardinality(asks), Cardinality(asks) + 1}
    BY <1>1, <1>2, FS_AddElement
  <2>4. Cardinality(asks) \in Nat
    BY <1>2, FS_CardinalityType
  <2>5. lastCookie + Cardinality(asks) + 0 <= 2 * renderer.prints
    BY <1>3 DEF PrintInv, PrintsInv
  <2>6. lastCookie' + Cardinality(asks') + Blocked' <= 2 * renderer'.prints
    BY <1>1, <1>2, <1>4, <1>5, <2>2, <2>3, <2>4, <2>5
  <2>. QED
    BY <1>1, <1>5, <2>1, <2>6 DEF PrintsInv
<1>10. CookieInv'
  BY <1>1, <1>5, NoNewCookie
<1>11. Sends(NoCookie)
  BY <1>1, <1>2, SendsNothing
<1>. QED
  BY <1>1, <1>3, <1>5, <1>7, <1>8, <1>9, <1>10, <1>11, RendererStep

(* Print has a cookie that was not used yet: it prints, fails, or loads    *)
(* the selection.                                                          *)
LEMMA RenderPagesKeeps ==
  ASSUME PrintInv, NEW c \in Cookie, NEW way, RenderPagesForPrint(c, way),
         c <= lastCookie, Unused(c), rendered[c] = 0, jobs[c].thread = "none",
         \A i \in 1..Len(toBrowser) : toBrowser[i].cookie # c,
         replies' \subseteq replies, \A b \in replies' : b.cookie # c,
         UNCHANGED <<queue, lastCookie, jobs>>
  PROVE  /\ renderer' \in Helper /\ renderer'.prints = renderer.prints
         /\ Sends(c) /\ CookieInv'
<1> DEFINE r == [renderer EXCEPT !.params = c]
           p == [r EXCEPT !.prepared = TRUE]
<1>1. \/ FailPrint(r) /\ NoFault
      \/ renderer' = p /\ UNCHANGED <<toBrowser, rendered, faults>>
      \/ PrintPages(p)
  BY DEF RenderPagesForPrint
<1>2. renderer \in Helper /\ lastCookie \in Nat /\ faults \in Nat
  BY Types DEF PrintInv
<1>3. r \in Helper /\ r.params = c /\ r.prints = renderer.prints
  BY <1>2 DEF Helper
<1> HIDE DEF r
<1>4. p \in Helper /\ p.params = c /\ p.prints = renderer.prints /\ p.prepared
  BY <1>3 DEF Helper, Flag
<1> HIDE DEF p
<1>5. c # NoCookie
  BY DEF Cookie, NoCookie
<1>6. CASE FailPrint(r) /\ NoFault
  <2>1. Sends(c) /\ Leaves(r)
    BY <1>2, <1>3, <1>6, FaultType, FailPrintSends
  <2>2. CookieInv'
    BY <1>3, <2>1, PrintedCookie
  <2>. QED
    BY <1>3, <2>1, <2>2 DEF Leaves
<1>7. CASE renderer' = p /\ UNCHANGED <<toBrowser, rendered, faults>>
  <2>1. Sends(c)
    BY <1>2, <1>7, SendsNothing
  <2>2. \A d \in Cookie : Unused(d)' => Unused(d)
    BY <1>4, <1>7 DEF Unused
  <2>3. CookieInv'
    BY <1>4, <1>5, <1>7, <2>2, CookieRenderer DEF PrintInv
  <2>. QED
    BY <1>4, <1>7, <2>1, <2>3
<1>8. CASE PrintPages(p)
  <2>1. Sends(c) /\ Leaves(p)
    BY <1>4, <1>5, <1>8, PrintPagesSends
  <2>2. CookieInv'
    BY <1>4, <2>1, PrintedCookie
  <2>. QED
    BY <1>4, <2>1, <2>2 DEF Leaves
<1>. QED
  BY <1>1, <1>6, <1>7, <1>8

LEMMA DefaultSettingsKeeps ==
  ASSUME PrintInv, DefaultSettings
  PROVE  PrintInv'
<1>1. /\ renderer.alive /\ Waiting("default")
      /\ UNCHANGED <<queue, lastCookie, tasks, ui, jobs>>
  BY DEF DefaultSettings
<1> DEFINE again == [frames EXCEPT ![Len(frames)].kind = "user"]
           question(a) == [kind |-> "user", id |-> Top.id, cookie |-> a.cookie]
<1>2. PICK a \in replies :
        /\ replies' = replies \ {a}
        /\ \/ /\ renderer' = Finished(renderer) /\ frames' = Return
              /\ UNCHANGED <<toBrowser, asks, rendered, faults>>
           \/ /\ a.cookie # NoCookie /\ Fault
              /\ FailPrint([renderer EXCEPT !.params = a.cookie])
              /\ frames' = Return /\ UNCHANGED asks
           \/ /\ a.cookie # NoCookie
              /\ RenderPagesForPrint(a.cookie, Top.way)
              /\ frames' = Return /\ UNCHANGED asks
           \/ /\ renderer' = [renderer EXCEPT !.params = NoCookie]
              /\ frames' = again /\ asks' = asks \cup {question(a)}
              /\ UNCHANGED <<toBrowser, rendered, faults>>
  BY DEF DefaultSettings, ReplyTo
<1>3. /\ renderer \in Helper /\ lastCookie \in Nat /\ asks \in SUBSET Asked /\ IsFiniteSet(asks)
      /\ faults \in Nat
  BY Types DEF PrintInv
<1>4. frames # <<>> /\ ~renderer.prepared
  BY <1>1 DEF Waiting, PrintInv, PrintsInv
<1>5. /\ Return \in Seq(Frame) /\ Top \in Frame
      /\ \A i \in 1..Len(Return) : Return[i].kind = "user"
      /\ again \in Seq(Frame) /\ \A i \in 1..Len(again) : again[i].kind = "user"
  BY <1>4, FramesFacts
<1>6. /\ a \in Asked /\ a.cookie \in Nat /\ a.cookie <= lastCookie
      /\ a.cookie # NoCookie =>
              /\ a.cookie \in Cookie /\ Unused(a.cookie)
              /\ rendered[a.cookie] = 0 /\ jobs[a.cookie].thread = "none"
              /\ \A i \in 1..Len(toBrowser) : toBrowser[i].cookie # a.cookie
              /\ \A b \in replies \ {a} : b.cookie # a.cookie
  BY ReplyFacts
<1> HIDE DEF again
<1>7. CASE /\ renderer' = Finished(renderer) /\ frames' = Return
           /\ UNCHANGED <<toBrowser, asks, rendered, faults>>
  <2>1. /\ renderer' \in Helper /\ ~renderer'.prepared /\ renderer'.params = NoCookie
        /\ renderer'.prints = renderer.prints
    BY <1>3, <1>7, FinishedHelper
  <2>2. CookieInv'
    BY <1>1, <1>2, <1>7, <2>1, NoNewCookie
  <2>3. PrintsInv'
    BY <1>1, <1>5, <1>7, <2>1, PrintsKept
  <2>4. Sends(NoCookie)
    BY <1>3, <1>7, SendsNothing
  <2>. QED
    BY <1>1, <1>2, <1>3, <1>5, <1>7, <2>1, <2>2, <2>3, <2>4, RendererStep
<1>8. CASE /\ a.cookie # NoCookie /\ Fault
           /\ FailPrint([renderer EXCEPT !.params = a.cookie])
           /\ frames' = Return /\ UNCHANGED asks
  <2> DEFINE r == [renderer EXCEPT !.params = a.cookie]
  <2>1. r \in Helper /\ r.params = a.cookie /\ r.prints = renderer.prints
    BY <1>3, <1>6, <1>8 DEF Helper
  <2>2. FailPrint(r)
    BY <1>8
  <2> HIDE DEF r
  <2>3. Sends(r.params) /\ Leaves(r)
    BY <1>3, <1>8, <2>1, <2>2, FaultType, FailPrintSends
  <2>4. CookieInv'
    <3>1. \A b \in replies' : b.cookie # r.params
      BY <1>2, <1>6, <1>8, <2>1
    <3>2. r.params <= lastCookie
      BY <1>6, <2>1
    <3>. QED
      BY <1>1, <1>2, <2>1, <2>3, <3>1, <3>2, PrintedCookie
  <2>5. renderer' \in Helper /\ renderer'.prints = renderer.prints
    BY <2>1, <2>3 DEF Leaves
  <2>6. PrintsInv'
    BY <1>1, <1>5, <1>8, <2>5, PrintsKept
  <2>. QED
    BY <1>1, <1>2, <1>3, <1>5, <1>8, <2>3, <2>4, <2>5, <2>6, RendererStep
<1>9. CASE /\ a.cookie # NoCookie
           /\ RenderPagesForPrint(a.cookie, Top.way)
           /\ frames' = Return /\ UNCHANGED asks
  <2> DEFINE c == a.cookie
  <2>1. /\ c \in Cookie /\ Unused(c) /\ rendered[c] = 0 /\ jobs[c].thread = "none"
        /\ \A i \in 1..Len(toBrowser) : toBrowser[i].cookie # c
        /\ \A b \in replies' : b.cookie # c
        /\ c <= lastCookie /\ RenderPagesForPrint(c, Top.way)
    BY <1>2, <1>6, <1>9
  <2> HIDE DEF c
  <2>2. /\ renderer' \in Helper /\ renderer'.prints = renderer.prints
        /\ Sends(c) /\ CookieInv'
    BY <1>1, <1>2, <2>1, RenderPagesKeeps
  <2>3. PrintsInv'
    BY <1>1, <1>5, <1>9, <2>2, PrintsKept
  <2>. QED
    BY <1>1, <1>2, <1>3, <1>5, <1>9, <2>2, <2>3, RendererStep
<1>10. CASE /\ renderer' = [renderer EXCEPT !.params = NoCookie]
            /\ frames' = again /\ asks' = asks \cup {question(a)}
            /\ UNCHANGED <<toBrowser, rendered, faults>>
  <2>1. question(a) \in Asked
    BY <1>5, <1>6 DEF Asked, Frame, Kinds
  <2>2. /\ renderer' \in Helper /\ ~renderer'.prepared /\ renderer'.params = NoCookie
        /\ renderer'.prints = renderer.prints
    BY <1>3, <1>4, <1>10 DEF Helper
  <2> HIDE DEF question
  <2>3. CookieInv'
    BY <1>1, <1>2, <1>10, <2>2, NoNewCookie
  <2>4. asks' \in SUBSET Asked
    BY <1>3, <1>10, <2>1
  <2>5. PrintsInv' /\ IsFiniteSet(asks')
    <3>1. \E b : asks' = asks \cup {b}
      BY <1>10
    <3>. QED
      BY <1>1, <1>5, <1>10, <2>2, <2>4, <3>1, PrintsKept
  <2>6. Sends(NoCookie)
    BY <1>3, <1>10, SendsNothing
  <2>. QED
    BY <1>1, <1>2, <1>5, <1>10, <2>2, <2>3, <2>4, <2>5, <2>6, RendererStep
<1>. QED
  BY <1>2, <1>7, <1>8, <1>9, <1>10

LEMMA UserSettingsKeeps ==
  ASSUME PrintInv, UserSettings
  PROVE  PrintInv'
<1>1. /\ renderer.alive /\ Waiting("user") /\ frames' = Return
      /\ UNCHANGED <<asks, queue, lastCookie, tasks, ui, jobs>>
  BY DEF UserSettings
<1>2. PICK a \in replies :
        /\ replies' = replies \ {a}
        /\ \/ renderer' = Finished(renderer) /\ UNCHANGED <<toBrowser, rendered, faults>>
           \/ a.cookie # NoCookie /\ RenderPagesForPrint(a.cookie, Top.way)
  BY DEF UserSettings, ReplyTo
<1>3. /\ renderer \in Helper /\ asks \in SUBSET Asked /\ IsFiniteSet(asks) /\ faults \in Nat
  BY Types DEF PrintInv
<1>4. /\ frames' \in Seq(Frame) /\ \A i \in 1..Len(frames') : frames'[i].kind = "user"
  <2>1. frames # <<>>
    BY <1>1 DEF Waiting
  <2>. QED
    BY <1>1, <2>1, FramesFacts
<1>5. /\ a.cookie <= lastCookie
      /\ a.cookie # NoCookie =>
              /\ a.cookie \in Cookie /\ Unused(a.cookie)
              /\ rendered[a.cookie] = 0 /\ jobs[a.cookie].thread = "none"
              /\ \A i \in 1..Len(toBrowser) : toBrowser[i].cookie # a.cookie
              /\ \A b \in replies \ {a} : b.cookie # a.cookie
  BY ReplyFacts
<1>6. CASE renderer' = Finished(renderer) /\ UNCHANGED <<toBrowser, rendered, faults>>
  <2>1. /\ renderer' \in Helper /\ ~renderer'.prepared /\ renderer'.params = NoCookie
        /\ renderer'.prints = renderer.prints
    BY <1>3, <1>6, FinishedHelper
  <2>2. CookieInv'
    BY <1>1, <1>2, <1>6, <2>1, NoNewCookie
  <2>3. PrintsInv'
    BY <1>1, <1>4, <2>1, PrintsKept
  <2>4. Sends(NoCookie)
    BY <1>3, <1>6, SendsNothing
  <2>. QED
    BY <1>1, <1>2, <1>3, <1>4, <2>1, <2>2, <2>3, <2>4, RendererStep
<1>7. CASE a.cookie # NoCookie /\ RenderPagesForPrint(a.cookie, Top.way)
  <2> DEFINE c == a.cookie
  <2>1. /\ c \in Cookie /\ Unused(c) /\ rendered[c] = 0 /\ jobs[c].thread = "none"
        /\ \A i \in 1..Len(toBrowser) : toBrowser[i].cookie # c
        /\ \A b \in replies' : b.cookie # c
        /\ c <= lastCookie /\ RenderPagesForPrint(c, Top.way)
    BY <1>2, <1>5, <1>7
  <2> HIDE DEF c
  <2>2. /\ renderer' \in Helper /\ renderer'.prints = renderer.prints
        /\ Sends(c) /\ CookieInv'
    BY <1>1, <1>2, <2>1, RenderPagesKeeps
  <2>3. PrintsInv'
    BY <1>1, <1>4, <2>2, PrintsKept
  <2>. QED
    BY <1>1, <1>2, <1>3, <1>4, <2>2, <2>3, RendererStep
<1>. QED
  BY <1>2, <1>6, <1>7

LEMMA SelectionLoadedKeeps ==
  ASSUME PrintInv, SelectionLoaded
  PROVE  PrintInv'
<1> DEFINE c == renderer.params
<1>1. /\ Handles /\ renderer.prepared /\ PrintPages(renderer)
      /\ UNCHANGED <<frames, asks, replies, queue, lastCookie, tasks, ui, jobs>>
  BY DEF SelectionLoaded, settings
<1>2. /\ renderer \in Helper /\ asks \in SUBSET Asked /\ IsFiniteSet(asks)
  BY Types DEF PrintInv
<1>3. /\ renderer.alive /\ frames \in Seq(Frame)
      /\ \A i \in 1..Len(frames) : frames[i].kind = "user"
  BY <1>1, HandlesFacts
<1>4. /\ c # NoCookie /\ c <= lastCookie /\ \A a \in replies : a.cookie # c
  BY <1>1 DEF PrintInv, CookieInv
<1>5. c \in Cookie
  BY <1>2, <1>4 DEF Helper
<1>6. Unused(c)
  BY <1>1 DEF Unused
<1>7. /\ rendered[c] = 0 /\ jobs[c].thread = "none"
      /\ \A i \in 1..Len(toBrowser) : toBrowser[i].cookie # c
  BY <1>5, <1>6 DEF PrintInv, CookieInv
<1>8. Sends(c) /\ Leaves(renderer)
  BY <1>1, <1>2, <1>4, <1>7, PrintPagesSends
<1>9. CookieInv'
  BY <1>1, <1>2, <1>4, <1>8, PrintedCookie
<1>10. renderer' \in Helper /\ renderer'.prints = renderer.prints
  BY <1>8 DEF Leaves
<1>11. PrintsInv'
  BY <1>1, <1>3, <1>10, PrintsKept
<1>. QED
  BY <1>1, <1>2, <1>3, <1>8, <1>9, <1>10, <1>11, RendererStep

LEMMA OnPrintingDoneKeeps ==
  ASSUME PrintInv, OnPrintingDone
  PROVE  PrintInv'
<1> DEFINE s == [ui |-> [ui EXCEPT !.sent = Tail(ui.sent)], jobs |-> jobs]
<1>1. /\ Handles /\ ui.sent # <<>> /\ renderer' = Finished(renderer)
      /\ ui' = [ui EXCEPT !.sent = Tail(ui.sent)]
      /\ UNCHANGED <<frames, asks, replies, queue, lastCookie, toBrowser, tasks, jobs,
                     rendered, faults>>
  BY DEF OnPrintingDone, settings
<1>2. /\ tasks \in Seq(Task) /\ State \in Browser /\ rendered \in [Cookie -> Nat]
      /\ JobsInv(State, rendered) /\ Announced(tasks, State, rendered)
      /\ State.ui = ui /\ State.jobs = jobs /\ renderer \in Helper /\ ui \in Ui
  BY Types DEF PrintInv
<1>3. /\ renderer' \in Helper /\ ~renderer'.prepared /\ renderer'.params = NoCookie
      /\ renderer'.prints = renderer.prints /\ renderer'.alive = renderer.alive
  BY <1>1, <1>2, FinishedHelper
<1>4. /\ renderer.alive /\ frames \in Seq(Frame)
      /\ \A i \in 1..Len(frames) : frames[i].kind = "user"
  BY <1>1, HandlesFacts
<1>5. /\ State' \in Browser /\ State'.jobs = State.jobs /\ State'.ui = ui'
      /\ State'.ui.job = State.ui.job /\ State'.ui.succeeded = State.ui.succeeded
      /\ State'.ui.current = State.ui.current /\ State'.ui.sent = Tail(State.ui.sent)
      /\ ui'.open = ui.open /\ ui'.number = ui.number
  <2>1. Tail(ui.sent) \in Seq(Sent)
    BY <1>1, <1>2 DEF Ui
  <2>2. ui' \in Ui /\ ui'.sent = Tail(ui.sent) /\ ui'.job = ui.job /\ ui'.open = ui.open
        /\ ui'.succeeded = ui.succeeded /\ ui'.current = ui.current /\ ui'.number = ui.number
    BY <1>1, <1>2, <2>1 DEF Ui
  <2>. QED
    BY <1>1, <1>2, <2>2 DEF State, Browser
<1> DEFINE t == State'
<1>6. JobsInv(t, rendered)
  <2> HIDE DEF t
  <2>1. /\ t \in Browser /\ t.jobs = State.jobs /\ t.ui.job = State.ui.job
        /\ t.ui.succeeded = State.ui.succeeded /\ t.ui.current = State.ui.current
        /\ t.ui.sent = Tail(State.ui.sent) /\ State.ui.sent # <<>>
    BY <1>1, <1>2, <1>5 DEF t
  <2>. QED
    BY <1>2, <2>1, UiKeeps
<1>7. Announced(tasks, t, rendered)
  <2>1. t.jobs = State.jobs
    BY <1>5
  <2>. QED
    BY <1>2, <2>1 DEF Announced
<1>8. TypeOK'
  BY <1>1, <1>3, <1>5 DEF PrintInv, TypeOK
<1>9. PrintsInv'
  BY <1>1, <1>3, <1>4, PrintsKept
<1>10. CookieInv'
  BY <1>1, <1>3, NoNewCookie
<1>11. MessageInv'
  BY <1>1, <1>3, <1>5 DEF PrintInv, MessageInv
<1>. QED
  BY <1>1, <1>6, <1>7, <1>8, <1>9, <1>10, <1>11 DEF PrintInv

LEMMA RendererCrashesKeeps ==
  ASSUME PrintInv, RendererCrashes
  PROVE  PrintInv'
<1>1. /\ Fault /\ renderer.alive
      /\ renderer' = [Finished(renderer) EXCEPT !.alive = FALSE]
      /\ frames' = <<>> /\ replies' = {}
      /\ toBrowser' = Append(toBrowser, Message("Gone", NoCookie))
      /\ ui' = [ui EXCEPT !.sent = <<>>]
      /\ UNCHANGED <<asks, queue, lastCookie, tasks, jobs, rendered>>
  BY DEF RendererCrashes
<1>2. /\ tasks \in Seq(Task) /\ State \in Browser /\ rendered \in [Cookie -> Nat]
      /\ JobsInv(State, rendered) /\ Announced(tasks, State, rendered)
      /\ State.ui = ui /\ State.jobs = jobs /\ renderer \in Helper /\ ui \in Ui
      /\ faults \in Nat /\ lastCookie \in Nat
      /\ asks \in SUBSET Asked /\ IsFiniteSet(asks)
  BY Types DEF PrintInv
<1>3. /\ renderer' \in Helper /\ ~renderer'.prepared /\ renderer'.params = NoCookie
      /\ renderer'.prints = renderer.prints /\ ~renderer'.alive
  BY <1>1, <1>2, FinishedHelper
<1>4. /\ frames' \in Seq(Frame) /\ faults' \in Nat /\ Len(frames') = 0
  BY <1>1, <1>2, FaultType
<1>5. /\ State' \in Browser /\ State'.jobs = State.jobs /\ State'.ui = ui'
      /\ State'.ui.job = State.ui.job /\ State'.ui.succeeded = State.ui.succeeded
      /\ State'.ui.current = State.ui.current /\ State'.ui.sent = <<>>
      /\ ui'.open = ui.open /\ ui'.number = ui.number
  <2>1. <<>> \in Seq(Sent)
    OBVIOUS
  <2>2. ui' \in Ui /\ ui'.sent = <<>> /\ ui'.job = ui.job /\ ui'.open = ui.open
        /\ ui'.succeeded = ui.succeeded /\ ui'.current = ui.current /\ ui'.number = ui.number
    BY <1>1, <1>2, <2>1 DEF Ui
  <2>. QED
    BY <1>1, <1>2, <2>2 DEF State, Browser
<1> DEFINE t == State'
<1>6. JobsInv(t, rendered)
  <2> HIDE DEF t
  <2>1. /\ t \in Browser /\ t.jobs = State.jobs /\ t.ui.job = State.ui.job
        /\ t.ui.succeeded = State.ui.succeeded /\ t.ui.current = State.ui.current
        /\ t.ui.sent = <<>>
    BY <1>5 DEF t
  <2>. QED
    BY <1>2, <2>1, UiKeeps
<1>7. Announced(tasks, t, rendered)
  <2>1. t.jobs = State.jobs
    BY <1>5
  <2>. QED
    BY <1>2, <2>1 DEF Announced
<1>8. Sends(NoCookie)
  <2>1. NoCookie \in Cookie \cup {NoCookie}
    OBVIOUS
  <2>. QED
    BY <1>1, <1>4, <2>1, SendsOne
<1>9. TypeOK'
  BY <1>1, <1>3, <1>4, <1>5, <1>8 DEF PrintInv, TypeOK, Sends
<1>10. PrintsInv'
  BY <1>1, <1>3, <1>4, PrintsKept
<1>11. CookieInv'
  <2>1. \A c \in Cookie : ~Unused(c)'
    BY <1>1, <1>3 DEF Unused
  <2>2. renderer'.params <= lastCookie
    BY <1>2, <1>3 DEF NoCookie
  <2>3. \A c \in Cookie : c # NoCookie
    BY DEF Cookie, NoCookie
  <2>. QED
    BY <1>1, <1>3, <1>8, <2>1, <2>2, <2>3, CookieRenderer DEF PrintInv, Sends
<1>12. MessageInv'
  BY <1>1, <1>3, <1>5, <1>8 DEF PrintInv, MessageInv, Sends
<1>. QED
  BY <1>1, <1>6, <1>7, <1>9, <1>10, <1>11, <1>12 DEF PrintInv

(* The IO thread answers a question.                                       *)
LEMMA GetSettingsKeeps ==
  ASSUME PrintInv, GetSettings
  PROVE  PrintInv'
<1>1. PICK a \in asks : asks' = asks \ {a} /\ (Granted(a) \/ Refused(a))
  BY DEF GetSettings
<1>2. UNCHANGED <<renderer, frames, toBrowser, tasks, ui, jobs, rendered>>
  BY DEF GetSettings
<1> DEFINE cookie == lastCookie + 1
<1>3. /\ renderer \in Helper /\ lastCookie \in Nat /\ asks \in SUBSET Asked /\ IsFiniteSet(asks)
      /\ faults \in Nat /\ replies \in SUBSET Asked /\ queue \in SUBSET Cookie /\ a \in Asked
  BY <1>1, Types DEF PrintInv
<1>4. /\ Cardinality(asks) \in Nat /\ Cardinality(asks') = Cardinality(asks) - 1
      /\ IsFiniteSet(asks') /\ asks' \in SUBSET Asked /\ Cardinality(asks') \in Nat
  <2>1. Cardinality(asks) \in Nat
    BY <1>3, FS_CardinalityType
  <2>2. IsFiniteSet(asks') /\ Cardinality(asks') = Cardinality(asks) - 1
    BY <1>1, <1>3, FS_RemoveElement
  <2>3. Cardinality(asks') \in Nat
    BY <2>2, FS_CardinalityType
  <2>. QED
    BY <1>1, <1>3, <2>1, <2>2, <2>3
<1>5. /\ lastCookie + Cardinality(asks) + Blocked <= 2 * renderer.prints
      /\ Blocked \in Nat /\ Blocked' = Blocked /\ renderer.prints \in 0..MaxPrints
      /\ MaxPrints \in Nat
  BY <1>2, <1>3, PrintingAssumption DEF PrintInv, PrintsInv, Blocked, Waiting, Top, Helper
<1>6. cookie \in Cookie /\ cookie # NoCookie /\ cookie \in Nat
  BY <1>3, <1>4, <1>5 DEF Cookie, NoCookie
<1>7. lastCookie' \in {lastCookie, cookie}
  BY <1>1 DEF Granted, Refused
<1>8. PrintsInv'
  <2>1. lastCookie' + Cardinality(asks') + Blocked' <= 2 * renderer'.prints
    BY <1>2, <1>3, <1>4, <1>5, <1>7
  <2>. QED
    BY <1>2, <2>1 DEF PrintInv, PrintsInv, Waiting, Top
<1>9. MessageInv'
  BY <1>2 DEF PrintInv, MessageInv
<1>10. State' = State
  BY <1>2 DEF State
<1>11. ASSUME TypeOK', CookieInv' PROVE PrintInv'
  BY <1>2, <1>8, <1>9, <1>10, <1>11 DEF PrintInv
<1>12. /\ \A b \in replies : b.cookie <= lastCookie /\ b.cookie \in Nat
       /\ \A b, d \in replies : b.cookie = d.cookie /\ b.cookie # NoCookie => b = d
       /\ renderer.params <= lastCookie /\ renderer.params \in Nat
       /\ renderer.prepared => /\ renderer.params # NoCookie
                               /\ \A b \in replies : b.cookie # renderer.params
  BY <1>3 DEF PrintInv, CookieInv, Asked, Helper, Cookie, NoCookie
<1>13. /\ \A c \in Cookie : (c > lastCookie \/ Unused(c)) =>
            /\ rendered[c] = 0 /\ jobs[c].thread = "none"
            /\ \A i \in 1..Len(toBrowser) : toBrowser[i].cookie # c
       /\ \A c \in Cookie : jobs[c].thread # "none" => c \notin queue
  BY DEF PrintInv, CookieInv
<1>14. /\ rendered[cookie] = 0 /\ jobs[cookie].thread = "none"
       /\ \A i \in 1..Len(toBrowser) : toBrowser[i].cookie # cookie
  BY <1>3, <1>6, <1>13
<1>15. CASE Granted(a)
  <2> DEFINE reply == [a EXCEPT !.cookie = cookie]
  <2>1. /\ lastCookie' = cookie /\ queue' = (queue \ {a.cookie}) \cup {cookie}
        /\ replies' \in {replies, replies \cup {reply}} /\ faults' \in Nat
    BY <1>3, <1>15, FaultType DEF Granted, Reply
  <2>2. reply \in Asked /\ reply.cookie = cookie
    BY <1>3, <1>6 DEF Asked
  <2> HIDE DEF reply
  <2>3. cookie = lastCookie + 1
    OBVIOUS
  <2> HIDE DEF cookie
  <2>4. \A b \in replies' : b \in replies \/ b = reply
    BY <2>1
  <2>5. replies' \in SUBSET Asked /\ queue' \in SUBSET Cookie /\ lastCookie' \in Nat
    BY <1>3, <1>6, <2>1, <2>2
  <2>6. TypeOK'
    BY <1>2, <1>4, <1>10, <2>1, <2>5 DEF PrintInv, TypeOK
  <2>7. \A b \in replies' : b.cookie <= cookie
    BY <1>3, <1>6, <1>12, <2>2, <2>3, <2>4
  <2>8. \A b \in replies : b.cookie # cookie
    BY <1>3, <1>12, <2>3
  <2>9. ASSUME NEW b \in replies', NEW d \in replies', b.cookie = d.cookie, b.cookie # NoCookie
        PROVE  b = d
    BY <1>12, <2>2, <2>4, <2>8, <2>9
  <2>10. renderer.params <= cookie /\ renderer.params # cookie
    BY <1>3, <1>6, <1>12, <2>3
  <2>11. renderer.prepared => /\ renderer.params # NoCookie
                              /\ \A b \in replies' : b.cookie # renderer.params
    BY <1>12, <2>2, <2>4, <2>10
  <2>12. ASSUME NEW c \in Cookie, c > cookie \/ Unused(c)'
         PROVE  c > lastCookie \/ Unused(c) \/ c = cookie
    <3>1. CASE c > cookie
      <4>1. c \in Nat
        BY DEF Cookie
      <4>. QED
        BY <1>3, <2>3, <3>1, <4>1
    <3>2. CASE Unused(c)'
      BY <1>2, <2>2, <2>4, <3>2 DEF Unused
    <3>. QED
      BY <2>12, <3>1, <3>2
  <2>13. \A c \in Cookie : (c > cookie \/ Unused(c)') =>
            /\ rendered[c] = 0 /\ jobs[c].thread = "none"
            /\ \A i \in 1..Len(toBrowser) : toBrowser[i].cookie # c
    BY <1>13, <1>14, <2>12
  <2>14. \A c \in Cookie : jobs[c].thread # "none" => c \notin queue'
    BY <1>13, <1>14, <2>1
  <2>15. CookieInv'
    <3>1. /\ \A b, d \in replies' : b.cookie = d.cookie /\ b.cookie # NoCookie => b = d
          /\ renderer' = renderer /\ lastCookie' = cookie /\ rendered' = rendered
          /\ jobs' = jobs /\ toBrowser' = toBrowser
      BY <1>2, <2>1, <2>9
    <3>. QED
      BY <2>7, <2>10, <2>11, <2>13, <2>14, <3>1 DEF CookieInv
  <2>. QED
    BY <1>11, <2>6, <2>15
<1>16. CASE Refused(a)
  <2> DEFINE reply == [a EXCEPT !.cookie = NoCookie]
  <2>1. /\ lastCookie' = lastCookie /\ queue' = queue \ {a.cookie}
        /\ replies' \in {replies, replies \cup {reply}} /\ faults' \in Nat
    BY <1>3, <1>16, FaultType DEF Refused, Reply
  <2>2. reply \in Asked /\ reply.cookie = NoCookie
    BY <1>3 DEF Asked, NoCookie
  <2> HIDE DEF reply
  <2>3. \A b \in replies' : b \in replies \/ b = reply
    BY <2>1
  <2>4. replies' \in SUBSET Asked /\ queue' \in SUBSET Cookie
    BY <1>3, <2>1, <2>2
  <2>5. TypeOK'
    BY <1>2, <1>3, <1>4, <1>10, <2>1, <2>4 DEF PrintInv, TypeOK
  <2>6. \A b \in replies' : b.cookie <= lastCookie
    <3>1. NoCookie <= lastCookie
      BY <1>3 DEF NoCookie
    <3>. QED
      BY <1>12, <2>2, <2>3, <3>1
  <2>7. \A b, d \in replies' : b.cookie = d.cookie /\ b.cookie # NoCookie => b = d
    BY <1>12, <2>2, <2>3
  <2>8. renderer.prepared => /\ renderer.params # NoCookie
                             /\ \A b \in replies' : b.cookie # renderer.params
    BY <1>12, <2>2, <2>3
  <2>9. ASSUME NEW c \in Cookie, Unused(c)' PROVE Unused(c)
    <3>1. c # NoCookie
      BY DEF Cookie, NoCookie
    <3>. QED
      BY <1>2, <2>2, <2>3, <2>9, <3>1 DEF Unused
  <2>10. \A c \in Cookie : (c > lastCookie \/ Unused(c)') =>
            /\ rendered[c] = 0 /\ jobs[c].thread = "none"
            /\ \A i \in 1..Len(toBrowser) : toBrowser[i].cookie # c
    BY <1>13, <2>9
  <2>11. \A c \in Cookie : jobs[c].thread # "none" => c \notin queue'
    BY <1>13, <2>1
  <2>12. CookieInv'
    <3>1. /\ renderer' = renderer /\ lastCookie' = lastCookie /\ rendered' = rendered
          /\ jobs' = jobs /\ toBrowser' = toBrowser
      BY <1>2, <2>1
    <3>. QED
      BY <1>12, <2>6, <2>7, <2>8, <2>10, <2>11, <3>1 DEF CookieInv
  <2>. QED
    BY <1>11, <2>5, <2>12
<1>. QED
  BY <1>1, <1>15, <1>16

-----------------------------------------------------------------------------
LEMMA PrintInit ==
  ASSUME Init
  PROVE  PrintInv
<1>1. /\ renderer = [alive |-> TRUE, params |-> NoCookie, prepared |-> FALSE,
                     notify |-> TRUE, prints |-> 0]
      /\ frames = <<>> /\ asks = {} /\ replies = {} /\ queue = {} /\ lastCookie = 0
      /\ toBrowser = <<>> /\ tasks = <<>>
      /\ ui = [open |-> TRUE, live |-> TRUE, job |-> NoCookie, number |-> 0,
               succeeded |-> FALSE, expecting |-> TRUE, current |-> {}, sent |-> <<>>]
      /\ jobs = [c \in Cookie |-> NewJob]
      /\ rendered = [c \in Cookie |-> 0] /\ faults = 0
  BY DEF Init
<1>2. \A c \in Cookie : jobs[c] = NewJob /\ rendered[c] = 0
  BY <1>1
<1>3. /\ NewJob \in Job /\ NewJob.thread = "none" /\ ~IsRunning(NewJob) /\ Working(NewJob, 0)
  <2>1. <<>> \in Seq(Todo) /\ Len(<<>>) = 0
    OBVIOUS
  <2>2. NewJob \in Job
    BY <2>1 DEF NewJob, Job, Flag, Threads, NoPage
  <2>3. NewJob.thread = "none" /\ ~IsRunning(NewJob)
    BY DEF NewJob, IsRunning
  <2>4. Working(NewJob, 0)
    BY <2>1 DEF NewJob, Working, NoPage
  <2>. QED
    BY <2>2, <2>3, <2>4
<1>4. ui \in Ui /\ Len(ui.sent) = 0 /\ ui.job = NoCookie /\ ui.open
  <2>1. <<>> \in Seq(Sent) /\ Len(<<>>) = 0
    OBVIOUS
  <2>. QED
    BY <1>1, <2>1 DEF Ui, Flag
<1>5. State \in Browser /\ State.ui = ui /\ State.jobs = jobs
  <2>1. jobs \in [Cookie -> Job]
    BY <1>1, <1>3
  <2>. QED
    BY <1>4, <2>1 DEF State, Browser
<1>6. renderer \in Helper /\ ~renderer.prepared /\ renderer.params = 0 /\ renderer.prints = 0
  <2>1. 0 \in 0..MaxPrints
    BY PrintingAssumption
  <2>. QED
    BY <1>1, <2>1 DEF Helper, Flag, NoCookie
<1>7. TypeOK
  <2>1. /\ frames \in Seq(Frame) /\ toBrowser \in Seq(Messages) /\ tasks \in Seq(Task)
        /\ IsFiniteSet(asks) /\ rendered \in [Cookie -> Nat]
    BY <1>1, FS_EmptySet
  <2>. QED
    BY <1>1, <1>5, <1>6, <2>1 DEF TypeOK
<1>8. PrintsInv
  <2>1. ~Waiting("default") /\ Blocked = 0
    BY <1>1 DEF Waiting, Blocked
  <2>2. Cardinality(asks) = 0 /\ Len(frames) = 0
    BY <1>1, FS_EmptySet
  <2>. QED
    BY <1>1, <1>6, <2>1, <2>2 DEF PrintsInv
<1>9. CookieInv
  <2>1. Len(toBrowser) = 0
    BY <1>1
  <2>. QED
    BY <1>1, <1>2, <1>3, <1>6, <2>1 DEF CookieInv
<1>10. MessageInv
  <2>1. Len(toBrowser) = 0
    BY <1>1
  <2>. QED
    BY <1>4, <2>1 DEF MessageInv, InOrder
<1>11. JobsInv(State, rendered)
  BY <1>2, <1>3, <1>4, <1>5 DEF JobsInv, Kept, Reported
<1>12. Announced(tasks, State, rendered)
  <2>1. Len(tasks) = 0
    BY <1>1
  <2>. QED
    BY <2>1 DEF Announced
<1>. QED
  BY <1>7, <1>8, <1>9, <1>10, <1>11, <1>12 DEF PrintInv

LEMMA PrintStutters ==
  ASSUME PrintInv, UNCHANGED vars
  PROVE  PrintInv'
<1>1. /\ UNCHANGED <<renderer, frames, asks, replies, queue, lastCookie, toBrowser, tasks,
                     ui, jobs, rendered, faults>>
      /\ State' = State
  BY DEF vars, settings, State
<1>2. TypeOK' /\ MessageInv'
  BY <1>1 DEF PrintInv, TypeOK, MessageInv
<1>3. PrintsInv'
  BY <1>1 DEF PrintInv, PrintsInv, Waiting, Top, Blocked
<1>4. CookieInv'
  BY <1>1 DEF PrintInv, CookieInv, Unused
<1>. QED
  BY <1>1, <1>2, <1>3, <1>4 DEF PrintInv

LEMMA PrintNext ==
  ASSUME PrintInv, [Next]_vars
  PROVE  PrintInv'
<1>1. ASSUME NEW way \in Ways, StartPrint(way) PROVE PrintInv'
  BY <1>1, StartPrintKeeps
<1>2. CASE Renderer \/ RendererCrashes
  BY <1>2, DefaultSettingsKeeps, UserSettingsKeeps, SelectionLoadedKeeps, OnPrintingDoneKeeps,
     RendererCrashesKeeps DEF Renderer
<1>3. CASE GetSettings
  BY <1>3, GetSettingsKeeps
<1>4. CASE UIThread \/ NavigationStopped \/ PageClosed
  BY <1>4, OnMessageReceivedKeeps, RunTaskKeeps, NavigationStoppedKeeps, PageClosedKeeps
     DEF UIThread
<1>5. ASSUME NEW c \in Cookie, Worker(c) PROVE PrintInv'
  BY <1>5, WorkerTaskKeeps, OnNewPageKeeps, SpoolPageKeeps DEF Worker
<1>6. ASSUME NEW c \in Cookie, Pool(c) PROVE PrintInv'
  BY <1>6, StopWorkerKeeps, HoldUntilStopIsCalledKeeps DEF Pool
<1>7. CASE UNCHANGED vars
  BY <1>7, PrintStutters
<1>. QED
  BY <1>1, <1>2, <1>3, <1>4, <1>5, <1>6, <1>7 DEF Next

LEMMA PrintAlways == Spec => []PrintInv
<1>. QED
  BY PrintInit, PrintNext, PTL DEF Spec

(* The state of the renderer, of the threads and of what is under way      *)
(* between them has its types.  A cookie is one of those that two          *)
(* questions for each print can use up, so that none is outside the        *)
(* queries and jobs there can be.                                          *)
THEOREM TypeCorrect == Spec => []TypeOK
<1>1. PrintInv => TypeOK
  BY DEF PrintInv
<1>. QED
  BY <1>1, PrintAlways, PTL

(* A job is there as long as its worker's thread runs (~PrintJob asserts   *)
(* that it has ended): the worker is being stopped, or else the job still  *)
(* listens to the notifications that stop it and the job manager keeps it, *)
(* in every order of a cancel, a crash, a printer's failure and the end of *)
(* the document.                                                           *)
THEOREM ThreadsEndBeforeJobs == Spec => []JobOutlivesWorker
<1>1. PrintInv => JobOutlivesWorker
  BY DEF PrintInv, JobsInv, Kept, State, JobOutlivesWorker, Referenced
<1>. QED
  BY <1>1, PrintAlways, PTL

(* PrintingDone(true) is sent to the page for a job only whose pages are   *)
(* spooled, all that the renderer made with its cookie.                    *)
THEOREM NoSuccessForLostPages == Spec => []SuccessMeansSpooled
<1>1. PrintInv => SuccessMeansSpooled
  BY DEF PrintInv, JobsInv, Reported, Complete, State, SuccessMeansSpooled
<1>. QED
  BY <1>1, PrintAlways, PTL

(* A page that comes late is not put into the document of a later print:   *)
(* a job has pages that were made with its own cookie only.                *)
THEOREM NoPageOfAnotherPrint == Spec => []PagesOfOwnDocument
<1>1. PrintInv => PagesOfOwnDocument
  BY DEF PrintInv, JobsInv, Working, State, PagesOfOwnDocument
<1>. QED
  BY <1>1, PrintAlways, PTL
=============================================================================
