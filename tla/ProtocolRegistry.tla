-------------------------- MODULE ProtocolRegistry --------------------------
(***************************************************************************)
(* Custom protocols: the `protocol` module of the browser process.         *)
(*                                                                         *)
(*   atom/browser/api/atom_api_protocol.cc            UI thread            *)
(*   atom/browser/net/atom_url_request_job_factory.cc IO thread            *)
(*   atom/browser/net/adapter_request_job.cc          the job of a request *)
(*                                                                         *)
(* Every call checks and changes a map on the UI thread and posts a task   *)
(* that changes the job factory on the IO thread.  A request for a custom  *)
(* scheme goes the other way: its job is made on the IO thread, asks the   *)
(* JavaScript handler on the UI thread, and is started on the IO thread.   *)
(***************************************************************************)
EXTENDS Naturals, Sequences

CONSTANTS
  Schemes,
  BuiltIn,   \* the schemes the factory is made with
  NetOnly,   \* other schemes net::URLRequest::IsHandledProtocol answers for
  Requests,
  MaxTasks   \* bounds the tasks posted and not run when the application calls

ASSUME ProtocolAssumption ==
  BuiltIn \subseteq Schemes /\ NetOnly \subseteq Schemes /\ MaxTasks \in Nat

VARIABLES
  handlers,  \* the schemes in Protocol::protocol_handlers_ (UI thread)
  factory,   \* protocol_handler_map_: the layers of handlers of each scheme
  ioTasks,   \* tasks posted to the IO thread
  uiTasks,   \* tasks posted to the UI thread
  asked,     \* the jobs whose JavaScript handler is running: none or one
  job,       \* the job of each request
  crashed,   \* the process has used a handler or a job that is not there
  missed,    \* history: the schemes whose last task was refused, an interception
  misused    \* history: the schemes that the application took away by the wrong
             \* call: unregistered one of BuiltIn, unintercepted another one

vars == <<handlers, factory, ioTasks, uiTasks, asked, job, crashed, missed, misused>>

(* A handler made by the browser, or a CustomProtocolHandler that may have *)
(* another one under it.                                                   *)
Layers == Seq({"original", "custom"})
NoJob == [state |-> "none"]
(* fallback: the height of the handler protocol_handler_ points to; 0 is   *)
(* NULL.  freed: was that handler deleted?                                 *)
Jobs == [state: {"asking", "started", "gone"}, scheme: Schemes,
         fallback: Nat, freed: BOOLEAN]

MapTasks == {"RegisterProtocolInIO", "UnregisterProtocolInIO",
             "InterceptProtocolInIO", "UninterceptProtocolInIO"}
JobTasks == {"CreateJobAndStart", "CreateErrorJobAndStart",
             "CreateJobFromProtocolHandlerAndStart"}
Events == {"registered", "unregistered", "intercepted", "unintercepted", "error"}

MapTask(task, s) == [task |-> task, scheme |-> s]
JobTask(task, r) == [task |-> task, request |-> r]

Init ==
  /\ handlers = {}
  /\ factory = [s \in Schemes |-> IF s \in BuiltIn THEN <<"original">> ELSE <<>>]
  /\ ioTasks = <<>> /\ uiTasks = <<>>
  /\ asked = {}
  /\ job = [r \in Requests |-> NoJob]
  /\ crashed = FALSE
  /\ missed = {} /\ misused = {}

HasProtocolHandler(s) == factory[s] # <<>>
Top(layers) == layers[Len(layers)]

-----------------------------------------------------------------------------
(* UI thread: calls of the application.  They throw, and change nothing,   *)
(* where their guards do not hold.                                         *)

MayCall == ~crashed /\ Len(ioTasks) + Len(uiTasks) < MaxTasks

Post(task, s) ==
  /\ ioTasks' = Append(ioTasks, MapTask(task, s))
  /\ UNCHANGED <<factory, uiTasks, asked, job, crashed, missed>>

RegisterProtocol(s) ==
  /\ MayCall
  /\ s \notin handlers /\ ~HasProtocolHandler(s) /\ s \notin NetOnly
  /\ handlers' = handlers \cup {s}
  /\ Post("RegisterProtocolInIO", s)
  /\ UNCHANGED misused

(* Mutant: a scheme whose handler has not reached the factory is forgotten *)
(* without a task.                                                         *)
UnregisterProtocolEarly(s) ==
  /\ MayCall
  /\ s \in handlers
  /\ handlers' = handlers \ {s}
  /\ IF HasProtocolHandler(s) THEN Post("UnregisterProtocolInIO", s)
     ELSE UNCHANGED <<ioTasks, factory, uiTasks, asked, job, crashed, missed>>
  /\ misused' = misused \cup ({s} \cap BuiltIn)

UnregisterProtocol(s) ==
  /\ MayCall
  /\ s \in handlers
  /\ handlers' = handlers \ {s}
  /\ Post("UnregisterProtocolInIO", s)
  /\ misused' = misused \cup ({s} \cap BuiltIn)

(* Mutant: a scheme may be intercepted twice.                              *)
InterceptProtocolTwice(s) ==
  /\ MayCall
  /\ HasProtocolHandler(s)
  /\ handlers' = handlers \cup {s}
  /\ Post("InterceptProtocolInIO", s)
  /\ UNCHANGED misused

(* A scheme that the application has just unregistered passes both checks  *)
(* until UnregisterProtocolInIO has run.                                   *)
InterceptProtocol(s) ==
  /\ MayCall
  /\ HasProtocolHandler(s) /\ s \notin handlers
  /\ handlers' = handlers \cup {s}
  /\ Post("InterceptProtocolInIO", s)
  /\ UNCHANGED misused

UninterceptProtocol(s) ==
  /\ MayCall
  /\ s \in handlers
  /\ handlers' = handlers \ {s}
  /\ Post("UninterceptProtocolInIO", s)
  /\ misused' = misused \cup ({s} \ BuiltIn)

(* UI thread: its tasks, which wait while a handler runs.                  *)

EmitEventInUI ==
  /\ ~crashed /\ asked = {} /\ uiTasks # <<>> /\ Head(uiTasks).task \in Events
  /\ uiTasks' = Tail(uiTasks)
  /\ UNCHANGED <<handlers, factory, ioTasks, asked, job, crashed, missed, misused>>

(* GetJobTypeInUI, up to the call of the handler: a weak pointer, then a   *)
(* null callback if the scheme has no handler any more.                    *)
GetJobTypeInUI(r) ==
  /\ ~crashed /\ asked = {} /\ uiTasks # <<>> /\ Head(uiTasks) = JobTask("GetJobTypeInUI", r)
  /\ uiTasks' = Tail(uiTasks)
  /\ LET found == job[r].state = "asking" /\ job[r].scheme \in handlers IN
     /\ asked' = IF found THEN {r} ELSE {}
     /\ crashed' = (job[r].state = "asking" /\ ~found)
  /\ UNCHANGED <<handlers, factory, ioTasks, job, missed, misused>>

(* The IO thread may have deleted the job while the handler ran: what      *)
(* GetWeakPtr() then reads is freed memory.  A handler that throws returns *)
(* an empty value, which IsString() follows.                               *)
ResultUsed(r, answer) ==
  /\ crashed' \in CASE answer = "throws" -> {TRUE}
                    [] answer # "throws" /\ job[r].state = "asking" -> {FALSE}
                    [] OTHER -> BOOLEAN
  /\ UNCHANGED <<handlers, factory, uiTasks, job, missed, misused>>

(* Mutant: without a default handler nothing is posted.                    *)
HandlerReturnsNoError(r, answer) ==
  /\ ~crashed /\ r \in asked
  /\ asked' = {}
  /\ ioTasks' = IF answer = "throws" \/ job[r].state # "asking" THEN ioTasks
                ELSE CASE answer = "job" -> Append(ioTasks, JobTask("CreateJobAndStart", r))
                       [] answer = "nothing" /\ job[r].fallback > 0 ->
                            Append(ioTasks, JobTask("CreateJobFromProtocolHandlerAndStart", r))
                       [] OTHER -> ioTasks
  /\ ResultUsed(r, answer)

(* GetJobTypeInUI, from the return of the handler.                         *)
HandlerReturns(r, answer) ==
  /\ ~crashed /\ r \in asked
  /\ asked' = {}
  /\ ioTasks' = IF answer = "throws" \/ job[r].state # "asking" THEN ioTasks
                ELSE Append(ioTasks, JobTask(
                  CASE answer = "job" -> "CreateJobAndStart"
                    [] answer = "nothing" /\ job[r].fallback > 0 ->
                         "CreateJobFromProtocolHandlerAndStart"
                    [] OTHER -> "CreateErrorJobAndStart", r))
  /\ ResultUsed(r, answer)

-----------------------------------------------------------------------------
(* IO thread: the tasks that change the factory.                           *)

Event(e, s) == uiTasks' = Append(uiTasks, MapTask(e, s))

(* The handlers of s from height h up are deleted.                         *)
DeleteFrom(s, h) ==
  job' = [r \in Requests |->
            IF job[r] # NoJob /\ job[r].scheme = s /\ job[r].fallback >= h
              /\ job[r].fallback > 0
            THEN [job[r] EXCEPT !.freed = TRUE] ELSE job[r]]

(* SetProtocolHandler(NULL): a handler deletes the ones under it.          *)
UnregisterIn(s) ==
  /\ factory' = [factory EXCEPT ![s] = <<>>]
  /\ DeleteFrom(s, 1)
  /\ Event("unregistered", s)
  /\ UNCHANGED crashed

(* SetProtocolHandler does nothing where there is a handler already.       *)
RegisterIn(s) ==
  /\ factory' = [factory EXCEPT ![s] = IF @ = <<>> THEN <<"custom">> ELSE @]
  /\ Event("registered", s)
  /\ UNCHANGED <<job, crashed>>

InterceptIn(s) ==
  /\ factory' = [factory EXCEPT ![s] = IF @ = <<>> THEN @ ELSE Append(@, "custom")]
  /\ Event(IF HasProtocolHandler(s) THEN "intercepted" ELSE "error", s)
  /\ UNCHANGED <<job, crashed>>

(* Mutant: the custom handler is deleted with what it holds.               *)
UninterceptInDeletes(s) ==
  IF Len(factory[s]) > 1 /\ Top(factory[s]) = "custom" THEN
    /\ factory' = [factory EXCEPT ![s] = SubSeq(@, 1, Len(@) - 1)]
    /\ DeleteFrom(s, 1)
    /\ Event("unintercepted", s)
    /\ UNCHANGED crashed
  ELSE
    /\ crashed' = ~(HasProtocolHandler(s) /\ Top(factory[s]) = "custom")
    /\ Event("error", s)
    /\ UNCHANGED <<factory, job>>

(* The custom handler is deleted without the one it held.  Where the top   *)
(* one is not custom, or there is none, the cast is wrong.                 *)
UninterceptIn(s) ==
  IF Len(factory[s]) > 1 /\ Top(factory[s]) = "custom" THEN
    /\ factory' = [factory EXCEPT ![s] = SubSeq(@, 1, Len(@) - 1)]
    /\ DeleteFrom(s, Len(factory[s]))
    /\ Event("unintercepted", s)
    /\ UNCHANGED crashed
  ELSE
    /\ crashed' = ~(HasProtocolHandler(s) /\ Top(factory[s]) = "custom")
    /\ Event("error", s)
    /\ UNCHANGED <<factory, job>>

RunMapTask(s) ==
  /\ ~crashed /\ ioTasks # <<>> /\ Head(ioTasks).task \in MapTasks /\ Head(ioTasks).scheme = s
  /\ ioTasks' = Tail(ioTasks)
  /\ LET task == Head(ioTasks).task IN
     CASE task = "RegisterProtocolInIO" -> RegisterIn(s)
       [] task = "UnregisterProtocolInIO" -> UnregisterIn(s)
       [] task = "InterceptProtocolInIO" -> InterceptIn(s)
       [] task = "UninterceptProtocolInIO" -> UninterceptIn(s)
  /\ missed' = IF Head(ioTasks).task = "InterceptProtocolInIO" /\ ~HasProtocolHandler(s)
               THEN missed \cup {s} ELSE missed \ {s}
  /\ UNCHANGED <<handlers, asked, misused>>

(* IO thread: a job is made, started and killed.                           *)

(* MaybeCreateJobWithProtocolHandler makes the AdapterRequestJob of a      *)
(* custom handler, and net starts it.  What other handlers make does not   *)
(* come here.                                                              *)
StartRequest(r, s) ==
  /\ ~crashed /\ job[r] = NoJob
  /\ HasProtocolHandler(s) /\ Top(factory[s]) = "custom"
  /\ job' = [job EXCEPT ![r] = [state |-> "asking", scheme |-> s,
                                fallback |-> Len(factory[s]) - 1, freed |-> FALSE]]
  /\ uiTasks' = Append(uiTasks, JobTask("GetJobTypeInUI", r))
  /\ UNCHANGED <<handlers, factory, ioTasks, asked, crashed, missed, misused>>

(* The request is cancelled or done: its job is deleted.                   *)
Kill(r) ==
  /\ ~crashed /\ job[r] # NoJob /\ job[r].state # "gone"
  /\ job' = [job EXCEPT ![r].state = "gone"]
  /\ UNCHANGED <<handlers, factory, ioTasks, uiTasks, asked, crashed, missed, misused>>

(* The methods that make and start the real job, through a weak pointer.   *)
CreateJobAndStart(r) ==
  /\ ~crashed /\ ioTasks # <<>> /\ Head(ioTasks).task \in JobTasks /\ Head(ioTasks).request = r
  /\ ioTasks' = Tail(ioTasks)
  /\ IF job[r].state = "asking"
     THEN /\ job' = [job EXCEPT ![r].state = "started"]
          /\ crashed' = (Head(ioTasks).task = "CreateJobFromProtocolHandlerAndStart"
                           /\ job[r].freed)
     ELSE UNCHANGED <<job, crashed>>
  /\ UNCHANGED <<handlers, factory, uiTasks, asked, missed, misused>>

-----------------------------------------------------------------------------
UIThread == EmitEventInUI \/ \E r \in Requests : GetJobTypeInUI(r)
Answer(r) == \E answer \in {"job", "nothing", "throws"} : HandlerReturns(r, answer)
IOThread == (\E s \in Schemes : RunMapTask(s)) \/ (\E r \in Requests : CreateJobAndStart(r))

Next ==
  \/ \E s \in Schemes : RegisterProtocol(s)
  \/ \E s \in Schemes : UnregisterProtocol(s)
  \/ \E s \in Schemes : InterceptProtocol(s)
  \/ \E s \in Schemes : UninterceptProtocol(s)
  \/ UIThread
  \/ \E r \in Requests : Answer(r)
  \/ IOThread
  \/ \E r \in Requests, s \in Schemes : StartRequest(r, s)
  \/ \E r \in Requests : Kill(r)

(* Both threads run their tasks, and handlers return.                      *)
Fairness ==
  /\ WF_vars(UIThread)
  /\ WF_vars(\E r \in Requests : Answer(r))
  /\ WF_vars(IOThread)

Spec == Init /\ [][Next]_vars
FairSpec == Spec /\ Fairness

-----------------------------------------------------------------------------
IOTask == [task: MapTasks, scheme: Schemes] \cup [task: JobTasks, request: Requests]
UITask == [task: Events, scheme: Schemes] \cup [task: {"GetJobTypeInUI"}, request: Requests]

(* The types of the variables of both threads.                             *)
TypeOK ==
  /\ handlers \subseteq Schemes
  /\ factory \in [Schemes -> Layers]
  /\ ioTasks \in Seq(IOTask)
  /\ uiTasks \in Seq(UITask)
  /\ asked \subseteq Requests
  /\ job \in [Requests -> Jobs \cup {NoJob}]
  /\ crashed \in BOOLEAN
  /\ missed \subseteq Schemes /\ misused \subseteq Schemes

(* The i-th task changes whether the handler of s is a custom one.         *)
About(i, s) == i \in 1..Len(ioTasks) /\ ioTasks[i].task \in MapTasks /\ ioTasks[i].scheme = s
MakesCustom(i) == ioTasks[i].task \in {"RegisterProtocolInIO", "InterceptProtocolInIO"}
IsCustom(s) == HasProtocolHandler(s) /\ Top(factory[s]) = "custom"

(* Once the tasks that are posted have run, exactly the schemes that have  *)
(* a handler on the UI thread have a custom one in the factory, although   *)
(* every check is made on one thread and its effect comes later on the     *)
(* other: the last task about a scheme, or the factory where there is      *)
(* none, agrees with protocol_handlers_.  A scheme intercepted before its  *)
(* unregistration reached the IO thread is the exception: the task is      *)
(* refused, the scheme stays in protocol_handlers_ without a handler, and  *)
(* the application is told by an "error" event only.  A scheme that was    *)
(* ever taken away by the wrong call is not covered.                       *)
MapsAgree ==
  \A s \in Schemes \ misused :
    /\ (\A i \in 1..Len(ioTasks) : ~About(i, s)) =>
         (IsCustom(s) <=> s \in handlers \ missed)
    /\ \A i \in 1..Len(ioTasks) :
         About(i, s) /\ (\A j \in i+1..Len(ioTasks) : ~About(j, s))
           => (MakesCustom(i) <=> s \in handlers)

(* What a task finds in the factory when it runs.                          *)
Expected(task, s) ==
  CASE task = "RegisterProtocolInIO" -> <<>>
    [] task = "UnregisterProtocolInIO" -> IF s \in missed THEN <<>> ELSE <<"custom">>
    [] task = "InterceptProtocolInIO" -> IF s \in BuiltIn THEN <<"original">> ELSE <<>>
    [] task = "UninterceptProtocolInIO" -> <<"original", "custom">>

(* A task finds in the factory what the call that posted it relied on:     *)
(* nothing is registered twice or over a handler of the browser, nothing   *)
(* is taken away twice, and the browser's own handlers stay.  An           *)
(* interception of a scheme that the browser does not have never finds a   *)
(* handler, whatever HasProtocolHandler said, nor does the unregistration  *)
(* after it.  A scheme that was ever taken away by the wrong call is not   *)
(* covered.                                                                *)
TasksSucceed ==
  /\ ioTasks # <<>> /\ Head(ioTasks).task \in MapTasks
       /\ Head(ioTasks).scheme \notin misused =>
         factory[Head(ioTasks).scheme] = Expected(Head(ioTasks).task, Head(ioTasks).scheme)
  /\ \A s \in Schemes \ misused :
       factory[s] \in IF s \in BuiltIn THEN {<<"original">>, <<"original", "custom">>}
                                       ELSE {<<>>, <<"custom">>}

(* A job that has not been started can still fall back on the handler that *)
(* its own handler was laid over, although uninterceptProtocol may have    *)
(* deleted its own handler since: unless the application has taken its     *)
(* scheme away by the wrong call, unregisterProtocol of an intercepted     *)
(* scheme, which deletes the handler of the browser too.                   *)
FallbackAlive ==
  \A r \in Requests : job[r] # NoJob /\ job[r].scheme \notin misused => ~job[r].freed

(* A request is answered: by the job its handler chose, by the original    *)
(* handler or by an error, unless it is cancelled or the process crashed:  *)
(* by the null callback of a scheme that was taken away before the UI      *)
(* thread got to the request, by a handler that threw, or by a job that    *)
(* was deleted while its handler ran.                                      *)
RequestsAnswered ==
  \A r \in Requests :
    (job[r] # NoJob /\ job[r].state = "asking")
      ~> (crashed \/ job[r].state \in {"started", "gone"})

=============================================================================
