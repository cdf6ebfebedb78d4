------------------------------- MODULE Speech -------------------------------
(***************************************************************************)
(* Text to speech (on Linux).                                              *)
(*                                                                         *)
(*   renderer/tts_dispatcher.cc             the utterances of a page       *)
(*   browser/speech/tts_message_filter.cc   from and to that page          *)
(*   browser/speech/tts_controller_impl.cc  one utterance at a time        *)
(*   browser/speech/tts_linux.cc            the connection to speechd      *)
(*                                                                         *)
(* (all under chromium_src/chrome).  All pages share one controller.  The  *)
(* notifications of speechd come on a thread of its own, which posts them  *)
(* to the UI thread without the utterance they are about.                  *)
(***************************************************************************)
EXTENDS Naturals, Sequences, FiniteSets

CONSTANTS
  Pages,          \* pages with a TtsDispatcher
  MaxUtterances,  \* bounds the utterances
  MaxCommands,    \* bounds the calls of pause, resume and cancel
  MaxFaults       \* bounds the calls of speechd that fail and the crashes

ASSUME SpeechAssumption ==
  MaxUtterances \in Nat /\ MaxCommands \in Nat /\ MaxFaults \in Nat

VARIABLES
  pages,          \* the pages: alive, utterance_id_map_
  toController,   \* messages of each page
  toPage,         \* events on their way: each page gets its own in this order
  tts,            \* the controller, and utterance_id_ of the platform
  speechd,        \* what the connection was asked to say, and the last
                  \* notification (current_notification_)
  connection,     \* conn_: "unopened", "open", "deaf" (opened again, nothing
                  \* asks it to notify) or "lost" (not opened again)
  tasks,          \* notifications posted to the UI thread
  asked,          \* auxiliary: how many utterances there were
  commands,       \* auxiliary: calls of pause, resume and cancel
  cancels,        \* auxiliary: how many of them were cancel
  faults          \* auxiliary: how many faults there were

counts == <<asked, commands, cancels>>
vars == <<pages, toController, toPage, tts, speechd, connection, tasks, counts, faults>>

None == <<>>
Owner(u) == u[1]

Init ==
  /\ pages = [p \in Pages |-> [alive |-> TRUE, known |-> {}]]
  /\ toController = [p \in Pages |-> <<>>]
  /\ toPage = <<>>
  /\ tts = [current |-> None, queue |-> <<>>, paused |-> FALSE, platform |-> None]
  /\ speechd = [said |-> <<>>, notified |-> "end"]
  /\ connection = "unopened"
  /\ tasks = <<>>
  /\ asked = 0 /\ commands = 0 /\ cancels = 0 /\ faults = 0

-----------------------------------------------------------------------------
(* A page: TtsDispatcher.                                                  *)

Send(p, type, u) ==
  toController' = [toController EXCEPT ![p] = Append(@, [type |-> type, u |-> u])]

PageSpeaks(p) ==
  /\ pages[p].alive /\ asked < MaxUtterances
  /\ asked' = asked + 1
  /\ pages' = [pages EXCEPT ![p].known = @ \cup {<<p, asked'>>}]
  /\ Send(p, "speak", <<p, asked'>>)
  /\ UNCHANGED <<toPage, tts, speechd, connection, tasks, commands, cancels, faults>>

PageCommands(p) ==
  /\ pages[p].alive /\ commands < MaxCommands
  /\ commands' = commands + 1
  /\ \E type \in {"pause", "resume", "cancel"} :
       /\ Send(p, type, None)
       /\ cancels' = IF type = "cancel" THEN cancels + 1 ELSE cancels
  /\ UNCHANGED <<pages, toPage, tts, speechd, connection, tasks, asked, faults>>

Final(type) == type \in {"end", "interrupted", "cancelled", "error"}

Without(s, i) == [j \in 1..Len(s) - 1 |-> IF j < i THEN s[j] ELSE s[j + 1]]

(* The handlers of OnControlMessageReceived: FindUtterance, and after the  *)
(* last event of an utterance it is taken off the map.                     *)
PageReceives(p) ==
  /\ pages[p].alive
  /\ \E i \in 1..Len(toPage) :
       LET e == toPage[i] IN
       /\ Owner(e.u) = p /\ \A j \in 1..i - 1 : Owner(toPage[j].u) # p
       /\ toPage' = Without(toPage, i)
       /\ pages' = [pages EXCEPT ![p].known = IF Final(e.type) THEN @ \ {e.u} ELSE @]
  /\ UNCHANGED <<toController, tts, speechd, connection, tasks, counts, faults>>

(* What the page has sent still arrives; what was sent to it does not, nor *)
(* what is sent when it has no channel.                                    *)
PageCrashes(p) ==
  /\ pages[p].alive /\ faults < MaxFaults
  /\ faults' = faults + 1
  /\ pages' = [pages EXCEPT ![p].alive = FALSE, ![p].known = {}]
  /\ UNCHANGED <<toController, toPage, tts, speechd, connection, tasks, counts>>

-----------------------------------------------------------------------------
(* The controller.  What its functions do is a function of its state       *)
(* s = [tts, toPage, speechd].                                             *)

State == [tts |-> tts, toPage |-> toPage, speechd |-> speechd]
Become(s) == tts' = s.tts /\ toPage' = s.toPage /\ speechd' = s.speechd

(* Utterance::OnTtsEvent of each of a sequence of utterances, which the    *)
(* filter passes on to the page of each.                                   *)
Events(us, type) == [i \in 1..Len(us) |-> [type |-> type, u |-> us[i]]]
Tell(s, us, type) == [s EXCEPT !.toPage = @ \o Events(us, type)]

(* PlatformImplAvailable.                                                  *)
Available(c) == c \in {"open", "deaf"}

(* Initialize, on the file thread.  If it cannot load the library or open  *)
(* the connection, that stays as it is.                                    *)
Initialize ==
  /\ connection = "unopened"
  /\ connection' = "open"
  /\ UNCHANGED <<pages, toController, toPage, tts, speechd, tasks, counts, faults>>

(* failed of the calls to speechd fail, each of which Reset()s the         *)
(* connection: it is opened again, or cannot be, and what Initialize did   *)
(* to be notified is not done again.                                       *)
Calls(failed) ==
  /\ faults + failed <= MaxFaults /\ faults' = faults + failed
  /\ IF failed = 0 THEN UNCHANGED connection
     ELSE Available(connection) /\ connection' \in {"deaf", "lost"}

Reset(s) == [s EXCEPT !.speechd.said = <<>>]

(* TtsPlatformImplLinux::Speak.                                            *)
Say(s, u) ==
  [s EXCEPT !.tts.current = u, !.tts.platform = u,
            !.speechd.said = Append(@, [u |-> u, begun |-> FALSE, paused |-> FALSE,
                                        stopped |-> FALSE])]

(* It returns false: the first failed of us were refused by speechd, for   *)
(* the others there was no connection.                                     *)
Refuse(s, us, failed) ==
  LET r == Tell(s, us, "error") IN
  IF failed = 0 THEN r ELSE Reset([r EXCEPT !.tts.platform = us[failed]])

(* StopSpeaking, which may fail.                                           *)
StopSpeaking(s, failed) ==
  IF failed > 0 THEN Reset(s)
  ELSE [s EXCEPT !.speechd.said = [i \in 1..Len(@) |-> [@[i] EXCEPT !.stopped = TRUE]]]

(* Mutant: ClearUtteranceQueue(false).                                     *)
ClearUtteranceQueueSilently(s) == [s EXCEPT !.tts.queue = <<>>]

ClearUtteranceQueue(s) == [Tell(s, s.tts.queue, "cancelled") EXCEPT !.tts.queue = <<>>]

(* Mutant: the event is sent whether the utterance has finished or not.    *)
FinishCurrentUtteranceAgain(s) ==
  IF s.tts.current = None THEN s
  ELSE [Tell(s, <<s.tts.current>>, "interrupted") EXCEPT !.tts.current = None]

(* FinishCurrentUtterance, of one that has finished.                       *)
FinishCurrentUtterance(s) == [s EXCEPT !.tts.current = None]

Stop(s, failed) ==
  LET r == StopSpeaking([s EXCEPT !.tts.paused = FALSE], failed)
      t == IF r.tts.current = None THEN r ELSE Tell(r, <<r.tts.current>>, "interrupted")
  IN ClearUtteranceQueue(FinishCurrentUtterance(t))

(* Mutant: the loop goes on although an utterance is being spoken.         *)
SpeakNextUtteranceAll(s, k, failed) ==
  LET rest == SubSeq(s.tts.queue, k + 1, Len(s.tts.queue))
      r == Refuse([s EXCEPT !.tts.queue = <<>>], SubSeq(s.tts.queue, 1, k), failed)
      Last == rest[Len(rest)]
  IN IF s.tts.paused THEN s
     ELSE IF rest = <<>> THEN r
     ELSE IF Len(rest) = 1 THEN Say(r, Last)
     ELSE Say(Say(r, Head(rest)), Last)

(* Mutant: it does not try again when one fails.                           *)
SpeakNextUtteranceOnce(s, k, failed) ==
  LET q == s.tts.queue IN
  IF s.tts.paused \/ q = <<>> THEN s
  ELSE IF k = 0 THEN Say([s EXCEPT !.tts.queue = Tail(q)], Head(q))
  ELSE Refuse([s EXCEPT !.tts.queue = Tail(q)], <<Head(q)>>, IF failed > 0 THEN 1 ELSE 0)

(* SpeakNextUtterance when k utterances are refused, failed of them by     *)
(* speechd.                                                                *)
SpeakNextUtterance(s, k, failed) ==
  LET rest == SubSeq(s.tts.queue, k + 1, Len(s.tts.queue))
      r == Refuse([s EXCEPT !.tts.queue = <<>>], SubSeq(s.tts.queue, 1, k), failed)
  IN IF s.tts.paused THEN s
     ELSE IF rest = <<>> THEN r
     ELSE Say([r EXCEPT !.tts.queue = Tail(rest)], Head(rest))

(* The step: what speechd does not refuse is said, if there is a           *)
(* connection; without one the rest of the queue is refused as well.       *)
Continue(s) ==
  \E failed \in 0..(IF s.tts.paused THEN 0 ELSE Len(s.tts.queue)) :
    /\ Calls(failed)
    /\ Become(SpeakNextUtterance(s, IF Available(connection') THEN failed
                                    ELSE Len(s.tts.queue), failed))

IsSpeaking == tts.current # None \/ speechd.notified = "begin"

(* OnSpeak and SpeakOrEnqueue: can_enqueue is always set.                  *)
SpeakOrEnqueue(u) ==
  \/ /\ tts.paused \/ IsSpeaking
     /\ Become([State EXCEPT !.tts.queue = Append(@, u)])
     /\ UNCHANGED <<connection, faults>>
  \/ /\ ~tts.paused /\ ~IsSpeaking
     /\ \E stops \in 0..1, says \in 0..1 :
          /\ Calls(stops + says)
          /\ LET s == Stop(State, stops) IN
             Become(IF says = 0 /\ Available(connection') THEN Say(s, u)
                    ELSE Refuse(s, <<u>>, says))

Held(said, paused) == [i \in 1..Len(said) |-> [said[i] EXCEPT !.paused = paused]]

Pause ==
  /\ Become([State EXCEPT !.tts.paused = TRUE,
               !.speechd.said = IF tts.current = None THEN @ ELSE Held(@, TRUE)])
  /\ UNCHANGED <<connection, faults>>

Resume ==
  LET s == [State EXCEPT !.tts.paused = FALSE] IN
  \/ /\ tts.current # None
     /\ Become([s EXCEPT !.speechd.said = Held(@, FALSE)])
     /\ UNCHANGED <<connection, faults>>
  \/ /\ tts.current = None
     /\ Continue(s)

(* OnMessageReceived of the filter.                                        *)
OnMessageReceived(p) ==
  /\ toController[p] # <<>>
  /\ toController' = [toController EXCEPT ![p] = Tail(@)]
  /\ LET m == Head(toController[p]) IN
     \/ m.type = "speak" /\ SpeakOrEnqueue(m.u)
     \/ m.type = "pause" /\ Pause
     \/ m.type = "resume" /\ Resume
     \/ m.type = "cancel" /\ \E stops \in 0..1 : Calls(stops) /\ Become(Stop(State, stops))
  /\ UNCHANGED <<pages, tasks, counts>>

(* OnSpeechEvent and the controller's OnTtsEvent: whichever utterance the  *)
(* notification was about, it gets the id of the one said last.            *)
OnTtsEvent(type) ==
  LET r == Tell(State, <<tts.current>>, type) IN
  \/ /\ tts.current = None \/ tts.current # tts.platform
     /\ UNCHANGED <<tts, toPage, speechd, connection, faults>>
  \/ /\ tts.current # None /\ tts.current = tts.platform /\ ~Final(type)
     /\ Become(r)
     /\ UNCHANGED <<connection, faults>>
  \/ /\ tts.current # None /\ tts.current = tts.platform /\ Final(type)
     /\ Continue(FinishCurrentUtterance(r))

OnSpeechEvent ==
  /\ tasks # <<>>
  /\ tasks' = Tail(tasks)
  /\ OnTtsEvent(Head(tasks))
  /\ UNCHANGED <<pages, toController, counts>>

-----------------------------------------------------------------------------
(* speechd says one utterance after the other and notifies of each, if it  *)
(* was asked to; an utterance that was stopped before it began may end     *)
(* without.                                                                *)

Notify(type, said) ==
  /\ connection = "open"
  /\ speechd' = [said |-> said, notified |-> type]
  /\ tasks' = Append(tasks, type)
  /\ UNCHANGED <<pages, toController, toPage, tts, connection, counts, faults>>

Said == Head(speechd.said)
Speaking == speechd.said # <<>> /\ Said.begun

Begins == /\ speechd.said # <<>> /\ ~Said.begun /\ ~Said.paused /\ ~Said.stopped
          /\ Notify("begin", [speechd.said EXCEPT ![1].begun = TRUE])
Ends == Speaking /\ speechd.notified # "pause" /\ Notify("end", Tail(speechd.said))
Pauses == Speaking /\ Said.paused /\ speechd.notified # "pause" /\ Notify("pause", speechd.said)
Resumes == Speaking /\ ~Said.paused /\ speechd.notified = "pause" /\ Notify("resume", speechd.said)
Cancels == speechd.said # <<>> /\ Said.stopped /\ Notify("cancelled", Tail(speechd.said))

Unheard ==
  /\ speechd' = [speechd EXCEPT !.said = Tail(@)]
  /\ UNCHANGED <<pages, toController, toPage, tts, connection, tasks, counts, faults>>

Drops == speechd.said # <<>> /\ Said.stopped /\ ~Said.begun /\ Unheard
EndsUnheard ==
  /\ connection = "deaf" /\ speechd.said # <<>> /\ (Said.stopped \/ ~Said.paused)
  /\ Unheard

Dispatcher == Begins \/ Ends \/ Pauses \/ Resumes \/ Cancels \/ Drops \/ EndsUnheard

-----------------------------------------------------------------------------
Next ==
  \/ \E p \in Pages : PageSpeaks(p)
  \/ \E p \in Pages : PageCommands(p)
  \/ \E p \in Pages : PageReceives(p)
  \/ \E p \in Pages : PageCrashes(p)
  \/ \E p \in Pages : OnMessageReceived(p)
  \/ OnSpeechEvent
  \/ Initialize
  \/ Dispatcher

(* Messages and tasks are delivered, and speechd speaks.                   *)
Fairness ==
  /\ \A p \in Pages : WF_vars(PageReceives(p)) /\ WF_vars(OnMessageReceived(p))
  /\ WF_vars(OnSpeechEvent)
  /\ WF_vars(Dispatcher)

Spec == Init /\ [][Next]_vars
FairSpec == Spec /\ Fairness

-----------------------------------------------------------------------------
Ran(s) == {s[i] : i \in 1..Len(s)}
EventsFor(p) == {e \in Ran(toPage) : Owner(e.u) = p /\ pages[p].alive}
Asked(p) == {m.u : m \in Ran(toController[p])}

(* Every event on its way to a page finds its utterance in the map, and    *)
(* the last event of an utterance comes once and last: whether it ended,   *)
(* was interrupted, cancelled or refused.                                  *)
EventsFindUtterance ==
  \A i \in 1..Len(toPage) :
    LET e == toPage[i] IN
    /\ pages[Owner(e.u)].alive => e.u \in pages[Owner(e.u)].known
    /\ Final(e.type) => \A j \in i + 1..Len(toPage) : toPage[j].u # e.u

(* An utterance that the page waits for is with the controller or on its   *)
(* way, exactly until its last event was sent.                             *)
NothingForgotten ==
  \A p \in Pages : \A u \in pages[p].known :
    (u \in Asked(p) \cup Ran(tts.queue) \cup {tts.current})
      <=> ~ \E e \in EventsFor(p) : e.u = u /\ Final(e.type)

(* If no page cancels, speechd has one utterance at a time, the one the    *)
(* controller thinks it has.                                               *)
OneVoice ==
  cancels = 0 =>
    /\ Len(speechd.said) <= 1
    /\ speechd.said # <<>> => Said.u = tts.current

(* If no page cancels, a page that lives hears the end of all it asked to  *)
(* be said, as soon as nothing is paused any more: also of what was asked  *)
(* while it was paused, before there was a connection or after it was      *)
(* lost.  The exception is a connection that Reset() opened again after    *)
(* speechd refused an utterance or to stop: it does not notify, so that    *)
(* what is said over it stays the current utterance, and all behind it     *)
(* waits, until a page cancels.                                            *)
UtterancesFinish ==
  []<>(\/ cancels > 0 \/ tts.paused
       \/ connection = "deaf" /\ tts.current # None
       \/ \A p \in Pages : pages[p].known = {})

(* "We may sometimes receive completion callbacks late, after we've        *)
(* already finished the utterance" and "can safely just ignore these       *)
(* events": no page hears the end of an utterance that speechd still has   *)
(* to say.  It is not so.                                                  *)
LateEventsIgnored ==
  \A p \in Pages : \A e \in EventsFor(p) :
    e.type = "end" => \A i \in 1..Len(speechd.said) :
                        speechd.said[i].u = e.u => speechd.said[i].stopped
=============================================================================
