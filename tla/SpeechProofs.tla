---------------------------- MODULE SpeechProofs ----------------------------
(***************************************************************************)
(* What the functions of the speech controller do with utterances: none is *)
(* lost, none is there twice, and each ends once.  Then the invariants of  *)
(* Speech, which follow from that.                                         *)
(***************************************************************************)
EXTENDS Speech, SequenceTheorems, TLAPS

Utterance == Pages \X Nat
Notes     == {"begin", "end", "pause", "resume", "cancelled"}
Event     == [type : Notes \cup {"interrupted", "error"}, u : Utterance]
Message   == [type : {"speak"}, u : Utterance]
               \cup [type : {"pause", "resume", "cancel"}, u : {None}]
Saying    == [u : Utterance, begun : BOOLEAN, paused : BOOLEAN, stopped : BOOLEAN]

TtsState     == [current : Utterance \cup {None}, queue : Seq(Utterance),
                 paused : BOOLEAN, platform : Utterance \cup {None}]
Connections  == {"unopened", "open", "deaf", "lost"}
SpeechdState == [said : Seq(Saying), notified : Notes]
Controller   == [tts : TtsState, toPage : Seq(Event), speechd : SpeechdState]

TypeOK ==
  /\ pages \in [Pages -> [alive : BOOLEAN, known : SUBSET Utterance]]
  /\ toController \in [Pages -> Seq(Message)]
  /\ State \in Controller
  /\ tasks \in Seq(Notes) /\ connection \in Connections
  /\ asked \in Nat /\ commands \in Nat /\ cancels \in Nat /\ faults \in Nat

-----------------------------------------------------------------------------
(* The utterances whose last event is on its way, and all that the         *)
(* controller has or had and the pages have not heard the end of.          *)
Ended(events) == {e.u : e \in {f \in Ran(events) : Final(f.type)}}
Contents(s) == Ran(s.tts.queue) \cup ({s.tts.current} \ {None}) \cup Ended(s.toPage)

(* Events are about the utterances C, or about others that end with their   *)
(* last event.                                                             *)
Settled(events, C) ==
  \A i \in 1..Len(events) :
    /\ events[i].u \in C \cup Ended(events)
    /\ Final(events[i].type) => \A j \in i + 1..Len(events) : events[j].u # events[i].u

Distinct(us) == \A i, j \in 1..Len(us) : i # j => us[i] # us[j]

(* Each of them is in one place, and its last event is its last.           *)
Whole(s) ==
  /\ Distinct(s.tts.queue)
  /\ s.tts.current \notin Ran(s.tts.queue)
  /\ (Ran(s.tts.queue) \cup {s.tts.current}) \cap Ended(s.toPage) = {}
  /\ Settled(s.toPage, {s.tts.current})

Spoken(q) == {m.u : m \in {n \in Ran(q) : n.type = "speak"}}

(* A page's messages are about utterances of its own, the first n, which   *)
(* are not in C.                                                           *)
Fresh(q, p, n, C) ==
  \A i \in 1..Len(q) :
    q[i].type = "speak" =>
      /\ Owner(q[i].u) = p /\ q[i].u[2] <= n /\ q[i].u \notin C
      /\ \A j \in i + 1..Len(q) : q[j].u # q[i].u

(* What is on its way to the controller is new to it.                      *)
MessagesInv ==
  /\ \A p \in Pages : Fresh(toController[p], p, asked, Contents(State))
  /\ \A u \in Contents(State) : u \in Utterance /\ u[2] <= asked

(* A page waits for what it has sent and for what the controller has.      *)
KnownInv ==
  \A p \in Pages :
    pages[p].known = IF pages[p].alive
                     THEN {u \in Spoken(toController[p]) \cup Contents(State) : Owner(u) = p}
                     ELSE {}

UtteranceInv == Whole(State) /\ MessagesInv /\ KnownInv

(* What the notifications on their way say of an utterance: that it ended  *)
(* is the last of them, and the controller goes on when it gets it.        *)
Heard(s, notes) ==
  /\ \A i \in 1..Len(notes) : notes[i] # "cancelled"
  /\ \A i \in 1..Len(notes) : notes[i] = "end" => i = Len(notes) /\ s.speechd.said = <<>>
  /\ s.speechd.said = <<>> =>
       /\ s.speechd.notified = "end"
       /\ IF s.tts.current = None THEN notes = <<>>
          ELSE notes # <<>> /\ notes[Len(notes)] = "end"
  /\ s.speechd.said # <<>> =>
       /\ Len(s.speechd.said) = 1 /\ s.tts.current # None
       /\ s.speechd.said[1].u = s.tts.current /\ ~s.speechd.said[1].stopped

(* Over a connection that does not notify nothing is on its way.           *)
Silence(s, notes) ==
  /\ notes = <<>> /\ s.speechd.notified = "end"
  /\ s.speechd.said # <<>> =>
       /\ Len(s.speechd.said) = 1 /\ s.tts.current # None
       /\ s.speechd.said[1].u = s.tts.current /\ ~s.speechd.said[1].stopped

VoiceOf(s, notes, c) == IF c = "deaf" THEN Silence(s, notes) ELSE Heard(s, notes)

VoiceInv ==
  /\ tts.current # None => tts.platform = tts.current
  /\ cancels = 0 =>
       /\ \A p \in Pages : \A i \in 1..Len(toController[p]) : toController[p][i].type # "cancel"
       /\ VoiceOf(State, tasks, connection)


-----------------------------------------------------------------------------
(* Sequences.                                                              *)

LEMMA NoneIsNone == None \notin Utterance
  BY DEF None, Utterance

LEMMA RanAppend ==
  ASSUME NEW S, NEW s \in Seq(S), NEW x \in S
  PROVE  Ran(Append(s, x)) = Ran(s) \cup {x}
<1>1. Len(Append(s, x)) = Len(s) + 1 /\ Len(s) \in Nat
  OBVIOUS
<1>2. \A i \in 1..Len(s) : Append(s, x)[i] = s[i]
  OBVIOUS
<1>3. Append(s, x)[Len(s) + 1] = x
  OBVIOUS
<1>. QED
  BY <1>1, <1>2, <1>3 DEF Ran

LEMMA RanTail ==
  ASSUME NEW S, NEW s \in Seq(S), s # <<>>, Distinct(s)
  PROVE  /\ Ran(s) = {Head(s)} \cup Ran(Tail(s))
         /\ Head(s) \notin Ran(Tail(s)) /\ Distinct(Tail(s))
<1>1. Len(Tail(s)) = Len(s) - 1 /\ Len(s) \in Nat \ {0} /\ Head(s) = s[1]
  OBVIOUS
<1>2. \A i \in 1..Len(s) - 1 : Tail(s)[i] = s[i + 1]
  OBVIOUS
<1>3. \A i \in 2..Len(s) : i - 1 \in 1..Len(s) - 1 /\ Tail(s)[i - 1] = s[i]
  BY <1>1, <1>2
<1>4. Ran(s) = {Head(s)} \cup Ran(Tail(s))
  <2>1. ASSUME NEW i \in 1..Len(s) PROVE s[i] = s[1] \/ \E j \in 1..Len(Tail(s)) : Tail(s)[j] = s[i]
    BY <1>1, <1>3
  <2>. QED
    BY <2>1, <1>1, <1>2 DEF Ran
<1>. QED
  BY <1>1, <1>2, <1>4 DEF Ran, Distinct

(* The last event of each of a sequence of utterances is sent: those that  *)
(* were open are in D or among them.                                       *)
LEMMA Finish ==
  ASSUME NEW events \in Seq(Event), NEW C, NEW D, NEW us \in Seq(Utterance),
         NEW type \in {"end", "interrupted", "cancelled", "error"},
         Settled(events, C), Distinct(us), Ran(us) \cap Ended(events) = {},
         C \subseteq D \cup Ran(us)
  PROVE  /\ events \o Events(us, type) \in Seq(Event)
         /\ Ended(events \o Events(us, type)) = Ended(events) \cup Ran(us)
         /\ Settled(events \o Events(us, type), D)
<1> DEFINE new == Events(us, type)
           all == events \o new
<1> USE DEF Events
<1>1. new \in Seq(Event) /\ Len(new) = Len(us) /\ Len(us) \in Nat /\ Len(events) \in Nat
  BY DEF Event, Notes
<1>2. all \in Seq(Event) /\ Len(all) = Len(events) + Len(us)
  BY <1>1
<1>3. \A i \in 1..Len(events) : all[i] = events[i]
  BY <1>1
<1>4. \A i \in 1..Len(all) : i \notin 1..Len(events) =>
        /\ i - Len(events) \in 1..Len(us)
        /\ all[i].u = us[i - Len(events)] /\ all[i].type = type
  BY <1>1, <1>2
<1>5. \A j \in 1..Len(us) : Len(events) + j \in 1..Len(all) /\ all[Len(events) + j].u = us[j]
                           /\ all[Len(events) + j].type = type
  BY <1>1, <1>2
<1> HIDE DEF new, all, Events
<1>6. Ended(all) = Ended(events) \cup Ran(us)
  <2>1. ASSUME NEW e \in Ended(all) PROVE e \in Ended(events) \cup Ran(us)
    <3>1. PICK i \in 1..Len(all) : e = all[i].u /\ Final(all[i].type)
      BY DEF Ended, Ran
    <3>2. CASE i \in 1..Len(events)
      BY <3>1, <3>2, <1>3 DEF Ended, Ran
    <3>3. CASE i \notin 1..Len(events)
      BY <3>1, <3>3, <1>4 DEF Ran
    <3>. QED
      BY <3>2, <3>3
  <2>2. ASSUME NEW e \in Ended(events) PROVE e \in Ended(all)
    <3>1. PICK i \in 1..Len(events) : e = events[i].u /\ Final(events[i].type)
      BY DEF Ended, Ran
    <3>2. i \in 1..Len(all) /\ all[i] = events[i]
      BY <1>1, <1>2, <1>3
    <3>. QED
      BY <3>1, <3>2 DEF Ended, Ran
  <2>3. ASSUME NEW e \in Ran(us) PROVE e \in Ended(all)
    <3>1. PICK j \in 1..Len(us) : e = us[j]
      BY DEF Ran
    <3>2. PICK i \in 1..Len(all) : all[i].u = e /\ Final(all[i].type)
      BY <3>1, <1>5 DEF Final
    <3>. QED
      BY <3>2 DEF Ended, Ran
  <2>. QED
    BY <2>1, <2>2, <2>3
<1>7. Settled(all, D)
  <2>. SUFFICES ASSUME NEW i \in 1..Len(all)
                PROVE  /\ all[i].u \in D \cup Ended(all)
                       /\ Final(all[i].type) =>
                            \A j \in i + 1..Len(all) : all[j].u # all[i].u
    BY DEF Settled
  <2>1. CASE i \in 1..Len(events)
    <3>1. all[i] = events[i]
      BY <2>1, <1>3
    <3>2. all[i].u \in D \cup Ended(all)
      BY <2>1, <3>1, <1>6 DEF Settled
    <3>3. ASSUME Final(all[i].type), NEW j \in i + 1..Len(all) PROVE all[j].u # all[i].u
      <4>1. events[i].u \in Ended(events)
        BY <2>1, <3>1, <3>3 DEF Ended, Ran
      <4>2. CASE j \in 1..Len(events)
        <5>1. j \in i + 1..Len(events)
          BY <4>2, <2>1
        <5>. QED
          BY <5>1, <4>2, <2>1, <3>1, <3>3, <1>3 DEF Settled
      <4>3. CASE j \notin 1..Len(events)
        <5>1. j \in 1..Len(all)
          BY <1>2, <1>1
        <5>. QED
          BY <4>1, <5>1, <4>3, <1>4, <3>1 DEF Ran
      <4>. QED
        BY <4>2, <4>3
    <3>. QED
      BY <3>2, <3>3
  <2>2. CASE i \notin 1..Len(events)
    <3>1. i - Len(events) \in 1..Len(us)
      BY <2>2, <1>4
    <3>2. all[i].u = us[i - Len(events)]
      BY <2>2, <1>4
    <3>3. all[i].u \in Ended(all)
      BY <3>1, <3>2, <1>6 DEF Ran
    <3>4. ASSUME NEW j \in i + 1..Len(all) PROVE all[j].u # all[i].u
      <4>1. j \in 1..Len(all) /\ j \notin 1..Len(events) /\ j - Len(events) # i - Len(events)
        BY <2>2, <1>1, <1>2
      <4>2. j - Len(events) \in 1..Len(us) /\ all[j].u = us[j - Len(events)]
        BY <4>1, <1>4
      <4>. QED
        BY <3>1, <4>1, <4>2, <3>2 DEF Distinct
    <3>. QED
      BY <3>3, <3>4
  <2>. QED
    BY <2>1, <2>2
<1>. QED
  BY <1>2, <1>6, <1>7 DEF all, new

LEMMA Inform ==
  ASSUME NEW events \in Seq(Event), NEW u \in Utterance,
         NEW type \in {"begin", "pause", "resume"},
         Settled(events, {u}), u \notin Ended(events)
  PROVE  LET all == events \o Events(<<u>>, type) IN
         all \in Seq(Event) /\ Ended(all) = Ended(events) /\ Settled(all, {u})
<1> DEFINE new == Events(<<u>>, type)
           all == events \o new
<1>1. new \in Seq(Event) /\ Len(new) = 1 /\ new[1] = [type |-> type, u |-> u]
  BY DEF Event, Notes, Events
<1>2. all \in Seq(Event) /\ Len(all) = Len(events) + 1 /\ Len(events) \in Nat
  <2>1. Len(events) \in Nat /\ Len(new) \in Nat
    BY <1>1
  <2> HIDE DEF new
  <2>2. all \in Seq(Event)
    BY <1>1
  <2>3. Len(all) = Len(events) + Len(new)
    BY <1>1, <2>1, ConcatProperties
  <2>. QED
    BY <1>1, <2>1, <2>2, <2>3
<1>3. \A i \in 1..Len(events) : all[i] = events[i]
  BY <1>1
<1>4. all[Len(events) + 1] = [type |-> type, u |-> u]
  BY <1>1
<1> HIDE DEF new, all
<1>5. ~Final(all[Len(events) + 1].type) /\ all[Len(events) + 1].u = u
  BY <1>4 DEF Final
<1>6. \A i \in 1..Len(all) : i \in 1..Len(events) \/ i = Len(events) + 1
  BY <1>2
<1>7. Ended(all) = Ended(events)
  <2>1. ASSUME NEW e \in Ended(all) PROVE e \in Ended(events)
    <3>1. PICK i \in 1..Len(all) : e = all[i].u /\ Final(all[i].type)
      BY DEF Ended, Ran
    <3>2. i \in 1..Len(events)
      BY <3>1, <1>5, <1>6
    <3>. QED
      BY <3>1, <3>2, <1>3 DEF Ended, Ran
  <2>2. ASSUME NEW e \in Ended(events) PROVE e \in Ended(all)
    <3>1. PICK i \in 1..Len(events) : e = events[i].u /\ Final(events[i].type)
      BY DEF Ended, Ran
    <3>2. i \in 1..Len(all) /\ all[i] = events[i]
      BY <1>2, <1>3
    <3>. QED
      BY <3>1, <3>2 DEF Ended, Ran
  <2>. QED
    BY <2>1, <2>2
<1>8. Settled(all, {u})
  <2>. SUFFICES ASSUME NEW i \in 1..Len(all)
                PROVE  /\ all[i].u \in {u} \cup Ended(all)
                       /\ Final(all[i].type) =>
                            \A j \in i + 1..Len(all) : all[j].u # all[i].u
    BY DEF Settled
  <2>1. CASE i = Len(events) + 1
    BY <2>1, <1>5
  <2>2. CASE i \in 1..Len(events)
    <3>1. all[i] = events[i]
      BY <2>2, <1>3
    <3>2. ASSUME Final(all[i].type), NEW j \in i + 1..Len(all) PROVE all[j].u # all[i].u
      <4>1. events[i].u \in Ended(events)
        BY <2>2, <3>1, <3>2 DEF Ended, Ran
      <4>2. j \in i + 1..Len(events) \/ j = Len(events) + 1
        BY <2>2, <1>2
      <4>. QED
        BY <4>1, <4>2, <3>1, <3>2, <1>3, <1>5, <2>2 DEF Settled
    <3>. QED
      BY <3>1, <3>2, <2>2, <1>7 DEF Settled
  <2>. QED
    BY <2>1, <2>2, <1>6
<1>. QED
  BY <1>2, <1>7, <1>8 DEF new, all

-----------------------------------------------------------------------------
(* The functions of the controller.                                        *)

LEMMA SetTts ==
  ASSUME NEW s \in Controller, NEW x \in TtsState
  PROVE  /\ [s EXCEPT !.tts = x] \in Controller /\ [s EXCEPT !.tts = x].tts = x
         /\ [s EXCEPT !.tts = x].toPage = s.toPage /\ [s EXCEPT !.tts = x].speechd = s.speechd
  BY DEF Controller

LEMMA SetToPage ==
  ASSUME NEW s \in Controller, NEW x \in Seq(Event)
  PROVE  /\ [s EXCEPT !.toPage = x] \in Controller /\ [s EXCEPT !.toPage = x].toPage = x
         /\ [s EXCEPT !.toPage = x].tts = s.tts /\ [s EXCEPT !.toPage = x].speechd = s.speechd
  BY DEF Controller

LEMMA SetSpeechd ==
  ASSUME NEW s \in Controller, NEW x \in SpeechdState
  PROVE  /\ [s EXCEPT !.speechd = x] \in Controller /\ [s EXCEPT !.speechd = x].speechd = x
         /\ [s EXCEPT !.speechd = x].tts = s.tts /\ [s EXCEPT !.speechd = x].toPage = s.toPage
  BY DEF Controller

LEMMA SetTtsFields ==
  ASSUME NEW s \in Controller
  PROVE  /\ s.tts \in TtsState /\ s.toPage \in Seq(Event) /\ s.speechd \in SpeechdState
         /\ [s EXCEPT !.tts.current = None] = [s EXCEPT !.tts = [s.tts EXCEPT !.current = None]]
         /\ [s EXCEPT !.tts.paused = FALSE] = [s EXCEPT !.tts = [s.tts EXCEPT !.paused = FALSE]]
         /\ \A q : [s EXCEPT !.tts.queue = q] = [s EXCEPT !.tts = [s.tts EXCEPT !.queue = q]]
         /\ \A x : [s EXCEPT !.speechd.said = x] = [s EXCEPT !.speechd = [s.speechd EXCEPT !.said = x]]
  BY DEF Controller

LEMMA TtsFields ==
  ASSUME NEW x \in TtsState, NEW q \in Seq(Utterance)
  PROVE  /\ [x EXCEPT !.current = None] \in TtsState
         /\ [x EXCEPT !.current = None].current = None /\ [x EXCEPT !.current = None].queue = x.queue
         /\ [x EXCEPT !.current = None].paused = x.paused
         /\ [x EXCEPT !.paused = FALSE] \in TtsState /\ ~[x EXCEPT !.paused = FALSE].paused
         /\ [x EXCEPT !.paused = FALSE].current = x.current /\ [x EXCEPT !.paused = FALSE].queue = x.queue
         /\ [x EXCEPT !.queue = q] \in TtsState /\ [x EXCEPT !.queue = q].queue = q
         /\ [x EXCEPT !.queue = q].current = x.current /\ [x EXCEPT !.queue = q].paused = x.paused
  BY DEF TtsState

LEMMA TypesOfParts ==
  ASSUME NEW s \in Controller
  PROVE  /\ s.tts.queue \in Seq(Utterance) /\ s.toPage \in Seq(Event)
         /\ None \notin Ran(s.tts.queue) /\ None \notin Ended(s.toPage)
<1>1. s.tts.queue \in Seq(Utterance) /\ s.toPage \in Seq(Event)
  BY DEF Controller, TtsState
<1>2. \A i \in 1..Len(s.tts.queue) : s.tts.queue[i] \in Utterance
  BY <1>1
<1>3. \A i \in 1..Len(s.toPage) : s.toPage[i].u \in Utterance
  <2>1. \A i \in 1..Len(s.toPage) : s.toPage[i] \in Event
    BY <1>1
  <2>. QED
    BY <2>1 DEF Event
<1>. QED
  BY <1>1, <1>2, <1>3, NoneIsNone DEF Ran, Ended

(* An utterance that ends leaves the controller.                           *)
LEMMA CurrentEnds ==
  ASSUME NEW s \in Controller, Whole(s), s.tts.current # None,
         NEW type \in {"end", "interrupted", "cancelled", "error"}
  PROVE  LET t == FinishCurrentUtterance(Tell(s, <<s.tts.current>>, type)) IN
         /\ t \in Controller /\ Whole(t) /\ Contents(t) = Contents(s)
         /\ t.tts = [s.tts EXCEPT !.current = None] /\ t.speechd = s.speechd
<1> DEFINE u == s.tts.current
           us == <<u>>
           all == s.toPage \o Events(us, type)
           told == Tell(s, us, type)
           t == FinishCurrentUtterance(told)
<1>1. u \in Utterance /\ us \in Seq(Utterance) /\ s.toPage \in Seq(Event)
      /\ s.tts.queue \in Seq(Utterance) /\ s.tts \in TtsState
  BY DEF Controller, TtsState
<1>2. Distinct(us) /\ Ran(us) = {u}
  BY DEF Distinct, Ran
<1> HIDE DEF us
<1>3. Settled(s.toPage, {u}) /\ u \notin Ended(s.toPage)
  BY DEF Whole
<1>4. all \in Seq(Event) /\ Ended(all) = Ended(s.toPage) \cup {u} /\ Settled(all, {None})
  <2>1. Ran(us) \cap Ended(s.toPage) = {} /\ {u} \subseteq {None} \cup Ran(us)
    BY <1>2, <1>3
  <2>2. /\ all \in Seq(Event) /\ Ended(all) = Ended(s.toPage) \cup Ran(us)
        /\ Settled(all, {None})
    <3> HIDE DEF u
    <3>. QED
      BY <1>1, <1>2, <1>3, <2>1, Finish
  <2>. QED
    BY <2>2, <1>2
<1>5. told \in Controller /\ told.tts = s.tts /\ told.toPage = all /\ told.speechd = s.speechd
  BY <1>4, SetToPage DEF Tell
<1> HIDE DEF told, all
<1>6. /\ t \in Controller /\ t.tts = [s.tts EXCEPT !.current = None]
      /\ t.toPage = all /\ t.speechd = s.speechd
  <2>1. t = [told EXCEPT !.tts = [s.tts EXCEPT !.current = None]]
    BY <1>5, SetTtsFields DEF FinishCurrentUtterance
  <2>2. [s.tts EXCEPT !.current = None] \in TtsState
    BY <1>1, TtsFields
  <2>. QED
    BY <1>5, <2>1, <2>2, SetTts
<1> HIDE DEF t
<1>7. t.tts.current = None /\ t.tts.queue = s.tts.queue
  BY <1>1, <1>6, TtsFields
<1>8. None \notin Ran(s.tts.queue) /\ None \notin Ended(s.toPage)
  BY TypesOfParts
<1>9. Whole(t)
  BY <1>1, <1>4, <1>6, <1>7, <1>8, NoneIsNone DEF Whole
<1>10. Contents(t) = Contents(s)
  BY <1>1, <1>4, <1>6, <1>7, NoneIsNone DEF Contents
<1>. QED
  BY <1>6, <1>9, <1>10 DEF t, told, us

LEMMA NobodySpeaks ==
  ASSUME NEW s \in Controller, Settled(s.toPage, {None})
  PROVE  Settled(s.toPage, {})
<1>1. \A i \in 1..Len(s.toPage) : s.toPage[i].u # None
  <2>1. \A i \in 1..Len(s.toPage) : s.toPage[i] \in Event
    BY TypesOfParts
  <2>. QED
    BY <2>1, NoneIsNone DEF Event
<1>. QED
  BY <1>1 DEF Settled

LEMMA QueueCancelled ==
  ASSUME NEW s \in Controller, Whole(s)
  PROVE  LET t == ClearUtteranceQueue(s) IN
         /\ t \in Controller /\ Whole(t) /\ Contents(t) = Contents(s)
         /\ t.tts = [s.tts EXCEPT !.queue = <<>>] /\ t.speechd = s.speechd
<1> DEFINE q == s.tts.queue
           all == s.toPage \o Events(q, "cancelled")
           told == Tell(s, q, "cancelled")
           t == ClearUtteranceQueue(s)
<1>1. q \in Seq(Utterance) /\ s.toPage \in Seq(Event) /\ s.tts \in TtsState
  BY TypesOfParts, SetTtsFields
<1>2. Distinct(q) /\ Ran(q) \cap Ended(s.toPage) = {} /\ Settled(s.toPage, {s.tts.current})
      /\ s.tts.current \notin Ended(s.toPage) /\ s.tts.current \notin Ran(q)
  BY DEF Whole
<1>3. /\ all \in Seq(Event) /\ Ended(all) = Ended(s.toPage) \cup Ran(q)
      /\ Settled(all, {s.tts.current})
  BY <1>1, <1>2, Finish
<1>4. told \in Controller /\ told.tts = s.tts /\ told.toPage = all /\ told.speechd = s.speechd
  BY <1>3, SetToPage DEF Tell
<1> HIDE DEF told, all
<1>5. /\ t \in Controller /\ t.tts = [s.tts EXCEPT !.queue = <<>>]
      /\ t.toPage = all /\ t.speechd = s.speechd
  <2>1. t = [told EXCEPT !.tts = [s.tts EXCEPT !.queue = <<>>]]
    BY <1>4, SetTtsFields DEF ClearUtteranceQueue, told
  <2>2. [s.tts EXCEPT !.queue = <<>>] \in TtsState
    BY <1>1, EmptySeq, TtsFields
  <2>. QED
    BY <1>4, <2>1, <2>2, SetTts
<1> HIDE DEF t
<1>6. t.tts.current = s.tts.current /\ t.tts.queue = <<>>
  BY <1>1, <1>5, EmptySeq, TtsFields
<1>7. Ran(<<>>) = {} /\ Distinct(<<>>)
  BY DEF Ran, Distinct
<1>8. Whole(t)
  BY <1>2, <1>3, <1>5, <1>6, <1>7 DEF Whole
<1>9. Contents(t) = Contents(s)
  BY <1>3, <1>5, <1>6, <1>7 DEF Contents
<1>. QED
  BY <1>5, <1>8, <1>9 DEF t

(* Stop: everything ends, and nothing is lost.                             *)
LEMMA StopResult ==
  ASSUME NEW s \in Controller, Whole(s), NEW failed \in Nat
  PROVE  LET t == Stop(s, failed) IN
         /\ t \in Controller /\ Whole(t) /\ Contents(t) = Contents(s)
         /\ t.tts.current = None /\ t.tts.queue = <<>> /\ ~t.tts.paused
         /\ t.speechd.notified = s.speechd.notified
         /\ s.speechd.said = <<>> => t.speechd.said = <<>>
<1> DEFINE stopped == IF failed > 0 THEN <<>> ELSE
                      [i \in 1..Len(s.speechd.said) |-> [s.speechd.said[i] EXCEPT !.stopped = TRUE]]
           heard == [s.speechd EXCEPT !.said = stopped]
           awake == [s EXCEPT !.tts.paused = FALSE]
           r == StopSpeaking(awake, failed)
           t == IF r.tts.current = None THEN r ELSE Tell(r, <<r.tts.current>>, "interrupted")
           f == FinishCurrentUtterance(t)
           c == ClearUtteranceQueue(f)
<1>1. heard \in SpeechdState /\ heard.notified = s.speechd.notified
      /\ (s.speechd.said = <<>> => heard.said = <<>>)
  <2>1. s.speechd.said \in Seq(Saying) /\ s.speechd \in SpeechdState
    BY DEF Controller, SpeechdState
  <2>2. \A i \in 1..Len(s.speechd.said) :
          [s.speechd.said[i] EXCEPT !.stopped = TRUE] \in Saying
    <3>1. \A i \in 1..Len(s.speechd.said) : s.speechd.said[i] \in Saying
      BY <2>1
    <3>. QED
      BY <3>1 DEF Saying
  <2>3. stopped \in Seq(Saying)
    BY <2>1, <2>2, EmptySeq
  <2>4. s.speechd.said = <<>> => stopped = <<>>
    OBVIOUS
  <2> HIDE DEF stopped
  <2>. QED
    BY <2>1, <2>3, <2>4 DEF SpeechdState
<1>2. /\ awake \in Controller /\ awake.tts = [s.tts EXCEPT !.paused = FALSE]
      /\ awake.toPage = s.toPage /\ awake.speechd = s.speechd
  <2>1. [s.tts EXCEPT !.paused = FALSE] \in TtsState
    BY SetTtsFields, TtsFields, EmptySeq
  <2>. QED
    BY <2>1, SetTtsFields, SetTts
<1>3. r = [awake EXCEPT !.speechd = heard]
  BY <1>2, SetTtsFields DEF StopSpeaking, Reset
<1> HIDE DEF heard, awake, r
<1>4. /\ r \in Controller /\ r.tts.current = s.tts.current /\ r.tts.queue = s.tts.queue
      /\ ~r.tts.paused /\ r.toPage = s.toPage /\ r.speechd = heard
  <2>1. /\ r \in Controller /\ r.tts = awake.tts /\ r.toPage = awake.toPage /\ r.speechd = heard
    BY <1>1, <1>2, <1>3, SetSpeechd
  <2>. QED
    BY <1>2, <2>1, SetTtsFields, TtsFields, EmptySeq
<1>5. Whole(r) /\ Contents(r) = Contents(s)
  BY <1>4 DEF Whole, Contents
<1>6. /\ f \in Controller /\ Whole(f) /\ Contents(f) = Contents(r)
      /\ f.tts = [r.tts EXCEPT !.current = None] /\ f.speechd = heard
  <2>1. CASE r.tts.current # None
    BY <2>1, <1>4, <1>5, CurrentEnds
  <2>2. CASE r.tts.current = None
    <3>1. [r.tts EXCEPT !.current = None] = r.tts
      BY <2>2, <1>4 DEF Controller, TtsState
    <3>2. f = [r EXCEPT !.tts = r.tts]
      BY <2>2, <3>1, <1>4, SetTtsFields DEF FinishCurrentUtterance
    <3>3. [r EXCEPT !.tts = r.tts] = r
      BY <1>4 DEF Controller
    <3> HIDE DEF f
    <3>. QED
      BY <3>1, <3>2, <3>3, <1>4, <1>5
  <2>. QED
    BY <2>1, <2>2
<1>7. Stop(s, failed) = c
  BY DEF Stop, r, awake
<1> HIDE DEF f
<1>8. /\ c \in Controller /\ Whole(c) /\ Contents(c) = Contents(f)
      /\ c.tts = [f.tts EXCEPT !.queue = <<>>] /\ c.speechd = heard
  BY <1>6, QueueCancelled
<1> HIDE DEF c
<1>9. c.tts.current = None /\ c.tts.queue = <<>> /\ ~c.tts.paused
  <2>1. r.tts \in TtsState /\ f.tts \in TtsState /\ <<>> \in Seq(Utterance)
    BY <1>4, <1>6, SetTtsFields, EmptySeq
  <2>2. f.tts.current = None /\ ~f.tts.paused
    BY <2>1, <1>4, <1>6, TtsFields
  <2>. QED
    BY <2>1, <2>2, <1>8, TtsFields
<1>. QED
  BY <1>1, <1>5, <1>6, <1>7, <1>8, <1>9

LEMMA Split ==
  ASSUME NEW S, NEW q \in Seq(S), NEW k \in 0..Len(q), Distinct(q)
  PROVE  LET pre  == SubSeq(q, 1, k)
             rest == SubSeq(q, k + 1, Len(q))
         IN /\ pre \in Seq(S) /\ rest \in Seq(S) /\ Distinct(pre) /\ Distinct(rest)
            /\ Ran(q) = Ran(pre) \cup Ran(rest) /\ Ran(pre) \cap Ran(rest) = {}
            /\ pre = <<>> <=> k = 0
            /\ rest = <<>> <=> k = Len(q)
<1> DEFINE pre  == SubSeq(q, 1, k)
           rest == SubSeq(q, k + 1, Len(q))
<1>1. Len(q) \in Nat /\ k \in Nat /\ k <= Len(q) /\ \A i \in 1..Len(q) : q[i] \in S
  OBVIOUS
<1>2. pre \in Seq(S) /\ Len(pre) = k /\ \A i \in 1..k : pre[i] = q[i]
  <2>1. \A i \in 1..k : q[i] \in S
    BY <1>1
  <2>. QED
    BY <1>1, <2>1, SubSeqProperties
<1>3. rest \in Seq(S) /\ Len(rest) = Len(q) - k /\ \A i \in 1..Len(q) - k : rest[i] = q[k + i]
  <2>1. \A i \in k + 1..Len(q) : q[i] \in S
    BY <1>1
  <2>. QED
    BY <1>1, <2>1, SubSeqProperties
<1> HIDE DEF pre, rest
<1>4. Distinct(pre) /\ Distinct(rest)
  <2>1. ASSUME NEW i \in 1..Len(pre), NEW j \in 1..Len(pre), i # j PROVE pre[i] # pre[j]
    <3>1. i \in 1..Len(q) /\ j \in 1..Len(q) /\ pre[i] = q[i] /\ pre[j] = q[j]
      BY <1>1, <1>2
    <3>. QED
      BY <2>1, <3>1 DEF Distinct
  <2>2. ASSUME NEW i \in 1..Len(rest), NEW j \in 1..Len(rest), i # j PROVE rest[i] # rest[j]
    <3>1. k + i \in 1..Len(q) /\ k + j \in 1..Len(q) /\ k + i # k + j
          /\ rest[i] = q[k + i] /\ rest[j] = q[k + j]
      BY <2>2, <1>1, <1>3
    <3>. QED
      BY <3>1 DEF Distinct
  <2>. QED
    BY <2>1, <2>2 DEF Distinct
<1>5. Ran(pre) \cap Ran(rest) = {}
  <2>1. ASSUME NEW i \in 1..Len(pre), NEW j \in 1..Len(rest) PROVE pre[i] # rest[j]
    <3>1. i \in 1..Len(q) /\ k + j \in 1..Len(q) /\ i # k + j
          /\ pre[i] = q[i] /\ rest[j] = q[k + j]
      BY <1>1, <1>2, <1>3
    <3>. QED
      BY <3>1 DEF Distinct
  <2>. QED
    BY <2>1 DEF Ran
<1>6. Ran(q) = Ran(pre) \cup Ran(rest)
  <2>1. ASSUME NEW i \in 1..Len(q) PROVE q[i] \in Ran(pre) \cup Ran(rest)
    <3>1. CASE i <= k
      BY <3>1, <1>1, <1>2 DEF Ran
    <3>2. CASE i > k
      <4>1. i - k \in 1..Len(rest) /\ rest[i - k] = q[i]
        BY <3>2, <1>1, <1>3
      <4>. QED
        BY <4>1 DEF Ran
    <3>. QED
      BY <3>1, <3>2, <1>1
  <2>2. \A i \in 1..Len(pre) : pre[i] \in Ran(q)
    BY <1>1, <1>2 DEF Ran
  <2>3. \A i \in 1..Len(rest) : rest[i] \in Ran(q)
    <3>1. \A i \in 1..Len(rest) : k + i \in 1..Len(q) /\ rest[i] = q[k + i]
      BY <1>1, <1>3
    <3>. QED
      BY <3>1 DEF Ran
  <2>. QED
    BY <2>1, <2>2, <2>3 DEF Ran
<1>7. (pre = <<>> <=> k = 0) /\ (rest = <<>> <=> k = Len(q))
  BY <1>1, <1>2, <1>3, EmptySeq
<1>. QED
  BY <1>2, <1>3, <1>4, <1>5, <1>6, <1>7 DEF pre, rest

(* Utterances that are refused end with an error.                          *)
LEMMA RefuseResult ==
  ASSUME NEW s \in Controller, NEW us \in Seq(Utterance), Distinct(us),
         Ran(us) \cap Ended(s.toPage) = {}, Settled(s.toPage, {}), NEW failed \in 0..Len(us)
  PROVE  LET r == Refuse(s, us, failed) IN
         /\ r \in Controller /\ Ended(r.toPage) = Ended(s.toPage) \cup Ran(us)
         /\ \A D : Settled(r.toPage, D)
         /\ r.tts.current = s.tts.current /\ r.tts.queue = s.tts.queue
         /\ r.tts.paused = s.tts.paused
         /\ r.speechd.notified = s.speechd.notified
         /\ r.speechd.said \in {s.speechd.said, <<>>}
<1> DEFINE all == s.toPage \o Events(us, "error")
           told == Tell(s, us, "error")
           r == Refuse(s, us, failed)
<1>1. s.toPage \in Seq(Event)
  BY SetTtsFields
<1>2. /\ all \in Seq(Event) /\ Ended(all) = Ended(s.toPage) \cup Ran(us)
      /\ \A D : Settled(all, D)
  BY <1>1, Finish
<1>3. told \in Controller /\ told.tts = s.tts /\ told.toPage = all /\ told.speechd = s.speechd
  BY <1>2, SetToPage DEF Tell
<1>4. CASE failed = 0
  <2>1. r = told
    BY <1>4 DEF Refuse
  <2> HIDE DEF told, all, r
  <2>. QED
    BY <1>2, <1>3, <2>1 DEF r
<1>5. CASE failed # 0
  <2>1. us[failed] \in Utterance
    <3>1. failed \in 1..Len(us)
      BY <1>5
    <3>. QED
      BY <3>1
  <2>2. r = [told EXCEPT !.tts.platform = us[failed], !.speechd.said = <<>>]
    BY <1>5 DEF Refuse, Reset
  <2> HIDE DEF told, all, r
  <2>3. s.tts \in TtsState /\ s.speechd \in SpeechdState
    BY SetTtsFields
  <2> DEFINE x == [s.tts EXCEPT !.platform = us[failed]]
             y == [s.speechd EXCEPT !.said = <<>>]
  <2>4. /\ x \in TtsState /\ x.current = s.tts.current /\ x.queue = s.tts.queue
        /\ x.paused = s.tts.paused
    BY <2>1, <2>3 DEF TtsState
  <2>5. y \in SpeechdState /\ y.said = <<>> /\ y.notified = s.speechd.notified
    BY <2>3, EmptySeq DEF SpeechdState
  <2>6. r.tts = x /\ r.speechd = y /\ r.toPage = all
    BY <1>3, <2>2 DEF Controller
  <2>7. r \in Controller
    <3>1. r = [[told EXCEPT !.tts = x] EXCEPT !.speechd = y]
      BY <1>3, <2>2 DEF Controller
    <3>2. [told EXCEPT !.tts = x] \in Controller
      BY <1>3, <2>4, SetTts
    <3> HIDE DEF x, y
    <3>. QED
      BY <3>1, <3>2, <2>5, SetSpeechd
  <2> HIDE DEF x, y
  <2>. QED
    BY <1>2, <2>4, <2>5, <2>6, <2>7 DEF r
<1>. QED
  BY <1>4, <1>5

LEMMA SayResult ==
  ASSUME NEW s \in Controller, NEW u \in Utterance
  PROVE  LET t == Say(s, u) IN
         /\ t \in Controller /\ t.toPage = s.toPage
         /\ t.tts.current = u /\ t.tts.platform = u /\ t.tts.queue = s.tts.queue
         /\ t.tts.paused = s.tts.paused /\ t.speechd.notified = s.speechd.notified
         /\ Len(t.speechd.said) = Len(s.speechd.said) + 1
         /\ s.speechd.said = <<>> => t.speechd.said[1].u = u /\ ~t.speechd.said[1].stopped
<1> DEFINE t == Say(s, u)
           new == [u |-> u, begun |-> FALSE, paused |-> FALSE, stopped |-> FALSE]
           x == [s.tts EXCEPT !.current = u, !.platform = u]
           more == Append(s.speechd.said, new)
           y == [s.speechd EXCEPT !.said = more]
<1>1. s.tts \in TtsState /\ s.speechd \in SpeechdState /\ s.speechd.said \in Seq(Saying)
  BY SetTtsFields DEF SpeechdState
<1>2. x \in TtsState /\ x.current = u /\ x.platform = u /\ x.queue = s.tts.queue /\ x.paused = s.tts.paused
  BY <1>1 DEF TtsState
<1>3. new \in Saying /\ new.u = u /\ ~new.stopped
  BY DEF Saying
<1>4. t = [s EXCEPT !.tts.current = u, !.tts.platform = u, !.speechd.said = Append(s.speechd.said, new)]
  BY DEF Say
<1> HIDE DEF new
<1>5. more \in Seq(Saying) /\ Len(more) = Len(s.speechd.said) + 1
      /\ (s.speechd.said = <<>> => more[1] = new)
  BY <1>1, <1>3, AppendProperties, EmptySeq
<1> HIDE DEF more
<1>6. y \in SpeechdState /\ y.said = more /\ y.notified = s.speechd.notified
  BY <1>1, <1>5 DEF SpeechdState
<1>7. t = [[s EXCEPT !.tts = x] EXCEPT !.speechd = y]
  BY <1>4 DEF Controller, more
<1> HIDE DEF x, y, t
<1>8. [s EXCEPT !.tts = x] \in Controller /\ [s EXCEPT !.tts = x].tts = x
      /\ [s EXCEPT !.tts = x].toPage = s.toPage
  BY <1>2, SetTts
<1>9. t \in Controller /\ t.tts = x /\ t.speechd = y /\ t.toPage = s.toPage
  BY <1>6, <1>7, <1>8, SetSpeechd
<1>. QED
  BY <1>2, <1>3, <1>5, <1>6, <1>9 DEF t

(* SpeakNextUtterance, when k utterances are refused, failed of them by     *)
(* speechd.                                                                *)
LEMMA SpeakNextResult ==
  ASSUME NEW s \in Controller, Whole(s), s.tts.current = None, NEW k \in 0..Len(s.tts.queue),
         NEW failed \in 0..k
  PROVE  LET t == SpeakNextUtterance(s, k, failed) IN
         /\ t \in Controller /\ Whole(t) /\ Contents(t) = Contents(s)
         /\ t.speechd.notified = s.speechd.notified
         /\ \/ t.tts.current = None /\ t.speechd.said \in {s.speechd.said, <<>>}
            \/ /\ t.tts.current # None /\ t.tts.platform = t.tts.current
               /\ s.speechd.said = <<>> =>
                    /\ Len(t.speechd.said) = 1 /\ t.speechd.said[1].u = t.tts.current
                    /\ ~t.speechd.said[1].stopped
<1> DEFINE q == s.tts.queue
           pre == SubSeq(q, 1, k)
           rest == SubSeq(q, k + 1, Len(q))
           empty == [s EXCEPT !.tts.queue = <<>>]
           r == Refuse(empty, pre, failed)
           ready == [r EXCEPT !.tts.queue = Tail(rest)]
           t == SpeakNextUtterance(s, k, failed)
<1>1. CASE s.tts.paused
  BY <1>1 DEF SpeakNextUtterance
<1>2. CASE ~s.tts.paused
  <2>1. q \in Seq(Utterance) /\ s.toPage \in Seq(Event) /\ s.tts \in TtsState
        /\ s.speechd \in SpeechdState
    BY TypesOfParts, SetTtsFields
  <2>2. Distinct(q) /\ Ran(q) \cap Ended(s.toPage) = {} /\ None \notin Ran(q)
        /\ None \notin Ended(s.toPage)
    BY TypesOfParts DEF Whole
  <2>3. Settled(s.toPage, {})
    BY NobodySpeaks DEF Whole
  <2>4. /\ empty \in Controller /\ empty.toPage = s.toPage /\ empty.speechd = s.speechd
        /\ empty.tts.current = None /\ empty.tts.queue = <<>>
    <3>1. empty = [s EXCEPT !.tts = [s.tts EXCEPT !.queue = <<>>]]
      BY SetTtsFields
    <3>2. /\ [s.tts EXCEPT !.queue = <<>>] \in TtsState
          /\ [s.tts EXCEPT !.queue = <<>>].current = None
          /\ [s.tts EXCEPT !.queue = <<>>].queue = <<>>
      BY <2>1, EmptySeq, TtsFields, ZenonT(60)
    <3> HIDE DEF empty
    <3>. QED
      BY <3>1, <3>2, SetTts
  <2>5. /\ pre \in Seq(Utterance) /\ rest \in Seq(Utterance) /\ Distinct(pre) /\ Distinct(rest)
        /\ Ran(q) = Ran(pre) \cup Ran(rest) /\ Ran(pre) \cap Ran(rest) = {}
        /\ failed \in 0..Len(pre)
    <3> HIDE DEF q
    <3>1. k \in 0..Len(q)
      BY DEF q
    <3>2. Len(pre) = k
      <4>1. Len(q) \in Nat /\ k \in Nat /\ k <= Len(q)
        BY <2>1, <3>1
      <4>2. \A i \in 1..k : q[i] \in Utterance
        BY <2>1, <4>1
      <4>. QED
        BY <2>1, <4>1, <4>2, SubSeqProperties
    <3> HIDE DEF pre, rest
    <3>3. failed \in 0..Len(pre)
      BY <3>2
    <3>. QED
      BY <2>1, <2>2, <3>1, <3>3, Split DEF pre, rest
  <2>6. t = IF rest = <<>> THEN r ELSE Say(ready, Head(rest))
    BY <1>2 DEF SpeakNextUtterance
  <2> HIDE DEF q, pre, rest, empty, t
  <2>7. /\ r \in Controller /\ Ended(r.toPage) = Ended(s.toPage) \cup Ran(pre)
        /\ \A D : Settled(r.toPage, D)
        /\ r.tts.current = None /\ r.tts.queue = <<>>
        /\ r.speechd.notified = s.speechd.notified
        /\ r.speechd.said \in {s.speechd.said, <<>>}
    <3>1. Ran(pre) \cap Ended(empty.toPage) = {} /\ Settled(empty.toPage, {})
      BY <2>2, <2>3, <2>4, <2>5
    <3>2. failed \in 0..Len(pre)
      BY <2>5
    <3>. QED
      <4> HIDE DEF r
      <4>1. /\ r \in Controller /\ Ended(r.toPage) = Ended(empty.toPage) \cup Ran(pre)
            /\ \A D : Settled(r.toPage, D)
            /\ r.tts.current = empty.tts.current /\ r.tts.queue = empty.tts.queue
            /\ r.speechd.notified = empty.speechd.notified
            /\ r.speechd.said \in {empty.speechd.said, <<>>}
        BY ONLY <2>4, <2>5, <3>1, <3>2, RefuseResult, ZenonT(40) DEF r
      <4>. QED
        BY <2>4, <4>1
  <2> HIDE DEF r
  <2>8. CASE rest = <<>>
    <3>1. Ran(<<>>) = {} /\ Distinct(<<>>)
      BY DEF Ran, Distinct
    <3>2. t = r
      BY <2>6, <2>8
    <3>3. Ended(t.toPage) = Ended(s.toPage) \cup Ran(q)
      BY <2>5, <2>7, <2>8, <3>1, <3>2
    <3>4. Whole(t)
      BY <2>2, <2>7, <3>1, <3>2, <3>3 DEF Whole
    <3>5. Contents(t) = Contents(s)
      BY <2>7, <3>1, <3>2, <3>3 DEF Contents, q
    <3>. QED
      BY <2>7, <3>2, <3>4, <3>5 DEF t
  <2>9. CASE rest # <<>>
    <3> DEFINE u == Head(rest)
               tail == Tail(rest)
    <3>1. Ran(rest) = {u} \cup Ran(tail) /\ u \notin Ran(tail) /\ Distinct(tail)
      BY <2>5, <2>9, RanTail
    <3>2. u \in Utterance /\ tail \in Seq(Utterance)
      BY <2>5, <2>9
    <3> HIDE DEF u, tail
    <3>3. /\ ready \in Controller /\ ready.toPage = r.toPage /\ ready.speechd = r.speechd
          /\ ready.tts.queue = tail
      <4>1. ready = [r EXCEPT !.tts = [r.tts EXCEPT !.queue = tail]]
        BY <2>7, SetTtsFields DEF tail
      <4>2. [r.tts EXCEPT !.queue = tail] \in TtsState /\ [r.tts EXCEPT !.queue = tail].queue = tail
        BY <2>7, <3>2, SetTtsFields, TtsFields
      <4> HIDE DEF ready
      <4>. QED
        BY <2>7, <4>1, <4>2, SetTts
    <3> HIDE DEF ready
    <3>4. t = Say(ready, u)
      BY <2>6, <2>9 DEF u
    <3>5. /\ t \in Controller /\ t.toPage = r.toPage
          /\ t.tts.current = u /\ t.tts.platform = u /\ t.tts.queue = tail
          /\ t.speechd.notified = s.speechd.notified
          /\ Len(t.speechd.said) = Len(r.speechd.said) + 1
          /\ r.speechd.said = <<>> => t.speechd.said[1].u = u /\ ~t.speechd.said[1].stopped
      <4> DEFINE v == Say(ready, u)
      <4>1. /\ v \in Controller /\ v.toPage = ready.toPage
            /\ v.tts.current = u /\ v.tts.platform = u /\ v.tts.queue = ready.tts.queue
            /\ v.speechd.notified = ready.speechd.notified
            /\ Len(v.speechd.said) = Len(ready.speechd.said) + 1
            /\ ready.speechd.said = <<>> => v.speechd.said[1].u = u /\ ~v.speechd.said[1].stopped
        BY <3>2, <3>3, SayResult
      <4> HIDE DEF v
      <4>. QED
        BY <2>7, <3>3, <3>4, <4>1 DEF v
    <3>6. u \in Ran(q) /\ Ran(tail) \subseteq Ran(q) /\ u \notin Ran(pre) /\ Ran(tail) \cap Ran(pre) = {}
      BY <2>5, <3>1
    <3>7. Whole(t)
      BY <2>2, <2>7, <3>1, <3>5, <3>6 DEF Whole
    <3>8. Contents(t) = Contents(s)
      <4>1. Ran(q) = Ran(pre) \cup {u} \cup Ran(tail)
        BY <2>5, <3>1
      <4>. QED
        BY <2>7, <3>2, <3>5, <4>1, NoneIsNone DEF Contents, q
    <3>9. s.speechd.said = <<>> => Len(t.speechd.said) = 1 /\ r.speechd.said = <<>>
      <4>1. Len(<<>>) = 0
        OBVIOUS
      <4>. QED
        BY <2>7, <3>5, <4>1
    <3>. QED
      BY <2>7, <3>2, <3>5, <3>7, <3>8, <3>9, NoneIsNone DEF t
  <2>. QED
    BY <2>8, <2>9
<1>. QED
  BY <1>1, <1>2

-----------------------------------------------------------------------------
(* The handlers, as functions of State: the type of what they make of it,  *)
(* and what becomes of the utterances.                                     *)

LEMMA EnqueueResult ==
  ASSUME NEW s \in Controller, Whole(s), NEW u \in Utterance, u \notin Contents(s)
  PROVE  LET t == [s EXCEPT !.tts.queue = Append(@, u)] IN
         /\ t \in Controller /\ Whole(t) /\ Contents(t) = Contents(s) \cup {u}
         /\ t.tts.current = s.tts.current /\ t.tts.platform = s.tts.platform
         /\ t.speechd = s.speechd
<1> DEFINE more == Append(s.tts.queue, u)
           t == [s EXCEPT !.tts.queue = Append(@, u)]
           x == [s.tts EXCEPT !.queue = more]
<1>1. s.tts.queue \in Seq(Utterance) /\ s.tts \in TtsState
  BY TypesOfParts, SetTtsFields
<1>2. more \in Seq(Utterance) /\ Ran(more) = Ran(s.tts.queue) \cup {u}
  BY <1>1, RanAppend
<1>3. Distinct(more)
  <2>1. /\ Len(more) = Len(s.tts.queue) + 1 /\ more[Len(s.tts.queue) + 1] = u
        /\ \A i \in 1..Len(s.tts.queue) : more[i] = s.tts.queue[i]
        /\ Len(s.tts.queue) \in Nat
    BY <1>1
  <2>2. \A i \in 1..Len(s.tts.queue) : s.tts.queue[i] # u
    BY DEF Contents, Ran
  <2> HIDE DEF more
  <2>3. Distinct(s.tts.queue)
    BY DEF Whole
  <2>4. \A i \in 1..Len(more) : i \in 1..Len(s.tts.queue) \/ i = Len(s.tts.queue) + 1
    BY <2>1
  <2>5. ASSUME NEW i \in 1..Len(more), NEW j \in 1..Len(more), i # j PROVE more[i] # more[j]
    BY <2>1, <2>2, <2>3, <2>4, <2>5 DEF Distinct
  <2>. QED
    BY <2>5 DEF Distinct
<1>4. t = [s EXCEPT !.tts = x]
  BY <1>1 DEF Controller
<1> HIDE DEF more
<1>5. /\ x \in TtsState /\ x.queue = more /\ x.current = s.tts.current
      /\ x.platform = s.tts.platform
  BY <1>1, <1>2 DEF TtsState
<1> HIDE DEF x, t
<1>6. t \in Controller /\ t.tts = x /\ t.toPage = s.toPage /\ t.speechd = s.speechd
  BY <1>4, <1>5, SetTts
<1>7. u # s.tts.current /\ u \notin Ended(s.toPage)
  BY NoneIsNone DEF Contents
<1>8. Whole(t)
  BY <1>2, <1>3, <1>5, <1>6, <1>7 DEF Whole
<1>9. Contents(t) = Contents(s) \cup {u}
  BY <1>2, <1>5, <1>6 DEF Contents
<1>. QED
  BY <1>5, <1>6, <1>8, <1>9 DEF t, more

LEMMA StopSayResult ==
  ASSUME NEW s \in Controller, Whole(s), NEW u \in Utterance, u \notin Contents(s),
         NEW stops \in Nat
  PROVE  LET t == Say(Stop(s, stops), u) IN
         /\ t \in Controller /\ Whole(t) /\ Contents(t) = Contents(s) \cup {u}
         /\ t.tts.current = u /\ t.tts.platform = u
         /\ t.speechd.notified = s.speechd.notified
         /\ s.speechd.said = <<>> =>
              Len(t.speechd.said) = 1 /\ t.speechd.said[1].u = u /\ ~t.speechd.said[1].stopped
<1> DEFINE r == Stop(s, stops)
           t == Say(r, u)
<1>1. /\ r \in Controller /\ Whole(r) /\ Contents(r) = Contents(s)
      /\ r.tts.current = None /\ r.tts.queue = <<>>
      /\ r.speechd.notified = s.speechd.notified
      /\ s.speechd.said = <<>> => r.speechd.said = <<>>
  BY StopResult
<1> HIDE DEF r
<1>2. /\ t \in Controller /\ t.toPage = r.toPage
      /\ t.tts.current = u /\ t.tts.platform = u /\ t.tts.queue = <<>>
      /\ t.speechd.notified = s.speechd.notified
      /\ Len(t.speechd.said) = Len(r.speechd.said) + 1
      /\ r.speechd.said = <<>> => t.speechd.said[1].u = u /\ ~t.speechd.said[1].stopped
  BY <1>1, SayResult
<1> HIDE DEF t
<1>3. Ran(<<>>) = {} /\ Distinct(<<>>) /\ Len(<<>>) = 0
  BY DEF Ran, Distinct
<1>4. Settled(t.toPage, {u})
  <2>1. Settled(r.toPage, {})
    BY <1>1, NobodySpeaks DEF Whole
  <2>. QED
    BY <2>1, <1>2 DEF Settled
<1>5. u \notin Ended(r.toPage)
  BY <1>1 DEF Contents
<1>6. Whole(t)
  BY <1>2, <1>3, <1>4, <1>5 DEF Whole
<1>7. Contents(t) = Contents(s) \cup {u}
  BY <1>1, <1>2, <1>3, NoneIsNone DEF Contents
<1>. QED
  BY <1>1, <1>2, <1>3, <1>6, <1>7 DEF t, r

LEMMA StopRefuseResult ==
  ASSUME NEW s \in Controller, Whole(s), NEW u \in Utterance, u \notin Contents(s),
         NEW stops \in Nat, NEW says \in 0..1
  PROVE  LET t == Refuse(Stop(s, stops), <<u>>, says) IN
         /\ t \in Controller /\ Whole(t) /\ Contents(t) = Contents(s) \cup {u}
         /\ t.tts.current = None
         /\ t.speechd.notified = s.speechd.notified
         /\ s.speechd.said = <<>> => t.speechd.said = <<>>
<1> DEFINE r == Stop(s, stops)
           us == <<u>>
           t == Refuse(r, us, says)
<1>1. /\ r \in Controller /\ Whole(r) /\ Contents(r) = Contents(s)
      /\ r.tts.current = None /\ r.tts.queue = <<>>
      /\ r.speechd.notified = s.speechd.notified
      /\ s.speechd.said = <<>> => r.speechd.said = <<>>
  BY StopResult
<1> HIDE DEF r
<1>2. us \in Seq(Utterance) /\ Distinct(us) /\ Ran(us) = {u}
  BY DEF Distinct, Ran
<1> HIDE DEF us
<1>3. Settled(r.toPage, {})
  BY <1>1, NobodySpeaks DEF Whole
<1>4. u \notin Ended(r.toPage)
  BY <1>1 DEF Contents
<1>5. /\ t \in Controller /\ Ended(t.toPage) = Ended(r.toPage) \cup Ran(us)
      /\ \A D : Settled(t.toPage, D)
      /\ t.tts.current = None /\ t.tts.queue = <<>>
      /\ t.speechd.notified = r.speechd.notified
      /\ t.speechd.said \in {r.speechd.said, <<>>}
  <2>1. says \in 0..Len(us)
    BY DEF us
  <2>. QED
    BY <2>1, <1>1, <1>2, <1>3, <1>4, RefuseResult
<1> HIDE DEF t
<1>6. Ran(<<>>) = {} /\ Distinct(<<>>)
  BY DEF Ran, Distinct
<1>7. None \notin Ended(t.toPage)
  BY <1>5, TypesOfParts
<1>8. Whole(t)
  BY <1>5, <1>6, <1>7 DEF Whole
<1>9. Contents(t) = Contents(s) \cup {u}
  BY <1>1, <1>2, <1>5, <1>6 DEF Contents
<1>. QED
  BY <1>1, <1>5, <1>8, <1>9 DEF t, r, us

(* What speechd was asked to say is held or goes on.                       *)
LEMMA HeldResult ==
  ASSUME NEW said \in Seq(Saying), NEW paused \in BOOLEAN
  PROVE  /\ Held(said, paused) \in Seq(Saying) /\ Len(Held(said, paused)) = Len(said)
         /\ \A i \in 1..Len(said) : /\ Held(said, paused)[i].u = said[i].u
                                    /\ Held(said, paused)[i].stopped = said[i].stopped
         /\ said = <<>> <=> Held(said, paused) = <<>>
<1>1. \A i \in 1..Len(said) : said[i] \in Saying
  OBVIOUS
<1>2. \A i \in 1..Len(said) : /\ [said[i] EXCEPT !.paused = paused] \in Saying
                              /\ [said[i] EXCEPT !.paused = paused].u = said[i].u
                              /\ [said[i] EXCEPT !.paused = paused].stopped = said[i].stopped
  BY <1>1 DEF Saying
<1>3. Held(said, paused) \in Seq(Saying) /\ Len(Held(said, paused)) = Len(said)
      /\ \A i \in 1..Len(said) : Held(said, paused)[i] = [said[i] EXCEPT !.paused = paused]
  BY <1>2 DEF Held
<1> HIDE DEF Held
<1>4. said = <<>> <=> Held(said, paused) = <<>>
  BY <1>3, EmptySeq
<1>. QED
  BY <1>2, <1>3, <1>4

(* A state that differs from another in paused and in what speechd holds.  *)
LEMMA SameUtterances ==
  ASSUME NEW s \in Controller, Whole(s), NEW paused \in BOOLEAN, NEW said \in Seq(Saying)
  PROVE  LET t == [s EXCEPT !.tts.paused = paused, !.speechd.said = said] IN
         /\ t \in Controller /\ Whole(t) /\ Contents(t) = Contents(s)
         /\ t.tts.current = s.tts.current /\ t.tts.platform = s.tts.platform
         /\ t.tts.queue = s.tts.queue
         /\ t.toPage = s.toPage
         /\ t.speechd.said = said /\ t.speechd.notified = s.speechd.notified
<1> DEFINE t == [s EXCEPT !.tts.paused = paused, !.speechd.said = said]
           x == [s.tts EXCEPT !.paused = paused]
           y == [s.speechd EXCEPT !.said = said]
<1>1. s.tts \in TtsState /\ s.speechd \in SpeechdState
  BY SetTtsFields
<1>2. /\ x \in TtsState /\ x.current = s.tts.current /\ x.queue = s.tts.queue
      /\ x.platform = s.tts.platform
  BY <1>1 DEF TtsState
<1>3. y \in SpeechdState /\ y.said = said /\ y.notified = s.speechd.notified
  BY <1>1 DEF SpeechdState
<1>4. t = [[s EXCEPT !.tts = x] EXCEPT !.speechd = y]
  BY DEF Controller
<1> HIDE DEF x, y, t
<1> DEFINE z == [s EXCEPT !.tts = x]
<1>5. z \in Controller /\ z.tts = x /\ z.toPage = s.toPage
  BY <1>2, SetTts
<1> HIDE DEF z
<1>6. t \in Controller /\ t.tts = x /\ t.speechd = y /\ t.toPage = s.toPage
  <2>1. t = [z EXCEPT !.speechd = y]
    BY <1>4 DEF z
  <2> DEFINE w == [z EXCEPT !.speechd = y]
  <2>2. w \in Controller /\ w.tts = z.tts /\ w.speechd = y /\ w.toPage = z.toPage
    BY <1>3, <1>5, SetSpeechd
  <2> HIDE DEF w
  <2>. QED
    BY <2>1, <2>2, <1>5 DEF w
<1>7. Whole(t) /\ Contents(t) = Contents(s)
  BY <1>2, <1>6 DEF Whole, Contents
<1>. QED
  BY <1>2, <1>3, <1>6, <1>7 DEF t

(* An event that is not the last of its utterance.                         *)
LEMMA InformResult ==
  ASSUME NEW s \in Controller, Whole(s), s.tts.current # None,
         NEW type \in {"begin", "pause", "resume"}
  PROVE  LET t == Tell(s, <<s.tts.current>>, type) IN
         /\ t \in Controller /\ Whole(t) /\ Contents(t) = Contents(s)
         /\ t.tts = s.tts /\ t.speechd = s.speechd
<1> DEFINE u == s.tts.current
           all == s.toPage \o Events(<<u>>, type)
           t == Tell(s, <<u>>, type)
<1>1. u \in Utterance /\ s.toPage \in Seq(Event)
  BY DEF Controller, TtsState
<1>2. Settled(s.toPage, {u}) /\ u \notin Ended(s.toPage)
  BY DEF Whole
<1>3. all \in Seq(Event) /\ Ended(all) = Ended(s.toPage) /\ Settled(all, {u})
  <2> HIDE DEF u
  <2>. QED
    BY <1>1, <1>2, Inform
<1>4. t \in Controller /\ t.tts = s.tts /\ t.toPage = all /\ t.speechd = s.speechd
  BY <1>3, SetToPage DEF Tell
<1> HIDE DEF t, all
<1>5. Whole(t) /\ Contents(t) = Contents(s)
  BY <1>3, <1>4 DEF Whole, Contents
<1>. QED
  BY <1>4, <1>5 DEF t

-----------------------------------------------------------------------------
(* An event is received, the first of its page.                            *)

LEMMA WithoutResult ==
  ASSUME NEW S, NEW s \in Seq(S), NEW i \in 1..Len(s)
  PROVE  /\ Without(s, i) \in Seq(S) /\ Len(Without(s, i)) = Len(s) - 1
         /\ \A j \in 1..Len(Without(s, i)) : \E k \in 1..Len(s) :
              k = (IF j < i THEN j ELSE j + 1) /\ Without(s, i)[j] = s[k]
         /\ \A k \in 1..Len(s) : k # i => \E j \in 1..Len(Without(s, i)) :
              k = (IF j < i THEN j ELSE j + 1) /\ Without(s, i)[j] = s[k]
<1> DEFINE w == Without(s, i)
<1>1. Len(s) \in Nat /\ \A j \in 1..Len(s) : s[j] \in S
  OBVIOUS
<1>2. w \in Seq(S) /\ Len(w) = Len(s) - 1
      /\ \A j \in 1..Len(s) - 1 : w[j] = IF j < i THEN s[j] ELSE s[j + 1]
  <2>1. \A j \in 1..Len(s) - 1 : (IF j < i THEN s[j] ELSE s[j + 1]) \in S
    BY <1>1
  <2>2. Len(s) - 1 \in Nat
    BY <1>1
  <2>. QED
    BY <2>1, <2>2 DEF Without
<1> HIDE DEF w
<1>3. ASSUME NEW j \in 1..Len(w)
      PROVE  \E k \in 1..Len(s) : k = (IF j < i THEN j ELSE j + 1) /\ w[j] = s[k]
  <2> DEFINE k == IF j < i THEN j ELSE j + 1
  <2>1. k \in 1..Len(s) /\ w[j] = s[k]
    BY <1>1, <1>2
  <2>. QED
    BY <2>1
<1>4. ASSUME NEW k \in 1..Len(s), k # i
      PROVE  \E j \in 1..Len(w) : k = (IF j < i THEN j ELSE j + 1) /\ w[j] = s[k]
  <2> DEFINE j == IF k < i THEN k ELSE k - 1
  <2>1. j \in 1..Len(w) /\ k = (IF j < i THEN j ELSE j + 1) /\ w[j] = s[k]
    BY <1>1, <1>2, <1>4
  <2>. QED
    BY <2>1
<1>. QED
  BY <1>2, <1>3, <1>4 DEF w

LEMMA ReceiveResult ==
  ASSUME NEW events \in Seq(Event), NEW C, Settled(events, C), NEW i \in 1..Len(events),
         \A j \in 1..i - 1 : events[j].u # events[i].u,
         Final(events[i].type) => events[i].u \notin C
  PROVE  LET w == Without(events, i) IN
         /\ w \in Seq(Event) /\ Settled(w, C)
         /\ Ended(w) = IF Final(events[i].type) THEN Ended(events) \ {events[i].u}
                                                ELSE Ended(events)
<1> DEFINE w == Without(events, i)
           u == events[i].u
<1>1. /\ w \in Seq(Event) /\ Len(w) = Len(events) - 1 /\ Len(events) \in Nat
      /\ \A j \in 1..Len(w) : \E k \in 1..Len(events) :
           k = (IF j < i THEN j ELSE j + 1) /\ w[j] = events[k]
      /\ \A k \in 1..Len(events) : k # i => \E j \in 1..Len(w) :
           k = (IF j < i THEN j ELSE j + 1) /\ w[j] = events[k]
  <2>1. Len(events) \in Nat
    OBVIOUS
  <2>. QED
    BY <2>1, WithoutResult, ZenonT(60)
<1> HIDE DEF w
<1>2. \A j \in 1..Len(w) : \E k \in 1..Len(events) : k # i /\ w[j] = events[k]
  <2>1. \A j \in 1..Len(w) : (IF j < i THEN j ELSE j + 1) # i
    BY <1>1
  <2>. QED
    BY <1>1, <2>1
<1>3. \A k \in 1..Len(events) : k # i => \E j \in 1..Len(w) : w[j] = events[k]
  BY <1>1
<1>4. ASSUME Final(events[i].type) PROVE \A k \in 1..Len(events) : k # i => events[k].u # u
  <2>1. ASSUME NEW k \in 1..Len(events), k # i PROVE events[k].u # u
    <3>1. CASE k < i
      <4>1. k \in 1..i - 1
        BY <3>1
      <4>. QED
        BY <4>1
    <3>2. CASE k > i
      <4>1. k \in i + 1..Len(events)
        BY <3>2
      <4>. QED
        BY <4>1, <1>4 DEF Settled
    <3>. QED
      BY <2>1, <3>1, <3>2
  <2>. QED
    BY <2>1
<1>5. Ended(w) = IF Final(events[i].type) THEN Ended(events) \ {u} ELSE Ended(events)
  <2>1. ASSUME NEW x \in Ended(w)
        PROVE  x \in Ended(events) /\ (Final(events[i].type) => x # u)
    <3>1. PICK j \in 1..Len(w) : x = w[j].u /\ Final(w[j].type)
      BY DEF Ended, Ran
    <3>2. PICK k \in 1..Len(events) : k # i /\ w[j] = events[k]
      BY <1>2
    <3>. QED
      BY <3>1, <3>2, <1>4 DEF Ended, Ran
  <2>2. ASSUME NEW x \in Ended(events), Final(events[i].type) => x # u PROVE x \in Ended(w)
    <3>1. PICK k \in 1..Len(events) : x = events[k].u /\ Final(events[k].type)
      BY DEF Ended, Ran
    <3>2. k # i
      BY <2>2, <3>1
    <3>3. PICK j \in 1..Len(w) : w[j] = events[k]
      BY <3>2, <1>3
    <3>. QED
      BY <3>1, <3>3 DEF Ended, Ran
  <2>. QED
    BY <2>1, <2>2
<1>6. Settled(w, C)
  <2>. SUFFICES ASSUME NEW j \in 1..Len(w)
                PROVE  /\ w[j].u \in C \cup Ended(w)
                       /\ Final(w[j].type) => \A k \in j + 1..Len(w) : w[k].u # w[j].u
    BY DEF Settled
  <2>1. w[j].u \in C \cup Ended(w)
    <3>1. PICK k \in 1..Len(events) : k # i /\ w[j] = events[k]
      BY <1>2
    <3>2. events[k].u \in C \cup Ended(events)
      BY DEF Settled
    <3>. QED
      BY <3>1, <3>2, <1>4, <1>5
  <2>2. ASSUME Final(w[j].type), NEW k \in j + 1..Len(w) PROVE w[k].u # w[j].u
    <3>1. PICK a \in 1..Len(events) : a = (IF j < i THEN j ELSE j + 1) /\ w[j] = events[a]
      BY <1>1
    <3>2. k \in 1..Len(w) /\ k > j
      BY <1>1
    <3>3. PICK b \in 1..Len(events) : b = (IF k < i THEN k ELSE k + 1) /\ w[k] = events[b]
      BY <3>2, <1>1
    <3>4. b \in a + 1..Len(events)
      BY <3>1, <3>2, <3>3
    <3>. QED
      BY <2>2, <3>1, <3>3, <3>4 DEF Settled
  <2>. QED
    BY <2>1, <2>2
<1>. QED
  BY <1>1, <1>5, <1>6 DEF w

-----------------------------------------------------------------------------
(* The state of the controller after a handler.                            *)

LEMMA BecomeIs ==
  ASSUME NEW s \in Controller, Become(s)
  PROVE  State' = s
  BY DEF Become, Controller, State

LEMMA StateFields ==
  State.tts = tts /\ State.toPage = toPage /\ State.speechd = speechd
  BY DEF State

(* The controller goes on, or says nothing.                                *)
GoesOn(s, t) ==
  \/ t.tts.current = None /\ (s.speechd.said = <<>> => t.speechd.said = <<>>)
  \/ /\ t.tts.current # None /\ t.tts.platform = t.tts.current
     /\ s.speechd.said = <<>> =>
          /\ Len(t.speechd.said) = 1 /\ t.speechd.said[1].u = t.tts.current
          /\ ~t.speechd.said[1].stopped

(* Nothing changes that tells which utterance is spoken.                   *)
SameVoice(s, t) ==
  /\ t.tts.current = s.tts.current /\ t.tts.platform = s.tts.platform
  /\ t.speechd.notified = s.speechd.notified
  /\ Len(t.speechd.said) = Len(s.speechd.said)
  /\ \A i \in 1..Len(s.speechd.said) :
       /\ t.speechd.said[i].u = s.speechd.said[i].u
       /\ t.speechd.said[i].stopped = s.speechd.said[i].stopped

LEMMA CallsStep ==
  ASSUME NEW failed \in Nat, Calls(failed), faults \in Nat, connection \in Connections
  PROVE  faults' \in Nat /\ connection' \in Connections
  BY DEF Calls, Connections

LEMMA ContinueStep ==
  ASSUME NEW s \in Controller, faults \in Nat, connection \in Connections,
         Whole(s), s.tts.current = None, Continue(s)
  PROVE  /\ State' \in Controller /\ faults' \in Nat /\ connection' \in Connections
         /\ Whole(State') /\ Contents(State') = Contents(s)
         /\ State'.speechd.notified = s.speechd.notified /\ GoesOn(s, State')
<1> DEFINE n == Len(s.tts.queue)
<1>1. n \in Nat
  BY TypesOfParts
<1>2. PICK failed \in 0..(IF s.tts.paused THEN 0 ELSE n) :
        /\ Calls(failed)
        /\ Become(SpeakNextUtterance(s, IF Available(connection') THEN failed ELSE n, failed))
  BY DEF Continue
<1> DEFINE k == IF Available(connection') THEN failed ELSE n
           t == SpeakNextUtterance(s, k, failed)
<1>3. k \in 0..n /\ failed \in 0..k /\ failed \in Nat
  BY <1>1, <1>2
<1> HIDE DEF k
<1>4. /\ t \in Controller /\ Whole(t) /\ Contents(t) = Contents(s)
      /\ t.speechd.notified = s.speechd.notified /\ GoesOn(s, t)
  BY <1>3, SpeakNextResult DEF GoesOn
<1> HIDE DEF t
<1>5. State' = t
  BY <1>2, <1>4, BecomeIs DEF t, k
<1>. QED
  BY <1>2, <1>3, <1>4, <1>5, CallsStep

LEMMA SpeakStep ==
  ASSUME State \in Controller, faults \in Nat, connection \in Connections, Whole(State),
         NEW u \in Utterance, u \notin Contents(State), SpeakOrEnqueue(u)
  PROVE  /\ State' \in Controller /\ faults' \in Nat /\ connection' \in Connections
         /\ Whole(State') /\ Contents(State') = Contents(State) \cup {u}
         /\ State'.speechd.notified = State.speechd.notified
         /\ \/ SameVoice(State, State') /\ connection' = connection
            \/ State.tts.current = None /\ GoesOn(State, State')
<1>1. CASE Become([State EXCEPT !.tts.queue = Append(@, u)]) /\ UNCHANGED <<connection, faults>>
  <2> DEFINE t == [State EXCEPT !.tts.queue = Append(@, u)]
  <2>1. /\ t \in Controller /\ Whole(t) /\ Contents(t) = Contents(State) \cup {u}
        /\ t.tts.current = State.tts.current /\ t.tts.platform = State.tts.platform
        /\ t.speechd = State.speechd
    BY EnqueueResult
  <2> HIDE DEF t
  <2>2. State' = t
    BY <1>1, <2>1, BecomeIs DEF t
  <2>. QED
    BY <1>1, <2>1, <2>2 DEF SameVoice
<1>2. ASSUME State.tts.current = None, NEW stops \in 0..1, NEW says \in 0..1, Calls(stops + says),
             LET s == Stop(State, stops) IN
             Become(IF says = 0 /\ Available(connection') THEN Say(s, u)
                    ELSE Refuse(s, <<u>>, says))
      PROVE  /\ State' \in Controller /\ faults' \in Nat /\ connection' \in Connections
             /\ Whole(State') /\ Contents(State') = Contents(State) \cup {u}
             /\ State'.speechd.notified = State.speechd.notified
             /\ State.tts.current = None /\ GoesOn(State, State')
  <2>1. stops \in Nat /\ says \in Nat /\ stops + says \in Nat
    OBVIOUS
  <2>2. faults' \in Nat /\ connection' \in Connections
    BY <1>2, <2>1, CallsStep
  <2>3. CASE says = 0 /\ Available(connection')
    <3> DEFINE t == Say(Stop(State, stops), u)
    <3>1. /\ t \in Controller /\ Whole(t) /\ Contents(t) = Contents(State) \cup {u}
          /\ t.tts.current = u /\ t.tts.platform = u
          /\ t.speechd.notified = State.speechd.notified
          /\ State.speechd.said = <<>> =>
               Len(t.speechd.said) = 1 /\ t.speechd.said[1].u = u /\ ~t.speechd.said[1].stopped
      BY <2>1, StopSayResult
    <3>2. Become(t)
      BY <1>2, <2>3
    <3> HIDE DEF t
    <3>3. State' = t
      BY <3>1, <3>2, BecomeIs
    <3>. QED
      BY <1>2, <2>2, <3>1, <3>3, NoneIsNone DEF GoesOn
  <2>4. CASE ~(says = 0 /\ Available(connection'))
    <3> DEFINE t == Refuse(Stop(State, stops), <<u>>, says)
    <3>1. /\ t \in Controller /\ Whole(t) /\ Contents(t) = Contents(State) \cup {u}
          /\ t.tts.current = None
          /\ t.speechd.notified = State.speechd.notified
          /\ State.speechd.said = <<>> => t.speechd.said = <<>>
      BY <2>1, StopRefuseResult
    <3>2. Become(t)
      BY <1>2, <2>4
    <3> HIDE DEF t
    <3>3. State' = t
      BY <3>1, <3>2, BecomeIs
    <3>. QED
      BY <1>2, <2>2, <3>1, <3>3 DEF GoesOn
  <2>. QED
    BY <2>3, <2>4
<1>3. State.tts.current = tts.current
  BY StateFields
<1>4. CASE ~IsSpeaking /\ \E stops \in 0..1, says \in 0..1 :
          /\ Calls(stops + says)
          /\ LET s == Stop(State, stops) IN
             Become(IF says = 0 /\ Available(connection') THEN Say(s, u)
                    ELSE Refuse(s, <<u>>, says))
  <2>1. State.tts.current = None
    BY <1>3, <1>4 DEF IsSpeaking
  <2>. QED
    BY <1>2, <1>4, <2>1
<1>. QED
  BY <1>1, <1>4 DEF SpeakOrEnqueue

LEMMA PauseStep ==
  ASSUME State \in Controller, faults \in Nat, Whole(State), Pause
  PROVE  /\ State' \in Controller /\ faults' \in Nat /\ connection' = connection
         /\ Whole(State') /\ Contents(State') = Contents(State)
         /\ SameVoice(State, State')
<1> DEFINE said == IF tts.current = None THEN State.speechd.said
                                         ELSE Held(State.speechd.said, TRUE)
           t == [State EXCEPT !.tts.paused = TRUE, !.speechd.said = said]
<1>1. State.speechd.said \in Seq(Saying)
  BY SetTtsFields DEF SpeechdState
<1>2. /\ said \in Seq(Saying) /\ Len(said) = Len(State.speechd.said)
      /\ \A i \in 1..Len(said) : /\ said[i].u = State.speechd.said[i].u
                                 /\ said[i].stopped = State.speechd.said[i].stopped
  BY <1>1, HeldResult
<1>3. Become(t) /\ faults' = faults /\ connection' = connection
  BY DEF Pause
<1> HIDE DEF said
<1>4. /\ t \in Controller /\ Whole(t) /\ Contents(t) = Contents(State)
      /\ t.tts.current = State.tts.current /\ t.tts.platform = State.tts.platform
      /\ t.speechd.said = said /\ t.speechd.notified = State.speechd.notified
  BY <1>2, SameUtterances
<1> HIDE DEF t
<1>5. State' = t
  BY <1>3, <1>4, BecomeIs
<1>. QED
  BY <1>2, <1>3, <1>4, <1>5 DEF SameVoice

LEMMA ResumeStep ==
  ASSUME State \in Controller, faults \in Nat, connection \in Connections, Whole(State), Resume
  PROVE  /\ State' \in Controller /\ faults' \in Nat /\ connection' \in Connections
         /\ Whole(State') /\ Contents(State') = Contents(State)
         /\ State'.speechd.notified = State.speechd.notified
         /\ \/ SameVoice(State, State') /\ connection' = connection
            \/ State.tts.current = None /\ GoesOn(State, State')
<1> DEFINE s == [State EXCEPT !.tts.paused = FALSE]
<1>1. State.speechd.said \in Seq(Saying) /\ State.tts.current = tts.current
      /\ State.tts.queue = tts.queue
  BY SetTtsFields, StateFields DEF SpeechdState
<1>2. CASE tts.current # None /\ Become([s EXCEPT !.speechd.said = Held(@, FALSE)])
           /\ UNCHANGED <<connection, faults>>
  <2> DEFINE said == Held(State.speechd.said, FALSE)
             t == [State EXCEPT !.tts.paused = FALSE, !.speechd.said = said]
  <2>1. /\ said \in Seq(Saying) /\ Len(said) = Len(State.speechd.said)
        /\ \A i \in 1..Len(State.speechd.said) :
             /\ said[i].u = State.speechd.said[i].u
             /\ said[i].stopped = State.speechd.said[i].stopped
    BY <1>1, HeldResult
  <2>2. Become(t)
    <3>1. [s EXCEPT !.speechd.said = Held(@, FALSE)] = t
      BY DEF Controller
    <3>. QED
      BY <1>2, <3>1
  <2> HIDE DEF said
  <2>3. /\ t \in Controller /\ Whole(t) /\ Contents(t) = Contents(State)
        /\ t.tts.current = State.tts.current /\ t.tts.platform = State.tts.platform
        /\ t.speechd.said = said /\ t.speechd.notified = State.speechd.notified
    BY <2>1, SameUtterances
  <2> HIDE DEF t
  <2>4. State' = t
    BY <2>2, <2>3, BecomeIs
  <2>. QED
    BY <1>2, <2>1, <2>3, <2>4 DEF SameVoice
<1>3. ASSUME tts.current = None, Continue(s)
      PROVE  /\ State' \in Controller /\ faults' \in Nat /\ connection' \in Connections
             /\ Whole(State') /\ Contents(State') = Contents(State)
             /\ State'.speechd.notified = State.speechd.notified
             /\ State.tts.current = None /\ GoesOn(State, State')
  <2>1. s = [State EXCEPT !.tts = [State.tts EXCEPT !.paused = FALSE]]
    BY SetTtsFields
  <2> HIDE DEF s
  <2>2. /\ s \in Controller /\ Whole(s) /\ Contents(s) = Contents(State)
        /\ s.tts.current = None /\ s.speechd = State.speechd
    <3> DEFINE x == [State.tts EXCEPT !.paused = FALSE]
    <3>1. x \in TtsState /\ x.current = State.tts.current /\ x.queue = State.tts.queue
      BY SetTtsFields, TtsFields, EmptySeq
    <3> HIDE DEF x
    <3>2. s = [State EXCEPT !.tts = x]
      BY <2>1 DEF x
    <3>3. s \in Controller /\ s.tts = x /\ s.toPage = State.toPage /\ s.speechd = State.speechd
      BY <3>1, <3>2, SetTts
    <3>. QED
      BY <1>1, <1>3, <3>1, <3>3 DEF Whole, Contents
  <2>3. /\ State' \in Controller /\ faults' \in Nat /\ connection' \in Connections
        /\ Whole(State') /\ Contents(State') = Contents(s)
        /\ State'.speechd.notified = s.speechd.notified /\ GoesOn(s, State')
    BY <1>3, <2>2, ContinueStep
  <2>. QED
    BY <1>1, <1>3, <2>2, <2>3 DEF GoesOn
<1>4. \/ tts.current # None /\ Become([s EXCEPT !.speechd.said = Held(@, FALSE)])
           /\ UNCHANGED <<connection, faults>>
      \/ tts.current = None /\ Continue(s)
  BY DEF Resume
<1> HIDE DEF s
<1>. QED
  BY <1>2, <1>3, <1>4

LEMMA CancelStep ==
  ASSUME State \in Controller, faults \in Nat, connection \in Connections, Whole(State),
         NEW stops \in 0..1, Calls(stops), Become(Stop(State, stops))
  PROVE  /\ State' \in Controller /\ Whole(State') /\ Contents(State') = Contents(State)
         /\ faults' \in Nat /\ connection' \in Connections
         /\ State'.tts.current = None
<1> DEFINE t == Stop(State, stops)
<1>1. stops \in Nat
  OBVIOUS
<1>2. /\ t \in Controller /\ Whole(t) /\ Contents(t) = Contents(State)
      /\ t.tts.current = None
  BY <1>1, StopResult
<1> HIDE DEF t
<1>3. State' = t
  BY <1>2, BecomeIs DEF t
<1>. QED
  BY <1>1, <1>2, <1>3, CallsStep

LEMMA EventStep ==
  ASSUME State \in Controller, faults \in Nat, connection \in Connections, Whole(State),
         NEW type \in Notes, OnTtsEvent(type)
  PROVE  /\ State' \in Controller /\ faults' \in Nat /\ connection' \in Connections
         /\ Whole(State') /\ Contents(State') = Contents(State)
         /\ State'.speechd.notified = State.speechd.notified
         /\ \/ State' = State /\ connection' = connection
               /\ (State.tts.current = None \/ State.tts.current # State.tts.platform)
            \/ ~Final(type) /\ State.tts.current # None
               /\ State'.tts = State.tts /\ State'.speechd = State.speechd
               /\ connection' = connection
            \/ Final(type) /\ State.tts.current # None /\ GoesOn(State, State')
<1>1. State.tts.current = tts.current /\ State.tts.platform = tts.platform
      /\ State.tts.queue = tts.queue
  BY StateFields
<1>2. CASE tts.current = None \/ tts.current # tts.platform
  <2>1. UNCHANGED <<tts, toPage, speechd, connection, faults>>
    BY <1>2 DEF OnTtsEvent
  <2>2. State' = State
    BY <2>1 DEF State
  <2>. QED
    BY <1>1, <1>2, <2>1, <2>2
<1>3. CASE tts.current # None /\ tts.current = tts.platform /\ ~Final(type)
  <2> DEFINE t == Tell(State, <<State.tts.current>>, type)
  <2>1. type \in {"begin", "pause", "resume"}
    BY <1>3 DEF Notes, Final
  <2>2. Become(t) /\ faults' = faults /\ connection' = connection
    BY <1>1, <1>3 DEF OnTtsEvent
  <2>3. /\ t \in Controller /\ Whole(t) /\ Contents(t) = Contents(State)
        /\ t.tts = State.tts /\ t.speechd = State.speechd
    BY <1>1, <1>3, <2>1, InformResult
  <2> HIDE DEF t
  <2>4. State' = t
    BY <2>2, <2>3, BecomeIs
  <2>. QED
    BY <1>1, <1>3, <2>2, <2>3, <2>4
<1>4. CASE tts.current # None /\ tts.current = tts.platform /\ Final(type)
  <2> DEFINE s == FinishCurrentUtterance(Tell(State, <<State.tts.current>>, type))
  <2>1. type \in {"end", "interrupted", "cancelled", "error"}
    BY <1>4 DEF Final
  <2>2. Continue(s)
    BY <1>1, <1>4 DEF OnTtsEvent
  <2>3. /\ s \in Controller /\ Whole(s) /\ Contents(s) = Contents(State)
        /\ s.tts = [State.tts EXCEPT !.current = None] /\ s.speechd = State.speechd
    BY <1>1, <1>4, <2>1, CurrentEnds
  <2> HIDE DEF s
  <2>4. s.tts.current = None
    BY <2>3, SetTtsFields, TtsFields, EmptySeq
  <2>5. /\ State' \in Controller /\ faults' \in Nat /\ connection' \in Connections
        /\ Whole(State') /\ Contents(State') = Contents(s)
        /\ State'.speechd.notified = s.speechd.notified /\ GoesOn(s, State')
    BY <2>2, <2>3, <2>4, ContinueStep
  <2>. QED
    BY <1>1, <1>4, <2>3, <2>5 DEF GoesOn
<1>. QED
  BY <1>2, <1>3, <1>4

-----------------------------------------------------------------------------
(* Messages of the pages.                                                  *)

LEMMA QueueTail ==
  ASSUME NEW q \in Seq(Message), q # <<>>
  PROVE  /\ Tail(q) \in Seq(Message) /\ Head(q) \in Message /\ Head(q) = q[1]
         /\ Len(q) \in Nat \ {0} /\ Len(Tail(q)) = Len(q) - 1
         /\ \A i \in 1..Len(q) - 1 : i + 1 \in 1..Len(q) /\ Tail(q)[i] = q[i + 1]
         /\ Spoken(q) = Spoken(Tail(q)) \cup (IF Head(q).type = "speak" THEN {Head(q).u} ELSE {})
<1>1. /\ Tail(q) \in Seq(Message) /\ Head(q) \in Message /\ Head(q) = q[1]
      /\ Len(q) \in Nat \ {0} /\ Len(Tail(q)) = Len(q) - 1
      /\ \A i \in 1..Len(q) - 1 : i + 1 \in 1..Len(q) /\ Tail(q)[i] = q[i + 1]
  OBVIOUS
<1>2. \A i \in 2..Len(q) : i - 1 \in 1..Len(Tail(q)) /\ Tail(q)[i - 1] = q[i]
  BY <1>1
<1>3. Ran(q) = {Head(q)} \cup Ran(Tail(q))
  <2>1. ASSUME NEW i \in 1..Len(q) PROVE q[i] = q[1] \/ \E j \in 1..Len(Tail(q)) : Tail(q)[j] = q[i]
    <3>1. i = 1 \/ i \in 2..Len(q)
      BY <1>1
    <3>. QED
      BY <1>2, <3>1
  <2>. QED
    BY <2>1, <1>1 DEF Ran
<1>. QED
  BY <1>1, <1>3 DEF Spoken

LEMMA QueueAppend ==
  ASSUME NEW q \in Seq(Message), NEW m \in Message
  PROVE  /\ Append(q, m) \in Seq(Message) /\ Len(Append(q, m)) = Len(q) + 1 /\ Len(q) \in Nat
         /\ \A i \in 1..Len(q) : Append(q, m)[i] = q[i]
         /\ Append(q, m)[Len(q) + 1] = m
         /\ Spoken(Append(q, m)) = Spoken(q) \cup (IF m.type = "speak" THEN {m.u} ELSE {})
<1>1. /\ Append(q, m) \in Seq(Message) /\ Len(Append(q, m)) = Len(q) + 1 /\ Len(q) \in Nat
      /\ \A i \in 1..Len(q) : Append(q, m)[i] = q[i]
      /\ Append(q, m)[Len(q) + 1] = m
  OBVIOUS
<1>2. Ran(Append(q, m)) = Ran(q) \cup {m}
  BY RanAppend
<1>. QED
  BY <1>1, <1>2 DEF Spoken

LEMMA MessageTypes ==
  ASSUME NEW m \in Message
  PROVE  /\ m.type = "speak" => m.u \in Utterance
         /\ m.type # "speak" => m.u = None
         /\ m.type \in {"speak", "pause", "resume", "cancel"}
  BY DEF Message

LEMMA FreshTail ==
  ASSUME NEW q \in Seq(Message), q # <<>>, NEW p, NEW n \in Nat, NEW C, Fresh(q, p, n, C)
  PROVE  /\ Fresh(Tail(q), p, n, C)
         /\ Head(q).type = "speak" =>
              /\ Owner(Head(q).u) = p /\ Head(q).u[2] <= n /\ Head(q).u \notin C
              /\ Fresh(Tail(q), p, n, C \cup {Head(q).u})
<1>1. /\ Len(q) \in Nat \ {0} /\ Len(Tail(q)) = Len(q) - 1 /\ Head(q) = q[1]
      /\ \A i \in 1..Len(q) - 1 : i + 1 \in 1..Len(q) /\ Tail(q)[i] = q[i + 1]
  BY QueueTail
<1> DEFINE t == Tail(q)
<1> HIDE DEF t
<1>2. \A i \in 1..Len(t) : i + 1 \in 1..Len(q) /\ t[i] = q[i + 1]
  BY <1>1 DEF t
<1>3. ASSUME NEW i \in 1..Len(t), t[i].type = "speak", NEW j \in i + 1..Len(t)
      PROVE  t[j].u # t[i].u
  <2>1. j \in 1..Len(t) /\ j + 1 \in i + 1 + 1..Len(q)
    BY <1>1 DEF t
  <2>. QED
    BY <1>2, <1>3, <2>1 DEF Fresh
<1>4. Fresh(t, p, n, C)
  BY <1>2, <1>3 DEF Fresh
<1>5. ASSUME Head(q).type = "speak"
      PROVE  /\ Owner(Head(q).u) = p /\ Head(q).u[2] <= n /\ Head(q).u \notin C
             /\ Fresh(t, p, n, C \cup {Head(q).u})
  <2>1. 1 \in 1..Len(q) /\ q[1].type = "speak"
    BY <1>1, <1>5
  <2>2. \A i \in 1..Len(t) : i + 1 \in 1 + 1..Len(q)
    BY <1>1 DEF t
  <2>3. \A i \in 1..Len(t) : t[i].u # Head(q).u
    BY <1>1, <1>2, <2>1, <2>2 DEF Fresh
  <2>4. Fresh(t, p, n, C \cup {Head(q).u})
    BY <1>4, <2>3 DEF Fresh
  <2>5. Owner(q[1].u) = p /\ q[1].u[2] <= n /\ q[1].u \notin C
    BY <2>1 DEF Fresh
  <2>. QED
    BY <1>1, <2>4, <2>5
<1>. QED
  BY <1>4, <1>5 DEF t

LEMMA FreshElsewhere ==
  ASSUME NEW q, NEW p, NEW n, NEW C, NEW u, Owner(u) # p, Fresh(q, p, n, C)
  PROVE  Fresh(q, p, n, C \cup {u})
  BY DEF Fresh

LEMMA FreshLess ==
  ASSUME NEW q, NEW p, NEW n, NEW C, NEW D, D \subseteq C, Fresh(q, p, n, C)
  PROVE  Fresh(q, p, n, D)
  BY DEF Fresh

LEMMA FreshLater ==
  ASSUME NEW q \in Seq(Message), NEW p, NEW n \in Nat, NEW C, Fresh(q, p, n, C)
  PROVE  Fresh(q, p, n + 1, C)
<1>1. \A i \in 1..Len(q) : q[i] \in Message
  OBVIOUS
<1>2. \A i \in 1..Len(q) : q[i].type = "speak" => q[i].u[2] \in Nat
  BY <1>1, MessageTypes DEF Utterance
<1>3. \A i \in 1..Len(q) : q[i].type = "speak" => q[i].u[2] <= n + 1
  BY <1>2 DEF Fresh
<1>. QED
  BY <1>3 DEF Fresh

LEMMA FreshAppend ==
  ASSUME NEW q \in Seq(Message), NEW p \in Pages, NEW n \in Nat, NEW C, NEW m \in Message,
         Fresh(q, p, n, C), \A u \in C : u \in Utterance /\ u[2] <= n,
         m.type = "speak" => m.u = <<p, n + 1>>
  PROVE  Fresh(Append(q, m), p, IF m.type = "speak" THEN n + 1 ELSE n, C)
<1> DEFINE t == Append(q, m)
           k == IF m.type = "speak" THEN n + 1 ELSE n
<1>1. /\ t \in Seq(Message) /\ Len(t) = Len(q) + 1 /\ Len(q) \in Nat
      /\ \A i \in 1..Len(q) : t[i] = q[i]
      /\ t[Len(q) + 1] = m
  BY QueueAppend
<1> HIDE DEF t
<1>2. \A i \in 1..Len(t) : i \in 1..Len(q) \/ i = Len(q) + 1
  BY <1>1
<1>3. Fresh(q, p, k, C)
  BY FreshLater
<1>4. m.type = "speak" => Owner(m.u) = p /\ m.u[2] = n + 1 /\ m.u \notin C
  <2>1. n + 1 > n
    OBVIOUS
  <2>2. <<p, n + 1>>[1] = p /\ <<p, n + 1>>[2] = n + 1
    OBVIOUS
  <2>3. <<p, n + 1>> \notin C
    BY <2>2
  <2>. QED
    BY <2>2, <2>3 DEF Owner
<1>5. ASSUME NEW i \in 1..Len(q), q[i].type = "speak" PROVE q[i].u # m.u
  <2>1. q[i] \in Message
    OBVIOUS
  <2>2. q[i].u \in Utterance /\ q[i].u[2] <= n
    BY <1>5, <2>1, MessageTypes DEF Fresh
  <2>3. CASE m.type = "speak"
    BY <1>4, <2>2, <2>3 DEF Utterance
  <2>4. CASE m.type # "speak"
    BY <2>2, <2>4, MessageTypes, NoneIsNone
  <2>. QED
    BY <2>3, <2>4
<1>6. SUFFICES ASSUME NEW i \in 1..Len(t), t[i].type = "speak"
               PROVE  /\ Owner(t[i].u) = p /\ t[i].u[2] <= k /\ t[i].u \notin C
                      /\ \A j \in i + 1..Len(t) : t[j].u # t[i].u
  BY DEF Fresh, t
<1>7. CASE i = Len(q) + 1
  <2>1. \A j \in i + 1..Len(t) : FALSE
    BY <1>1, <1>7
  <2>. QED
    BY <1>1, <1>4, <1>6, <1>7, <2>1
<1>8. CASE i \in 1..Len(q)
  <2>1. t[i] = q[i]
    BY <1>1, <1>8
  <2>2. Owner(t[i].u) = p /\ t[i].u[2] <= k /\ t[i].u \notin C
    <3> HIDE DEF k
    <3>. QED
      BY <1>3, <1>6, <1>8, <2>1 DEF Fresh
  <2>3. ASSUME NEW j \in i + 1..Len(t) PROVE t[j].u # t[i].u
    <3>1. (j \in i + 1..Len(q) /\ j \in 1..Len(q)) \/ j = Len(q) + 1
      BY <1>1, <1>8
    <3>2. CASE j = Len(q) + 1
      BY <1>1, <1>5, <1>6, <1>8, <2>1, <3>2
    <3>3. CASE j \in i + 1..Len(q) /\ j \in 1..Len(q)
      BY <1>1, <1>6, <1>8, <2>1, <3>3 DEF Fresh
    <3>. QED
      BY <3>1, <3>2, <3>3
  <2>. QED
    BY <2>2, <2>3
<1>. QED
  BY <1>2, <1>7, <1>8

-----------------------------------------------------------------------------
(* The inductive invariant of the utterances.                              *)

Inv == TypeOK /\ UtteranceInv

LEMMA InvInit == Init => Inv
<1> SUFFICES ASSUME Init PROVE Inv
  OBVIOUS
<1>1. toController \in [Pages -> Seq(Message)] /\ tasks \in Seq(Notes)
      /\ tts.queue \in Seq(Utterance) /\ toPage \in Seq(Event) /\ speechd.said \in Seq(Saying)
  BY EmptySeq DEF Init
<1>2. pages \in [Pages -> [alive : BOOLEAN, known : SUBSET Utterance]]
  BY DEF Init
<1>3. tts \in TtsState /\ speechd \in SpeechdState
  BY <1>1 DEF Init, TtsState, SpeechdState, Notes
<1>4. State \in Controller
  BY <1>1, <1>3 DEF State, Controller
<1>5. TypeOK
  BY <1>1, <1>2, <1>4 DEF TypeOK, Init, Connections
<1>6. /\ State.tts.queue = <<>> /\ State.tts.current = None /\ State.toPage = <<>>
  BY StateFields DEF Init
<1>7. Ran(<<>>) = {} /\ Ended(<<>>) = {} /\ Distinct(<<>>) /\ Spoken(<<>>) = {}
      /\ (\A C : Settled(<<>>, C)) /\ \A p, n, C : Fresh(<<>>, p, n, C)
  BY DEF Ran, Ended, Distinct, Spoken, Settled, Fresh
<1>8. Contents(State) = {} /\ Whole(State)
  BY <1>6, <1>7 DEF Contents, Whole
<1>9. MessagesInv /\ KnownInv
  BY <1>7, <1>8 DEF MessagesInv, KnownInv, Init
<1>. QED
  BY <1>5, <1>8, <1>9 DEF Inv, UtteranceInv

(* Nothing that the invariant is about changes but the messages and pages. *)
LEMMA SameState ==
  ASSUME Inv, UNCHANGED <<tts, toPage, speechd>>
  PROVE  State' \in Controller /\ Whole(State') /\ Contents(State') = Contents(State)
         /\ State' = State
<1>1. State' = State
  BY DEF State
<1>. QED
  BY <1>1 DEF Inv, TypeOK, UtteranceInv

LEMMA PageSpeaksKeepsInv ==
  ASSUME Inv, NEW p \in Pages, PageSpeaks(p)
  PROVE  Inv'
<1> DEFINE u == <<p, asked + 1>>
           m == [type |-> "speak", u |-> u]
<1> USE DEF Inv, UtteranceInv
<1>1. /\ State' \in Controller /\ Whole(State') /\ Contents(State') = Contents(State)
  BY SameState DEF PageSpeaks
<1>2. asked \in Nat /\ u \in Utterance /\ m \in Message
  BY DEF TypeOK, Utterance, Message
<1>3. /\ toController' = [toController EXCEPT ![p] = Append(@, m)]
      /\ pages' = [pages EXCEPT ![p].known = @ \cup {u}] /\ pages[p].alive
      /\ asked' = asked + 1 /\ UNCHANGED <<connection, tasks, commands, cancels, faults>>
  BY DEF PageSpeaks, Send
<1>4. /\ toController \in [Pages -> Seq(Message)]
      /\ pages \in [Pages -> [alive : BOOLEAN, known : SUBSET Utterance]]
  BY DEF TypeOK
<1> HIDE DEF u, m
<1>5. /\ Append(toController[p], m) \in Seq(Message)
      /\ Spoken(Append(toController[p], m)) = Spoken(toController[p]) \cup {u}
  BY <1>2, <1>4, QueueAppend DEF m
<1>6. TypeOK'
  <2>1. toController' \in [Pages -> Seq(Message)]
    BY <1>3, <1>4, <1>5
  <2>2. pages' \in [Pages -> [alive : BOOLEAN, known : SUBSET Utterance]]
    BY <1>2, <1>3, <1>4
  <2>. QED
    BY <1>1, <1>2, <1>3, <2>1, <2>2 DEF TypeOK
<1>7. MessagesInv'
  <2>1. \A v \in Contents(State) : v \in Utterance /\ v[2] <= asked
    BY DEF MessagesInv
  <2>2. \A v \in Contents(State) : v \in Utterance /\ v[2] <= asked'
    BY <1>2, <1>3, <2>1 DEF Utterance
  <2>3. ASSUME NEW q \in Pages PROVE Fresh(toController'[q], q, asked', Contents(State))
    <3>1. Fresh(toController[q], q, asked, Contents(State)) /\ toController[q] \in Seq(Message)
      BY <1>4 DEF MessagesInv
    <3>2. CASE q = p
      <4>1. toController'[q] = Append(toController[q], m)
        BY <1>3, <1>4, <3>2
      <4>2. m.type = "speak" /\ m.u = <<q, asked + 1>>
        BY <3>2 DEF m, u
      <4>. QED
        BY <1>2, <1>3, <2>1, <3>1, <4>1, <4>2, FreshAppend
    <3>3. CASE q # p
      <4>1. toController'[q] = toController[q]
        BY <1>3, <1>4, <3>3
      <4>. QED
        BY <1>2, <1>3, <3>1, <4>1, FreshLater
    <3>. QED
      BY <3>2, <3>3
  <2>. QED
    BY <1>1, <2>2, <2>3 DEF MessagesInv
<1>8. KnownInv'
  <2>1. ASSUME NEW q \in Pages
        PROVE  pages'[q].known = IF pages'[q].alive
                                 THEN {v \in Spoken(toController'[q]) \cup Contents(State) : Owner(v) = q}
                                 ELSE {}
    <3>1. pages[q].known = IF pages[q].alive
                           THEN {v \in Spoken(toController[q]) \cup Contents(State) : Owner(v) = q}
                           ELSE {}
      BY DEF KnownInv
    <3>2. CASE q = p
      <4>1. pages'[q].alive /\ pages'[q].known = pages[q].known \cup {u} /\ Owner(u) = p
        BY <1>3, <1>4, <3>2 DEF Owner, u
      <4>2. Spoken(toController'[q]) = Spoken(toController[q]) \cup {u}
        BY <1>3, <1>4, <1>5, <3>2
      <4>. QED
        BY <1>3, <3>1, <3>2, <4>1, <4>2
    <3>3. CASE q # p
      <4>1. pages'[q] = pages[q] /\ toController'[q] = toController[q]
        BY <1>3, <1>4, <3>3
      <4>. QED
        BY <3>1, <4>1
    <3>. QED
      BY <3>2, <3>3
  <2>. QED
    BY <1>1, <2>1 DEF KnownInv
<1>. QED
  BY <1>1, <1>6, <1>7, <1>8

LEMMA PageCommandsKeepsInv ==
  ASSUME Inv, NEW p \in Pages, PageCommands(p)
  PROVE  Inv'
<1> USE DEF Inv, UtteranceInv
<1>1. PICK type \in {"pause", "resume", "cancel"} :
        /\ Send(p, type, None)
        /\ cancels' = IF type = "cancel" THEN cancels + 1 ELSE cancels
  BY DEF PageCommands
<1> DEFINE m == [type |-> type, u |-> None]
<1>2. /\ toController' = [toController EXCEPT ![p] = Append(@, m)]
      /\ commands' = commands + 1
      /\ UNCHANGED <<pages, connection, tasks, asked, faults>>
  BY <1>1 DEF PageCommands, Send
<1>3. /\ State' \in Controller /\ Whole(State') /\ Contents(State') = Contents(State)
  BY SameState DEF PageCommands
<1>4. m \in Message /\ m.type # "speak"
  BY DEF Message
<1>5. /\ toController \in [Pages -> Seq(Message)] /\ commands \in Nat /\ cancels \in Nat
      /\ asked \in Nat
  BY DEF TypeOK
<1> HIDE DEF m
<1>6. /\ Append(toController[p], m) \in Seq(Message)
      /\ Spoken(Append(toController[p], m)) = Spoken(toController[p])
  <2>1. toController[p] \in Seq(Message)
    BY <1>5
  <2>2. Spoken(Append(toController[p], m))
          = Spoken(toController[p]) \cup (IF m.type = "speak" THEN {m.u} ELSE {})
    BY <1>4, <2>1, QueueAppend
  <2>. QED
    BY <1>4, <2>1, <2>2, QueueAppend
<1>7. TypeOK'
  <2>1. toController' \in [Pages -> Seq(Message)] /\ cancels' \in Nat /\ commands' \in Nat
    BY <1>1, <1>2, <1>5, <1>6
  <2>. QED
    BY <1>2, <1>3, <2>1 DEF TypeOK
<1>8. MessagesInv'
  <2>1. \A v \in Contents(State) : v \in Utterance /\ v[2] <= asked
    BY DEF MessagesInv
  <2>2. ASSUME NEW q \in Pages PROVE Fresh(toController'[q], q, asked, Contents(State))
    <3>1. Fresh(toController[q], q, asked, Contents(State)) /\ toController[q] \in Seq(Message)
      BY <1>5 DEF MessagesInv
    <3>2. CASE q = p
      <4>1. toController'[q] = Append(toController[q], m)
        BY <1>2, <1>5, <3>2
      <4>. QED
        BY <1>4, <1>5, <2>1, <3>1, <4>1, FreshAppend
    <3>3. CASE q # p
      <4>1. toController'[q] = toController[q]
        BY <1>2, <1>5, <3>3
      <4>. QED
        BY <3>1, <4>1
    <3>. QED
      BY <3>2, <3>3
  <2>. QED
    BY <1>2, <1>3, <2>1, <2>2 DEF MessagesInv
<1>9. KnownInv'
  <2>1. \A q \in Pages : Spoken(toController'[q]) = Spoken(toController[q])
    BY <1>2, <1>5, <1>6
  <2>. QED
    BY <1>2, <1>3, <2>1 DEF KnownInv
<1>. QED
  BY <1>3, <1>7, <1>8, <1>9

LEMMA PageReceivesKeepsInv ==
  ASSUME Inv, NEW p \in Pages, PageReceives(p)
  PROVE  Inv'
<1> USE DEF Inv, UtteranceInv
<1>1. PICK i \in 1..Len(toPage) :
        /\ Owner(toPage[i].u) = p /\ \A j \in 1..i - 1 : Owner(toPage[j].u) # p
        /\ toPage' = Without(toPage, i)
        /\ pages' = [pages EXCEPT ![p].known = IF Final(toPage[i].type) THEN @ \ {toPage[i].u} ELSE @]
  BY DEF PageReceives
<1> DEFINE e == toPage[i]
<1>2. UNCHANGED <<toController, tts, speechd, connection, tasks, asked, commands, cancels, faults>> /\ pages[p].alive
  BY DEF PageReceives, counts
<1>3. State \in Controller /\ toPage \in Seq(Event) /\ State.toPage = toPage /\ Whole(State)
      /\ State.tts = tts
  BY StateFields, SetTtsFields DEF TypeOK
<1>4. Final(e.type) => e.u \in Ended(toPage)
  BY DEF Ended, Ran
<1>5. \A j \in 1..i - 1 : toPage[j].u # e.u
  BY <1>1
<1>6. Final(e.type) => e.u \notin {tts.current} /\ e.u \notin Ran(tts.queue)
  BY <1>3, <1>4 DEF Whole
<1>7. /\ toPage' \in Seq(Event) /\ Settled(toPage', {tts.current})
      /\ Ended(toPage') = IF Final(e.type) THEN Ended(toPage) \ {e.u} ELSE Ended(toPage)
  <2>1. Settled(toPage, {tts.current})
    BY <1>3 DEF Whole
  <2> DEFINE w == Without(toPage, i)
  <2>2. /\ w \in Seq(Event) /\ Settled(w, {tts.current})
        /\ Ended(w) = IF Final(e.type) THEN Ended(toPage) \ {e.u} ELSE Ended(toPage)
    BY <1>3, <1>5, <1>6, <2>1, ReceiveResult
  <2>. QED
    BY <1>1, <2>2
<1>8. State' = [State EXCEPT !.toPage = toPage']
  BY <1>2 DEF State
<1>9. State' \in Controller /\ State'.toPage = toPage' /\ State'.tts = tts
  <2> DEFINE t == [State EXCEPT !.toPage = toPage']
  <2>1. t \in Controller /\ t.toPage = toPage' /\ t.tts = tts
    BY <1>3, <1>7, SetToPage
  <2>. QED
    BY <1>8, <2>1
<1> HIDE DEF e
<1>10. Whole(State')
  BY <1>3, <1>7, <1>9 DEF Whole
<1>11. /\ Contents(State') \subseteq Contents(State)
       /\ ~Final(e.type) => Contents(State') = Contents(State)
       /\ Final(e.type) => Contents(State') = Contents(State) \ {e.u} /\ e.u \in Contents(State)
  BY <1>3, <1>4, <1>6, <1>7, <1>9 DEF Contents
<1>12. /\ toController \in [Pages -> Seq(Message)]
       /\ pages \in [Pages -> [alive : BOOLEAN, known : SUBSET Utterance]]
  BY DEF TypeOK
<1>13. TypeOK'
  <2>1. pages' \in [Pages -> [alive : BOOLEAN, known : SUBSET Utterance]]
    BY <1>1, <1>12
  <2>. QED
    BY <1>2, <1>9, <2>1 DEF TypeOK
<1>14. MessagesInv'
  <2>1. \A q \in Pages : Fresh(toController[q], q, asked, Contents(State'))
    BY <1>11, FreshLess DEF MessagesInv
  <2>. QED
    BY <1>2, <1>11, <2>1 DEF MessagesInv
<1>15. \A q \in Pages : Spoken(toController[q]) \cap Contents(State) = {}
  BY DEF MessagesInv, Fresh, Spoken, Ran
<1>16. KnownInv'
  <2>1. ASSUME NEW q \in Pages
        PROVE  pages'[q].known = IF pages'[q].alive
                                 THEN {v \in Spoken(toController[q]) \cup Contents(State') : Owner(v) = q}
                                 ELSE {}
    <3>1. pages[q].known = IF pages[q].alive
                           THEN {v \in Spoken(toController[q]) \cup Contents(State) : Owner(v) = q}
                           ELSE {}
      BY DEF KnownInv
    <3>2. pages'[q].alive = pages[q].alive
          /\ pages'[q].known = IF q = p /\ Final(e.type) THEN pages[q].known \ {e.u} ELSE pages[q].known
      BY <1>1, <1>12 DEF e
    <3>3. Owner(e.u) = p
      BY <1>1 DEF e
    <3>4. CASE ~Final(e.type)
      BY <1>11, <3>1, <3>2, <3>4
    <3>5. CASE Final(e.type) /\ q = p
      <4>1. e.u \notin Spoken(toController[q])
        BY <1>11, <1>15, <3>5
      <4>. QED
        BY <1>11, <3>1, <3>2, <3>5, <4>1
    <3>6. CASE Final(e.type) /\ q # p
      BY <1>11, <3>1, <3>2, <3>3, <3>6
    <3>. QED
      BY <3>4, <3>5, <3>6
  <2>. QED
    BY <1>2, <2>1 DEF KnownInv
<1>. QED
  BY <1>10, <1>13, <1>14, <1>16

LEMMA PageCrashesKeepsInv ==
  ASSUME Inv, NEW p \in Pages, PageCrashes(p)
  PROVE  Inv'
<1> USE DEF Inv, UtteranceInv
<1>1. /\ pages' = [pages EXCEPT ![p].alive = FALSE, ![p].known = {}]
      /\ faults' = faults + 1
      /\ UNCHANGED <<toController, connection, tasks, asked, commands, cancels>>
  BY DEF PageCrashes, counts
<1>2. /\ State' \in Controller /\ Whole(State') /\ Contents(State') = Contents(State)
  BY SameState DEF PageCrashes
<1>3. pages \in [Pages -> [alive : BOOLEAN, known : SUBSET Utterance]] /\ faults \in Nat
  BY DEF TypeOK
<1>4. \A q \in Pages : IF q = p THEN ~pages'[q].alive /\ pages'[q].known = {}
                       ELSE pages'[q] = pages[q]
  BY <1>1, <1>3
<1>5. TypeOK'
  <2>1. pages' \in [Pages -> [alive : BOOLEAN, known : SUBSET Utterance]]
    BY <1>1, <1>3
  <2>. QED
    BY <1>1, <1>2, <1>3, <2>1 DEF TypeOK
<1>6. MessagesInv'
  BY <1>1, <1>2 DEF MessagesInv
<1>7. KnownInv'
  BY <1>1, <1>2, <1>4 DEF KnownInv
<1>. QED
  BY <1>2, <1>5, <1>6, <1>7

(* What a handler of the controller does to Contents: a message "speak"    *)
(* adds its utterance.                                                     *)
LEMMA MessageStep ==
  ASSUME Inv, NEW p \in Pages, OnMessageReceived(p)
  PROVE  LET m == Head(toController[p]) IN
         /\ State' \in Controller /\ faults' \in Nat /\ connection' \in Connections
         /\ Whole(State')
         /\ Contents(State') = Contents(State) \cup (IF m.type = "speak" THEN {m.u} ELSE {})
         /\ \/ m.type = "cancel" /\ State'.tts.current = None
            \/ SameVoice(State, State') /\ connection' = connection
            \/ /\ State.tts.current = None /\ GoesOn(State, State')
               /\ State'.speechd.notified = State.speechd.notified
<1> DEFINE m == Head(toController[p])
<1> USE DEF Inv, UtteranceInv
<1>1. /\ toController[p] # <<>>
      /\ \/ m.type = "speak" /\ SpeakOrEnqueue(m.u)
         \/ m.type = "pause" /\ Pause
         \/ m.type = "resume" /\ Resume
         \/ /\ m.type = "cancel"
            /\ \E stops \in 0..1 : Calls(stops) /\ Become(Stop(State, stops))
  BY DEF OnMessageReceived
<1>2. State \in Controller /\ faults \in Nat /\ Whole(State) /\ toController[p] \in Seq(Message)
      /\ asked \in Nat /\ connection \in Connections
  BY DEF TypeOK
<1>3. m \in Message
  BY <1>1, <1>2, QueueTail
<1>4. Fresh(toController[p], p, asked, Contents(State))
  BY DEF MessagesInv
<1>5. m.type = "speak" => m.u \in Utterance /\ m.u \notin Contents(State)
  BY <1>1, <1>2, <1>3, <1>4, FreshTail, MessageTypes
<1> HIDE DEF m
<1>6. CASE m.type = "speak" /\ SpeakOrEnqueue(m.u)
  <2>1. /\ State' \in Controller /\ faults' \in Nat /\ connection' \in Connections
        /\ Whole(State') /\ Contents(State') = Contents(State) \cup {m.u}
        /\ State'.speechd.notified = State.speechd.notified
        /\ \/ SameVoice(State, State') /\ connection' = connection
           \/ State.tts.current = None /\ GoesOn(State, State')
    BY <1>2, <1>5, <1>6, SpeakStep
  <2>. QED
    BY <1>6, <2>1 DEF m
<1>7. CASE m.type = "pause" /\ Pause
  <2>1. /\ State' \in Controller /\ faults' \in Nat /\ connection' = connection
        /\ Whole(State') /\ Contents(State') = Contents(State)
        /\ SameVoice(State, State')
    BY <1>2, <1>7, PauseStep
  <2>. QED
    BY <1>2, <1>7, <2>1 DEF m
<1>8. CASE m.type = "resume" /\ Resume
  <2>1. /\ State' \in Controller /\ faults' \in Nat /\ connection' \in Connections
        /\ Whole(State') /\ Contents(State') = Contents(State)
        /\ State'.speechd.notified = State.speechd.notified
        /\ \/ SameVoice(State, State') /\ connection' = connection
           \/ State.tts.current = None /\ GoesOn(State, State')
    BY <1>2, <1>8, ResumeStep
  <2>. QED
    BY <1>8, <2>1 DEF m
<1>9. CASE m.type = "cancel"
           /\ \E stops \in 0..1 : Calls(stops) /\ Become(Stop(State, stops))
  <2>1. PICK stops \in 0..1 : Calls(stops) /\ Become(Stop(State, stops))
    BY <1>9
  <2>2. /\ State' \in Controller /\ Whole(State') /\ Contents(State') = Contents(State)
        /\ faults' \in Nat /\ connection' \in Connections
        /\ State'.tts.current = None
    BY <1>2, <2>1, CancelStep
  <2>. QED
    BY <1>9, <2>2 DEF m
<1>. QED
  BY <1>1, <1>6, <1>7, <1>8, <1>9

LEMMA OnMessageReceivedKeepsInv ==
  ASSUME Inv, NEW p \in Pages, OnMessageReceived(p)
  PROVE  Inv'
<1> DEFINE m == Head(toController[p])
<1> USE DEF Inv, UtteranceInv
<1>1. /\ toController[p] # <<>> /\ toController' = [toController EXCEPT ![p] = Tail(@)]
      /\ UNCHANGED <<pages, tasks, asked, commands, cancels>>
  BY DEF OnMessageReceived, counts
<1>2. /\ State' \in Controller /\ faults' \in Nat /\ connection' \in Connections
      /\ Whole(State')
      /\ Contents(State') = Contents(State) \cup (IF m.type = "speak" THEN {m.u} ELSE {})
  BY MessageStep
<1>3. toController \in [Pages -> Seq(Message)] /\ asked \in Nat
  BY DEF TypeOK
<1>4. /\ m \in Message /\ Tail(toController[p]) \in Seq(Message)
      /\ Spoken(toController[p])
           = Spoken(Tail(toController[p])) \cup (IF m.type = "speak" THEN {m.u} ELSE {})
  BY <1>1, <1>3, QueueTail
<1>5. /\ Fresh(Tail(toController[p]), p, asked, Contents(State))
      /\ m.type = "speak" =>
           /\ Owner(m.u) = p /\ m.u[2] <= asked /\ m.u \notin Contents(State)
           /\ Fresh(Tail(toController[p]), p, asked, Contents(State) \cup {m.u})
  <2>1. Fresh(toController[p], p, asked, Contents(State)) /\ toController[p] \in Seq(Message)
    BY <1>3 DEF MessagesInv
  <2>. QED
    BY <1>1, <1>3, <2>1, FreshTail
<1> HIDE DEF m
<1>6. m.type = "speak" => m.u \in Utterance
  BY <1>4, MessageTypes
<1>7. \A q \in Pages : toController'[q] = IF q = p THEN Tail(toController[p]) ELSE toController[q]
  BY <1>1, <1>3
<1>8. TypeOK'
  <2>1. toController' \in [Pages -> Seq(Message)]
    BY <1>1, <1>3, <1>4
  <2>. QED
    BY <1>1, <1>2, <2>1 DEF TypeOK
<1>9. MessagesInv'
  <2>1. \A v \in Contents(State') : v \in Utterance /\ v[2] <= asked
    BY <1>2, <1>5, <1>6 DEF MessagesInv
  <2>2. ASSUME NEW q \in Pages PROVE Fresh(toController'[q], q, asked, Contents(State'))
    <3>1. Fresh(toController[q], q, asked, Contents(State))
      BY DEF MessagesInv
    <3>2. CASE q = p
      BY <1>2, <1>5, <1>7, <3>2
    <3>3. CASE q # p /\ m.type = "speak"
      <4>1. Owner(m.u) # q
        BY <1>5, <3>3
      <4>. QED
        BY <1>2, <1>7, <3>1, <3>3, <4>1, FreshElsewhere
    <3>4. CASE q # p /\ m.type # "speak"
      BY <1>2, <1>7, <3>1, <3>4
    <3>. QED
      BY <3>2, <3>3, <3>4
  <2>. QED
    BY <1>1, <2>1, <2>2 DEF MessagesInv
<1>10. KnownInv'
  <2>1. ASSUME NEW q \in Pages
        PROVE  {v \in Spoken(toController[q]) \cup Contents(State) : Owner(v) = q}
                 = {v \in Spoken(toController'[q]) \cup Contents(State') : Owner(v) = q}
    <3>1. CASE q = p
      BY <1>2, <1>4, <1>7, <3>1
    <3>2. CASE q # p
      BY <1>2, <1>5, <1>7, <3>2
    <3>. QED
      BY <3>1, <3>2
  <2>. QED
    BY <1>1, <2>1 DEF KnownInv
<1>. QED
  BY <1>2, <1>8, <1>9, <1>10

LEMMA TasksTail ==
  ASSUME tasks \in Seq(Notes), tasks # <<>>
  PROVE  /\ Tail(tasks) \in Seq(Notes) /\ Head(tasks) \in Notes /\ Head(tasks) = tasks[1]
         /\ Len(tasks) \in Nat \ {0} /\ Len(Tail(tasks)) = Len(tasks) - 1
         /\ \A i \in 1..Len(tasks) - 1 : i + 1 \in 1..Len(tasks) /\ Tail(tasks)[i] = tasks[i + 1]
  OBVIOUS

LEMMA OnSpeechEventKeepsInv ==
  ASSUME Inv, OnSpeechEvent
  PROVE  Inv'
<1> USE DEF Inv, UtteranceInv
<1>1. /\ tasks # <<>> /\ tasks' = Tail(tasks) /\ OnTtsEvent(Head(tasks))
      /\ UNCHANGED <<pages, toController, asked, commands, cancels>>
  BY DEF OnSpeechEvent, counts
<1>2. tasks \in Seq(Notes) /\ State \in Controller /\ faults \in Nat /\ connection \in Connections
  BY DEF TypeOK
<1>3. Tail(tasks) \in Seq(Notes) /\ Head(tasks) \in Notes
  BY <1>1, <1>2, TasksTail
<1>4. /\ State' \in Controller /\ faults' \in Nat /\ connection' \in Connections
      /\ Whole(State') /\ Contents(State') = Contents(State)
  BY <1>1, <1>2, <1>3, EventStep
<1>5. TypeOK'
  BY <1>1, <1>3, <1>4 DEF TypeOK
<1>6. MessagesInv' /\ KnownInv'
  BY <1>1, <1>4 DEF MessagesInv, KnownInv
<1>. QED
  BY <1>4, <1>5, <1>6

(* The thread of speechd changes what it says and notifies of, no more.    *)
LEMMA DispatcherStep ==
  ASSUME Inv, Dispatcher
  PROVE  /\ speechd' \in SpeechdState /\ tasks' \in Seq(Notes)
         /\ UNCHANGED <<pages, toController, toPage, tts, connection, counts, faults>>
<1>1. speechd \in SpeechdState /\ speechd.said \in Seq(Saying) /\ tasks \in Seq(Notes)
  BY StateFields, SetTtsFields DEF Inv, TypeOK, SpeechdState
<1>2. speechd.said # <<>> =>
        /\ Tail(speechd.said) \in Seq(Saying)
        /\ [speechd.said EXCEPT ![1].begun = TRUE] \in Seq(Saying)
  <2>1. ASSUME speechd.said # <<>> PROVE [speechd.said EXCEPT ![1].begun = TRUE] \in Seq(Saying)
    <3>1. 1 \in 1..Len(speechd.said) /\ speechd.said[1] \in Saying
      BY <1>1, <2>1
    <3>2. [speechd.said[1] EXCEPT !.begun = TRUE] \in Saying
      BY <3>1 DEF Saying
    <3>. QED
      BY <1>1, <3>1, <3>2, ExceptSeq
  <2>2. speechd.said # <<>> => Tail(speechd.said) \in Seq(Saying)
    BY <1>1
  <2>. QED
    BY <2>1, <2>2
<1>3. ASSUME NEW type \in Notes, NEW said \in Seq(Saying), Notify(type, said)
      PROVE  /\ speechd' \in SpeechdState /\ tasks' \in Seq(Notes)
             /\ UNCHANGED <<pages, toController, toPage, tts, connection, counts, faults>>
  BY <1>1, <1>3 DEF Notify, SpeechdState
<1>4. "begin" \in Notes /\ "end" \in Notes /\ "pause" \in Notes /\ "resume" \in Notes
      /\ "cancelled" \in Notes
  BY DEF Notes
<1>5. CASE Begins
  BY <1>2, <1>3, <1>4, <1>5 DEF Begins
<1>6. CASE Ends
  BY <1>2, <1>3, <1>4, <1>6 DEF Ends, Speaking
<1>7. CASE Pauses
  BY <1>1, <1>3, <1>4, <1>7 DEF Pauses
<1>8. CASE Resumes
  BY <1>1, <1>3, <1>4, <1>8 DEF Resumes
<1>9. CASE Cancels
  BY <1>2, <1>3, <1>4, <1>9 DEF Cancels
<1>10. CASE Drops \/ EndsUnheard
  BY <1>1, <1>2, <1>10 DEF Drops, EndsUnheard, Unheard, SpeechdState
<1>. QED
  BY <1>5, <1>6, <1>7, <1>8, <1>9, <1>10 DEF Dispatcher

LEMMA DispatcherKeepsInv ==
  ASSUME Inv, Dispatcher
  PROVE  Inv'
<1> USE DEF Inv, UtteranceInv
<1>1. /\ speechd' \in SpeechdState /\ tasks' \in Seq(Notes)
      /\ UNCHANGED <<pages, toController, toPage, tts, connection, asked, commands, cancels, faults>>
  BY DispatcherStep DEF counts
<1>2. State' \in Controller /\ State'.tts = State.tts /\ State'.toPage = State.toPage
  BY <1>1 DEF State, Controller, TypeOK
<1>3. Whole(State') /\ Contents(State') = Contents(State)
  BY <1>2 DEF Whole, Contents
<1>4. TypeOK'
  BY <1>1, <1>2 DEF TypeOK
<1>5. MessagesInv' /\ KnownInv'
  BY <1>1, <1>3 DEF MessagesInv, KnownInv
<1>. QED
  BY <1>3, <1>4, <1>5

LEMMA InitializeKeepsInv ==
  ASSUME Inv, Initialize
  PROVE  Inv'
<1> USE DEF Inv, UtteranceInv
<1>1. /\ connection' = "open"
      /\ UNCHANGED <<pages, toController, tasks, asked, commands, cancels, faults>>
  BY DEF Initialize, counts
<1>2. /\ State' \in Controller /\ Whole(State') /\ Contents(State') = Contents(State)
  BY SameState DEF Initialize
<1>3. TypeOK'
  BY <1>1, <1>2 DEF TypeOK, Connections
<1>4. MessagesInv' /\ KnownInv'
  BY <1>1, <1>2 DEF MessagesInv, KnownInv
<1>. QED
  BY <1>2, <1>3, <1>4

LEMMA InvNext == Inv /\ [Next]_vars => Inv'
<1> SUFFICES ASSUME Inv, [Next]_vars PROVE Inv'
  OBVIOUS
<1>1. CASE UNCHANGED vars
  <2>1. /\ UNCHANGED <<tts, toPage, speechd>>
        /\ UNCHANGED <<pages, toController, connection, tasks, asked, commands, cancels, faults>>
    BY <1>1 DEF vars, counts
  <2>2. State' = State
    BY <2>1, SameState
  <2>. QED
    BY <2>1, <2>2 DEF Inv, TypeOK, UtteranceInv, MessagesInv, KnownInv
<1>. QED
  BY <1>1, PageSpeaksKeepsInv, PageCommandsKeepsInv, PageReceivesKeepsInv, PageCrashesKeepsInv,
     OnMessageReceivedKeepsInv, OnSpeechEventKeepsInv, InitializeKeepsInv,
     DispatcherKeepsInv DEF Next

(* Every reachable state: utterances and events have their types.          *)
THEOREM TypeCorrect == Spec => []TypeOK
<1>1. Inv => TypeOK
  BY DEF Inv
<1>. QED
  BY <1>1, InvInit, InvNext, PTL DEF Spec

(* Every reachable state: a page finds the utterance of every event that   *)
(* reaches it (FindUtterance in OnDid..), and the last event comes once.   *)
THEOREM EventsHaveUtterances == Spec => []EventsFindUtterance
<1>1. Inv => EventsFindUtterance
  <2> SUFFICES ASSUME Inv, NEW i \in 1..Len(toPage)
               PROVE  /\ pages[Owner(toPage[i].u)].alive
                           => toPage[i].u \in pages[Owner(toPage[i].u)].known
                      /\ Final(toPage[i].type)
                           => \A j \in i + 1..Len(toPage) : toPage[j].u # toPage[i].u
    BY DEF EventsFindUtterance
  <2> DEFINE u == toPage[i].u
  <2>1. Settled(toPage, {tts.current}) /\ toPage \in Seq(Event)
    BY StateFields, SetTtsFields DEF Inv, TypeOK, UtteranceInv, Whole
  <2>2. u \in {tts.current} \cup Ended(toPage)
    BY <2>1 DEF Settled
  <2>3. u \in Utterance
    <3>1. toPage[i] \in Event
      BY <2>1
    <3>. QED
      BY <3>1 DEF Event
  <2>4. u \in Contents(State) /\ Owner(u) \in Pages
    BY <2>2, <2>3, StateFields, NoneIsNone DEF Contents, Owner, Utterance
  <2>5. pages[Owner(u)].alive => u \in pages[Owner(u)].known
    BY <2>4 DEF Inv, UtteranceInv, KnownInv
  <2>. QED
    BY <2>1, <2>5 DEF Settled
<1>. QED
  BY <1>1, InvInit, InvNext, PTL DEF Spec

(* Every reachable state: what a page waits for is on its way to the       *)
(* controller, queued or spoken, or its last event is on its way back.     *)
THEOREM UtterancesAccountedFor == Spec => []NothingForgotten
<1>1. Inv => NothingForgotten
  <2> SUFFICES ASSUME Inv, NEW p \in Pages, NEW u \in pages[p].known
               PROVE  (u \in Asked(p) \cup Ran(tts.queue) \cup {tts.current})
                        <=> ~ \E e \in EventsFor(p) : e.u = u /\ Final(e.type)
    BY DEF NothingForgotten
  <2>1. /\ pages[p].alive /\ u \in Spoken(toController[p]) \cup Contents(State) /\ Owner(u) = p
    BY DEF Inv, UtteranceInv, KnownInv
  <2>2. u \in Utterance /\ toController[p] \in Seq(Message)
    BY DEF Inv, TypeOK
  <2>3. (\E e \in EventsFor(p) : e.u = u /\ Final(e.type)) <=> u \in Ended(toPage)
    BY <2>1 DEF EventsFor, Ended
  <2>4. /\ Contents(State) = Ran(tts.queue) \cup ({tts.current} \ {None}) \cup Ended(toPage)
        /\ (Ran(tts.queue) \cup {tts.current}) \cap Ended(toPage) = {}
    BY StateFields DEF Inv, UtteranceInv, Whole, Contents
  <2>5. u \in Asked(p) <=> u \in Spoken(toController[p])
    <3>1. \A m \in Ran(toController[p]) : m.u = u => m.type = "speak"
      <4>1. \A m \in Ran(toController[p]) : m \in Message
        BY <2>2 DEF Ran
      <4>. QED
        BY <2>2, <4>1, MessageTypes, NoneIsNone
    <3>. QED
      BY <3>1 DEF Asked, Spoken
  <2>6. Spoken(toController[p]) \cap Contents(State) = {}
    BY DEF Inv, UtteranceInv, MessagesInv, Fresh, Spoken, Ran
  <2>. QED
    BY <2>1, <2>2, <2>3, <2>4, <2>5, <2>6, NoneIsNone
<1>. QED
  BY <1>1, InvInit, InvNext, PTL DEF Spec

-----------------------------------------------------------------------------
(* One voice.                                                              *)

LEMMA TailOfOne ==
  ASSUME NEW S, NEW s \in Seq(S), Len(s) = 1
  PROVE  Tail(s) = <<>>
<1> DEFINE t == Tail(s)
<1>1. t \in Seq(S) /\ Len(t) = 0
  <2>1. s # <<>>
    OBVIOUS
  <2>. QED
    BY <2>1
<1> HIDE DEF t
<1>2. t = <<>>
  BY <1>1, EmptySeq
<1>. QED
  BY <1>2 DEF t

LEMMA HeardSame ==
  ASSUME NEW s \in Controller, NEW t \in Controller, NEW notes, SameVoice(s, t), Heard(s, notes)
  PROVE  Heard(t, notes)
<1>1. s.speechd.said \in Seq(Saying) /\ t.speechd.said \in Seq(Saying)
  BY SetTtsFields DEF SpeechdState
<1>2. s.speechd.said = <<>> <=> t.speechd.said = <<>>
  BY <1>1, EmptySeq DEF SameVoice
<1>3. CASE s.speechd.said = <<>>
  BY <1>2, <1>3 DEF SameVoice, Heard
<1>4. CASE s.speechd.said # <<>>
  <2>1. Len(s.speechd.said) = 1 /\ 1 \in 1..Len(s.speechd.said)
    BY <1>4 DEF Heard
  <2>. QED
    BY <1>2, <1>4, <2>1 DEF SameVoice, Heard
<1>. QED
  BY <1>3, <1>4

LEMMA SilenceSame ==
  ASSUME NEW s \in Controller, NEW t \in Controller, NEW notes, SameVoice(s, t), Silence(s, notes)
  PROVE  Silence(t, notes)
<1>1. s.speechd.said \in Seq(Saying) /\ t.speechd.said \in Seq(Saying)
  BY SetTtsFields DEF SpeechdState
<1>2. s.speechd.said = <<>> <=> t.speechd.said = <<>>
  BY <1>1, EmptySeq DEF SameVoice
<1>3. CASE s.speechd.said = <<>>
  BY <1>2, <1>3 DEF SameVoice, Silence
<1>4. CASE s.speechd.said # <<>>
  <2>1. Len(s.speechd.said) = 1 /\ 1 \in 1..Len(s.speechd.said)
    BY <1>4 DEF Silence
  <2>. QED
    BY <1>2, <1>4, <2>1 DEF SameVoice, Silence
<1>. QED
  BY <1>3, <1>4

LEMMA HeardGoesOn ==
  ASSUME NEW s \in Controller, NEW t \in Controller, NEW notes \in Seq(Notes),
         s.speechd.said = <<>>, s.speechd.notified = "end",
         t.speechd.notified = s.speechd.notified, notes = <<>>, GoesOn(s, t)
  PROVE  Heard(t, notes) /\ Silence(t, notes)
<1>1. Len(notes) = 0
  OBVIOUS
<1>2. CASE t.tts.current = None
  <2>1. t.speechd.said = <<>>
    BY <1>2 DEF GoesOn
  <2>. QED
    BY <1>1, <1>2, <2>1 DEF Heard, Silence
<1>3. CASE t.tts.current # None
  <2>1. /\ Len(t.speechd.said) = 1 /\ t.speechd.said[1].u = t.tts.current
        /\ ~t.speechd.said[1].stopped
    BY <1>3 DEF GoesOn
  <2>2. t.speechd.said # <<>>
    <3>1. Len(<<>>) = 0
      OBVIOUS
    <3>. QED
      BY <2>1, <3>1
  <2>. QED
    BY <1>1, <1>3, <2>1, <2>2 DEF Heard, Silence
<1>. QED
  BY <1>2, <1>3

LEMMA HeardTail ==
  ASSUME NEW s \in Controller, NEW t, t.tts = s.tts, t.speechd = s.speechd,
         NEW notes \in Seq(Notes), notes # <<>>, ~Final(Head(notes)), s.tts.current # None,
         Heard(s, notes)
  PROVE  Heard(t, Tail(notes))
<1> DEFINE tail == Tail(notes)
<1>1. /\ Head(notes) = notes[1] /\ Len(notes) \in Nat \ {0} /\ Len(tail) = Len(notes) - 1
      /\ tail \in Seq(Notes)
      /\ \A i \in 1..Len(notes) - 1 : i + 1 \in 1..Len(notes) /\ tail[i] = notes[i + 1]
  OBVIOUS
<1> HIDE DEF tail
<1>2. \A i \in 1..Len(tail) : i + 1 \in 1..Len(notes) /\ tail[i] = notes[i + 1]
  BY <1>1
<1>3. s.speechd.said = <<>> => tail # <<>> /\ tail[Len(tail)] = "end"
  <2>1. SUFFICES ASSUME s.speechd.said = <<>> PROVE tail # <<>> /\ tail[Len(tail)] = "end"
    OBVIOUS
  <2>2. notes[Len(notes)] = "end"
    BY <2>1 DEF Heard
  <2>3. Len(notes) # 1
    BY <1>1, <2>2 DEF Final
  <2>4. Len(tail) \in 1..Len(tail) /\ Len(tail) + 1 = Len(notes)
    BY <1>1, <2>3
  <2>. QED
    BY <1>1, <1>2, <2>2, <2>4, EmptySeq
<1>4. \A i \in 1..Len(tail) : tail[i] = "end" => i = Len(tail) /\ s.speechd.said = <<>>
  <2>1. ASSUME NEW i \in 1..Len(tail), tail[i] = "end"
        PROVE  i = Len(tail) /\ s.speechd.said = <<>>
    <3>1. i + 1 = Len(notes) /\ s.speechd.said = <<>>
      BY <1>2, <2>1 DEF Heard
    <3>. QED
      BY <1>1, <3>1
  <2>. QED
    BY <2>1
<1>5. \A i \in 1..Len(tail) : tail[i] # "cancelled"
  BY <1>2 DEF Heard
<1>6. Heard(t, tail)
  BY <1>3, <1>4, <1>5 DEF Heard
<1>. QED
  BY <1>6 DEF tail

(* When the controller hears that an utterance ended, it is the last       *)
(* notification.                                                           *)
LEMMA HeardEnd ==
  ASSUME NEW s \in Controller, NEW notes \in Seq(Notes), notes # <<>>, Final(Head(notes)),
         Heard(s, notes)
  PROVE  s.speechd.said = <<>> /\ s.speechd.notified = "end" /\ Tail(notes) = <<>>
<1>1. /\ Head(notes) = notes[1] /\ Len(notes) \in Nat \ {0} /\ Len(Tail(notes)) = Len(notes) - 1
      /\ Tail(notes) \in Seq(Notes) /\ 1 \in 1..Len(notes) /\ notes[1] \in Notes
  BY SMTT(30)
<1>2. notes[1] # "cancelled"
  BY <1>1 DEF Heard
<1>3. notes[1] = "end"
  BY <1>1, <1>2, SMTT(30) DEF Final, Notes
<1>4. Len(notes) = 1 /\ s.speechd.said = <<>>
  BY <1>1, <1>3 DEF Heard
<1>5. Tail(notes) = <<>>
  BY <1>4, TailOfOne
<1>. QED
  BY <1>4, <1>5 DEF Heard

LEMMA VoiceInit == Init => VoiceInv
<1> SUFFICES ASSUME Init PROVE VoiceInv
  OBVIOUS
<1>1. \A p \in Pages : toController[p] = <<>>
  BY DEF Init
<1>2. Heard(State, tasks) /\ connection # "deaf"
  BY StateFields DEF Init, Heard
<1>. QED
  BY <1>1, <1>2 DEF VoiceInv, VoiceOf, Init

LEMMA SameHeard ==
  ASSUME UNCHANGED <<tts, speechd, tasks>>,
         connection' = connection \/ (connection # "deaf" /\ connection' # "deaf"),
         VoiceOf(State, tasks, connection)
  PROVE  VoiceOf(State', tasks', connection')
<1>1. State'.tts = State.tts /\ State'.speechd = State.speechd /\ tasks' = tasks
  BY DEF State
<1>. QED
  BY <1>1 DEF VoiceOf, Heard, Silence

LEMMA PagesKeepVoice ==
  ASSUME Inv, VoiceInv, NEW p \in Pages,
         PageSpeaks(p) \/ PageCommands(p) \/ PageReceives(p) \/ PageCrashes(p)
  PROVE  VoiceInv'
<1>1. UNCHANGED <<tts, speechd, connection, tasks>>
  BY DEF PageSpeaks, PageCommands, PageReceives, PageCrashes
<1>2. VoiceOf(State, tasks, connection) => VoiceOf(State', tasks', connection')
  BY <1>1, SameHeard
<1>3. cancels \in Nat /\ toController \in [Pages -> Seq(Message)]
  BY DEF Inv, TypeOK
<1>4. ASSUME NEW type \in {"speak", "pause", "resume", "cancel"}, NEW u, Send(p, type, u),
             [type |-> type, u |-> u] \in Message, type # "cancel",
             \A q \in Pages : \A i \in 1..Len(toController[q]) : toController[q][i].type # "cancel"
      PROVE  \A q \in Pages : \A i \in 1..Len(toController'[q]) : toController'[q][i].type # "cancel"
  <2> DEFINE m == [type |-> type, u |-> u]
  <2>1. toController' = [toController EXCEPT ![p] = Append(@, m)] /\ m.type = type
    BY <1>4 DEF Send
  <2> HIDE DEF m
  <2>2. ASSUME NEW q \in Pages, NEW i \in 1..Len(toController'[q])
        PROVE  toController'[q][i].type # "cancel"
    <3>1. CASE q # p
      <4>1. toController'[q] = toController[q]
        BY <1>3, <2>1, <3>1
      <4>. QED
        BY <1>4, <2>2, <4>1
    <3>2. CASE q = p
      <4>1. toController'[q] = Append(toController[q], m) /\ toController[q] \in Seq(Message)
        BY <1>3, <2>1, <3>2
      <4>2. m \in Message
        BY <1>4 DEF m
      <4>3. /\ Len(toController'[q]) = Len(toController[q]) + 1 /\ Len(toController[q]) \in Nat
            /\ \A j \in 1..Len(toController[q]) : toController'[q][j] = toController[q][j]
            /\ toController'[q][Len(toController[q]) + 1] = m
        BY <4>1, <4>2, QueueAppend
      <4>4. i \in 1..Len(toController[q]) \/ i = Len(toController[q]) + 1
        BY <4>3
      <4>. QED
        BY <1>4, <2>1, <4>3, <4>4
    <3>. QED
      BY <3>1, <3>2
  <2>. QED
    BY <2>2
<1>5. CASE PageSpeaks(p)
  <2>1. Send(p, "speak", <<p, asked + 1>>) /\ cancels' = cancels
        /\ [type |-> "speak", u |-> <<p, asked + 1>>] \in Message
    BY <1>5 DEF PageSpeaks, Inv, TypeOK, Message, Utterance
  <2>. QED
    BY <1>1, <1>2, <1>4, <2>1 DEF VoiceInv
<1>6. CASE PageCommands(p)
  <2>1. PICK type \in {"pause", "resume", "cancel"} :
          Send(p, type, None) /\ cancels' = IF type = "cancel" THEN cancels + 1 ELSE cancels
    BY <1>6 DEF PageCommands
  <2>2. [type |-> type, u |-> None] \in Message
    BY DEF Message
  <2>3. cancels' = 0 => type # "cancel" /\ cancels = 0
    BY <1>3, <2>1
  <2>. QED
    BY <1>1, <1>2, <1>4, <2>1, <2>2, <2>3 DEF VoiceInv
<1>7. CASE PageReceives(p) \/ PageCrashes(p)
  <2>1. cancels' = cancels /\ toController' = toController
    BY <1>7 DEF PageReceives, PageCrashes, counts
  <2>. QED
    BY <1>1, <1>2, <2>1 DEF VoiceInv
<1>. QED
  BY <1>5, <1>6, <1>7

LEMMA OnMessageReceivedKeepsVoice ==
  ASSUME Inv, VoiceInv, NEW p \in Pages, OnMessageReceived(p)
  PROVE  VoiceInv'
<1> DEFINE m == Head(toController[p])
<1>1. /\ toController[p] # <<>> /\ toController' = [toController EXCEPT ![p] = Tail(@)]
      /\ tasks' = tasks /\ cancels' = cancels
  BY DEF OnMessageReceived, counts
<1>2. /\ State' \in Controller
      /\ \/ m.type = "cancel" /\ State'.tts.current = None
         \/ SameVoice(State, State') /\ connection' = connection
         \/ /\ State.tts.current = None /\ GoesOn(State, State')
            /\ State'.speechd.notified = State.speechd.notified
  BY MessageStep
<1>3. State \in Controller /\ tasks \in Seq(Notes) /\ toController \in [Pages -> Seq(Message)]
  BY DEF Inv, TypeOK
<1>4. /\ Len(toController[p]) \in Nat \ {0} /\ m = toController[p][1]
      /\ \A i \in 1..Len(Tail(toController[p])) :
           i + 1 \in 1..Len(toController[p]) /\ Tail(toController[p])[i] = toController[p][i + 1]
  BY <1>1, <1>3, QueueTail
<1> HIDE DEF m
<1>5. tts'.current # None => tts'.platform = tts'.current
  <2>1. State.tts = tts /\ State'.tts = tts'
    BY DEF State
  <2>. QED
    BY <1>2, <2>1 DEF VoiceInv, SameVoice, GoesOn
<1>6. ASSUME cancels' = 0
      PROVE  /\ \A q \in Pages : \A i \in 1..Len(toController'[q]) : toController'[q][i].type # "cancel"
             /\ VoiceOf(State', tasks, connection')
  <2>1. /\ \A q \in Pages : \A i \in 1..Len(toController[q]) : toController[q][i].type # "cancel"
        /\ VoiceOf(State, tasks, connection)
    BY <1>1, <1>6 DEF VoiceInv
  <2>2. ASSUME NEW q \in Pages, NEW i \in 1..Len(toController'[q])
        PROVE  toController'[q][i].type # "cancel"
    <3>1. CASE q # p
      <4>1. toController'[q] = toController[q]
        BY <1>1, <1>3, <3>1
      <4>. QED
        BY <2>1, <2>2, <4>1
    <3>2. CASE q = p
      <4>1. toController'[q] = Tail(toController[p])
        BY <1>1, <1>3, <3>2
      <4>2. i + 1 \in 1..Len(toController[p]) /\ toController'[q][i] = toController[p][i + 1]
        BY <1>4, <2>2, <4>1
      <4>. QED
        BY <2>1, <4>2
    <3>. QED
      BY <3>1, <3>2
  <2>3. m.type # "cancel"
    <3>1. 1 \in 1..Len(toController[p])
      BY <1>4
    <3>. QED
      BY <1>4, <2>1, <3>1
  <2>4. VoiceOf(State', tasks, connection')
    <3>1. CASE SameVoice(State, State') /\ connection' = connection
      BY <1>2, <1>3, <2>1, <3>1, HeardSame, SilenceSame DEF VoiceOf
    <3>2. CASE /\ State.tts.current = None /\ GoesOn(State, State')
               /\ State'.speechd.notified = State.speechd.notified
      <4>1. State.speechd.said = <<>> /\ State.speechd.notified = "end" /\ tasks = <<>>
        BY <2>1, <3>2 DEF VoiceOf, Heard, Silence
      <4>. QED
        BY <1>2, <1>3, <3>2, <4>1, HeardGoesOn DEF VoiceOf
    <3>. QED
      BY <1>2, <2>3, <3>1, <3>2
  <2>. QED
    BY <2>2, <2>4
<1>. QED
  BY <1>1, <1>5, <1>6 DEF VoiceInv

LEMMA OnSpeechEventKeepsVoice ==
  ASSUME Inv, VoiceInv, OnSpeechEvent
  PROVE  VoiceInv'
<1>1. /\ tasks # <<>> /\ tasks' = Tail(tasks) /\ OnTtsEvent(Head(tasks))
      /\ toController' = toController /\ cancels' = cancels
  BY DEF OnSpeechEvent, counts
<1>2. tasks \in Seq(Notes) /\ State \in Controller /\ faults \in Nat /\ Whole(State)
      /\ connection \in Connections
  BY DEF Inv, TypeOK, UtteranceInv
<1>3. Tail(tasks) \in Seq(Notes) /\ Head(tasks) \in Notes
  BY <1>1, <1>2, TasksTail
<1> DEFINE type == Head(tasks)
<1>4. /\ State' \in Controller
      /\ State'.speechd.notified = State.speechd.notified
      /\ \/ State' = State /\ connection' = connection
            /\ (State.tts.current = None \/ State.tts.current # State.tts.platform)
         \/ ~Final(type) /\ State.tts.current # None
            /\ State'.tts = State.tts /\ State'.speechd = State.speechd
            /\ connection' = connection
         \/ Final(type) /\ State.tts.current # None /\ GoesOn(State, State')
  BY <1>1, <1>2, <1>3, EventStep
<1>5. State.tts = tts /\ State'.tts = tts'
  BY DEF State
<1>6. tts'.current # None => tts'.platform = tts'.current
  BY <1>4, <1>5 DEF VoiceInv, GoesOn
<1>7. ASSUME cancels = 0, VoiceOf(State, tasks, connection)
      PROVE  VoiceOf(State', Tail(tasks), connection')
  <2>1. connection # "deaf" /\ Heard(State, tasks)
    BY <1>1, <1>7 DEF VoiceOf, Silence
  <2>2. CASE State.tts.current = None \/ State.tts.current # State.tts.platform
    <3>1. State.tts.current = None
      BY <1>5, <2>2 DEF VoiceInv
    <3>. QED
      BY <1>1, <2>1, <3>1 DEF Heard
  <2>3. CASE ~Final(type) /\ State.tts.current # None
             /\ State'.tts = State.tts /\ State'.speechd = State.speechd
             /\ connection' = connection
    <3>1. Heard(State', Tail(tasks))
      BY <1>1, <1>2, <2>1, <2>3, HeardTail
    <3>. QED
      BY <2>1, <2>3, <3>1 DEF VoiceOf
  <2>4. CASE Final(type) /\ State.tts.current # None /\ GoesOn(State, State')
    <3>1. State.speechd.said = <<>> /\ State.speechd.notified = "end" /\ Tail(tasks) = <<>>
      BY <1>1, <1>2, <2>1, <2>4, HeardEnd
    <3>2. Heard(State', Tail(tasks)) /\ Silence(State', Tail(tasks))
      BY <1>2, <1>3, <1>4, <2>4, <3>1, HeardGoesOn
    <3>. QED
      BY <3>2 DEF VoiceOf
  <2>. QED
    BY <1>4, <2>2, <2>3, <2>4
<1>. QED
  BY <1>1, <1>6, <1>7 DEF VoiceInv

(* A notification that is not the end, of what is still to be said.        *)
LEMMA HeardMore ==
  ASSUME NEW s \in Controller, NEW t, NEW notes \in Seq(Notes), Heard(s, notes),
         NEW type \in {"begin", "pause", "resume"}, s.speechd.said # <<>>,
         t.tts = s.tts, t.speechd.said # <<>>, Len(t.speechd.said) = Len(s.speechd.said),
         t.speechd.said[1].u = s.speechd.said[1].u,
         t.speechd.said[1].stopped = s.speechd.said[1].stopped
  PROVE  Heard(t, Append(notes, type))
<1> DEFINE more == Append(notes, type)
<1>1. /\ Len(more) = Len(notes) + 1 /\ Len(notes) \in Nat
      /\ \A i \in 1..Len(notes) : more[i] = notes[i]
      /\ more[Len(notes) + 1] = type
  OBVIOUS
<1> HIDE DEF more
<1>2. \A i \in 1..Len(more) : more[i] = type \/ (i \in 1..Len(notes) /\ more[i] = notes[i])
  BY <1>1
<1>3. \A i \in 1..Len(notes) : notes[i] \notin {"cancelled", "end"}
  BY DEF Heard
<1>4. \A i \in 1..Len(more) : more[i] \notin {"cancelled", "end"}
  BY <1>2, <1>3
<1>5. Heard(t, more)
  BY <1>4 DEF Heard
<1>. QED
  BY <1>5 DEF more

LEMMA DispatcherKeepsVoice ==
  ASSUME Inv, VoiceInv, Dispatcher
  PROVE  VoiceInv'
<1>1. UNCHANGED <<toController, tts, connection, cancels>>
  BY DispatcherStep DEF counts
<1>2. State \in Controller /\ tasks \in Seq(Notes) /\ speechd.said \in Seq(Saying)
  BY StateFields, SetTtsFields DEF Inv, TypeOK, SpeechdState
<1>3. State.tts = tts /\ State.speechd = speechd /\ State'.tts = tts' /\ State'.speechd = speechd'
  BY DEF State
<1>4. ASSUME cancels = 0, connection # "deaf", Heard(State, tasks) PROVE Heard(State', tasks')
  <2>1. speechd.said # <<>> /\ ~EndsUnheard
    BY <1>4 DEF Dispatcher, Begins, Ends, Pauses, Resumes, Cancels, Drops, EndsUnheard, Speaking
  <2>2. /\ Len(speechd.said) = 1 /\ tts.current # None /\ Said = speechd.said[1]
        /\ Said.u = tts.current /\ ~Said.stopped /\ Said \in Saying
    BY <1>2, <1>3, <1>4, <2>1 DEF Heard, Said
  <2>3. CASE Begins
    <3> DEFINE said == [speechd.said EXCEPT ![1].begun = TRUE]
    <3>1. speechd' = [said |-> said, notified |-> "begin"] /\ tasks' = Append(tasks, "begin")
      BY <2>3 DEF Begins, Notify
    <3>2. /\ Len(said) = 1 /\ said # <<>> /\ said[1].u = Said.u /\ said[1].stopped = Said.stopped
      <4>1. said[1] = [Said EXCEPT !.begun = TRUE]
        BY <1>2, <2>2, ExceptSeq
      <4>2. said \in Seq(Saying) /\ Len(said) = 1
        <5>1. [Said EXCEPT !.begun = TRUE] \in Saying
          BY <2>2 DEF Saying
        <5>. QED
          BY <1>2, <2>2, <5>1, ExceptSeq
      <4>3. said # <<>>
        BY <4>2, EmptySeq
      <4>. QED
        BY <2>2, <4>1, <4>2, <4>3 DEF Saying
    <3> HIDE DEF said
    <3>3. speechd'.said = said
      BY <3>1
    <3>. QED
      BY <1>1, <1>2, <1>3, <1>4, <2>1, <2>2, <3>1, <3>2, <3>3, HeardMore
  <2>4. CASE Ends
    <3> DEFINE more == Append(tasks, "end")
    <3>1. speechd' = [said |-> Tail(speechd.said), notified |-> "end"] /\ tasks' = more
      BY <2>4 DEF Ends, Notify
    <3>2. Tail(speechd.said) = <<>>
      BY <1>2, <2>2, TailOfOne
    <3>3. /\ Len(more) = Len(tasks) + 1 /\ Len(tasks) \in Nat
          /\ \A i \in 1..Len(tasks) : more[i] = tasks[i]
          /\ more[Len(tasks) + 1] = "end" /\ more # <<>>
      BY <1>2
    <3> HIDE DEF more
    <3>4. \A i \in 1..Len(more) : i = Len(tasks) + 1 \/ (i \in 1..Len(tasks) /\ more[i] = tasks[i])
      BY <3>3
    <3>5. \A i \in 1..Len(tasks) : tasks[i] \notin {"cancelled", "end"}
      BY <1>3, <1>4, <2>1 DEF Heard
    <3>6. speechd'.said = <<>> /\ speechd'.notified = "end"
      BY <3>1, <3>2
    <3>. QED
      BY <1>1, <1>3, <2>2, <3>1, <3>3, <3>4, <3>5, <3>6 DEF Heard
  <2>5. CASE Pauses
    <3>1. speechd'.said = speechd.said /\ tasks' = Append(tasks, "pause")
      BY <2>5 DEF Pauses, Notify
    <3>. QED
      BY <1>1, <1>2, <1>3, <1>4, <2>1, <3>1, HeardMore
  <2>6. CASE Resumes
    <3>1. speechd'.said = speechd.said /\ tasks' = Append(tasks, "resume")
      BY <2>6 DEF Resumes, Notify
    <3>. QED
      BY <1>1, <1>2, <1>3, <1>4, <2>1, <3>1, HeardMore
  <2>7. CASE Cancels \/ Drops
    BY <2>2, <2>7 DEF Cancels, Drops
  <2>. QED
    BY <2>1, <2>3, <2>4, <2>5, <2>6, <2>7 DEF Dispatcher
<1>5. ASSUME cancels = 0, connection = "deaf", Silence(State, tasks) PROVE Silence(State', tasks')
  <2>1. Drops \/ EndsUnheard
    BY <1>5 DEF Dispatcher, Begins, Ends, Pauses, Resumes, Cancels, Notify
  <2>2. speechd.said # <<>> /\ tasks' = tasks /\ speechd' = [speechd EXCEPT !.said = Tail(@)]
    BY <2>1 DEF Drops, EndsUnheard, Unheard
  <2>3. Tail(speechd.said) = <<>>
    BY <1>2, <1>3, <1>5, <2>2, TailOfOne DEF Silence
  <2>4. speechd \in SpeechdState
    BY <1>2, <1>3, SetTtsFields
  <2>5. speechd'.said = <<>> /\ speechd'.notified = speechd.notified
    BY <2>2, <2>3, <2>4 DEF SpeechdState
  <2>. QED
    BY <1>3, <1>5, <2>2, <2>5 DEF Silence
<1>6. cancels = 0 /\ VoiceOf(State, tasks, connection) => VoiceOf(State', tasks', connection')
  BY <1>1, <1>4, <1>5 DEF VoiceOf
<1>. QED
  BY <1>1, <1>6 DEF VoiceInv

LEMMA VoiceNext == Inv /\ VoiceInv /\ [Next]_vars => VoiceInv'
<1> SUFFICES ASSUME Inv, VoiceInv, [Next]_vars PROVE VoiceInv'
  OBVIOUS
<1>1. CASE UNCHANGED vars
  <2>1. UNCHANGED <<tts, speechd, connection, tasks, toController, cancels>>
    BY <1>1 DEF vars, counts
  <2>. QED
    BY <2>1, SameHeard DEF VoiceInv
<1>2. CASE Initialize
  <2>1. /\ UNCHANGED <<tts, speechd, tasks, toController, cancels>>
        /\ connection # "deaf" /\ connection' # "deaf"
    BY <1>2 DEF Initialize, counts
  <2>. QED
    BY <2>1, SameHeard DEF VoiceInv
<1>. QED
  BY <1>1, <1>2, PagesKeepVoice, OnMessageReceivedKeepsVoice, OnSpeechEventKeepsVoice,
     DispatcherKeepsVoice DEF Next

(* Every reachable state: unless a page has cancelled, speechd was asked   *)
(* for one utterance at most, the current one of the controller.           *)
THEOREM OneVoiceAtATime == Spec => []OneVoice
<1>1. Inv /\ VoiceInv => OneVoice
  <2> SUFFICES ASSUME Inv, VoiceInv, cancels = 0
               PROVE  Len(speechd.said) <= 1 /\ (speechd.said # <<>> => Said.u = tts.current)
    BY DEF OneVoice
  <2>1. VoiceOf(State, tasks, connection) /\ speechd.said \in Seq(Saying)
    BY StateFields, SetTtsFields DEF VoiceInv, Inv, TypeOK, SpeechdState
  <2>2. CASE speechd.said = <<>>
    BY <2>2
  <2>3. CASE speechd.said # <<>>
    <3>1. Len(speechd.said) = 1 /\ speechd.said[1].u = tts.current /\ Said = speechd.said[1]
      BY <2>1, <2>3, StateFields DEF VoiceOf, Heard, Silence, Said
    <3>. QED
      BY <3>1
  <2>. QED
    BY <2>2, <2>3
<1>2. Spec => []Inv
  BY InvInit, InvNext, PTL DEF Spec
<1>3. Spec => []VoiceInv
  BY <1>2, VoiceInit, VoiceNext, PTL DEF Spec
<1>. QED
  BY <1>1, <1>2, <1>3, PTL
=============================================================================
