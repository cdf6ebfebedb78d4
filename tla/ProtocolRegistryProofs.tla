------------------------ MODULE ProtocolRegistryProofs ------------------------
(***************************************************************************)
(* Proofs about ProtocolRegistry: why the checks of one thread hold for    *)
(* the tasks of the other one.  The tasks about a scheme alternate between *)
(* making its handler a custom one and taking that away, from what the     *)
(* factory has to what protocol_handlers_ says.  An interception that was  *)
(* refused stands for a custom handler that is not there.                  *)
(***************************************************************************)
EXTENDS ProtocolRegistry, SequenceTheorems, TLAPS

(* Element i of the sequence of tasks q changes the handler of s, to a     *)
(* custom one or from it.                                                  *)
Makers == {"RegisterProtocolInIO", "InterceptProtocolInIO"}
IsAbout(t, s) == t.task \in MapTasks /\ t.scheme = s
None(q, s, i, j) == \A k \in 1..Len(q) : i < k /\ k < j => ~IsAbout(q[k], s)

(* The tasks of q about s lead from `from' to `to'.                        *)
Leads(q, s, from, to) ==
  /\ None(q, s, 0, Len(q) + 1) => (from <=> to)
  /\ \A i \in 1..Len(q) : IsAbout(q[i], s) =>
       /\ None(q, s, 0, i) => (q[i].task \in Makers <=> ~from)
       /\ None(q, s, i, Len(q) + 1) => (q[i].task \in Makers <=> to)
       /\ \A j \in 1..Len(q) :
            i < j /\ IsAbout(q[j], s) /\ None(q, s, i, j) =>
              (q[i].task \in Makers <=> q[j].task \notin Makers)

Held(s) == IsCustom(s) \/ s \in missed
TasksLead == \A s \in Schemes \ misused : Leads(ioTasks, s, Held(s), s \in handlers)

(* Which tasks and which layers a scheme can have at all.                  *)
TasksOf(s) == IF s \in BuiltIn THEN {"InterceptProtocolInIO", "UninterceptProtocolInIO"}
              ELSE {"RegisterProtocolInIO", "UnregisterProtocolInIO", "InterceptProtocolInIO"}
LayersOf(s) == IF s \in BuiltIn THEN {<<"original">>, <<"original", "custom">>}
               ELSE {<<>>, <<"custom">>}

KindsKept ==
  /\ \A i \in 1..Len(ioTasks) :
       ioTasks[i].task \in MapTasks /\ ioTasks[i].scheme \notin misused =>
         ioTasks[i].task \in TasksOf(ioTasks[i].scheme)
  /\ \A s \in Schemes \ misused :
       /\ factory[s] \in LayersOf(s)
       /\ s \in missed => s \notin BuiltIn /\ factory[s] = <<>>

JobsKept ==
  \A r \in Requests : job[r] # NoJob /\ job[r].scheme \notin misused =>
    ~job[r].freed /\ job[r].fallback = IF job[r].scheme \in BuiltIn THEN 1 ELSE 0

RegistryInv == TypeOK /\ TasksLead /\ KindsKept /\ JobsKept

-----------------------------------------------------------------------------
(* A task about s at the end of q that changes what q leads to.            *)
LEMMA LeadsAppend ==
  ASSUME NEW S, NEW q \in Seq(S), NEW t \in S, NEW s, NEW from \in BOOLEAN, NEW to \in BOOLEAN,
         Leads(q, s, from, to), IsAbout(t, s), t.task \in Makers <=> ~to
  PROVE  Leads(Append(q, t), s, from, ~to)
<1> DEFINE p == Append(q, t)
<1>1. /\ Len(p) = Len(q) + 1 /\ Len(q) \in Nat /\ p[Len(p)] = t
      /\ \A i \in 1..Len(q) : p[i] = q[i]
  OBVIOUS
<1> HIDE DEF p
<1>2. \A i \in 0..Len(q), j \in 1..Len(q)+1 : None(p, s, i, j) <=> None(q, s, i, j)
  BY <1>1 DEF None
<1>3. \A i \in 0..Len(q) : ~None(p, s, i, Len(p) + 1)
  BY <1>1 DEF None
<1>4. None(p, s, 0, Len(p)) => (t.task \in Makers <=> ~from)
  BY <1>1, <1>2 DEF Leads
<1>5. ASSUME NEW i \in 1..Len(q), IsAbout(q[i], s), None(p, s, i, Len(p))
      PROVE  q[i].task \in Makers <=> t.task \notin Makers
  BY <1>1, <1>2, <1>5 DEF Leads
<1>6. ASSUME NEW i \in 1..Len(p), IsAbout(p[i], s)
      PROVE  /\ None(p, s, 0, i) => (p[i].task \in Makers <=> ~from)
             /\ None(p, s, i, Len(p) + 1) => (p[i].task \in Makers <=> ~to)
             /\ \A j \in 1..Len(p) : i < j /\ IsAbout(p[j], s) /\ None(p, s, i, j) =>
                  (p[i].task \in Makers <=> p[j].task \notin Makers)
  <2>1. CASE i = Len(p)
    BY <2>1, <1>1, <1>4
  <2>2. CASE i \in 1..Len(q)
    <3>1. None(p, s, 0, i) => (p[i].task \in Makers <=> ~from)
      BY <2>2, <1>1, <1>2, <1>6 DEF Leads
    <3>2. ~None(p, s, i, Len(p) + 1)
      BY <2>2, <1>1, <1>3
    <3>3. ASSUME NEW j \in 1..Len(p), i < j, IsAbout(p[j], s), None(p, s, i, j)
          PROVE  p[i].task \in Makers <=> p[j].task \notin Makers
      <4>1. CASE j = Len(p)
        BY <4>1, <3>3, <2>2, <1>1, <1>5, <1>6
      <4>2. CASE j \in 1..Len(q)
        <5>1. None(q, s, i, j) /\ IsAbout(q[i], s) /\ IsAbout(q[j], s) /\ p[i] = q[i] /\ p[j] = q[j]
          BY <4>2, <3>3, <2>2, <1>1, <1>2, <1>6
        <5> QED
          BY <5>1, <4>2, <3>3, <2>2 DEF Leads
      <4> QED
        BY <4>1, <4>2, <1>1
    <3> QED
      BY <3>1, <3>2, <3>3
  <2> QED
    BY <2>1, <2>2, <1>1
<1>7. ~None(p, s, 0, Len(p) + 1)
  BY <1>1, <1>3
<1> QED
  BY <1>6, <1>7 DEF Leads, p

(* A task about another scheme at the end of q.                            *)
LEMMA LeadsAppendOther ==
  ASSUME NEW S, NEW q \in Seq(S), NEW t \in S, NEW s, NEW from \in BOOLEAN, NEW to \in BOOLEAN,
         Leads(q, s, from, to), ~IsAbout(t, s)
  PROVE  Leads(Append(q, t), s, from, to)
<1> DEFINE p == Append(q, t)
<1>1. /\ Len(p) = Len(q) + 1 /\ Len(q) \in Nat /\ p[Len(p)] = t
      /\ \A i \in 1..Len(q) : p[i] = q[i]
  OBVIOUS
<1> HIDE DEF p
<1>2. \A i \in 0..Len(q), j \in 1..Len(q)+1 : None(p, s, i, j) <=> None(q, s, i, j)
  BY <1>1 DEF None
<1>3. \A i \in 0..Len(q) : None(p, s, i, Len(p) + 1) <=> None(q, s, i, Len(q) + 1)
  BY <1>1 DEF None
<1>4. \A i \in 1..Len(p) : IsAbout(p[i], s) => i \in 1..Len(q) /\ IsAbout(q[i], s) /\ p[i] = q[i]
  BY <1>1
<1>5. None(p, s, 0, Len(p) + 1) => (from <=> to)
  BY <1>1, <1>3 DEF Leads
<1>6. ASSUME NEW i \in 1..Len(p), IsAbout(p[i], s)
      PROVE  /\ None(p, s, 0, i) => (p[i].task \in Makers <=> ~from)
             /\ None(p, s, i, Len(p) + 1) => (p[i].task \in Makers <=> to)
             /\ \A j \in 1..Len(p) : i < j /\ IsAbout(p[j], s) /\ None(p, s, i, j) =>
                  (p[i].task \in Makers <=> p[j].task \notin Makers)
  <2>1. i \in 1..Len(q) /\ IsAbout(q[i], s) /\ p[i] = q[i]
    BY <1>4, <1>6
  <2>2. None(p, s, 0, i) => None(q, s, 0, i)
    BY <2>1, <1>1, <1>2
  <2>3. None(p, s, i, Len(p) + 1) => None(q, s, i, Len(q) + 1)
    BY <2>1, <1>1, <1>3
  <2>4. ASSUME NEW j \in 1..Len(p), IsAbout(p[j], s), None(p, s, i, j)
        PROVE  j \in 1..Len(q) /\ IsAbout(q[j], s) /\ p[j] = q[j] /\ None(q, s, i, j)
    BY <2>1, <2>4, <1>1, <1>2, <1>4
  <2> QED
    BY <2>1, <2>2, <2>3, <2>4 DEF Leads
<1> QED
  BY <1>5, <1>6 DEF Leads, p

(* The first task is about s and runs: what it makes, the rest leads from. *)
LEMMA LeadsTail ==
  ASSUME NEW S, NEW q \in Seq(S), q # <<>>, NEW s, NEW from \in BOOLEAN, NEW to \in BOOLEAN,
         Leads(q, s, from, to), IsAbout(Head(q), s)
  PROVE  Leads(Tail(q), s, ~from, to) /\ (Head(q).task \in Makers <=> ~from)
<1> DEFINE p == Tail(q)
<1>1. /\ Len(q) = Len(p) + 1 /\ Len(p) \in Nat /\ q[1] = Head(q)
      /\ \A i \in 1..Len(p) : p[i] = q[i+1]
  OBVIOUS
<1> HIDE DEF p
<1>2. \A i \in 0..Len(p), j \in 1..Len(p)+1 : None(p, s, i, j) <=> None(q, s, i+1, j+1)
  <2> SUFFICES ASSUME NEW i \in 0..Len(p), NEW j \in 1..Len(p)+1
               PROVE  None(p, s, i, j) <=> None(q, s, i+1, j+1)
    OBVIOUS
  <2>1. ASSUME None(p, s, i, j), NEW k \in 1..Len(q), i + 1 < k, k < j + 1
        PROVE  ~IsAbout(q[k], s)
    <3>1. k - 1 \in 1..Len(p) /\ i < k - 1 /\ k - 1 < j /\ p[k-1] = q[k]
      BY <2>1, <1>1
    <3> QED
      BY <3>1, <2>1 DEF None
  <2>2. ASSUME None(q, s, i+1, j+1), NEW k \in 1..Len(p), i < k, k < j
        PROVE  ~IsAbout(p[k], s)
    BY <2>2, <1>1 DEF None
  <2> QED
    BY <2>1, <2>2 DEF None
<1>3. None(q, s, 0, 1) /\ 1 \in 1..Len(q) /\ IsAbout(q[1], s)
  BY <1>1 DEF None
<1>4. q[1].task \in Makers <=> ~from
  BY <1>3 DEF Leads
<1>5. None(p, s, 0, Len(p) + 1) => ((~from) <=> to)
  <2>1. None(p, s, 0, Len(p) + 1) => None(q, s, 1, Len(q) + 1)
    BY <1>1, <1>2
  <2> QED
    BY <2>1, <1>3, <1>4 DEF Leads
<1>6. ASSUME NEW i \in 1..Len(p), IsAbout(p[i], s)
      PROVE  /\ None(p, s, 0, i) => (p[i].task \in Makers <=> from)
             /\ None(p, s, i, Len(p) + 1) => (p[i].task \in Makers <=> to)
             /\ \A j \in 1..Len(p) : i < j /\ IsAbout(p[j], s) /\ None(p, s, i, j) =>
                  (p[i].task \in Makers <=> p[j].task \notin Makers)
  <2>1. i + 1 \in 1..Len(q) /\ IsAbout(q[i+1], s) /\ p[i] = q[i+1] /\ 1 < i + 1
    BY <1>1, <1>6
  <2>2. None(p, s, 0, i) => None(q, s, 1, i + 1)
    BY <1>1, <1>2
  <2>3. None(p, s, i, Len(p) + 1) => None(q, s, i + 1, Len(q) + 1)
    BY <1>1, <1>2
  <2>4. ASSUME NEW j \in 1..Len(p), i < j, IsAbout(p[j], s), None(p, s, i, j)
        PROVE  /\ j + 1 \in 1..Len(q) /\ i + 1 < j + 1 /\ IsAbout(q[j+1], s)
               /\ p[j] = q[j+1] /\ None(q, s, i + 1, j + 1)
    BY <2>4, <1>1, <1>2
  <2>5. None(p, s, 0, i) => (p[i].task \in Makers <=> from)
    BY <2>1, <2>2, <1>3, <1>4 DEF Leads
  <2>6. None(p, s, i, Len(p) + 1) => (p[i].task \in Makers <=> to)
    BY <2>1, <2>3 DEF Leads
  <2>7. ASSUME NEW j \in 1..Len(p), i < j, IsAbout(p[j], s), None(p, s, i, j)
        PROVE  p[i].task \in Makers <=> p[j].task \notin Makers
    BY <2>1, <2>4, <2>7 DEF Leads
  <2> QED
    BY <2>5, <2>6, <2>7
<1> QED
  BY <1>1, <1>4, <1>5, <1>6 DEF Leads, p

(* The first task is about another scheme.                                 *)
LEMMA LeadsTailOther ==
  ASSUME NEW S, NEW q \in Seq(S), q # <<>>, NEW s, NEW from \in BOOLEAN, NEW to \in BOOLEAN,
         Leads(q, s, from, to), ~IsAbout(Head(q), s)
  PROVE  Leads(Tail(q), s, from, to)
<1> DEFINE p == Tail(q)
<1>1. /\ Len(q) = Len(p) + 1 /\ Len(p) \in Nat /\ q[1] = Head(q)
      /\ \A i \in 1..Len(p) : p[i] = q[i+1]
  OBVIOUS
<1> HIDE DEF p
<1>2. \A i \in 0..Len(p), j \in 1..Len(p)+1 : None(p, s, i, j) => None(q, s, i+1, j+1)
  <2> SUFFICES ASSUME NEW i \in 0..Len(p), NEW j \in 1..Len(p)+1, None(p, s, i, j),
                      NEW k \in 1..Len(q), i + 1 < k, k < j + 1
               PROVE  ~IsAbout(q[k], s)
    BY DEF None
  <2>1. k - 1 \in 1..Len(p) /\ i < k - 1 /\ k - 1 < j /\ p[k-1] = q[k]
    BY <1>1
  <2> QED
    BY <2>1 DEF None
<1>3. \A j \in 1..Len(p)+1 : None(q, s, 1, j+1) => None(q, s, 0, j+1)
  BY <1>1 DEF None
<1>4. None(p, s, 0, Len(p) + 1) => (from <=> to)
  <2>1. None(p, s, 0, Len(p) + 1) => None(q, s, 0, Len(q) + 1)
    BY <1>1, <1>2, <1>3
  <2> QED
    BY <2>1 DEF Leads
<1>5. ASSUME NEW i \in 1..Len(p), IsAbout(p[i], s)
      PROVE  /\ None(p, s, 0, i) => (p[i].task \in Makers <=> ~from)
             /\ None(p, s, i, Len(p) + 1) => (p[i].task \in Makers <=> to)
             /\ \A j \in 1..Len(p) : i < j /\ IsAbout(p[j], s) /\ None(p, s, i, j) =>
                  (p[i].task \in Makers <=> p[j].task \notin Makers)
  <2>1. i + 1 \in 1..Len(q) /\ IsAbout(q[i+1], s) /\ p[i] = q[i+1]
    BY <1>1, <1>5
  <2>2. None(p, s, 0, i) => None(q, s, 0, i + 1)
    BY <1>1, <1>2, <1>3
  <2>3. None(p, s, i, Len(p) + 1) => None(q, s, i + 1, Len(q) + 1)
    BY <1>1, <1>2
  <2>4. ASSUME NEW j \in 1..Len(p), i < j, IsAbout(p[j], s), None(p, s, i, j)
        PROVE  p[i].task \in Makers <=> p[j].task \notin Makers
    <3>1. /\ j + 1 \in 1..Len(q) /\ i + 1 < j + 1 /\ IsAbout(q[j+1], s)
          /\ p[j] = q[j+1] /\ None(q, s, i + 1, j + 1)
      BY <2>4, <1>1, <1>2
    <3> QED
      BY <2>1, <3>1 DEF Leads
  <2>5. None(p, s, 0, i) => (p[i].task \in Makers <=> ~from)
    BY <2>1, <2>2 DEF Leads
  <2>6. None(p, s, i, Len(p) + 1) => (p[i].task \in Makers <=> to)
    BY <2>1, <2>3 DEF Leads
  <2> QED
    BY <2>4, <2>5, <2>6
<1> QED
  BY <1>4, <1>5 DEF Leads, p

LEMMA LeadsSame ==
  ASSUME NEW q, NEW s, NEW from \in BOOLEAN, NEW to \in BOOLEAN,
         NEW from2 \in BOOLEAN, NEW to2 \in BOOLEAN,
         from <=> from2, to <=> to2, Leads(q, s, from, to)
  PROVE  Leads(q, s, from2, to2)
BY DEF Leads

-----------------------------------------------------------------------------
(* The types of ProtocolRegistry hold initially ...                        *)
LEMMA TypeInit == Init => TypeOK
<1> SUFFICES ASSUME Init PROVE TypeOK
  OBVIOUS
<1>1. factory \in [Schemes -> Layers]
  <2>1. <<"original">> \in Layers /\ <<>> \in Layers
    BY DEF Layers
  <2> QED
    BY <2>1 DEF Init
<1>2. ioTasks \in Seq(IOTask) /\ uiTasks \in Seq(UITask)
  BY DEF Init
<1>3. job \in [Requests -> Jobs \cup {NoJob}]
  BY DEF Init
<1>4. /\ crashed \in BOOLEAN /\ handlers \subseteq Schemes /\ asked \subseteq Requests
      /\ missed \subseteq Schemes /\ misused \subseteq Schemes
  BY DEF Init
<1> QED
  BY <1>1, <1>2, <1>3, <1>4 DEF TypeOK

(* A task taken from or put to a queue.                                    *)
LEMMA Queues ==
  /\ \A s \in Schemes, t \in MapTasks : MapTask(t, s) \in IOTask
  /\ \A r \in Requests, t \in JobTasks : JobTask(t, r) \in IOTask
  /\ \A s \in Schemes, e \in Events : MapTask(e, s) \in UITask
  /\ \A r \in Requests : JobTask("GetJobTypeInUI", r) \in UITask
BY DEF MapTask, JobTask, IOTask, UITask, MapTasks, JobTasks, Events

LEMMA FreedType ==
  ASSUME TypeOK, NEW s \in Schemes, NEW h \in Nat, DeleteFrom(s, h)
  PROVE  job' \in [Requests -> Jobs \cup {NoJob}]
<1> SUFFICES ASSUME NEW r \in Requests, job[r] # NoJob
             PROVE  [job[r] EXCEPT !.freed = TRUE] \in Jobs
  BY DEF DeleteFrom, TypeOK
<1>1. job[r] \in Jobs
  BY DEF TypeOK
<1> QED
  BY <1>1 DEF Jobs

(* ... and are kept by the calls of the application, ...                   *)
LEMMA CallType ==
  ASSUME TypeOK, NEW s \in Schemes, NEW t \in MapTasks, Post(t, s),
         handlers' = handlers \cup {s} \/ handlers' = handlers \ {s},
         misused' = misused \/ misused' \subseteq misused \cup {s}
  PROVE  TypeOK'
<1>1. ioTasks' \in Seq(IOTask)
  BY Queues DEF Post, TypeOK
<1> QED
  BY <1>1 DEF Post, TypeOK

(* ... by the tasks that change the factory, ...                           *)
LEMMA MapTaskType ==
  ASSUME TypeOK, NEW s \in Schemes, RunMapTask(s)
  PROVE  TypeOK'
<1>1. ioTasks' \in Seq(IOTask)
  BY DEF RunMapTask, TypeOK
<1>2. factory[s] \in Layers /\ Len(factory[s]) \in Nat
  BY DEF TypeOK, Layers
<1>3. \A e \in Events : Event(e, s) => uiTasks' \in Seq(UITask)
  BY Queues DEF Event, TypeOK
<1>4. \A h \in Nat : DeleteFrom(s, h) => job' \in [Requests -> Jobs \cup {NoJob}]
  BY FreedType
<1>5. job \in [Requests -> Jobs \cup {NoJob}] /\ factory \in [Schemes -> Layers]
  BY DEF TypeOK
<1>6. crashed \in BOOLEAN
  BY DEF TypeOK
<1>7. /\ factory' \in [Schemes -> Layers] /\ uiTasks' \in Seq(UITask)
      /\ job' \in [Requests -> Jobs \cup {NoJob}]
  <2>1. CASE RegisterIn(s)
    <3>1. <<"custom">> \in Layers
      BY DEF Layers
    <3> QED
      BY <3>1, <2>1, <1>2, <1>3, <1>5 DEF RegisterIn, Events
  <2>2. CASE UnregisterIn(s)
    BY <2>2, <1>3, <1>4, <1>5 DEF UnregisterIn, Events, Layers
  <2>3. CASE InterceptIn(s)
    BY <2>3, <1>2, <1>3, <1>5 DEF InterceptIn, Events, Layers
  <2>4. CASE UninterceptIn(s)
    <3>1. SubSeq(factory[s], 1, Len(factory[s]) - 1) \in Layers
            \/ ~(Len(factory[s]) > 1)
      BY <1>2 DEF Layers
    <3>2. CASE Len(factory[s]) > 1 /\ Top(factory[s]) = "custom"
      <4>1. /\ factory' = [factory EXCEPT ![s] = SubSeq(factory[s], 1, Len(factory[s]) - 1)]
            /\ DeleteFrom(s, Len(factory[s])) /\ Event("unintercepted", s)
        BY <3>2, <2>4 DEF UninterceptIn
      <4> QED
        BY <4>1, <3>1, <3>2, <1>2, <1>3, <1>4, <1>5 DEF Events
    <3>3. CASE ~(Len(factory[s]) > 1 /\ Top(factory[s]) = "custom")
      <4>1. UNCHANGED <<factory, job>> /\ Event("error", s)
        BY <3>3, <2>4 DEF UninterceptIn
      <4> QED
        BY <4>1, <1>3, <1>5 DEF Events
    <3> QED
      BY <3>2, <3>3
  <2> QED
    BY <2>1, <2>2, <2>3, <2>4 DEF RunMapTask, MapTasks
<1>8. crashed' \in BOOLEAN
  <2>1. CASE RegisterIn(s)
    BY <2>1, <1>6 DEF RegisterIn
  <2>2. CASE UnregisterIn(s)
    BY <2>2, <1>6 DEF UnregisterIn
  <2>3. CASE InterceptIn(s)
    BY <2>3, <1>6 DEF InterceptIn
  <2>4. CASE UninterceptIn(s)
    BY <2>4, <1>6 DEF UninterceptIn
  <2> QED
    BY <2>1, <2>2, <2>3, <2>4 DEF RunMapTask, MapTasks
<1>9. /\ handlers' \subseteq Schemes /\ asked' \subseteq Requests
      /\ missed' \subseteq Schemes /\ misused' \subseteq Schemes
  BY DEF RunMapTask, TypeOK
<1> QED
  BY <1>1, <1>7, <1>8, <1>9 DEF TypeOK

(* What starting a job changes of it.                                      *)
LEMMA StartEffect ==
  ASSUME TypeOK, NEW r \in Requests, CreateJobAndStart(r)
  PROVE  \/ job' = job
         \/ /\ job[r] # NoJob /\ job[r].state = "asking"
            /\ job' = [job EXCEPT ![r] = [job[r] EXCEPT !.state = "started"]]
<1>1. job[r].state = "asking" => job[r] # NoJob
  BY DEF NoJob
<1> QED
  BY <1>1 DEF CreateJobAndStart, TypeOK

(* ... and by the steps of a job and of the UI thread.                     *)
LEMMA JobType ==
  ASSUME TypeOK, NEW r \in Requests,
         \/ GetJobTypeInUI(r) \/ Answer(r) \/ Kill(r) \/ CreateJobAndStart(r)
         \/ \E s \in Schemes : StartRequest(r, s)
  PROVE  TypeOK'
<1>1. job[r] # NoJob => job[r] \in Jobs
  BY DEF TypeOK
<1>2. CASE GetJobTypeInUI(r)
  BY <1>2 DEF GetJobTypeInUI, TypeOK
<1>3. CASE Answer(r)
  <2>1. ioTasks' \in Seq(IOTask)
    BY <1>3, Queues DEF Answer, HandlerReturns, JobTasks, TypeOK
  <2>2. crashed' \in BOOLEAN
    BY <1>3 DEF Answer, HandlerReturns, ResultUsed
  <2> QED
    BY <2>1, <2>2, <1>3 DEF Answer, HandlerReturns, ResultUsed, TypeOK
<1>4. CASE Kill(r)
  <2>1. [job[r] EXCEPT !.state = "gone"] \in Jobs
    BY <1>1, <1>4 DEF Kill, Jobs
  <2>2. job' = [job EXCEPT ![r] = [job[r] EXCEPT !.state = "gone"]]
    BY <1>4 DEF Kill, TypeOK
  <2> QED
    BY <2>1, <2>2, <1>4 DEF Kill, TypeOK
<1>5. CASE CreateJobAndStart(r)
  <2>1. job[r].state = "asking" => job[r] # NoJob
    BY DEF NoJob
  <2>2. job[r].state = "asking" => [job[r] EXCEPT !.state = "started"] \in Jobs
    BY <1>1, <2>1 DEF Jobs
  <2>3. job' = job \/ (job[r].state = "asking" /\
                        job' = [job EXCEPT ![r] = [job[r] EXCEPT !.state = "started"]])
    BY <1>5, StartEffect
  <2>4. job' \in [Requests -> Jobs \cup {NoJob}]
    BY <2>2, <2>3 DEF TypeOK
  <2>5. job[r].state = "asking" => job[r].freed \in BOOLEAN
    BY <1>1, <2>1 DEF Jobs
  <2>6. crashed' \in BOOLEAN /\ ioTasks' \in Seq(IOTask)
    BY <1>5, <2>5 DEF CreateJobAndStart, TypeOK
  <2> QED
    BY <2>4, <2>6, <1>5 DEF CreateJobAndStart, TypeOK
<1>6. ASSUME NEW s \in Schemes, StartRequest(r, s) PROVE TypeOK'
  <2>1. factory[s] \in Seq({"original", "custom"}) /\ factory[s] # <<>>
    BY <1>6 DEF StartRequest, HasProtocolHandler, TypeOK, Layers
  <2>2. Len(factory[s]) - 1 \in Nat
    BY <2>1
  <2>3. job' \in [Requests -> Jobs \cup {NoJob}]
    BY <2>2, <1>6 DEF StartRequest, TypeOK, Jobs
  <2>4. uiTasks' \in Seq(UITask)
    BY <1>6, Queues DEF StartRequest, TypeOK
  <2> QED
    BY <2>3, <2>4, <1>6 DEF StartRequest, TypeOK
<1> QED
  BY <1>2, <1>3, <1>4, <1>5, <1>6

LEMMA TypeStep == TypeOK /\ [Next]_vars => TypeOK'
<1> SUFFICES ASSUME TypeOK, [Next]_vars PROVE TypeOK'
  OBVIOUS
<1>1. ASSUME NEW s \in Schemes,
             \/ RegisterProtocol(s) \/ UnregisterProtocol(s)
             \/ InterceptProtocol(s) \/ UninterceptProtocol(s)
      PROVE  TypeOK'
  BY <1>1, CallType
     DEF RegisterProtocol, UnregisterProtocol, InterceptProtocol, UninterceptProtocol, MapTasks
<1>2. CASE EmitEventInUI
  BY <1>2 DEF EmitEventInUI, TypeOK
<1>3. CASE UNCHANGED vars
  BY <1>3 DEF vars, TypeOK
<1> QED
  BY <1>1, <1>2, <1>3, MapTaskType, JobType DEF Next, UIThread, IOThread

(* Type correctness: what the threads post, and the layers of handlers     *)
(* that grow and shrink under the jobs, stay what they are taken for.      *)
THEOREM TypeCorrect == Spec => []TypeOK
<1>1. Init => TypeOK
  BY TypeInit
<1>2. TypeOK /\ [Next]_vars => TypeOK'
  BY TypeStep
<1> QED
  BY <1>1, <1>2, PTL DEF Spec

-----------------------------------------------------------------------------
(* Which tasks and layers there are is kept ...                            *)
LEMMA KindsInit == Init => KindsKept /\ JobsKept
BY DEF Init, KindsKept, JobsKept, LayersOf

(* ... by a call, which posts a task of its scheme's kind, ...             *)
LEMMA KindsPost ==
  ASSUME TypeOK, KindsKept, NEW t \in IOTask,
         t.task \in MapTasks /\ t.scheme \notin misused' => t.task \in TasksOf(t.scheme),
         ioTasks' = Append(ioTasks, t), UNCHANGED <<factory, missed>>, misused \subseteq misused'
  PROVE  KindsKept'
<1>1. /\ Len(ioTasks') = Len(ioTasks) + 1 /\ ioTasks'[Len(ioTasks) + 1] = t
      /\ \A i \in 1..Len(ioTasks) : ioTasks'[i] = ioTasks[i]
      /\ Len(ioTasks) \in Nat
  BY DEF TypeOK
<1>2. \A i \in 1..Len(ioTasks)' :
        (ioTasks'[i]).task \in MapTasks /\ (ioTasks'[i]).scheme \notin misused' =>
          (ioTasks'[i]).task \in TasksOf((ioTasks'[i]).scheme)
  <2> TAKE i \in 1..Len(ioTasks)'
  <2>1. CASE i = Len(ioTasks) + 1
    BY <2>1, <1>1
  <2>2. CASE i \in 1..Len(ioTasks)
    BY <2>2, <1>1 DEF KindsKept
  <2> QED
    BY <2>1, <2>2, <1>1
<1> QED
  BY <1>2 DEF KindsKept, TasksOf, LayersOf

(* ... by the rest of the tasks after the first one, ...                   *)
LEMMA KindsTail ==
  ASSUME TypeOK, KindsKept, ioTasks # <<>>, ioTasks' = Tail(ioTasks)
  PROVE  \A i \in 1..Len(ioTasks)' :
           (ioTasks'[i]).task \in MapTasks /\ (ioTasks'[i]).scheme \notin misused =>
             (ioTasks'[i]).task \in TasksOf((ioTasks'[i]).scheme)
<1> TAKE i \in 1..Len(ioTasks)'
<1>1. i + 1 \in 1..Len(ioTasks) /\ ioTasks'[i] = ioTasks[i + 1]
  BY DEF TypeOK
<1> QED
  BY <1>1 DEF KindsKept

(* A custom handler laid over one of the browser, and taken off again.     *)
LEMMA Stack ==
  /\ Append(<<"original">>, "custom") = <<"original", "custom">>
  /\ SubSeq(<<"original", "custom">>, 1, 1) = <<"original">>
<1> DEFINE one == <<"original">>
           two == <<"original", "custom">>
<1>1. /\ one \in Layers /\ Len(one) = 1 /\ one[1] = "original"
      /\ two \in Layers /\ Len(two) = 2 /\ two[1] = "original" /\ two[2] = "custom"
  BY DEF Layers
<1> HIDE DEF one, two
<1>2. /\ Append(one, "custom") \in Layers /\ Len(Append(one, "custom")) = 2
      /\ Append(one, "custom")[1] = "original" /\ Append(one, "custom")[2] = "custom"
  BY <1>1, SMTT(30) DEF Layers
<1>3. /\ SubSeq(two, 1, 1) \in Layers /\ Len(SubSeq(two, 1, 1)) = 1
      /\ SubSeq(two, 1, 1)[1] = "original"
  BY <1>1 DEF Layers
<1>4. Append(one, "custom") = two
  <2>1. \A i \in 1..2 : Append(one, "custom")[i] = two[i]
    BY <1>1, <1>2
  <2> QED
    BY <2>1, <1>1, <1>2, SeqEqual DEF Layers
<1>5. SubSeq(two, 1, 1) = one
  <2>1. \A i \in 1..1 : SubSeq(two, 1, 1)[i] = one[i]
    BY <1>1, <1>3
  <2> QED
    BY <2>1, <1>1, <1>3, SeqEqual DEF Layers
<1> QED
  BY <1>4, <1>5 DEF one, two

(* ... and by a task, which finds what it was posted for: it turns the     *)
(* handler of its scheme into a custom one or back, or is refused.         *)
LEMMA MapTaskEffect ==
  ASSUME TypeOK, KindsKept, JobsKept, NEW s \in Schemes, s \notin misused, RunMapTask(s),
         Head(ioTasks).task \in Makers <=> ~Held(s)
  PROVE  /\ factory[s] = Expected(Head(ioTasks).task, s)
         /\ Held(s)' <=> ~Held(s)
         /\ factory'[s] \in LayersOf(s)
         /\ s \in missed' => s \notin BuiltIn /\ factory'[s] = <<>>
         /\ job' = job
<1> DEFINE task == Head(ioTasks).task
<1>1. task \in MapTasks /\ task \in TasksOf(s)
  <2>1. 1 \in 1..Len(ioTasks) /\ ioTasks[1] = Head(ioTasks)
    BY DEF RunMapTask, TypeOK
  <2> QED
    BY <2>1 DEF RunMapTask, KindsKept
<1>2. /\ factory \in [Schemes -> Layers]
      /\ missed' = IF task = "InterceptProtocolInIO" /\ ~HasProtocolHandler(s)
                   THEN missed \cup {s} ELSE missed \ {s}
  BY DEF TypeOK, RunMapTask
<1>3. CASE task = "RegisterProtocolInIO"
  <2>1. s \notin BuiltIn /\ ~IsCustom(s)
    BY <1>1, <1>3 DEF TasksOf, Makers, Held
  <2>2. factory[s] = <<>>
    BY <2>1 DEF KindsKept, LayersOf, IsCustom, HasProtocolHandler, Top
  <2>3. factory' = [factory EXCEPT ![s] = <<"custom">>] /\ job' = job
    BY <1>3, <2>2 DEF RunMapTask, RegisterIn
  <2>4. factory'[s] = <<"custom">> /\ IsCustom(s)' /\ s \notin missed'
    BY <1>2, <1>3, <2>3 DEF IsCustom, HasProtocolHandler, Top
  <2>5. ~Held(s)
    BY <1>3 DEF Makers
  <2> QED
    BY <1>3, <2>1, <2>2, <2>3, <2>4, <2>5 DEF Expected, Held, LayersOf
<1>4. CASE task = "UnregisterProtocolInIO"
  <2>1. s \notin BuiltIn /\ Held(s)
    BY <1>1, <1>4 DEF TasksOf, Makers
  <2>2. factory' = [factory EXCEPT ![s] = <<>>] /\ DeleteFrom(s, 1)
    BY <1>4 DEF RunMapTask, UnregisterIn
  <2>3. factory'[s] = <<>> /\ ~IsCustom(s)' /\ s \notin missed'
    BY <1>2, <1>4, <2>2 DEF IsCustom, HasProtocolHandler
  <2>4. job' = job
    <3>1. \A r \in Requests : job[r] # NoJob /\ job[r].scheme = s => ~(job[r].fallback > 0)
      BY <2>1 DEF JobsKept
    <3>2. job' = [r \in Requests |-> job[r]]
      BY <3>1, <2>2 DEF DeleteFrom
    <3> QED
      BY <3>2 DEF TypeOK
  <2>5. factory[s] = IF s \in missed THEN <<>> ELSE <<"custom">>
    BY <2>1 DEF KindsKept, LayersOf, Held, IsCustom, HasProtocolHandler
  <2> QED
    BY <1>4, <2>1, <2>3, <2>4, <2>5 DEF Expected, Held, LayersOf
<1>5. CASE task = "InterceptProtocolInIO"
  <2>1. ~IsCustom(s) /\ ~Held(s) /\ InterceptIn(s)
    BY <1>5 DEF Makers, Held, RunMapTask
  <2>2. CASE s \in BuiltIn
    <3>1. factory[s] = <<"original">>
      BY <2>1, <2>2 DEF KindsKept, LayersOf, IsCustom, HasProtocolHandler, Top
    <3>2. HasProtocolHandler(s)
      BY <3>1 DEF HasProtocolHandler
    <3>3. factory' = [factory EXCEPT ![s] = Append(factory[s], "custom")] /\ job' = job
      BY <2>1, <3>2 DEF InterceptIn, HasProtocolHandler
    <3>4. factory' = [factory EXCEPT ![s] = <<"original", "custom">>]
      BY <3>1, <3>3, Stack
    <3>5. factory'[s] = <<"original", "custom">> /\ IsCustom(s)' /\ s \notin missed'
      BY <1>2, <3>2, <3>4 DEF IsCustom, HasProtocolHandler, Top
    <3> QED
      BY <1>5, <2>1, <2>2, <3>1, <3>3, <3>5 DEF Expected, Held, LayersOf
  <2>3. CASE s \notin BuiltIn
    <3>1. factory[s] = <<>>
      BY <2>1, <2>3 DEF KindsKept, LayersOf, IsCustom, HasProtocolHandler, Top
    <3>2. ~HasProtocolHandler(s)
      BY <3>1 DEF HasProtocolHandler
    <3>3. factory'[s] = <<>> /\ job' = job /\ s \in missed'
      BY <1>2, <1>5, <2>1, <3>1, <3>2 DEF InterceptIn
    <3> QED
      BY <1>5, <2>1, <2>3, <3>1, <3>3 DEF Expected, Held, LayersOf
  <2> QED
    BY <2>2, <2>3
<1>6. CASE task = "UninterceptProtocolInIO"
  <2>1. s \in BuiltIn /\ s \notin missed /\ IsCustom(s) /\ Held(s)
    BY <1>1, <1>6 DEF TasksOf, Makers, KindsKept, Held
  <2>2. factory[s] = <<"original", "custom">>
    BY <2>1 DEF KindsKept, LayersOf, IsCustom, HasProtocolHandler, Top
  <2>3. /\ Len(factory[s]) = 2 /\ Top(factory[s]) = "custom"
        /\ SubSeq(factory[s], 1, Len(factory[s]) - 1) = <<"original">>
    <3>1. Len(factory[s]) = 2 /\ Top(factory[s]) = "custom"
      BY <2>2 DEF Top
    <3>2. SubSeq(factory[s], 1, Len(factory[s]) - 1) = <<"original">>
      BY <2>2, <3>1, Stack
    <3> QED
      BY <3>1, <3>2
  <2>4. factory' = [factory EXCEPT ![s] = <<"original">>] /\ DeleteFrom(s, 2)
    <3>1. UninterceptIn(s)
      BY <1>6 DEF RunMapTask
    <3>2. /\ factory' = [factory EXCEPT ![s] = SubSeq(factory[s], 1, Len(factory[s]) - 1)]
          /\ DeleteFrom(s, Len(factory[s]))
      BY <3>1, <2>3 DEF UninterceptIn
    <3> QED
      BY <3>2, <2>3
  <2>5. factory'[s] = <<"original">> /\ ~IsCustom(s)' /\ s \notin missed'
    BY <1>2, <1>6, <2>4 DEF IsCustom, HasProtocolHandler, Top
  <2>6. job' = job
    <3>1. \A r \in Requests : job[r] # NoJob /\ job[r].scheme = s => ~(job[r].fallback >= 2)
      BY <2>1 DEF JobsKept
    <3>2. job' = [r \in Requests |-> job[r]]
      BY <3>1, <2>4 DEF DeleteFrom
    <3> QED
      BY <3>2 DEF TypeOK
  <2> QED
    BY <1>6, <2>1, <2>2, <2>5, <2>6 DEF Expected, Held, LayersOf
<1> QED
  BY <1>1, <1>3, <1>4, <1>5, <1>6 DEF MapTasks

(* A task changes nothing about the other schemes.                         *)
LEMMA MapTaskOthers ==
  ASSUME TypeOK, NEW s \in Schemes, RunMapTask(s)
  PROVE  /\ \A other \in Schemes \ {s} :
              factory'[other] = factory[other] /\ (other \in missed' <=> other \in missed)
         /\ \A r \in Requests : job'[r] = job[r] \/ (job[r] # NoJob /\ job[r].scheme = s
                                   /\ job'[r] = [job[r] EXCEPT !.freed = TRUE])
<1>1. \A other \in Schemes \ {s} : other \in missed' <=> other \in missed
  BY DEF RunMapTask
<1>2. /\ \A other \in Schemes \ {s} : factory'[other] = factory[other]
      /\ job' = job \/ \E h \in Nat : DeleteFrom(s, h)
  <2>1. CASE RegisterIn(s)
    BY <2>1 DEF RegisterIn, TypeOK
  <2>2. CASE UnregisterIn(s)
    BY <2>2 DEF UnregisterIn, TypeOK
  <2>3. CASE InterceptIn(s)
    BY <2>3 DEF InterceptIn, TypeOK
  <2>4. CASE UninterceptIn(s)
    <3>1. Len(factory[s]) \in Nat
      BY DEF TypeOK, Layers
    <3> QED
      BY <2>4, <3>1 DEF UninterceptIn, TypeOK
  <2> QED
    BY <2>1, <2>2, <2>3, <2>4 DEF RunMapTask, MapTasks
<1> QED
  BY <1>1, <1>2 DEF DeleteFrom

-----------------------------------------------------------------------------
(* The tasks lead from the factory to protocol_handlers_ ...               *)
LEMMA RegistryInit == Init => RegistryInv
<1> SUFFICES ASSUME Init PROVE RegistryInv
  OBVIOUS
<1>1. TasksLead
  <2> SUFFICES ASSUME NEW s \in Schemes PROVE Leads(ioTasks, s, Held(s), s \in handlers)
    BY DEF TasksLead
  <2>1. ~Held(s) /\ s \notin handlers
    BY DEF Init, Held, IsCustom, HasProtocolHandler, Top
  <2>2. Len(ioTasks) = 0
    BY DEF Init
  <2> QED
    BY <2>1, <2>2 DEF Leads
<1> QED
  BY <1>1, TypeInit, KindsInit DEF RegistryInv

(* ... after a call that posts a task, which the state of protocol_handlers_*)
(* lets it do only in turn, ...                                            *)
LEMMA LeadCall ==
  ASSUME RegistryInv, NEW s \in Schemes, NEW t \in MapTasks, Post(t, s),
         t \in Makers <=> s \notin handlers,
         handlers' = IF t \in Makers THEN handlers \cup {s} ELSE handlers \ {s},
         misused \subseteq misused'
  PROVE  TasksLead'
<1> SUFFICES ASSUME NEW other \in Schemes \ misused'
             PROVE  Leads(ioTasks', other, Held(other)', other \in handlers')
  BY DEF TasksLead
<1>1. Held(other)' <=> Held(other)
  BY DEF Post, Held, IsCustom, HasProtocolHandler
<1>2. Leads(ioTasks, other, Held(other), other \in handlers)
  BY DEF RegistryInv, TasksLead
<1>3. ioTasks \in Seq(IOTask) /\ MapTask(t, s) \in IOTask /\ ioTasks' = Append(ioTasks, MapTask(t, s))
  BY Queues DEF RegistryInv, TypeOK, Post
<1>4. Held(other) \in BOOLEAN /\ Held(other)' \in BOOLEAN
      /\ (other \in handlers) \in BOOLEAN /\ (other \in handlers') \in BOOLEAN
  BY DEF Held, IsCustom
<1>5. CASE other = s
  <2>1. IsAbout(MapTask(t, s), other) /\ (MapTask(t, s).task \in Makers <=> ~(other \in handlers))
    BY <1>5 DEF IsAbout, MapTask
  <2>2. Leads(ioTasks', other, Held(other), ~(other \in handlers))
    <3> DEFINE from == Held(other)
               to == other \in handlers
               task == MapTask(t, s)
    <3>1. /\ from \in BOOLEAN /\ to \in BOOLEAN /\ Leads(ioTasks, other, from, to)
          /\ task \in IOTask /\ IsAbout(task, other) /\ (task.task \in Makers <=> ~to)
          /\ ioTasks' = Append(ioTasks, task)
      BY <1>2, <1>3, <1>4, <2>1
    <3> HIDE DEF from, to, task
    <3>2. Leads(ioTasks', other, from, ~to)
      BY <1>3, <3>1, LeadsAppend
    <3> QED
      BY <3>2 DEF from, to
  <2>3. (~(other \in handlers)) <=> other \in handlers'
    BY <1>5
  <2> QED
    BY <1>1, <1>4, <2>2, <2>3, LeadsSame
<1>6. CASE other # s
  <2>1. ~IsAbout(MapTask(t, s), other)
    BY <1>6 DEF IsAbout, MapTask
  <2>2. Leads(ioTasks', other, Held(other), other \in handlers)
    <3> DEFINE from == Held(other)
               to == other \in handlers
               task == MapTask(t, s)
    <3>1. /\ from \in BOOLEAN /\ to \in BOOLEAN /\ Leads(ioTasks, other, from, to)
          /\ task \in IOTask /\ ~IsAbout(task, other) /\ ioTasks' = Append(ioTasks, task)
      BY <1>2, <1>3, <1>4, <2>1
    <3> HIDE DEF from, to, task
    <3>2. Leads(ioTasks', other, from, to)
      BY <1>3, <3>1, LeadsAppendOther
    <3> QED
      BY <3>2 DEF from, to
  <2>3. other \in handlers <=> other \in handlers'
    BY <1>6
  <2> QED
    BY <1>1, <1>4, <2>2, <2>3, LeadsSame
<1> QED
  BY <1>5, <1>6

(* ... after a task has run, ...                                           *)
LEMMA LeadMapTask ==
  ASSUME RegistryInv, NEW s \in Schemes, RunMapTask(s)
  PROVE  TasksLead' /\ KindsKept' /\ JobsKept'
<1>1. /\ ioTasks \in Seq(IOTask) /\ ioTasks # <<>> /\ ioTasks' = Tail(ioTasks)
      /\ IsAbout(Head(ioTasks), s)
      /\ handlers' = handlers /\ misused' = misused
  BY DEF RegistryInv, TypeOK, RunMapTask, IsAbout
<1>2. \A other \in Schemes \ misused :
        /\ Leads(ioTasks, other, Held(other), other \in handlers)
        /\ Held(other) \in BOOLEAN /\ Held(other)' \in BOOLEAN
        /\ (other \in handlers) \in BOOLEAN
  BY DEF RegistryInv, TasksLead, Held, IsCustom
<1>3. s \notin misused =>
        /\ Leads(Tail(ioTasks), s, ~Held(s), s \in handlers)
        /\ Head(ioTasks).task \in Makers <=> ~Held(s)
  BY <1>1, <1>2, LeadsTail
<1>4. s \notin misused =>
        /\ Held(s)' <=> ~Held(s)
        /\ factory'[s] \in LayersOf(s)
        /\ s \in missed' => s \notin BuiltIn /\ factory'[s] = <<>>
        /\ job' = job
  BY <1>3, MapTaskEffect DEF RegistryInv
<1>5. /\ \A other \in Schemes \ {s} :
           factory'[other] = factory[other] /\ (other \in missed' <=> other \in missed)
      /\ \A r \in Requests : job'[r] = job[r] \/ (job[r] # NoJob /\ job[r].scheme = s
                                /\ job'[r] = [job[r] EXCEPT !.freed = TRUE])
  BY MapTaskOthers DEF RegistryInv
<1>6. TasksLead'
  <2> SUFFICES ASSUME NEW other \in Schemes \ misused
               PROVE  Leads(ioTasks', other, Held(other)', other \in handlers')
    BY <1>1 DEF TasksLead
  <2>1. CASE other = s
    BY <1>1, <1>2, <1>3, <1>4, <2>1, LeadsSame
  <2>2. CASE other # s
    <3>1. ~IsAbout(Head(ioTasks), other)
      BY <1>1, <2>2 DEF IsAbout
    <3>2. Leads(ioTasks', other, Held(other), other \in handlers)
      BY <1>1, <1>2, <3>1, LeadsTailOther
    <3>3. Held(other)' <=> Held(other)
      BY <1>5, <2>2 DEF Held, IsCustom, HasProtocolHandler
    <3> QED
      BY <1>1, <1>2, <3>2, <3>3, LeadsSame
  <2> QED
    BY <2>1, <2>2
<1>7. KindsKept'
  <2>1. \A other \in Schemes \ misused' :
          /\ factory'[other] \in LayersOf(other)
          /\ other \in missed' => other \notin BuiltIn /\ factory'[other] = <<>>
    BY <1>1, <1>4, <1>5 DEF RegistryInv, KindsKept
  <2> QED
    BY <1>1, <2>1, KindsTail DEF RegistryInv, KindsKept, TasksOf, LayersOf
<1>8. JobsKept'
  <2> SUFFICES ASSUME NEW r \in Requests, job'[r] # NoJob, job'[r].scheme \notin misused
               PROVE  /\ ~job'[r].freed
                      /\ job'[r].fallback = IF job'[r].scheme \in BuiltIn THEN 1 ELSE 0
    BY <1>1 DEF JobsKept
  <2>1. CASE job'[r] = job[r]
    BY <2>1 DEF RegistryInv, JobsKept
  <2>2. CASE job[r] # NoJob /\ job[r].scheme = s /\ job'[r] = [job[r] EXCEPT !.freed = TRUE]
    <3>1. job[r] \in Jobs
      BY <2>2 DEF RegistryInv, TypeOK
    <3>2. job'[r].scheme = s
      BY <2>2, <3>1 DEF Jobs
    <3>3. job' = job
      BY <1>4, <3>2
    <3> QED
      BY <2>1, <3>3
  <2> QED
    BY <1>5, <2>1, <2>2
<1> QED
  BY <1>6, <1>7, <1>8

(* ... and whatever happens to the tasks of jobs.                          *)
LEMMA LeadJobTask ==
  ASSUME RegistryInv, UNCHANGED <<factory, handlers, missed, misused>>,
         \/ ioTasks' = ioTasks
         \/ \E t \in IOTask : t.task \in JobTasks /\ ioTasks' = Append(ioTasks, t)
         \/ ioTasks # <<>> /\ Head(ioTasks).task \in JobTasks /\ ioTasks' = Tail(ioTasks)
  PROVE  TasksLead' /\ KindsKept'
<1>1. \A s \in Schemes \ misused :
        /\ Held(s)' <=> Held(s)
        /\ Held(s) \in BOOLEAN /\ Held(s)' \in BOOLEAN
        /\ (s \in handlers) \in BOOLEAN /\ handlers' = handlers
        /\ Leads(ioTasks, s, Held(s), s \in handlers)
  BY DEF Held, IsCustom, HasProtocolHandler, RegistryInv, TasksLead
<1>2. ioTasks \in Seq(IOTask)
  BY DEF RegistryInv, TypeOK
<1>3. \A t : t.task \in JobTasks => \A s : ~IsAbout(t, s)
  BY DEF IsAbout, JobTasks, MapTasks
<1>4. CASE ioTasks' = ioTasks
  BY <1>1, <1>4, LeadsSame DEF TasksLead, KindsKept, RegistryInv, TasksOf, LayersOf
<1>5. ASSUME NEW t \in IOTask, t.task \in JobTasks, ioTasks' = Append(ioTasks, t)
      PROVE  TasksLead' /\ KindsKept'
  <2>1. KindsKept'
    BY <1>5, KindsPost DEF RegistryInv, JobTasks, MapTasks
  <2>2. ASSUME NEW s \in Schemes \ misused PROVE Leads(ioTasks', s, Held(s)', s \in handlers')
    <3>1. Leads(ioTasks', s, Held(s), s \in handlers)
      BY <1>1, <1>2, <1>3, <1>5, LeadsAppendOther
    <3> QED
      BY <1>1, <3>1, LeadsSame
  <2> QED
    BY <2>1, <2>2 DEF TasksLead
<1>6. CASE ioTasks # <<>> /\ Head(ioTasks).task \in JobTasks /\ ioTasks' = Tail(ioTasks)
  <2>1. KindsKept'
    BY <1>6, KindsTail DEF RegistryInv, KindsKept, TasksOf, LayersOf
  <2>2. ASSUME NEW s \in Schemes \ misused PROVE Leads(ioTasks', s, Held(s)', s \in handlers')
    <3>1. Leads(ioTasks', s, Held(s), s \in handlers)
      BY <1>1, <1>2, <1>3, <1>6, LeadsTailOther
    <3> QED
      BY <1>1, <3>1, LeadsSame
  <2> QED
    BY <2>1, <2>2 DEF TasksLead
<1> QED
  BY <1>4, <1>5, <1>6

(* The jobs keep what they fall back on.                                   *)
LEMMA JobsStep ==
  ASSUME RegistryInv, NEW r \in Requests,
         \/ GetJobTypeInUI(r) \/ Answer(r) \/ Kill(r) \/ CreateJobAndStart(r)
         \/ \E s \in Schemes : StartRequest(r, s)
  PROVE  JobsKept'
<1>1. JobsKept /\ job \in [Requests -> Jobs \cup {NoJob}]
  BY DEF RegistryInv, TypeOK
<1>5. misused' = misused
  BY DEF GetJobTypeInUI, Answer, HandlerReturns, ResultUsed, Kill, CreateJobAndStart, StartRequest
<1>2. CASE GetJobTypeInUI(r) \/ Answer(r)
  BY <1>1, <1>2 DEF GetJobTypeInUI, Answer, HandlerReturns, ResultUsed, JobsKept
<1>3. CASE Kill(r) \/ CreateJobAndStart(r)
  <2>1. CASE job' = job
    BY <1>1, <1>5, <2>1 DEF JobsKept
  <2>2. ASSUME NEW state, job[r] # NoJob, job' = [job EXCEPT ![r] = [job[r] EXCEPT !.state = state]]
        PROVE  JobsKept'
    <3>1. job[r] \in Jobs
      BY <1>1, <2>2
    <3>2. job'[r].freed = job[r].freed /\ job'[r].fallback = job[r].fallback
          /\ job'[r].scheme = job[r].scheme
      BY <1>1, <2>2, <3>1 DEF Jobs
    <3> QED
      BY <1>1, <1>5, <2>2, <3>2 DEF JobsKept
  <2>3. Kill(r) => /\ job[r] # NoJob
                   /\ job' = [job EXCEPT ![r] = [job[r] EXCEPT !.state = "gone"]]
    BY <1>1 DEF Kill
  <2>4. ASSUME CreateJobAndStart(r) PROVE JobsKept'
    <3>1. TypeOK
      BY DEF RegistryInv
    <3>2. \/ job' = job
          \/ /\ job[r] # NoJob
             /\ job' = [job EXCEPT ![r] = [job[r] EXCEPT !.state = "started"]]
      BY <2>4, <3>1, StartEffect
    <3> QED
      BY <2>1, <2>2, <3>2
  <2> QED
    BY <1>3, <2>1, <2>2, <2>3, <2>4
<1>4. ASSUME NEW s \in Schemes, StartRequest(r, s) PROVE JobsKept'
  <2>1. s \notin misused =>
          factory[s] = IF s \in BuiltIn THEN <<"original", "custom">> ELSE <<"custom">>
    BY <1>4 DEF StartRequest, HasProtocolHandler, Top, RegistryInv, KindsKept, LayersOf
  <2>2. s \notin misused => Len(factory[s]) - 1 = IF s \in BuiltIn THEN 1 ELSE 0
    <3> SUFFICES ASSUME s \notin misused
                 PROVE  Len(factory[s]) - 1 = IF s \in BuiltIn THEN 1 ELSE 0
      OBVIOUS
    <3>1. CASE s \in BuiltIn
      BY <2>1, <3>1
    <3>2. CASE s \notin BuiltIn
      BY <2>1, <3>2
    <3> QED
      BY <3>1, <3>2
  <2>3. job' = [job EXCEPT ![r] = [state |-> "asking", scheme |-> s,
                                   fallback |-> Len(factory[s]) - 1, freed |-> FALSE]]
    BY <1>4 DEF StartRequest
  <2> QED
    BY <1>1, <1>5, <2>2, <2>3 DEF JobsKept
<1> QED
  BY <1>2, <1>3, <1>4

LEMMA RegistryStep == RegistryInv /\ [Next]_vars => RegistryInv'
<1> SUFFICES ASSUME RegistryInv, [Next]_vars PROVE RegistryInv'
  OBVIOUS
<1>1. TypeOK'
  BY TypeStep DEF RegistryInv
<1>2. ASSUME NEW s \in Schemes,
             \/ RegisterProtocol(s) \/ UnregisterProtocol(s)
             \/ InterceptProtocol(s) \/ UninterceptProtocol(s)
      PROVE  TasksLead' /\ KindsKept' /\ JobsKept'
  <2>1. PICK t \in MapTasks :
           /\ Post(t, s) /\ misused \subseteq misused'
           /\ s \notin misused' => t \in TasksOf(s)
           /\ t \in Makers <=> s \notin handlers
           /\ handlers' = IF t \in Makers THEN handlers \cup {s} ELSE handlers \ {s}
    <3>1. CASE RegisterProtocol(s)
      <4>1. s \notin misused => s \notin BuiltIn
        BY <3>1 DEF RegisterProtocol, RegistryInv, KindsKept, LayersOf, HasProtocolHandler
      <4> QED
        BY <3>1, <4>1 DEF RegisterProtocol, MapTasks, TasksOf, Makers
    <3>2. CASE UnregisterProtocol(s)
      BY <3>2 DEF UnregisterProtocol, MapTasks, TasksOf, Makers
    <3>3. CASE InterceptProtocol(s)
      BY <3>3 DEF InterceptProtocol, MapTasks, TasksOf, Makers
    <3>4. CASE UninterceptProtocol(s)
      BY <3>4 DEF UninterceptProtocol, MapTasks, TasksOf, Makers
    <3> QED
      BY <1>2, <3>1, <3>2, <3>3, <3>4
  <2>2. TasksLead'
    BY <2>1, LeadCall
  <2>3. MapTask(t, s).task = t /\ MapTask(t, s).scheme = s /\ MapTask(t, s) \in IOTask
    BY Queues DEF MapTask
  <2>4. UNCHANGED <<factory, missed, job>> /\ ioTasks' = Append(ioTasks, MapTask(t, s))
    BY <2>1 DEF Post
  <2>5. KindsKept'
    BY <2>1, <2>3, <2>4, KindsPost DEF RegistryInv
  <2> QED
    BY <2>1, <2>2, <2>4, <2>5 DEF RegistryInv, JobsKept
<1>3. CASE EmitEventInUI \/ UNCHANGED vars
  <2>1. UNCHANGED <<handlers, factory, ioTasks, job, missed, misused>>
    BY <1>3 DEF EmitEventInUI, vars
  <2> QED
    BY <1>1, <2>1, LeadJobTask DEF RegistryInv, JobsKept
<1>4. ASSUME NEW r \in Requests,
             \/ GetJobTypeInUI(r) \/ Answer(r) \/ Kill(r) \/ CreateJobAndStart(r)
             \/ \E s \in Schemes : StartRequest(r, s)
      PROVE  TasksLead' /\ KindsKept' /\ JobsKept'
  <2>1. UNCHANGED <<factory, handlers, missed, misused>>
    BY <1>4 DEF GetJobTypeInUI, Answer, HandlerReturns, ResultUsed, Kill, CreateJobAndStart, StartRequest
  <2>2. \/ ioTasks' = ioTasks
        \/ \E t \in IOTask : t.task \in JobTasks /\ ioTasks' = Append(ioTasks, t)
        \/ ioTasks # <<>> /\ Head(ioTasks).task \in JobTasks /\ ioTasks' = Tail(ioTasks)
    <3>1. CASE Answer(r)
      <4>1. PICK answer \in {"job", "nothing", "throws"} : HandlerReturns(r, answer)
        BY <3>1 DEF Answer
      <4>2. ioTasks' = ioTasks \/ \E t \in JobTasks : ioTasks' = Append(ioTasks, JobTask(t, r))
        BY <4>1 DEF HandlerReturns, JobTasks
      <4> QED
        BY <4>2, Queues DEF JobTask
    <3> QED
      BY <1>4, <3>1 DEF GetJobTypeInUI, Kill, CreateJobAndStart, StartRequest
  <2> QED
    BY <1>4, <2>1, <2>2, LeadJobTask, JobsStep
<1> QED
  BY <1>1, <1>2, <1>3, <1>4, LeadMapTask DEF Next, UIThread, IOThread, RegistryInv

(* The tasks lead from the factory to protocol_handlers_ in every state.   *)
LEMMA RegistryInvariant == Spec => []RegistryInv
<1>1. Init => RegistryInv
  BY RegistryInit
<1>2. RegistryInv /\ [Next]_vars => RegistryInv'
  BY RegistryStep
<1> QED
  BY <1>1, <1>2, PTL DEF Spec

(* Once the tasks that are posted have run, the factory has custom         *)
(* handlers for exactly the schemes that protocol_handlers_ has, except    *)
(* those whose interception was refused and those once taken away by the   *)
(* wrong call: for any schemes, requests and tasks on the way.             *)
THEOREM RegistryAgrees == Spec => []MapsAgree
<1>1. RegistryInv => MapsAgree
  <2> SUFFICES ASSUME RegistryInv, NEW s \in Schemes \ misused
               PROVE  /\ (\A i \in 1..Len(ioTasks) : ~About(i, s)) =>
                           (IsCustom(s) <=> s \in handlers \ missed)
                      /\ \A i \in 1..Len(ioTasks) :
                           About(i, s) /\ (\A j \in i+1..Len(ioTasks) : ~About(j, s))
                             => (MakesCustom(i) <=> s \in handlers)
    BY DEF MapsAgree
  <2>1. Leads(ioTasks, s, Held(s), s \in handlers)
    BY DEF RegistryInv, TasksLead
  <2>2. Len(ioTasks) \in Nat
    BY DEF RegistryInv, TypeOK
  <2>3. \A i \in 1..Len(ioTasks) : /\ About(i, s) <=> IsAbout(ioTasks[i], s)
                                   /\ MakesCustom(i) <=> ioTasks[i].task \in Makers
    BY DEF About, IsAbout, MakesCustom, Makers
  <2>4. s \in missed => ~IsCustom(s)
    BY DEF RegistryInv, KindsKept, IsCustom, HasProtocolHandler
  <2>5. ASSUME \A i \in 1..Len(ioTasks) : ~About(i, s)
        PROVE  IsCustom(s) <=> s \in handlers \ missed
    <3>1. None(ioTasks, s, 0, Len(ioTasks) + 1)
      BY <2>3, <2>5 DEF None
    <3>2. Held(s) <=> s \in handlers
      BY <2>1, <3>1 DEF Leads
    <3> QED
      BY <2>4, <3>2 DEF Held
  <2>6. ASSUME NEW i \in 1..Len(ioTasks), About(i, s), \A j \in i+1..Len(ioTasks) : ~About(j, s)
        PROVE  MakesCustom(i) <=> s \in handlers
    <3>1. None(ioTasks, s, i, Len(ioTasks) + 1)
      BY <2>2, <2>3, <2>6 DEF None
    <3> QED
      BY <2>1, <2>3, <2>6, <3>1 DEF Leads
  <2> QED
    BY <2>5, <2>6
<1> QED
  BY <1>1, RegistryInvariant, PTL

(* A task finds in the factory what the call that posted it relied on, or  *)
(* nothing where an interception came too late, however many calls were    *)
(* made on the other thread since, and the browser's own handlers stay     *)
(* under the custom ones: for schemes never taken away by the wrong call.  *)
THEOREM PostedTasksSucceed == Spec => []TasksSucceed
<1>1. RegistryInv => TasksSucceed
  <2> SUFFICES ASSUME RegistryInv PROVE TasksSucceed
    OBVIOUS
  <2>1. ASSUME ioTasks # <<>>, Head(ioTasks).task \in MapTasks,
               Head(ioTasks).scheme \notin misused
        PROVE  factory[Head(ioTasks).scheme] = Expected(Head(ioTasks).task, Head(ioTasks).scheme)
    <3> DEFINE s == Head(ioTasks).scheme
               task == Head(ioTasks).task
    <3>1. Head(ioTasks) = ioTasks[1] /\ 1 \in 1..Len(ioTasks) /\ ioTasks[1] \in IOTask
      BY <2>1 DEF RegistryInv, TypeOK
    <3>2. s \in Schemes \ misused /\ IsAbout(ioTasks[1], s)
      BY <2>1, <3>1 DEF IOTask, MapTasks, JobTasks, IsAbout
    <3>3. None(ioTasks, s, 0, 1)
      BY DEF None
    <3>4. Leads(ioTasks, s, Held(s), s \in handlers)
      BY <3>2 DEF RegistryInv, TasksLead
    <3>5. task \in Makers <=> ~Held(s)
      BY <3>1, <3>2, <3>3, <3>4 DEF Leads
    <3>6. task \in TasksOf(s)
      BY <2>1, <3>1, <3>2 DEF RegistryInv, KindsKept
    <3>7. /\ factory[s] \in LayersOf(s)
          /\ s \in missed => s \notin BuiltIn /\ factory[s] = <<>>
      BY <3>2 DEF RegistryInv, KindsKept
    <3> HIDE DEF s, task
    <3>8. factory[s] = Expected(task, s)
      BY <3>5, <3>6, <3>7
         DEF TasksOf, LayersOf, Makers, Held, IsCustom, HasProtocolHandler, Top, Expected
    <3> QED
      BY <3>8 DEF s, task
  <2> QED
    BY <2>1 DEF TasksSucceed, RegistryInv, KindsKept, LayersOf
<1> QED
  BY <1>1, RegistryInvariant, PTL

(* A job that has not been started can fall back on the handler under its  *)
(* own, whatever was taken away while JavaScript ran, if its scheme was    *)
(* never taken away by the wrong call.                                     *)
THEOREM FallbackStays == Spec => []FallbackAlive
<1>1. RegistryInv => FallbackAlive
  BY DEF RegistryInv, JobsKept, FallbackAlive
<1> QED
  BY <1>1, RegistryInvariant, PTL
===============================================================================
