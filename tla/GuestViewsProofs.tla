--------------------------- MODULE GuestViewsProofs ---------------------------
(***************************************************************************)
(* Proofs about GuestViews: why the guests, the maps of both processes and *)
(* the requests on the way stay together.  A guest is named in one place   *)
(* after the other: in the response that announces it, by the element that *)
(* owns it, and in the request that gives it up.                           *)
(***************************************************************************)
EXTENDS GuestViews, FiniteSetTheorems, SequenceTheorems, TLAPS

In(m, q) == \E i \in 1..Len(q) : q[i] = m

Asked(w)       == In(Create(w), toBrowser)
Attaches(i, g) == In(Attach(i, g), toBrowser)
Gives(g)       == In(Destroy(g), toBrowser)
Comes(w, g)    == In(Response(w, g), toPage)
Placed(g)      == \E pair \in elementMap : pair[2] = g
Taken(i)       == \E pair \in elementMap : pair[1] = KeyOf(i)
Instance       == 1..MaxInstance

(* What request m may stand before request n.                              *)
Apart(m, n) ==
  /\ m.type = "CREATE_GUEST" /\ n.type = "CREATE_GUEST" => m.element # n.element
  /\ m.type = "ATTACH_GUEST" /\ n.type = "ATTACH_GUEST" =>
       m.guest # n.guest /\ m.instance # n.instance
  /\ m.type = "DESTROY_GUEST" /\ n.type # "CREATE_GUEST" => m.guest # n.guest

Ordered(q)  == \A i, j \in 1..Len(q) : i < j => Apart(q[i], q[j])
Distinct(q) == \A i, j \in 1..Len(q) :
                 i < j => q[i].guest # q[j].guest /\ q[i].element # q[j].element

(* An element owns a guest that exists and that nobody gives up; before it *)
(* has an instance no request attaches the guest, before it has a guest    *)
(* none attaches the instance.                                             *)
ElementOwns(w) ==
  LET e == element[w] IN
  /\ e.guest # NoGuest =>
       e.attached /\ ~e.pending /\ Exists(e.guest) /\ ~Gives(e.guest)
  /\ e.guest # NoGuest /\ e.instance = 0 =>
       ~Placed(e.guest) /\ \A i \in Instance : ~Attaches(i, e.guest)
  /\ e.instance # 0 => e.instance <= instances
  /\ e.instance # 0 /\ e.guest = NoGuest =>
       ~Taken(e.instance) /\ \A g \in Guest : ~Attaches(e.instance, g)

ElementsOwn == \A w \in Elements : ElementOwns(w)

ElementsApart ==
  \A w, v \in Elements : w # v =>
    /\ element[w].guest # NoGuest => element[w].guest # element[v].guest
    /\ element[w].instance # 0 => element[w].instance # element[v].instance

(* The requests on the way are about guests that exist.                    *)
RequestsOwn ==
  /\ \A w \in Elements : Asked(w) => element[w].pending
  /\ \A g \in Guest : Gives(g) => Exists(g)
  /\ \A i \in Instance, g \in Guest : Attaches(i, g) =>
       Exists(g) /\ i <= instances /\ ~Placed(g) /\ ~Taken(i)
  /\ Ordered(toBrowser)

(* A guest that is announced is nowhere else.                              *)
ResponsesOwn ==
  /\ \A w \in Elements, g \in Guest : Comes(w, g) =>
       /\ Exists(g) /\ element[w].pending /\ ~Asked(w) /\ ~Placed(g) /\ ~Gives(g)
       /\ \A i \in Instance : ~Attaches(i, g)
       /\ \A v \in Elements : element[v].guest # g
  /\ Distinct(toPage)

MapsOwn ==
  /\ MapsInverse
  /\ \A pair \in elementMap : pair[1][1] = page /\ pair[1][2] <= instances

GuestsKnown == GuestsOfPage /\ \A g \in Guest : Exists(g) => g <= nextGuest

Creates(q) == {i \in 1..Len(q) : q[i].type = "CREATE_GUEST"}
GuestsBounded == nextGuest + Cardinality(Creates(toBrowser)) <= MaxGuest

GuestInv ==
  /\ TypeOK /\ GuestsBounded
  /\ ElementsOwn /\ ElementsApart /\ RequestsOwn /\ ResponsesOwn /\ MapsOwn /\ GuestsKnown

-----------------------------------------------------------------------------
(* The messages are told apart.                                            *)
LEMMA Messages ==
  /\ \A w : /\ Create(w).type = "CREATE_GUEST" /\ Create(w).element = w
            /\ w \in Elements => Create(w) \in Message
  /\ \A i, g : /\ Attach(i, g).type = "ATTACH_GUEST" /\ Attach(i, g).guest = g
               /\ Attach(i, g).instance = i
               /\ i \in Instance /\ g \in Guest => Attach(i, g) \in Message
  /\ \A g : /\ Destroy(g).type = "DESTROY_GUEST" /\ Destroy(g).guest = g
            /\ g \in Guest => Destroy(g) \in Message
  /\ \A w, g : Response(w, g).guest = g /\ Response(w, g).element = w
  /\ \A m \in Message :
       \/ m.type = "CREATE_GUEST" /\ m.element \in Elements /\ m = Create(m.element)
       \/ m.type = "ATTACH_GUEST" /\ m.instance \in Instance /\ m.guest \in Guest
            /\ m = Attach(m.instance, m.guest)
       \/ m.type = "DESTROY_GUEST" /\ m.guest \in Guest /\ m = Destroy(m.guest)
  /\ \A m \in [element: Elements, guest: Guest] :
       m.element \in Elements /\ m.guest \in Guest /\ m = Response(m.element, m.guest)
<1>1. \A w : /\ Create(w).type = "CREATE_GUEST" /\ Create(w).element = w
             /\ w \in Elements => Create(w) \in Message
  BY DEF Create, Message
<1>2. \A i, g : /\ Attach(i, g).type = "ATTACH_GUEST" /\ Attach(i, g).guest = g
                /\ Attach(i, g).instance = i
                /\ i \in Instance /\ g \in Guest => Attach(i, g) \in Message
  BY DEF Attach, Message, Instance
<1>3. \A g : /\ Destroy(g).type = "DESTROY_GUEST" /\ Destroy(g).guest = g
             /\ g \in Guest => Destroy(g) \in Message
  BY DEF Destroy, Message
<1>4. \A w, g : Response(w, g).guest = g /\ Response(w, g).element = w
  BY DEF Response
<1>5. ASSUME NEW m \in Message
      PROVE  \/ m.type = "CREATE_GUEST" /\ m.element \in Elements /\ m = Create(m.element)
             \/ m.type = "ATTACH_GUEST" /\ m.instance \in Instance /\ m.guest \in Guest
                  /\ m = Attach(m.instance, m.guest)
             \/ m.type = "DESTROY_GUEST" /\ m.guest \in Guest /\ m = Destroy(m.guest)
  <2>1. \/ \E w \in Elements : m = Create(w)
        \/ \E i \in Instance, g \in Guest : m = Attach(i, g)
        \/ \E g \in Guest : m = Destroy(g)
    BY DEF Message, Instance
  <2> QED
    BY <2>1, <1>1, <1>2, <1>3
<1>6. \A m \in [element: Elements, guest: Guest] :
        m.element \in Elements /\ m.guest \in Guest /\ m = Response(m.element, m.guest)
  BY DEF Response
<1> QED
  BY <1>1, <1>2, <1>3, <1>4, <1>5, <1>6

(* A request put behind the others.                                        *)
LEMMA InAppend ==
  ASSUME NEW S, NEW q \in Seq(S), NEW t \in S
  PROVE  \A m : In(m, Append(q, t)) <=> In(m, q) \/ m = t
<1> DEFINE p == Append(q, t)
<1>1. /\ Len(p) = Len(q) + 1 /\ Len(q) \in Nat /\ p[Len(p)] = t
      /\ \A i \in 1..Len(q) : p[i] = q[i]
  OBVIOUS
<1> HIDE DEF p
<1>2. ASSUME NEW m, In(m, q) \/ m = t PROVE In(m, p)
  <2>1. CASE m = t
    BY <2>1, <1>1 DEF In
  <2>2. CASE In(m, q)
    BY <2>2, <1>1 DEF In
  <2> QED
    BY <1>2, <2>1, <2>2
<1>3. ASSUME NEW m, In(m, p) PROVE In(m, q) \/ m = t
  <2>1. PICK i \in 1..Len(p) : p[i] = m
    BY <1>3 DEF In
  <2>2. i = Len(p) \/ i \in 1..Len(q)
    BY <1>1
  <2> QED
    BY <2>1, <2>2, <1>1 DEF In
<1> QED
  BY <1>2, <1>3 DEF p

LEMMA OrderedAppend ==
  ASSUME NEW S, NEW q \in Seq(S), NEW t \in S, Ordered(q),
         \A m \in S : In(m, q) => Apart(m, t)
  PROVE  Ordered(Append(q, t))
<1> DEFINE p == Append(q, t)
<1>1. /\ Len(p) = Len(q) + 1 /\ Len(q) \in Nat /\ p[Len(p)] = t
      /\ \A i \in 1..Len(q) : p[i] = q[i] /\ q[i] \in S
  OBVIOUS
<1> HIDE DEF p
<1>2. ASSUME NEW i \in 1..Len(p), NEW j \in 1..Len(p), i < j PROVE Apart(p[i], p[j])
  <2>1. i \in 1..Len(q) /\ p[i] = q[i] /\ q[i] \in S
    BY <1>1, <1>2
  <2>2. CASE j = Len(p)
    BY <2>1, <2>2, <1>1 DEF In
  <2>3. CASE j \in 1..Len(q)
    BY <2>1, <2>3, <1>1, <1>2 DEF Ordered
  <2> QED
    BY <2>2, <2>3, <1>1
<1> QED
  BY <1>2 DEF Ordered, p

LEMMA DistinctAppend ==
  ASSUME NEW S, NEW q \in Seq(S), NEW t \in S, Distinct(q),
         \A m \in S : In(m, q) => m.guest # t.guest /\ m.element # t.element
  PROVE  Distinct(Append(q, t))
<1> DEFINE p == Append(q, t)
<1>1. /\ Len(p) = Len(q) + 1 /\ Len(q) \in Nat /\ p[Len(p)] = t
      /\ \A i \in 1..Len(q) : p[i] = q[i] /\ q[i] \in S
  OBVIOUS
<1> HIDE DEF p
<1>2. ASSUME NEW i \in 1..Len(p), NEW j \in 1..Len(p), i < j
      PROVE  p[i].guest # p[j].guest /\ p[i].element # p[j].element
  <2>1. i \in 1..Len(q) /\ p[i] = q[i] /\ q[i] \in S
    BY <1>1, <1>2
  <2>2. CASE j = Len(p)
    BY <2>1, <2>2, <1>1 DEF In
  <2>3. CASE j \in 1..Len(q)
    BY <2>1, <2>3, <1>1, <1>2 DEF Distinct
  <2> QED
    BY <2>2, <2>3, <1>1
<1> QED
  BY <1>2 DEF Distinct, p

(* The first request taken from them.                                      *)
LEMMA InTail ==
  ASSUME NEW S, NEW q \in Seq(S), q # <<>>
  PROVE  /\ Tail(q) \in Seq(S) /\ Head(q) \in S /\ In(Head(q), q)
         /\ \A m : In(m, Tail(q)) => In(m, q)
         /\ Ordered(q) => Ordered(Tail(q)) /\ \A m : In(m, Tail(q)) => Apart(Head(q), m)
         /\ Distinct(q) => /\ Distinct(Tail(q))
                           /\ \A m : In(m, Tail(q)) => /\ Head(q).guest # m.guest
                                                       /\ Head(q).element # m.element
<1> DEFINE p == Tail(q)
<1>1. /\ Len(q) = Len(p) + 1 /\ Len(p) \in Nat /\ q[1] = Head(q) /\ Head(q) \in S
      /\ \A i \in 1..Len(p) : p[i] = q[i+1] /\ i + 1 \in 1..Len(q)
      /\ p \in Seq(S) /\ 1 \in 1..Len(q)
  OBVIOUS
<1> HIDE DEF p
<1>2. In(Head(q), q)
  BY <1>1 DEF In
<1>3. \A m : In(m, p) => \E i \in 1..Len(p) : m = q[i+1] /\ i + 1 \in 1..Len(q) /\ 1 < i + 1
  BY <1>1 DEF In
<1>4. \A m : In(m, p) => In(m, q)
  BY <1>3 DEF In
<1>5. ASSUME Ordered(q) PROVE Ordered(p) /\ \A m : In(m, p) => Apart(Head(q), m)
  <2>1. \A m : In(m, p) => Apart(Head(q), m)
    BY <1>1, <1>3, <1>5 DEF Ordered
  <2>2. ASSUME NEW i \in 1..Len(p), NEW j \in 1..Len(p), i < j PROVE Apart(p[i], p[j])
    <3>1. i + 1 < j + 1 /\ i + 1 \in 1..Len(q) /\ j + 1 \in 1..Len(q)
          /\ p[i] = q[i+1] /\ p[j] = q[j+1]
      BY <1>1, <2>2
    <3> QED
      BY <3>1, <1>5 DEF Ordered
  <2> QED
    BY <2>1, <2>2 DEF Ordered
<1>6. ASSUME Distinct(q)
      PROVE  /\ Distinct(p)
             /\ \A m : In(m, p) => Head(q).guest # m.guest /\ Head(q).element # m.element
  <2>1. \A m : In(m, p) => Head(q).guest # m.guest /\ Head(q).element # m.element
    BY <1>1, <1>3, <1>6 DEF Distinct
  <2>2. ASSUME NEW i \in 1..Len(p), NEW j \in 1..Len(p), i < j
        PROVE  p[i].guest # p[j].guest /\ p[i].element # p[j].element
    <3>1. i + 1 < j + 1 /\ i + 1 \in 1..Len(q) /\ j + 1 \in 1..Len(q)
          /\ p[i] = q[i+1] /\ p[j] = q[j+1]
      BY <1>1, <2>2
    <3> QED
      BY <3>1, <1>6 DEF Distinct
  <2> QED
    BY <2>1, <2>2 DEF Distinct
<1> QED
  BY <1>1, <1>2, <1>4, <1>5, <1>6 DEF p

(* How many requests for a guest there are.                                *)
LEMMA CreatesFinite ==
  ASSUME NEW S, NEW q \in Seq(S)
  PROVE  IsFiniteSet(Creates(q)) /\ Cardinality(Creates(q)) \in Nat
<1>1. IsFiniteSet(1..Len(q)) /\ Creates(q) \in SUBSET (1..Len(q))
  BY FS_Interval DEF Creates
<1> QED
  BY <1>1, FS_Subset, FS_CardinalityType

LEMMA CreatesAppend ==
  ASSUME NEW S, NEW q \in Seq(S), NEW t \in S
  PROVE  Cardinality(Creates(Append(q, t))) =
           Cardinality(Creates(q)) + IF t.type = "CREATE_GUEST" THEN 1 ELSE 0
<1> DEFINE p == Append(q, t)
<1>1. /\ Len(p) = Len(q) + 1 /\ Len(q) \in Nat /\ p[Len(q) + 1] = t
      /\ \A i \in 1..Len(q) : p[i] = q[i]
  OBVIOUS
<1> HIDE DEF p
<1>2. Creates(p) = IF t.type = "CREATE_GUEST" THEN Creates(q) \cup {Len(q) + 1} ELSE Creates(q)
  BY <1>1 DEF Creates
<1>3. Len(q) + 1 \notin Creates(q)
  BY <1>1 DEF Creates
<1>4. Cardinality(Creates(q) \cup {Len(q) + 1}) = Cardinality(Creates(q)) + 1
  BY <1>3, CreatesFinite, FS_AddElement
<1> QED
  BY <1>2, <1>4, CreatesFinite DEF p

LEMMA CreatesTail ==
  ASSUME NEW S, NEW q \in Seq(S), q # <<>>
  PROVE  Cardinality(Creates(Tail(q))) <=
           Cardinality(Creates(q)) - IF Head(q).type = "CREATE_GUEST" THEN 1 ELSE 0
<1> DEFINE p == Tail(q)
           rest == Creates(q) \ {1}
           f == [i \in rest |-> i - 1]
<1>1. /\ Len(q) = Len(p) + 1 /\ Len(p) \in Nat /\ q[1] = Head(q) /\ 1 \in 1..Len(q)
      /\ \A i \in 1..Len(p) : p[i] = q[i+1]
  OBVIOUS
<1> HIDE DEF p
<1>2. IsFiniteSet(rest) /\ Cardinality(rest) =
        Cardinality(Creates(q)) - IF Head(q).type = "CREATE_GUEST" THEN 1 ELSE 0
  <2>1. 1 \in Creates(q) <=> Head(q).type = "CREATE_GUEST"
    BY <1>1 DEF Creates
  <2> QED
    BY <2>1, CreatesFinite, FS_RemoveElement
<1>3. f \in Surjection(rest, Creates(p))
  <2>1. \A i \in rest : i - 1 \in Creates(p)
    BY <1>1 DEF Creates
  <2>2. \A j \in Creates(p) : j + 1 \in rest /\ f[j + 1] = j
    BY <1>1 DEF Creates
  <2> QED
    BY <2>1, <2>2 DEF Surjection
<1> HIDE DEF rest, f
<1> QED
  BY <1>2, <1>3, FS_Surjection DEF p

-----------------------------------------------------------------------------
(* The types of GuestViews hold initially ...                              *)
LEMMA TypeInit == Init => TypeOK /\ GuestsBounded
<1> SUFFICES ASSUME Init PROVE TypeOK /\ GuestsBounded
  OBVIOUS
<1>1. element \in [Elements -> ElementType]
  BY GuestAssumption DEF Init, NewElement, ElementType, NoGuest
<1>2. toBrowser \in Seq(Message) /\ toPage \in Seq([element: Elements, guest: Guest])
  BY DEF Init
<1>3. Cardinality(Creates(toBrowser)) = 0
  <2>1. Creates(toBrowser) = {}
    BY DEF Init, Creates
  <2> QED
    BY <2>1, FS_EmptySet
<1>4. page \in Page /\ instances \in 0..MaxInstance /\ nextGuest \in 0..MaxGuest
      /\ nextGuest = 0
  BY GuestAssumption DEF Init, Page
<1> QED
  BY <1>1, <1>2, <1>3, <1>4, GuestAssumption DEF Init, TypeOK, GuestsBounded

(* ... and are kept by what an element asks for, ...                       *)
LEMMA ParseType ==
  ASSUME TypeOK, GuestsBounded, MayAsk, NEW w \in Elements, NEW e \in ElementType, Parse(w, e),
         UNCHANGED nextGuest
  PROVE  element' \in [Elements -> ElementType] /\ toBrowser' \in Seq(Message) /\ GuestsBounded'
<1>1. element' \in [Elements -> ElementType]
  <2>1. [e EXCEPT !.fresh = FALSE, !.pending = TRUE] \in ElementType
    BY DEF ElementType
  <2> QED
    BY <2>1 DEF Parse, TypeOK
<1>2. toBrowser' = toBrowser \/ toBrowser' = Append(toBrowser, Create(w))
  BY DEF Parse
<1>3. Create(w) \in Message /\ Create(w).type = "CREATE_GUEST" /\ toBrowser \in Seq(Message)
  BY Messages DEF TypeOK
<1>4. nextGuest \in Nat /\ Cardinality(Creates(toBrowser)) \in Nat /\ MaxGuest \in Nat
  BY <1>3, CreatesFinite, GuestAssumption DEF TypeOK
<1>5. nextGuest + Cardinality(Creates(toBrowser)) < MaxGuest
  BY DEF MayAsk, Creates
<1>6. toBrowser' \in Seq(Message)
  BY <1>2, <1>3
<1>7. GuestsBounded'
  <2>1. CASE toBrowser' = toBrowser
    BY <2>1 DEF GuestsBounded, Creates
  <2>2. CASE toBrowser' = Append(toBrowser, Create(w))
    <3>1. Cardinality(Creates(Append(toBrowser, Create(w)))) = Cardinality(Creates(toBrowser)) + 1
      BY <1>3, CreatesAppend
    <3>2. Creates(toBrowser)' = Creates(Append(toBrowser, Create(w)))
      BY <2>2 DEF Creates
    <3> QED
      BY <3>1, <3>2, <1>4, <1>5 DEF GuestsBounded
  <2> QED
    BY <1>2, <2>1, <2>2
<1> QED
  BY <1>1, <1>6, <1>7

(* ... by a request that is put behind the others, ...                     *)
LEMMA RequestType ==
  ASSUME TypeOK, GuestsBounded, UNCHANGED nextGuest,
         \/ toBrowser' = toBrowser
         \/ \E m \in Message : m.type # "CREATE_GUEST" /\ toBrowser' = Append(toBrowser, m)
  PROVE  toBrowser' \in Seq(Message) /\ GuestsBounded'
<1>1. CASE toBrowser' = toBrowser
  BY <1>1 DEF TypeOK, GuestsBounded, Creates
<1>2. ASSUME NEW m \in Message, m.type # "CREATE_GUEST", toBrowser' = Append(toBrowser, m)
      PROVE  toBrowser' \in Seq(Message) /\ GuestsBounded'
  <2>1. toBrowser \in Seq(Message) /\ nextGuest \in Nat
    BY DEF TypeOK
  <2>2. /\ Cardinality(Creates(Append(toBrowser, m))) = Cardinality(Creates(toBrowser))
        /\ Cardinality(Creates(toBrowser)) \in Nat
    BY <1>2, <2>1, CreatesAppend, CreatesFinite
  <2>3. Creates(toBrowser)' = Creates(Append(toBrowser, m))
    BY <1>2 DEF Creates
  <2> QED
    BY <1>2, <2>1, <2>2, <2>3 DEF GuestsBounded
<1> QED
  BY <1>1, <1>2

(* ... by what the browser process does for a request, ...                 *)
LEMMA HandleType ==
  ASSUME TypeOK, GuestsBounded, toBrowser # <<>>, toBrowser' = Tail(toBrowser),
         IF Head(toBrowser).type = "CREATE_GUEST" THEN nextGuest' \in {nextGuest, nextGuest + 1}
                                                  ELSE nextGuest' = nextGuest
  PROVE  toBrowser' \in Seq(Message) /\ nextGuest' \in 0..MaxGuest /\ GuestsBounded'
<1>1. toBrowser \in Seq(Message) /\ nextGuest \in Nat /\ MaxGuest \in Nat
  BY GuestAssumption DEF TypeOK
<1>2. Tail(toBrowser) \in Seq(Message)
  BY <1>1
<1>3. /\ Cardinality(Creates(Tail(toBrowser))) <=
            Cardinality(Creates(toBrowser)) - IF Head(toBrowser).type = "CREATE_GUEST" THEN 1 ELSE 0
      /\ Cardinality(Creates(toBrowser)) \in Nat
      /\ Cardinality(Creates(Tail(toBrowser))) \in Nat
  BY <1>1, <1>2, CreatesTail, CreatesFinite
<1>4. Creates(toBrowser)' = Creates(Tail(toBrowser))
  BY DEF Creates
<1> QED
  BY <1>1, <1>2, <1>3, <1>4 DEF GuestsBounded

(* ... and by the page and its elements.                                   *)
LEMMA PageGoneType ==
  ASSUME TypeOK, GuestsBounded, PageGone, UNCHANGED nextGuest
  PROVE  /\ element' \in [Elements -> ElementType] /\ instances' \in 0..MaxInstance
         /\ toBrowser' \in Seq(Message) /\ toPage' \in Seq([element: Elements, guest: Guest])
         /\ GuestsBounded'
<1>1. element' \in [Elements -> ElementType]
  BY GuestAssumption DEF PageGone, NewElement, ElementType, NoGuest
<1>2. instances' \in 0..MaxInstance
  BY GuestAssumption DEF PageGone
<1>3. toBrowser' \in Seq(Message) /\ toPage' \in Seq([element: Elements, guest: Guest])
  BY DEF PageGone
<1>4. Creates(toBrowser)' = {}
  BY DEF PageGone, Creates
<1>5. toBrowser \in Seq(Message) /\ nextGuest \in Nat /\ MaxGuest \in Nat
  BY GuestAssumption DEF TypeOK
<1>6. Cardinality(Creates(toBrowser)) \in Nat
  BY <1>5, CreatesFinite
<1>7. GuestsBounded'
  BY <1>4, <1>5, <1>6, FS_EmptySet DEF GuestsBounded
<1> QED
  BY <1>1, <1>2, <1>3, <1>7

LEMMA DetachedType ==
  ASSUME NEW e \in ElementType, NEW fresh \in BOOLEAN
  PROVE  [e EXCEPT !.attached = FALSE, !.guest = NoGuest, !.instance = 0, !.fresh = fresh]
           \in ElementType
<1>1. 0 \in 0..MaxInstance
  BY GuestAssumption
<1> QED
  BY <1>1 DEF ElementType

LEMMA ManagerType ==
  ASSUME TypeOK, NEW gs, DestroyGuests(gs)
  PROVE  /\ guests' \subseteq Guest \X Page /\ elementMap' \subseteq Key \X Guest
         /\ reverseMap' \subseteq Guest \X Key /\ contentsMap' \subseteq Guest
         /\ instanceMap' \subseteq Key \X Guest
BY DEF DestroyGuests, Without, TypeOK

LEMMA TypeStep == TypeOK /\ GuestsBounded /\ [Next]_vars => TypeOK' /\ GuestsBounded'
<1> SUFFICES ASSUME TypeOK, GuestsBounded, [Next]_vars PROVE TypeOK' /\ GuestsBounded'
  OBVIOUS
<1>1. ASSUME NEW w \in Elements, AttachElement(w) \/ WriteSrc(w) PROVE TypeOK' /\ GuestsBounded'
  <2>1. PICK e \in ElementType : Parse(w, e) /\ MayAsk
    <3>1. /\ [element[w] EXCEPT !.attached = TRUE] \in ElementType
          /\ [element[w] EXCEPT !.src = TRUE] \in ElementType
      BY DEF TypeOK, ElementType
    <3> QED
      BY <1>1, <3>1 DEF AttachElement, WriteSrc
  <2>2. UNCHANGED <<page, embedder, instances, toPage, manager>>
    BY <1>1 DEF AttachElement, WriteSrc
  <2>3. UNCHANGED nextGuest
    BY <2>2 DEF manager
  <2>4. element' \in [Elements -> ElementType] /\ toBrowser' \in Seq(Message) /\ GuestsBounded'
    BY <2>1, <2>3, ParseType
  <2> QED
    BY <2>2, <2>4 DEF TypeOK, manager
<1>2. ASSUME NEW w \in Elements, DetachElement(w) \/ PluginInstance(w) \/ GuestCreated(w)
      PROVE  TypeOK' /\ GuestsBounded'
  <2> DEFINE e == element[w]
  <2>1. e \in ElementType /\ e.guest \in Guest \cup {NoGuest} /\ e.instance \in 0..MaxInstance
    BY DEF TypeOK, ElementType
  <2>2. UNCHANGED <<page, embedder, manager, nextGuest>>
    BY <1>2 DEF DetachElement, PluginInstance, GuestCreated, manager
  <2>3. \A g \in Guest :
          /\ Destroy(g) \in Message /\ Destroy(g).type # "CREATE_GUEST"
          /\ \A i \in Instance :
               Attach(i, g) \in Message /\ Attach(i, g).type # "CREATE_GUEST"
    BY Messages
  <2>4. CASE DetachElement(w)
    <3> DEFINE fresh == e.fresh \/ e.guest # NoGuest
               gone == [e EXCEPT !.attached = FALSE, !.guest = NoGuest, !.instance = 0,
                                 !.fresh = fresh]
    <3>1. gone \in ElementType
      <4>1. fresh \in BOOLEAN
        BY <2>1 DEF ElementType
      <4> HIDE DEF fresh
      <4> QED
        BY <2>1, <4>1, DetachedType
    <3>2. element' = [element EXCEPT ![w] = gone]
      BY <2>4 DEF DetachElement
    <3>9. UNCHANGED <<instances, toPage>>
      BY <2>4 DEF DetachElement
    <3> HIDE DEF gone
    <3>7. element' \in [Elements -> ElementType]
      BY <3>1, <3>2 DEF TypeOK
    <3>8. toBrowser' = IF e.guest # NoGuest THEN Append(toBrowser, Destroy(e.guest)) ELSE toBrowser
      BY <2>4 DEF DetachElement
    <3>3. \/ toBrowser' = toBrowser
          \/ \E m \in Message : m.type # "CREATE_GUEST" /\ toBrowser' = Append(toBrowser, m)
      <4>1. CASE e.guest = NoGuest
        BY <4>1, <3>8
      <4>2. CASE e.guest # NoGuest
        <5>1. e.guest \in Guest /\ toBrowser' = Append(toBrowser, Destroy(e.guest))
          BY <4>2, <2>1, <3>8
        <5> QED
          BY <5>1, <2>3
      <4> QED
        BY <4>1, <4>2
    <3>4. toBrowser' \in Seq(Message) /\ GuestsBounded'
      BY <2>2, <3>3, RequestType
    <3> QED
      BY <2>2, <3>9, <3>4, <3>7 DEF TypeOK, manager
  <2>5. CASE PluginInstance(w)
    <3>1. instances' \in 0..MaxInstance /\ instances + 1 \in Instance /\ instances' = instances + 1
      BY <2>5, GuestAssumption DEF PluginInstance, TypeOK, Instance
    <3>2. [e EXCEPT !.instance = instances + 1] \in ElementType
      BY <2>1, <3>1 DEF ElementType
    <3>3. element' \in [Elements -> ElementType] /\ UNCHANGED toPage
      BY <2>5, <3>2 DEF PluginInstance, TypeOK
    <3>4. \/ toBrowser' = toBrowser
          \/ \E m \in Message : m.type # "CREATE_GUEST" /\ toBrowser' = Append(toBrowser, m)
      BY <2>1, <2>3, <2>5, <3>1 DEF PluginInstance
    <3>5. toBrowser' \in Seq(Message) /\ GuestsBounded'
      BY <2>2, <3>4, RequestType
    <3> QED
      BY <2>2, <3>1, <3>3, <3>5 DEF TypeOK, manager
  <2>6. CASE GuestCreated(w)
    <3> DEFINE g == Head(toPage).guest
    <3>1. g \in Guest /\ toPage' \in Seq([element: Elements, guest: Guest]) /\ UNCHANGED instances
      <4>1. toPage \in Seq([element: Elements, guest: Guest]) /\ toPage # <<>>
            /\ toPage' = Tail(toPage) /\ UNCHANGED instances
        BY <2>6 DEF GuestCreated, TypeOK
      <4>2. Head(toPage) \in [element: Elements, guest: Guest]
        BY <4>1, InTail
      <4> QED
        BY <4>1, <4>2
    <3>2. [e EXCEPT !.pending = FALSE, !.guest = g] \in ElementType
          /\ [e EXCEPT !.pending = FALSE] \in ElementType
      BY <2>1, <3>1 DEF ElementType
    <3>3. element' \in [Elements -> ElementType]
      BY <2>6, <3>2 DEF GuestCreated, TypeOK
    <3>4. e.instance # 0 => e.instance \in Instance
      BY <2>1 DEF Instance
    <3>5. \/ toBrowser' = toBrowser
          \/ \E m \in Message : m.type # "CREATE_GUEST" /\ toBrowser' = Append(toBrowser, m)
      <4>1. toBrowser' = IF e.attached
                         THEN IF e.instance = 0 THEN toBrowser
                              ELSE Append(toBrowser, Attach(e.instance, g))
                         ELSE Append(toBrowser, Destroy(g))
        BY <2>6 DEF GuestCreated
      <4> QED
        <5>1. CASE e.attached /\ e.instance = 0
          BY <4>1, <5>1
        <5>2. CASE e.attached /\ e.instance # 0
          BY <4>1, <5>2, <2>3, <3>1, <3>4
        <5>3. CASE ~e.attached
          BY <4>1, <5>3, <2>3, <3>1
        <5> QED
          BY <5>1, <5>2, <5>3
    <3>6. toBrowser' \in Seq(Message) /\ GuestsBounded'
      BY <2>2, <3>5, RequestType
    <3> QED
      BY <2>2, <3>1, <3>3, <3>6 DEF TypeOK, manager
  <2> QED
    BY <1>2, <2>4, <2>5, <2>6
<1>3. CASE HandleMessage
  <2>1. /\ toBrowser # <<>> /\ toBrowser' = Tail(toBrowser) /\ UNCHANGED <<page, embedder, renderer>>
        /\ IF Head(toBrowser).type = "CREATE_GUEST" THEN nextGuest' \in {nextGuest, nextGuest + 1}
                                                    ELSE nextGuest' = nextGuest
    BY <1>3 DEF HandleMessage, CreateGuest, AttachGuest, DestroyGuest, manager
  <2>2. toBrowser' \in Seq(Message) /\ nextGuest' \in 0..MaxGuest /\ GuestsBounded'
    BY <2>1, HandleType
  <2>3. Head(toBrowser) \in Message
    BY <2>1 DEF TypeOK
  <2>4. CASE CreateGuest
    <3>1. nextGuest' = nextGuest + 1 /\ nextGuest \in Nat /\ nextGuest + 1 \in Guest
      BY <2>2, <2>4 DEF CreateGuest, TypeOK, Guest
    <3>2. Head(toBrowser).element \in Elements
      BY <2>3, <2>4, Messages DEF CreateGuest
    <3>3. Response(Head(toBrowser).element, nextGuest + 1) \in [element: Elements, guest: Guest]
      BY <3>1, <3>2 DEF Response
    <3>4. toPage' \in Seq([element: Elements, guest: Guest])
      BY <2>4, <3>3 DEF CreateGuest, TypeOK
    <3>5. guests' \subseteq Guest \X Page
      BY <2>4, <3>1 DEF CreateGuest, TypeOK
    <3> QED
      BY <2>1, <2>2, <2>4, <3>4, <3>5 DEF CreateGuest, TypeOK, renderer
  <2>5. CASE AttachGuest
    <3>1. Head(toBrowser).guest \in Guest /\ KeyOf(Head(toBrowser).instance) \in Key
      BY <2>3, <2>5, Messages DEF AttachGuest, KeyOf, Key, Instance, TypeOK
    <3>2. /\ guests' \subseteq Guest \X Page /\ elementMap' \subseteq Key \X Guest
          /\ reverseMap' \subseteq Guest \X Key /\ contentsMap' \subseteq Guest
          /\ instanceMap' \subseteq Key \X Guest
      <4> DEFINE g == Head(toBrowser).guest
                 key == KeyOf(Head(toBrowser).instance)
                 old == {h \in Guest : <<key, h>> \in elementMap}
      <4>1. \/ UNCHANGED manager
            \/ /\ guests' = {h \in guests : h[1] \notin old}
               /\ contentsMap' = (contentsMap \ old) \cup {g}
               /\ instanceMap' = Without(instanceMap, old) \cup {<<key, g>>}
               /\ elementMap' = {pair \in elementMap : pair[1] # key} \cup {<<key, g>>}
               /\ reverseMap' = {pair \in reverseMap : pair[1] \notin old \cup {g}} \cup {<<g, key>>}
        BY <2>5 DEF AttachGuest
      <4>2. g \in Guest /\ key \in Key
        BY <3>1
      <4> HIDE DEF g, key, old
      <4> QED
        BY <4>1, <4>2 DEF Without, TypeOK, manager
    <3> QED
      BY <2>1, <2>2, <2>5, <3>2 DEF AttachGuest, TypeOK, renderer
  <2>6. CASE DestroyGuest
    <3>1. UNCHANGED manager \/ DestroyGuests({Head(toBrowser).guest})
      BY <2>6 DEF DestroyGuest
    <3>2. /\ guests' \subseteq Guest \X Page /\ elementMap' \subseteq Key \X Guest
          /\ reverseMap' \subseteq Guest \X Key /\ contentsMap' \subseteq Guest
          /\ instanceMap' \subseteq Key \X Guest
      BY <3>1, ManagerType DEF manager, TypeOK
    <3> QED
      BY <2>1, <2>2, <2>6, <3>2 DEF DestroyGuest, TypeOK, renderer
  <2> QED
    BY <1>3, <2>4, <2>5, <2>6 DEF HandleMessage
<1>4. CASE Navigate \/ Crash \/ EmbedderDestroyed
  <2>1. PageGone /\ LeavePage /\ UNCHANGED nextGuest
    BY <1>4 DEF Navigate, Crash, EmbedderDestroyed
  <2>2. page' \in Page /\ embedder' \in {"alive", "crashed", "destroyed"}
    BY <1>4, GuestAssumption DEF Navigate, Crash, EmbedderDestroyed, TypeOK, Page
  <2>3. /\ guests' \subseteq Guest \X Page /\ elementMap' \subseteq Key \X Guest
        /\ reverseMap' \subseteq Guest \X Key /\ contentsMap' \subseteq Guest
        /\ instanceMap' \subseteq Key \X Guest
    BY <2>1, ManagerType DEF LeavePage
  <2>4. nextGuest' \in 0..MaxGuest
    BY <2>1 DEF TypeOK
  <2> QED
    BY <2>1, <2>2, <2>3, <2>4, PageGoneType DEF TypeOK
<1>5. CASE UNCHANGED vars
  BY <1>5 DEF vars, renderer, manager, TypeOK, GuestsBounded, Creates
<1> QED
  BY <1>1, <1>2, <1>3, <1>4, <1>5 DEF Next

-----------------------------------------------------------------------------
(* What a step of the page leaves alone in the browser process.            *)
LEMMA ManagerSame ==
  ASSUME UNCHANGED <<page, embedder, manager>>
  PROVE  /\ \A g : (Placed(g)' <=> Placed(g)) /\ (Exists(g)' <=> Exists(g))
         /\ \A i : Taken(i)' <=> Taken(i)
         /\ MapsInverse => MapsInverse'
         /\ GuestsKnown => GuestsKnown'
<1>1. UNCHANGED <<page, embedder, nextGuest, guests, elementMap, reverseMap, contentsMap, instanceMap>>
  BY DEF manager
<1>2. \A g : (Placed(g)' <=> Placed(g)) /\ (Exists(g)' <=> Exists(g))
  BY <1>1 DEF Placed, Exists
<1>3. \A i : Taken(i)' <=> Taken(i)
  BY <1>1 DEF Taken, KeyOf
<1>4. MapsInverse => MapsInverse'
  BY <1>1 DEF MapsInverse, Exists
<1>5. GuestsKnown => GuestsKnown'
  BY <1>1, <1>2 DEF GuestsKnown, GuestsOfPage, Live
<1> QED
  BY <1>2, <1>3, <1>4, <1>5

LEMMA MapsSame ==
  ASSUME UNCHANGED <<page, embedder, manager>>, MapsOwn, TypeOK,
         instances' = instances \/ instances' = instances + 1
  PROVE  MapsOwn'
<1>1. MapsInverse'
  BY ManagerSame DEF MapsOwn
<1>2. UNCHANGED <<page, elementMap>>
  BY DEF manager
<1>3. instances \in Nat /\ \A pair \in elementMap : pair[1][2] \in Nat
  BY DEF TypeOK, Key
<1> QED
  BY <1>1, <1>2, <1>3 DEF MapsOwn

LEMMA RequestsSame ==
  ASSUME toBrowser' = toBrowser
  PROVE  /\ \A w : Asked(w)' <=> Asked(w)
         /\ \A i, g : Attaches(i, g)' <=> Attaches(i, g)
         /\ \A g : Gives(g)' <=> Gives(g)
         /\ Ordered(toBrowser) => Ordered(toBrowser')
BY DEF Asked, Attaches, Gives

LEMMA ResponsesSame ==
  ASSUME toPage' = toPage
  PROVE  /\ \A w, g : Comes(w, g)' <=> Comes(w, g)
         /\ Distinct(toPage) => Distinct(toPage')
BY DEF Comes

(* What the requests are after one more.                                   *)
LEMMA RequestAdded ==
  ASSUME TypeOK, NEW m \in Message, toBrowser' = Append(toBrowser, m)
  PROVE  /\ \A w : Asked(w)' <=> Asked(w) \/ m = Create(w)
         /\ \A i, g : Attaches(i, g)' <=> Attaches(i, g) \/ m = Attach(i, g)
         /\ \A g : Gives(g)' <=> Gives(g) \/ m = Destroy(g)
<1>1. \A n : In(n, toBrowser') <=> In(n, toBrowser) \/ n = m
  BY InAppend DEF TypeOK
<1> QED
  BY <1>1 DEF Asked, Attaches, Gives

LEMMA CreateAdded ==
  ASSUME TypeOK, NEW w \in Elements, toBrowser' = Append(toBrowser, Create(w)),
         ~Asked(w), Ordered(toBrowser)
  PROVE  /\ \A v : Asked(v)' <=> Asked(v) \/ v = w
         /\ \A i, g : Attaches(i, g)' <=> Attaches(i, g)
         /\ \A g : Gives(g)' <=> Gives(g)
         /\ Ordered(toBrowser')
<1>1. Create(w) \in Message /\ Create(w).type = "CREATE_GUEST" /\ Create(w).element = w
  BY Messages
<1>2. /\ \A v : Create(w) = Create(v) <=> v = w
      /\ \A i, g : Create(w) # Attach(i, g)
      /\ \A g : Create(w) # Destroy(g)
  BY <1>1, Messages
<1>3. ASSUME NEW m \in Message, In(m, toBrowser) PROVE Apart(m, Create(w))
  <2>1. m.type = "CREATE_GUEST" => m.element # w
    BY <1>3, Messages DEF Asked
  <2> QED
    BY <1>1, <2>1 DEF Apart
<1>4. Ordered(toBrowser')
  BY <1>1, <1>3, OrderedAppend DEF TypeOK
<1> QED
  BY <1>1, <1>2, <1>4, RequestAdded

LEMMA AttachAdded ==
  ASSUME TypeOK, NEW i \in Instance, NEW g \in Guest, toBrowser' = Append(toBrowser, Attach(i, g)),
         \A h \in Guest : ~Attaches(i, h), \A j \in Instance : ~Attaches(j, g), ~Gives(g),
         Ordered(toBrowser)
  PROVE  /\ \A v : Asked(v)' <=> Asked(v)
         /\ \A j, h : Attaches(j, h)' <=> Attaches(j, h) \/ (j = i /\ h = g)
         /\ \A h : Gives(h)' <=> Gives(h)
         /\ Ordered(toBrowser')
<1>1. /\ Attach(i, g) \in Message /\ Attach(i, g).type = "ATTACH_GUEST"
      /\ Attach(i, g).instance = i /\ Attach(i, g).guest = g
  BY Messages
<1>2. /\ \A v : Attach(i, g) # Create(v)
      /\ \A j, h : Attach(i, g) = Attach(j, h) <=> j = i /\ h = g
      /\ \A h : Attach(i, g) # Destroy(h)
  BY <1>1, Messages
<1>3. ASSUME NEW m \in Message, In(m, toBrowser) PROVE Apart(m, Attach(i, g))
  <2>1. m.type = "ATTACH_GUEST" => m.guest # g /\ m.instance # i
    BY <1>3, Messages DEF Attaches
  <2>2. m.type = "DESTROY_GUEST" => m.guest # g
    BY <1>3, Messages DEF Gives
  <2> QED
    BY <1>1, <2>1, <2>2 DEF Apart
<1>4. Ordered(toBrowser')
  BY <1>1, <1>3, OrderedAppend DEF TypeOK
<1> QED
  BY <1>1, <1>2, <1>4, RequestAdded

LEMMA DestroyAdded ==
  ASSUME TypeOK, NEW g \in Guest, toBrowser' = Append(toBrowser, Destroy(g)), ~Gives(g),
         Ordered(toBrowser)
  PROVE  /\ \A v : Asked(v)' <=> Asked(v)
         /\ \A j, h : Attaches(j, h)' <=> Attaches(j, h)
         /\ \A h : Gives(h)' <=> Gives(h) \/ h = g
         /\ Ordered(toBrowser')
<1>1. Destroy(g) \in Message /\ Destroy(g).type = "DESTROY_GUEST" /\ Destroy(g).guest = g
  BY Messages
<1>2. /\ \A v : Destroy(g) # Create(v)
      /\ \A j, h : Destroy(g) # Attach(j, h)
      /\ \A h : Destroy(g) = Destroy(h) <=> h = g
  BY <1>1, Messages
<1>3. ASSUME NEW m \in Message, In(m, toBrowser) PROVE Apart(m, Destroy(g))
  <2>1. m.type = "DESTROY_GUEST" => m.guest # g
    BY <1>3, Messages DEF Gives
  <2> QED
    BY <1>1, <2>1 DEF Apart
<1>4. Ordered(toBrowser')
  BY <1>1, <1>3, OrderedAppend DEF TypeOK
<1> QED
  BY <1>1, <1>2, <1>4, RequestAdded

(* ... and after the first one is handled.                                 *)
LEMMA RequestTaken ==
  ASSUME TypeOK, toBrowser # <<>>, toBrowser' = Tail(toBrowser), Ordered(toBrowser)
  PROVE  /\ \A v : Asked(v)' => Asked(v) /\ Apart(Head(toBrowser), Create(v))
         /\ \A j, h : Attaches(j, h)' => Attaches(j, h) /\ Apart(Head(toBrowser), Attach(j, h))
         /\ \A h : Gives(h)' => Gives(h) /\ Apart(Head(toBrowser), Destroy(h))
         /\ Ordered(toBrowser') /\ Head(toBrowser) \in Message /\ In(Head(toBrowser), toBrowser)
<1>1. /\ Head(toBrowser) \in Message /\ In(Head(toBrowser), toBrowser) /\ Ordered(toBrowser')
      /\ \A m : In(m, toBrowser') => In(m, toBrowser) /\ Apart(Head(toBrowser), m)
  BY InTail DEF TypeOK
<1> QED
  BY <1>1 DEF Asked, Attaches, Gives

LEMMA ResponseTaken ==
  ASSUME TypeOK, toPage # <<>>, toPage' = Tail(toPage), Distinct(toPage)
  PROVE  /\ \A w, g : Comes(w, g)' =>
               Comes(w, g) /\ w # Head(toPage).element /\ g # Head(toPage).guest
         /\ Distinct(toPage') /\ Comes(Head(toPage).element, Head(toPage).guest)
         /\ Head(toPage).element \in Elements /\ Head(toPage).guest \in Guest
<1> DEFINE R == [element: Elements, guest: Guest]
<1>1. toPage \in Seq(R)
  BY DEF TypeOK
<1>2. /\ Head(toPage) \in R /\ In(Head(toPage), toPage) /\ Distinct(toPage')
      /\ \A m : In(m, toPage') => /\ In(m, toPage) /\ Head(toPage).guest # m.guest
                                 /\ Head(toPage).element # m.element
  BY <1>1, InTail
<1>3. Head(toPage) = Response(Head(toPage).element, Head(toPage).guest)
      /\ Head(toPage).element \in Elements /\ Head(toPage).guest \in Guest
  BY <1>2, Messages
<1> QED
  BY <1>2, <1>3, Messages DEF Comes

LEMMA ResponseAdded ==
  ASSUME TypeOK, NEW w \in Elements, NEW g \in Guest, toPage' = Append(toPage, Response(w, g)),
         \A h \in Guest : ~Comes(w, h), \A v \in Elements : ~Comes(v, g), Distinct(toPage)
  PROVE  /\ \A v, h : Comes(v, h)' <=> Comes(v, h) \/ (v = w /\ h = g)
         /\ Distinct(toPage')
<1> DEFINE R == [element: Elements, guest: Guest]
<1>1. toPage \in Seq(R) /\ Response(w, g) \in R
  BY DEF TypeOK, Response
<1>2. Response(w, g).element = w /\ Response(w, g).guest = g
  BY Messages
<1>3. \A v, h : Response(w, g) = Response(v, h) <=> v = w /\ h = g
  BY Messages
<1>4. \A m : In(m, toPage') <=> In(m, toPage) \/ m = Response(w, g)
  <2> HIDE DEF R
  <2> QED
    BY <1>1, InAppend
<1>5. ASSUME NEW m \in R, In(m, toPage) PROVE m.guest # g /\ m.element # w
  BY <1>5, Messages DEF Comes
<1>6. Distinct(toPage')
  BY <1>1, <1>2, <1>5, DistinctAppend
<1> QED
  BY <1>3, <1>4, <1>6 DEF Comes

-----------------------------------------------------------------------------
LEMMA ParseEffect ==
  ASSUME NEW w \in Elements, NEW e \in ElementType, Parse(w, e)
  PROVE  \E f \in ElementType :
           /\ element' = [element EXCEPT ![w] = f]
           /\ f.guest = e.guest /\ f.instance = e.instance /\ (e.attached => f.attached)
           /\ \/ f = e /\ toBrowser' = toBrowser
              \/ f.pending /\ e.guest = NoGuest /\ e.pending /\ toBrowser' = toBrowser
              \/ f.pending /\ e.guest = NoGuest /\ ~e.pending /\ toBrowser' = Append(toBrowser, Create(w))
<1> DEFINE asks == e.attached /\ e.src /\ e.guest = NoGuest /\ e.fresh
           asking == [e EXCEPT !.fresh = FALSE, !.pending = TRUE]
<1>1. /\ asking \in ElementType /\ asking.guest = e.guest /\ asking.instance = e.instance
      /\ (e.attached => asking.attached) /\ asking.pending
  BY DEF ElementType
<1>2. /\ element' = [element EXCEPT ![w] = IF asks THEN asking ELSE e]
      /\ toBrowser' = IF asks /\ ~e.pending THEN Append(toBrowser, Create(w)) ELSE toBrowser
  BY Zenon DEF Parse
<1>3. asks => e.guest = NoGuest
  OBVIOUS
<1> HIDE DEF asks, asking
<1>4. CASE ~asks
  BY <1>2, <1>4
<1>5. CASE asks
  <2>1. element' = [element EXCEPT ![w] = asking]
    BY <1>2, <1>5
  <2>2. CASE e.pending
    <3>1. toBrowser' = toBrowser
      BY <1>2, <2>2
    <3> QED
      BY <1>1, <1>3, <1>5, <2>1, <2>2, <3>1
  <2>3. CASE ~e.pending
    <3>1. toBrowser' = Append(toBrowser, Create(w))
      BY <1>2, <1>5, <2>3
    <3> QED
      BY <1>1, <1>3, <1>5, <2>1, <2>3, <3>1
  <2> QED
    BY <2>2, <2>3
<1> QED
  BY <1>4, <1>5

(* Attaching an element or writing its src asks for a guest at most.       *)
LEMMA ParseStep ==
  ASSUME GuestInv, NEW w \in Elements, AttachElement(w) \/ WriteSrc(w)
  PROVE  ElementsOwn' /\ ElementsApart' /\ RequestsOwn' /\ ResponsesOwn'
<1>1. element[w] \in ElementType /\ element \in [Elements -> ElementType]
  BY DEF GuestInv, TypeOK
<1>2. PICK e \in ElementType : /\ Parse(w, e) /\ e.guest = element[w].guest
        /\ e.instance = element[w].instance /\ (e.pending <=> element[w].pending)
        /\ (element[w].attached => e.attached)
  <2>1. CASE AttachElement(w)
    <3> DEFINE e == [element[w] EXCEPT !.attached = TRUE]
    <3>1. /\ e \in ElementType /\ e.guest = element[w].guest /\ e.attached
          /\ e.instance = element[w].instance /\ (e.pending <=> element[w].pending)
      BY <1>1 DEF ElementType
    <3>2. Parse(w, e)
      BY <2>1 DEF AttachElement
    <3> QED
      BY <3>1, <3>2
  <2>2. CASE WriteSrc(w)
    <3> DEFINE e == [element[w] EXCEPT !.src = TRUE]
    <3>1. /\ e \in ElementType /\ e.guest = element[w].guest /\ (element[w].attached => e.attached)
          /\ e.instance = element[w].instance /\ (e.pending <=> element[w].pending)
      BY <1>1 DEF ElementType
    <3>2. Parse(w, e)
      BY <2>2 DEF WriteSrc
    <3> QED
      BY <3>1, <3>2
  <2> QED
    BY <2>1, <2>2
<1>3. /\ \A v \in Elements : v # w => element'[v] = element[v]
      /\ element'[w].guest = element[w].guest /\ element'[w].instance = element[w].instance
      /\ element[w].attached => element'[w].attached
      /\ element[w].pending => element'[w].pending
      /\ element[w].guest # NoGuest => (element'[w].pending <=> element[w].pending)
      /\ \/ toBrowser' = toBrowser
         \/ /\ toBrowser' = Append(toBrowser, Create(w)) /\ ~element[w].pending
            /\ element'[w].pending
  <2>1. PICK f \in ElementType : /\ element' = [element EXCEPT ![w] = f]
          /\ f.guest = e.guest /\ f.instance = e.instance /\ (e.attached => f.attached)
          /\ \/ f = e /\ toBrowser' = toBrowser
             \/ f.pending /\ e.guest = NoGuest /\ e.pending /\ toBrowser' = toBrowser
             \/ f.pending /\ e.guest = NoGuest /\ ~e.pending /\ toBrowser' = Append(toBrowser, Create(w))
    <3>1. Parse(w, e)
      BY <1>2
    <3> QED
      BY <3>1, ParseEffect
  <2>2. element'[w] = f /\ \A v \in Elements : v # w => element'[v] = element[v]
    BY <2>1, <1>1
  <2> QED
    BY <1>2, <2>1, <2>2
<1>4. UNCHANGED <<page, embedder, instances, toPage, manager>>
  BY DEF AttachElement, WriteSrc
<1>5. /\ \A g : (Placed(g)' <=> Placed(g)) /\ (Exists(g)' <=> Exists(g))
      /\ \A i : Taken(i)' <=> Taken(i)
  BY <1>4, ManagerSame
<1>6. /\ \A v, g : Comes(v, g)' <=> Comes(v, g)
      /\ Distinct(toPage')
  BY <1>4, ResponsesSame DEF GuestInv, ResponsesOwn
<1>7. /\ \A v : Asked(v)' => Asked(v) \/ (v = w /\ ~element[w].pending /\ element'[w].pending)
      /\ \A i, g : Attaches(i, g)' <=> Attaches(i, g)
      /\ \A g : Gives(g)' <=> Gives(g)
      /\ Ordered(toBrowser')
  <2>1. CASE toBrowser' = toBrowser
    BY <2>1, RequestsSame DEF GuestInv, RequestsOwn
  <2>2. CASE toBrowser' = Append(toBrowser, Create(w)) /\ ~element[w].pending /\ element'[w].pending
    <3>1. ~Asked(w)
      BY <2>2 DEF GuestInv, RequestsOwn
    <3> QED
      BY <2>2, <3>1, CreateAdded DEF GuestInv, RequestsOwn
  <2> QED
    BY <1>3, <2>1, <2>2
<1>8. ElementsOwn'
  BY <1>3, <1>4, <1>5, <1>7 DEF GuestInv, ElementsOwn, ElementOwns
<1>9. ElementsApart'
  BY <1>3 DEF GuestInv, ElementsApart
<1>10. RequestsOwn'
  BY <1>3, <1>4, <1>5, <1>7 DEF GuestInv, RequestsOwn
<1>11. ResponsesOwn'
  BY <1>3, <1>5, <1>6, <1>7 DEF GuestInv, ResponsesOwn
<1> QED
  BY <1>8, <1>9, <1>10, <1>11

(* A detached element gives its guest up.                                  *)
LEMMA DetachStep ==
  ASSUME GuestInv, NEW w \in Elements, DetachElement(w)
  PROVE  ElementsOwn' /\ ElementsApart' /\ RequestsOwn' /\ ResponsesOwn'
<1> DEFINE g == element[w].guest
<1>1. element[w] \in ElementType /\ element \in [Elements -> ElementType] /\ TypeOK
      /\ g \in Guest \cup {NoGuest}
  BY DEF GuestInv, TypeOK, ElementType
<1>2. /\ \A v \in Elements : v # w => element'[v] = element[v]
      /\ element'[w].guest = NoGuest /\ element'[w].instance = 0
      /\ element'[w].pending <=> element[w].pending
  BY <1>1 DEF DetachElement, ElementType
<1>3. UNCHANGED <<page, embedder, instances, toPage, manager>>
  BY DEF DetachElement
<1>4. /\ \A h : (Placed(h)' <=> Placed(h)) /\ (Exists(h)' <=> Exists(h))
      /\ \A i : Taken(i)' <=> Taken(i)
  BY <1>3, ManagerSame
<1>5. /\ \A v, h : Comes(v, h)' <=> Comes(v, h)
      /\ Distinct(toPage')
  BY <1>3, ResponsesSame DEF GuestInv, ResponsesOwn
<1>6. /\ \A v : Asked(v)' <=> Asked(v)
      /\ \A i, h : Attaches(i, h)' <=> Attaches(i, h)
      /\ \A h : Gives(h)' <=> Gives(h) \/ (h = g /\ g # NoGuest)
      /\ Ordered(toBrowser')
  <2>1. CASE g = NoGuest
    <3>1. toBrowser' = toBrowser
      BY <2>1 DEF DetachElement
    <3> QED
      BY <2>1, <3>1, RequestsSame DEF GuestInv, RequestsOwn
  <2>2. CASE g # NoGuest
    <3>1. toBrowser' = Append(toBrowser, Destroy(g)) /\ g \in Guest
      BY <2>2, <1>1 DEF DetachElement
    <3>2. ~Gives(g) /\ Ordered(toBrowser)
      BY <2>2 DEF GuestInv, ElementsOwn, ElementOwns, RequestsOwn
    <3> HIDE DEF g
    <3> QED
      BY <2>2, <3>1, <3>2, <1>1, DestroyAdded
  <2> QED
    BY <2>1, <2>2
<1>7. g # NoGuest => Exists(g)
  BY DEF GuestInv, ElementsOwn, ElementOwns
<1>8. ElementsOwn'
  <2> SUFFICES ASSUME NEW v \in Elements PROVE ElementOwns(v)'
    BY DEF ElementsOwn
  <2>1. CASE v = w
    BY <2>1, <1>2 DEF ElementOwns
  <2>2. CASE v # w
    <3>1. element'[v] = element[v] /\ ElementOwns(v)
          /\ (element[v].guest # NoGuest => element[v].guest # g \/ g = NoGuest)
      BY <2>2, <1>2 DEF GuestInv, ElementsOwn, ElementsApart
    <3> QED
      BY <3>1, <1>3, <1>4, <1>6 DEF ElementOwns
  <2> QED
    BY <2>1, <2>2
<1>9. ElementsApart'
  BY <1>2 DEF GuestInv, ElementsApart
<1>10. RequestsOwn'
  BY <1>1, <1>2, <1>3, <1>4, <1>6, <1>7 DEF GuestInv, RequestsOwn
<1>11. ResponsesOwn'
  BY <1>1, <1>2, <1>4, <1>5, <1>6 DEF GuestInv, ResponsesOwn, NoGuest, Guest
<1> QED
  BY <1>8, <1>9, <1>10, <1>11

(* An instance of the plugin is new, and shows the guest of its element.   *)
LEMMA PluginStep ==
  ASSUME GuestInv, NEW w \in Elements, PluginInstance(w)
  PROVE  ElementsOwn' /\ ElementsApart' /\ RequestsOwn' /\ ResponsesOwn'
<1> DEFINE g == element[w].guest
           new == instances + 1
<1>1. element[w] \in ElementType /\ element \in [Elements -> ElementType] /\ TypeOK
      /\ g \in Guest \cup {NoGuest} /\ instances \in Nat /\ new \in Instance
      /\ \A v \in Elements : element[v].instance \in Nat /\ element[v].guest \in Guest \cup {NoGuest}
  BY GuestAssumption DEF GuestInv, TypeOK, ElementType, PluginInstance, Instance
<1>2. /\ \A v \in Elements : v # w => element'[v] = element[v]
      /\ element'[w].guest = g /\ element'[w].instance = new /\ element[w].instance = 0
      /\ (element'[w].pending <=> element[w].pending)
      /\ element[w].attached /\ element'[w].attached
  BY <1>1 DEF PluginInstance, ElementType
<1>3. UNCHANGED <<page, embedder, toPage, manager>> /\ instances' = new
  BY DEF PluginInstance
<1>4. /\ \A h : (Placed(h)' <=> Placed(h)) /\ (Exists(h)' <=> Exists(h))
      /\ \A i : Taken(i)' <=> Taken(i)
  BY <1>3, ManagerSame
<1>5. /\ \A v, h : Comes(v, h)' <=> Comes(v, h)
      /\ Distinct(toPage')
  BY <1>3, ResponsesSame DEF GuestInv, ResponsesOwn
<1>6. ~Taken(new) /\ (\A h \in Guest : ~Attaches(new, h)) /\ Ordered(toBrowser)
      /\ \A v \in Elements : element[v].instance # new
  <2>1. ~Taken(new)
    BY <1>1 DEF GuestInv, MapsOwn, Taken, KeyOf, TypeOK
  <2>2. \A h \in Guest : ~Attaches(new, h)
    BY <1>1 DEF GuestInv, RequestsOwn
  <2>3. \A v \in Elements : element[v].instance # new
    BY <1>1 DEF GuestInv, ElementsOwn, ElementOwns
  <2> QED
    BY <2>1, <2>2, <2>3 DEF GuestInv, RequestsOwn
<1>7. /\ \A v : Asked(v)' <=> Asked(v)
      /\ \A i, h : Attaches(i, h)' <=> Attaches(i, h) \/ (i = new /\ h = g /\ g # NoGuest)
      /\ \A h : Gives(h)' <=> Gives(h)
      /\ Ordered(toBrowser')
  <2>1. CASE g = NoGuest
    <3>1. toBrowser' = toBrowser
      BY <2>1 DEF PluginInstance
    <3> QED
      BY <2>1, <3>1, RequestsSame, <1>6
  <2>2. CASE g # NoGuest
    <3>1. toBrowser' = Append(toBrowser, Attach(new, g)) /\ g \in Guest /\ new \in Instance
      BY <2>2, <1>1 DEF PluginInstance
    <3>2. ~Gives(g) /\ \A j \in Instance : ~Attaches(j, g)
      BY <2>2, <1>2 DEF GuestInv, ElementsOwn, ElementOwns
    <3> HIDE DEF g, new
    <3> QED
      BY <2>2, <3>1, <3>2, <1>1, <1>6, AttachAdded
  <2> QED
    BY <2>1, <2>2
<1>8. g # NoGuest => Exists(g) /\ ~Placed(g) /\ ~Gives(g) /\ ~element[w].pending
  BY <1>2 DEF GuestInv, ElementsOwn, ElementOwns
<1> HIDE DEF g
<1>9. ElementsOwn'
  <2> SUFFICES ASSUME NEW v \in Elements PROVE ElementOwns(v)'
    BY DEF ElementsOwn
  <2>1. CASE v = w
    BY <2>1, <1>1, <1>2, <1>3, <1>4, <1>6, <1>7, <1>8 DEF ElementOwns
  <2>2. CASE v # w
    <3>1. element'[v] = element[v] /\ ElementOwns(v)
          /\ (element[v].guest # NoGuest => element[v].guest # g \/ g = NoGuest)
      BY <2>2, <1>2 DEF GuestInv, ElementsOwn, ElementsApart, g
    <3> QED
      BY <3>1, <1>1, <1>3, <1>4, <1>6, <1>7 DEF ElementOwns
  <2> QED
    BY <2>1, <2>2
<1>10. ElementsApart'
  BY <1>1, <1>2, <1>6 DEF GuestInv, ElementsApart, g
<1>11. RequestsOwn'
  <2>1. \A v \in Elements : Asked(v)' => (element'[v].pending)
    BY <1>2, <1>7 DEF GuestInv, RequestsOwn
  <2>2. \A h \in Guest : Gives(h)' => Exists(h)'
    BY <1>4, <1>7 DEF GuestInv, RequestsOwn
  <2>3. ASSUME NEW i \in Instance, NEW h \in Guest, Attaches(i, h)'
        PROVE  Exists(h)' /\ i <= instances' /\ ~Placed(h)' /\ ~Taken(i)'
    <3>1. CASE Attaches(i, h)
      <4>1. Exists(h) /\ i <= instances /\ ~Placed(h) /\ ~Taken(i)
        BY <3>1 DEF GuestInv, RequestsOwn
      <4>2. i \in Nat
        BY DEF Instance
      <4> QED
        BY <4>1, <4>2, <1>1, <1>3, <1>4
    <3>2. CASE i = new /\ h = g /\ g # NoGuest
      BY <3>2, <1>1, <1>3, <1>4, <1>6, <1>8
    <3> QED
      BY <2>3, <3>1, <3>2, <1>7
  <2> QED
    BY <2>1, <2>2, <2>3, <1>7 DEF RequestsOwn
<1>12. ResponsesOwn'
  BY <1>1, <1>2, <1>4, <1>5, <1>7, <1>8 DEF GuestInv, ResponsesOwn, g
<1> QED
  BY <1>9, <1>10, <1>11, <1>12

(* A guest that comes is attached to its element, or given up.             *)
LEMMA CreatedStep ==
  ASSUME GuestInv, NEW w \in Elements, GuestCreated(w)
  PROVE  ElementsOwn' /\ ElementsApart' /\ RequestsOwn' /\ ResponsesOwn'
<1> DEFINE g == Head(toPage).guest
           k == element[w].instance
<1>1. element[w] \in ElementType /\ element \in [Elements -> ElementType] /\ TypeOK
      /\ k \in 0..MaxInstance /\ NoGuest \notin Guest
      /\ \A v \in Elements : element[v].instance \in Nat /\ element[v].guest \in Guest \cup {NoGuest}
  BY GuestAssumption DEF GuestInv, TypeOK, ElementType, Guest, NoGuest
<1>2. toPage # <<>> /\ Head(toPage).element = w /\ toPage' = Tail(toPage)
      /\ UNCHANGED <<page, embedder, instances, manager>>
  BY DEF GuestCreated
<1>3. /\ \A v, h : Comes(v, h)' => Comes(v, h) /\ v # w /\ h # g
      /\ Distinct(toPage') /\ Comes(w, g) /\ g \in Guest
  BY <1>1, <1>2, ResponseTaken DEF GuestInv, ResponsesOwn
<1>4. /\ Exists(g) /\ element[w].pending /\ ~Asked(w) /\ ~Placed(g) /\ ~Gives(g)
      /\ \A i \in Instance : ~Attaches(i, g)
      /\ \A v \in Elements : element[v].guest # g
  BY <1>3 DEF GuestInv, ResponsesOwn
<1>5. element[w].guest = NoGuest
  BY <1>4 DEF GuestInv, ElementsOwn, ElementOwns
<1>6. k # 0 => k \in Instance /\ k <= instances /\ ~Taken(k) /\ \A h \in Guest : ~Attaches(k, h)
  BY <1>1, <1>5 DEF GuestInv, ElementsOwn, ElementOwns, Instance
<1>7. /\ \A h : (Placed(h)' <=> Placed(h)) /\ (Exists(h)' <=> Exists(h))
      /\ \A i : Taken(i)' <=> Taken(i)
  BY <1>2, ManagerSame
<1>8. /\ \A v \in Elements : v # w => element'[v] = element[v]
      /\ element'[w].instance = k /\ ~element'[w].pending
      /\ element'[w].guest = (IF element[w].attached THEN g ELSE NoGuest)
      /\ (element'[w].attached <=> element[w].attached)
  <2>1. CASE element[w].attached
    <3>1. element' = [element EXCEPT ![w] = [element[w] EXCEPT !.pending = FALSE, !.guest = g]]
      BY <2>1 DEF GuestCreated
    <3> QED
      BY <2>1, <3>1, <1>1 DEF ElementType
  <2>2. CASE ~element[w].attached
    <3>1. element' = [element EXCEPT ![w] = [element[w] EXCEPT !.pending = FALSE]]
      BY <2>2, <1>1 DEF GuestCreated
    <3> QED
      BY <2>2, <3>1, <1>1, <1>5 DEF ElementType
  <2> QED
    BY <2>1, <2>2
<1>9. Ordered(toBrowser)
  BY DEF GuestInv, RequestsOwn
<1>10. /\ \A v : Asked(v)' <=> Asked(v)
       /\ \A i, h : Attaches(i, h)' <=>
            Attaches(i, h) \/ (element[w].attached /\ k # 0 /\ i = k /\ h = g)
       /\ \A h : Gives(h)' <=> Gives(h) \/ (~element[w].attached /\ h = g)
       /\ Ordered(toBrowser')
  <2>1. CASE element[w].attached /\ k = 0
    <3>1. toBrowser' = toBrowser
      BY <2>1 DEF GuestCreated
    <3> QED
      BY <2>1, <3>1, RequestsSame, <1>9
  <2>2. CASE element[w].attached /\ k # 0
    <3>1. toBrowser' = Append(toBrowser, Attach(k, g))
      BY <2>2 DEF GuestCreated
    <3> HIDE DEF k, g
    <3> QED
      BY <2>2, <3>1, <1>1, <1>3, <1>4, <1>6, <1>9, AttachAdded
  <2>3. CASE ~element[w].attached
    <3>1. toBrowser' = Append(toBrowser, Destroy(g))
      BY <2>3 DEF GuestCreated
    <3> HIDE DEF k, g
    <3> QED
      BY <2>3, <3>1, <1>1, <1>3, <1>4, <1>9, DestroyAdded
  <2> QED
    BY <2>1, <2>2, <2>3
<1> HIDE DEF g
<1>11. ElementsOwn'
  <2> SUFFICES ASSUME NEW v \in Elements PROVE ElementOwns(v)'
    BY DEF ElementsOwn
  <2>1. CASE v = w
    <3>1. CASE element[w].attached
      BY <2>1, <3>1, <1>1, <1>2, <1>3, <1>4, <1>6, <1>7, <1>8, <1>10 DEF ElementOwns
    <3>2. CASE ~element[w].attached
      BY <2>1, <3>2, <1>1, <1>2, <1>3, <1>4, <1>6, <1>7, <1>8, <1>10 DEF ElementOwns
    <3> QED
      BY <3>1, <3>2
  <2>2. CASE v # w
    <3>1. element'[v] = element[v] /\ ElementOwns(v) /\ element[v].guest # g
          /\ (element[v].instance # 0 => element[v].instance # k)
      BY <2>2, <1>4, <1>8 DEF GuestInv, ElementsOwn, ElementsApart
    <3> QED
      BY <3>1, <1>1, <1>2, <1>7, <1>10 DEF ElementOwns
  <2> QED
    BY <2>1, <2>2
<1>12. ElementsApart'
  BY <1>1, <1>4, <1>5, <1>8 DEF GuestInv, ElementsApart
<1>13. RequestsOwn'
  <2>1. \A v \in Elements : Asked(v)' => (element'[v].pending)
    BY <1>4, <1>8, <1>10 DEF GuestInv, RequestsOwn
  <2>2. \A h \in Guest : Gives(h)' => Exists(h)'
    BY <1>4, <1>7, <1>10 DEF GuestInv, RequestsOwn
  <2>3. ASSUME NEW i \in Instance, NEW h \in Guest, Attaches(i, h)'
        PROVE  Exists(h)' /\ i <= instances' /\ ~Placed(h)' /\ ~Taken(i)'
    <3>1. CASE Attaches(i, h)
      BY <3>1, <1>2, <1>7 DEF GuestInv, RequestsOwn
    <3>2. CASE i = k /\ k # 0 /\ h = g
      BY <3>2, <1>2, <1>4, <1>6, <1>7
    <3> QED
      BY <2>3, <3>1, <3>2, <1>10
  <2> QED
    BY <2>1, <2>2, <2>3, <1>10 DEF RequestsOwn
<1>14. ResponsesOwn'
  <2> SUFFICES ASSUME NEW v \in Elements, NEW h \in Guest, Comes(v, h)'
               PROVE  /\ Exists(h)' /\ element'[v].pending /\ ~Asked(v)' /\ ~Placed(h)' /\ ~Gives(h)'
                      /\ \A i \in Instance : ~Attaches(i, h)'
                      /\ \A u \in Elements : element'[u].guest # h
    BY <1>3 DEF ResponsesOwn
  <2>1. /\ v # w /\ h # g
        /\ Exists(h) /\ element[v].pending /\ ~Asked(v) /\ ~Placed(h) /\ ~Gives(h)
        /\ \A i \in Instance : ~Attaches(i, h)
        /\ \A u \in Elements : element[u].guest # h
    BY <1>3 DEF GuestInv, ResponsesOwn
  <2> QED
    BY <2>1, <1>1, <1>7, <1>8, <1>10
<1> QED
  BY <1>11, <1>12, <1>13, <1>14

-----------------------------------------------------------------------------
(* The browser process makes a guest that nothing names yet.               *)
LEMMA CreateStep ==
  ASSUME GuestInv, TypeOK', CreateGuest
  PROVE  /\ ElementsOwn' /\ ElementsApart' /\ RequestsOwn' /\ ResponsesOwn'
         /\ MapsOwn' /\ GuestsKnown'
<1> DEFINE w == Head(toBrowser).element
           g == nextGuest + 1
<1>1. TypeOK /\ nextGuest \in Nat /\ g \in Guest /\ nextGuest' = g /\ g # NoGuest
      /\ \A h \in Guest : h \in Nat
  BY DEF GuestInv, TypeOK, CreateGuest, Guest, NoGuest
<1>2. /\ toBrowser # <<>> /\ toBrowser' = Tail(toBrowser) /\ Head(toBrowser).type = "CREATE_GUEST"
      /\ toPage' = Append(toPage, Response(w, g)) /\ guests' = guests \cup {<<g, page>>}
      /\ UNCHANGED <<page, embedder, element, instances, elementMap, reverseMap, contentsMap, instanceMap>>
      /\ Live
  BY DEF CreateGuest, renderer
<1>3. Ordered(toBrowser) /\ Distinct(toPage)
  BY DEF GuestInv, RequestsOwn, ResponsesOwn
<1>4. /\ \A v : Asked(v)' => Asked(v) /\ Apart(Head(toBrowser), Create(v))
      /\ \A j, h : Attaches(j, h)' => Attaches(j, h)
      /\ \A h : Gives(h)' => Gives(h)
      /\ Ordered(toBrowser') /\ Head(toBrowser) \in Message /\ In(Head(toBrowser), toBrowser)
  BY <1>1, <1>2, <1>3, RequestTaken
<1>5. w \in Elements /\ Asked(w) /\ \A v : Asked(v)' => v # w
  <2>1. w \in Elements /\ Head(toBrowser) = Create(w)
    BY <1>2, <1>4, Messages
  <2> QED
    BY <2>1, <1>2, <1>4, Messages DEF Asked, Apart
<1>6. ~Exists(g)
  BY <1>1 DEF GuestInv, GuestsKnown
<1>7. /\ element[w].pending
      /\ \A v \in Elements : element[v].guest # g /\ ~Comes(v, g)
      /\ \A h \in Guest : ~Comes(w, h)
      /\ ~Placed(g) /\ ~Gives(g) /\ \A i \in Instance : ~Attaches(i, g)
  <2>1. element[w].pending
    BY <1>5 DEF GuestInv, RequestsOwn
  <2>2. \A v \in Elements : element[v].guest # g
    BY <1>1, <1>6 DEF GuestInv, ElementsOwn, ElementOwns
  <2>3. (\A v \in Elements : ~Comes(v, g)) /\ \A h \in Guest : ~Comes(w, h)
    BY <1>1, <1>5, <1>6 DEF GuestInv, ResponsesOwn
  <2>4. ~Gives(g) /\ \A i \in Instance : ~Attaches(i, g)
    BY <1>1, <1>6 DEF GuestInv, RequestsOwn
  <2>5. ~Placed(g)
    BY <1>6 DEF GuestInv, MapsOwn, MapsInverse, Placed
  <2> QED
    BY <2>1, <2>2, <2>3, <2>4, <2>5
<1>8. /\ \A v, h : Comes(v, h)' <=> Comes(v, h) \/ (v = w /\ h = g)
      /\ Distinct(toPage')
  <2> HIDE DEF w, g
  <2> QED
    BY <1>1, <1>2, <1>3, <1>5, <1>7, ResponseAdded
<1>9. /\ \A h : Placed(h)' <=> Placed(h)
      /\ \A i : Taken(i)' <=> Taken(i)
      /\ \A h : Exists(h)' <=> Exists(h) \/ h = g
  <2>1. page \in Page
    BY <1>1 DEF TypeOK
  <2>2. \A h : Placed(h)' <=> Placed(h)
    BY <1>2 DEF Placed
  <2>3. \A i : Taken(i)' <=> Taken(i)
    BY <1>2 DEF Taken, KeyOf
  <2> HIDE DEF g
  <2>4. \A h : Exists(h)' <=> Exists(h) \/ h = g
    <3>1. \A h, q : <<h, q>> \in guests' <=> <<h, q>> \in guests \/ (h = g /\ q = page)
      BY <1>2
    <3> QED
      BY <2>1, <3>1 DEF Exists
  <2> QED
    BY <2>2, <2>3, <2>4
<1> HIDE DEF w, g
<1>10. ElementsOwn'
  BY <1>2, <1>4, <1>9 DEF GuestInv, ElementsOwn, ElementOwns
<1>11. ElementsApart'
  BY <1>2 DEF GuestInv, ElementsApart
<1>12. RequestsOwn'
  BY <1>2, <1>4, <1>9 DEF GuestInv, RequestsOwn
<1>13. ResponsesOwn'
  <2> SUFFICES ASSUME NEW v \in Elements, NEW h \in Guest, Comes(v, h)'
               PROVE  /\ Exists(h)' /\ element'[v].pending /\ ~Asked(v)' /\ ~Placed(h)' /\ ~Gives(h)'
                      /\ \A i \in Instance : ~Attaches(i, h)'
                      /\ \A u \in Elements : element'[u].guest # h
    BY <1>8 DEF ResponsesOwn
  <2>1. CASE Comes(v, h)
    BY <2>1, <1>2, <1>4, <1>9 DEF GuestInv, ResponsesOwn
  <2>2. CASE v = w /\ h = g
    BY <2>2, <1>2, <1>4, <1>5, <1>7, <1>9
  <2> QED
    BY <2>1, <2>2, <1>8
<1>14. MapsOwn'
  <2>1. MapsInverse'
    BY <1>2, <1>9 DEF GuestInv, MapsOwn, MapsInverse
  <2> QED
    BY <2>1, <1>2 DEF GuestInv, MapsOwn
<1>15. GuestsKnown'
  <2>1. GuestsOfPage'
    BY <1>2 DEF GuestInv, GuestsKnown, GuestsOfPage, Live
  <2>2. \A h \in Guest : Exists(h)' => h <= nextGuest'
    BY <1>1, <1>9 DEF GuestInv, GuestsKnown, g
  <2> QED
    BY <2>1, <2>2 DEF GuestsKnown
<1> QED
  BY <1>10, <1>11, <1>12, <1>13, <1>14, <1>15

(* A pair put into a map of the manager.                                   *)
LEMMA PairAdded ==
  ASSUME NEW map, NEW a, NEW b
  PROVE  {<<pair[2], pair[1]>> : pair \in map \cup {<<a, b>>}}
           = {<<pair[2], pair[1]>> : pair \in map} \cup {<<b, a>>}
<1> DEFINE new == <<a, b>>
<1>1. new[1] = a /\ new[2] = b
  OBVIOUS
<1> HIDE DEF new
<1>2. {<<pair[2], pair[1]>> : pair \in map \cup {new}}
        = {<<pair[2], pair[1]>> : pair \in map} \cup {<<b, a>>}
  BY <1>1
<1> QED
  BY <1>2 DEF new

LEMMA PairSeconds ==
  ASSUME NEW map, NEW a, NEW b
  PROVE  {pair[2] : pair \in map \cup {<<a, b>>}} = {pair[2] : pair \in map} \cup {b}
<1> DEFINE new == <<a, b>>
<1>1. new[1] = a /\ new[2] = b
  OBVIOUS
<1> HIDE DEF new
<1>2. {pair[2] : pair \in map \cup {new}} = {pair[2] : pair \in map} \cup {b}
  BY <1>1
<1> QED
  BY <1>2 DEF new

(* It attaches a guest to an instance that shows no other one.             *)
LEMMA AttachStep ==
  ASSUME GuestInv, AttachGuest
  PROVE  /\ ElementsOwn' /\ ElementsApart' /\ RequestsOwn' /\ ResponsesOwn'
         /\ MapsOwn' /\ GuestsKnown'
<1> DEFINE i == Head(toBrowser).instance
           g == Head(toBrowser).guest
           old == {h \in Guest : <<KeyOf(i), h>> \in elementMap}
<1>1. TypeOK /\ Ordered(toBrowser)
  BY DEF GuestInv, RequestsOwn
<1>2. /\ toBrowser # <<>> /\ toBrowser' = Tail(toBrowser) /\ Head(toBrowser).type = "ATTACH_GUEST"
      /\ UNCHANGED <<page, embedder, element, instances, toPage>>
  BY DEF AttachGuest, renderer
<1>3. /\ \A v : Asked(v)' => Asked(v)
      /\ \A j, h : Attaches(j, h)' => Attaches(j, h) /\ Apart(Head(toBrowser), Attach(j, h))
      /\ \A h : Gives(h)' => Gives(h)
      /\ Ordered(toBrowser') /\ Head(toBrowser) \in Message /\ In(Head(toBrowser), toBrowser)
  BY <1>1, <1>2, RequestTaken
<1>4. /\ i \in Instance /\ g \in Guest /\ Attaches(i, g)
      /\ \A j, h : Attaches(j, h)' => j # i /\ h # g
  <2>1. i \in Instance /\ g \in Guest /\ Head(toBrowser) = Attach(i, g)
    BY <1>2, <1>3, Messages
  <2> QED
    BY <2>1, <1>2, <1>3, Messages DEF Attaches, Apart
<1>5. Exists(g) /\ i <= instances /\ ~Placed(g) /\ ~Taken(i)
  BY <1>4 DEF GuestInv, RequestsOwn
<1>6. old = {}
  BY <1>5 DEF Taken
<1>7. /\ guests' = guests /\ nextGuest' = nextGuest
      /\ contentsMap' = contentsMap \cup {g}
      /\ instanceMap' = instanceMap \cup {<<KeyOf(i), g>>}
      /\ elementMap' = elementMap \cup {<<KeyOf(i), g>>}
      /\ reverseMap' = reverseMap \cup {<<g, KeyOf(i)>>}
  <2>1. /\ guests' = {h \in guests : h[1] \notin old}
        /\ contentsMap' = (contentsMap \ old) \cup {g}
        /\ instanceMap' = Without(instanceMap, old) \cup {<<KeyOf(i), g>>}
        /\ elementMap' = {pair \in elementMap : pair[1] # KeyOf(i)} \cup {<<KeyOf(i), g>>}
        /\ reverseMap' = {pair \in reverseMap : pair[1] \notin old \cup {g}} \cup {<<g, KeyOf(i)>>}
        /\ nextGuest' = nextGuest
    <3>1. ~(~Exists(g) \/ g \in old \/ \E h \in old : ~Exists(h))
      BY <1>5, <1>6
    <3> QED
      BY <3>1 DEF AttachGuest
  <2>2. \A pair \in elementMap : pair[1] # KeyOf(i) /\ pair[2] # g
    BY <1>5 DEF Placed, Taken
  <2>3. \A pair \in reverseMap : pair[1] # g
    BY <2>2 DEF GuestInv, MapsOwn, MapsInverse
  <2>4. /\ {h \in guests : h[1] \notin old} = guests /\ contentsMap \ old = contentsMap
        /\ Without(instanceMap, old) = instanceMap
    BY <1>6 DEF Without
  <2>5. {pair \in elementMap : pair[1] # KeyOf(i)} = elementMap
    BY <2>2
  <2>6. {pair \in reverseMap : pair[1] \notin old \cup {g}} = reverseMap
    BY <2>3, <1>6
  <2> QED
    BY <2>1, <2>4, <2>5, <2>6
<1> HIDE DEF old
<1>8. /\ \A h : Placed(h)' <=> Placed(h) \/ h = g
      /\ \A j : Taken(j)' <=> Taken(j) \/ j = i
      /\ \A h : Exists(h)' <=> Exists(h)
  <2>1. \A j : KeyOf(j) = KeyOf(i) <=> j = i
    BY DEF KeyOf
  <2>2. \A j : KeyOf(j)' = KeyOf(j)
    BY <1>2 DEF KeyOf
  <2>6. /\ \A pair \in elementMap' : pair \in elementMap \/ (pair[1] = KeyOf(i) /\ pair[2] = g)
        /\ \E pair \in elementMap' : pair[1] = KeyOf(i) /\ pair[2] = g
        /\ \A pair \in elementMap : pair \in elementMap'
    <3> DEFINE k == KeyOf(i)
    <3>1. elementMap' = elementMap \cup {<<k, g>>}
      BY <1>7
    <3> HIDE DEF i, g, k
    <3>2. /\ \A pair \in elementMap' : pair \in elementMap \/ (pair[1] = k /\ pair[2] = g)
          /\ \E pair \in elementMap' : pair[1] = k /\ pair[2] = g
          /\ \A pair \in elementMap : pair \in elementMap'
      <4>1. \A pair \in elementMap' : pair \in elementMap \/ (pair[1] = k /\ pair[2] = g)
        BY <3>1
      <4>2. \E pair \in elementMap' : pair[1] = k /\ pair[2] = g
        <5>1. <<k, g>> \in elementMap' /\ <<k, g>>[1] = k /\ <<k, g>>[2] = g
          BY <3>1
        <5> QED
          BY <5>1
      <4>3. \A pair \in elementMap : pair \in elementMap'
        BY <3>1
      <4> QED
        BY <4>1, <4>2, <4>3
    <3> QED
      BY <3>2 DEF k
  <2>3. \A h : Placed(h)' <=> Placed(h) \/ h = g
    BY <2>6 DEF Placed
  <2>4. \A j : Taken(j)' <=> Taken(j) \/ j = i
    BY <2>6, <2>1, <2>2 DEF Taken
  <2>5. \A h : Exists(h)' <=> Exists(h)
    BY <1>7 DEF Exists
  <2> QED
    BY <2>3, <2>4, <2>5
<1>9. /\ \A v, h : Comes(v, h)' <=> Comes(v, h)
      /\ Distinct(toPage')
  BY <1>2, ResponsesSame DEF GuestInv, ResponsesOwn
<1> HIDE DEF i, g
<1>10. ElementsOwn'
  <2> SUFFICES ASSUME NEW v \in Elements PROVE ElementOwns(v)'
    BY DEF ElementsOwn
  <2>1. ElementOwns(v)
    BY DEF GuestInv, ElementsOwn
  <2>2. element[v].guest = g => element[v].instance # 0
    BY <2>1, <1>4 DEF ElementOwns, Guest, NoGuest
  <2>3. element[v].instance = i /\ element[v].instance # 0 => element[v].guest # NoGuest
    BY <2>1, <1>4 DEF ElementOwns
  <2> QED
    BY <2>1, <2>2, <2>3, <1>2, <1>3, <1>8 DEF ElementOwns
<1>11. ElementsApart'
  BY <1>2 DEF GuestInv, ElementsApart
<1>12. RequestsOwn'
  BY <1>2, <1>3, <1>4, <1>8 DEF GuestInv, RequestsOwn
<1>13. ResponsesOwn'
  BY <1>2, <1>3, <1>4, <1>8, <1>9 DEF GuestInv, ResponsesOwn
<1>14. MapsOwn'
  <2>1. /\ reverseMap = {<<pair[2], pair[1]>> : pair \in elementMap} /\ instanceMap = elementMap
        /\ contentsMap = {pair[2] : pair \in elementMap}
        /\ \A p, q \in elementMap : (p[1] = q[1] \/ p[2] = q[2]) => p = q
        /\ \A pair \in elementMap : Exists(pair[2]) /\ pair[1][1] = page /\ pair[1][2] <= instances
    BY DEF GuestInv, MapsOwn, MapsInverse
  <2>2. \A pair \in elementMap : pair[1] # KeyOf(i) /\ pair[2] # g
    BY <1>5 DEF Placed, Taken
  <2>3. reverseMap' = {<<pair[2], pair[1]>> : pair \in elementMap'}
    <3> DEFINE k == KeyOf(i)
    <3>1. elementMap' = elementMap \cup {<<k, g>>} /\ reverseMap' = reverseMap \cup {<<g, k>>}
      BY <1>7
    <3> HIDE DEF k
    <3>2. {<<pair[2], pair[1]>> : pair \in elementMap \cup {<<k, g>>}}
            = {<<pair[2], pair[1]>> : pair \in elementMap} \cup {<<g, k>>}
      BY PairAdded
    <3> QED
      BY <2>1, <3>1, <3>2
  <2>4. instanceMap' = elementMap' /\ contentsMap' = {pair[2] : pair \in elementMap'}
    <3> DEFINE k == KeyOf(i)
    <3>1. /\ elementMap' = elementMap \cup {<<k, g>>} /\ instanceMap' = instanceMap \cup {<<k, g>>}
          /\ contentsMap' = contentsMap \cup {g}
      BY <1>7
    <3> HIDE DEF k
    <3>2. {pair[2] : pair \in elementMap \cup {<<k, g>>}} = {pair[2] : pair \in elementMap} \cup {g}
      BY PairSeconds
    <3> QED
      BY <2>1, <3>1, <3>2
  <2>5. \A p, q \in elementMap' : (p[1] = q[1] \/ p[2] = q[2]) => p = q
    BY <1>7, <2>1, <2>2
  <2>6. \A pair \in elementMap' : Exists(pair[2])'
    BY <1>5, <1>7, <1>8, <2>1
  <2>7. \A pair \in elementMap' : pair[1][1] = page' /\ pair[1][2] <= instances'
    BY <1>2, <1>5, <1>7, <2>1 DEF KeyOf
  <2> QED
    BY <2>3, <2>4, <2>5, <2>6, <2>7 DEF MapsOwn, MapsInverse
<1>15. GuestsKnown'
  BY <1>2, <1>7, <1>8 DEF GuestInv, GuestsKnown, GuestsOfPage, Live
<1> QED
  BY <1>10, <1>11, <1>12, <1>13, <1>14, <1>15

(* Every pair of a map is in its mirror image.                             *)
LEMMA Mirrored ==
  ASSUME NEW map, NEW pair \in map
  PROVE  \E q \in {<<r[2], r[1]>> : r \in map} : q[1] = pair[2] /\ q[2] = pair[1]
<1> DEFINE q == <<pair[2], pair[1]>>
<1>1. q[1] = pair[2] /\ q[2] = pair[1]
  OBVIOUS
<1>2. q \in {<<r[2], r[1]>> : r \in map}
  OBVIOUS
<1> QED
  BY <1>1, <1>2

(* Guests are destroyed: the maps lose them and keep the others.           *)
LEMMA GuestsDestroyed ==
  ASSUME TypeOK, MapsOwn, NEW gs, DestroyGuests(gs), page' = page, instances' = instances
  PROVE  /\ \A h : Exists(h)' <=> Exists(h) /\ h \notin gs
         /\ \A h : Placed(h)' => Placed(h)
         /\ \A j : Taken(j)' => Taken(j)
         /\ \A g \in guests' : g \in guests
         /\ MapsOwn'
<1>1. /\ reverseMap = {<<pair[2], pair[1]>> : pair \in elementMap} /\ instanceMap = elementMap
      /\ contentsMap = {pair[2] : pair \in elementMap}
      /\ \A p, q \in elementMap : (p[1] = q[1] \/ p[2] = q[2]) => p = q
      /\ \A pair \in elementMap : Exists(pair[2]) /\ pair[1][1] = page /\ pair[1][2] <= instances
  BY DEF MapsOwn, MapsInverse
<1>2. KeysOf(gs) = {pair[1] : pair \in {q \in elementMap : q[2] \in gs}}
  <2>1. \A k : k \in KeysOf(gs) <=> \E q \in reverseMap : q[1] \in gs /\ q[2] = k
    BY DEF KeysOf
  <2>2. \A q \in reverseMap : \E pair \in elementMap : q[1] = pair[2] /\ q[2] = pair[1]
    BY <1>1
  <2>3. \A pair \in elementMap : \E q \in reverseMap : q[1] = pair[2] /\ q[2] = pair[1]
    BY <1>1, Mirrored
  <2>4. \A k : k \in KeysOf(gs) <=> \E pair \in elementMap : pair[2] \in gs /\ pair[1] = k
    BY <2>1, <2>2, <2>3
  <2> QED
    BY <2>4
<1>3. elementMap' = {pair \in elementMap : pair[2] \notin gs}
  <2>1. \A pair \in elementMap : pair[1] \in KeysOf(gs) <=> pair[2] \in gs
    BY <1>1, <1>2
  <2>2. elementMap' = {pair \in elementMap : pair[1] \notin KeysOf(gs)}
    BY DEF DestroyGuests
  <2> QED
    BY <2>1, <2>2
<1>4. \A h : Exists(h)' <=> Exists(h) /\ h \notin gs
  <2>1. guests' = {g \in guests : g[1] \notin gs}
    BY DEF DestroyGuests
  <2>2. \A h, q : <<h, q>> \in guests' <=> <<h, q>> \in guests /\ h \notin gs
    BY <2>1
  <2> QED
    BY <2>2 DEF Exists
<1>5. instanceMap' = elementMap'
  BY <1>1, <1>3 DEF DestroyGuests, Without
<1>6. contentsMap' = {pair[2] : pair \in elementMap'}
  BY <1>1, <1>3 DEF DestroyGuests
<1>7. reverseMap' = {<<pair[2], pair[1]>> : pair \in elementMap'}
  <2>1. reverseMap' = {q \in reverseMap : q[1] \notin gs}
    BY DEF DestroyGuests
  <2>2. ASSUME NEW q PROVE q \in reverseMap' <=> \E pair \in elementMap' : q = <<pair[2], pair[1]>>
    <3>1. q \in reverseMap <=> \E pair \in elementMap : q = <<pair[2], pair[1]>>
      BY <1>1
    <3>2. \A pair : q = <<pair[2], pair[1]>> => q[1] = pair[2]
      OBVIOUS
    <3> QED
      BY <2>1, <3>1, <3>2, <1>3
  <2> QED
    BY <2>2
<1>8. MapsInverse'
  <2>1. \A pair \in elementMap' : Exists(pair[2])'
    BY <1>1, <1>3, <1>4
  <2>2. \A p, q \in elementMap' : (p[1] = q[1] \/ p[2] = q[2]) => p = q
    BY <1>1, <1>3
  <2> QED
    BY <1>5, <1>6, <1>7, <2>1, <2>2 DEF MapsInverse
<1>9. \A pair \in elementMap' : pair[1][1] = page' /\ pair[1][2] <= instances'
  BY <1>1, <1>3
<1>10. (\A h : Placed(h)' => Placed(h)) /\ \A j : Taken(j)' => Taken(j)
  BY <1>3 DEF Placed, Taken, KeyOf
<1>11. \A g \in guests' : g \in guests
  BY DEF DestroyGuests
<1> QED
  BY <1>4, <1>8, <1>9, <1>10, <1>11 DEF MapsOwn

(* It destroys a guest that the element gave up, which nobody else names.  *)
LEMMA DestroyStep ==
  ASSUME GuestInv, DestroyGuest
  PROVE  /\ ElementsOwn' /\ ElementsApart' /\ RequestsOwn' /\ ResponsesOwn'
         /\ MapsOwn' /\ GuestsKnown'
<1> DEFINE g == Head(toBrowser).guest
<1>1. TypeOK /\ Ordered(toBrowser) /\ MapsOwn
  BY DEF GuestInv, RequestsOwn
<1>2. /\ toBrowser # <<>> /\ toBrowser' = Tail(toBrowser) /\ Head(toBrowser).type = "DESTROY_GUEST"
      /\ UNCHANGED <<page, embedder, element, instances, toPage>>
  BY DEF DestroyGuest, renderer
<1>3. /\ \A v : Asked(v)' => Asked(v)
      /\ \A j, h : Attaches(j, h)' => Attaches(j, h) /\ Apart(Head(toBrowser), Attach(j, h))
      /\ \A h : Gives(h)' => Gives(h) /\ Apart(Head(toBrowser), Destroy(h))
      /\ Ordered(toBrowser') /\ Head(toBrowser) \in Message /\ In(Head(toBrowser), toBrowser)
  BY <1>1, <1>2, RequestTaken
<1>4. /\ g \in Guest /\ Gives(g)
      /\ \A j, h : Attaches(j, h)' => h # g
      /\ \A h : Gives(h)' => h # g
  <2>1. g \in Guest /\ Head(toBrowser) = Destroy(g)
    BY <1>2, <1>3, Messages
  <2> QED
    BY <2>1, <1>2, <1>3, Messages DEF Gives, Apart
<1>5. Exists(g)
  BY <1>4 DEF GuestInv, RequestsOwn
<1>6. DestroyGuests({g}) /\ nextGuest' = nextGuest
  BY <1>5 DEF DestroyGuest
<1>7. /\ \A h : Exists(h)' <=> Exists(h) /\ h # g
      /\ \A h : Placed(h)' => Placed(h)
      /\ \A j : Taken(j)' => Taken(j)
      /\ \A h \in guests' : h \in guests
      /\ MapsOwn'
  <2>1. page' = page /\ instances' = instances
    BY <1>2
  <2> HIDE DEF g
  <2> QED
    BY <1>1, <1>6, <2>1, GuestsDestroyed
<1>8. /\ \A v, h : Comes(v, h)' <=> Comes(v, h)
      /\ Distinct(toPage')
  BY <1>2, ResponsesSame DEF GuestInv, ResponsesOwn
<1> HIDE DEF g
<1>9. /\ \A v \in Elements : element[v].guest # NoGuest => element[v].guest # g
      /\ \A v \in Elements, h \in Guest : Comes(v, h) => h # g
  BY <1>4 DEF GuestInv, ElementsOwn, ElementOwns, ResponsesOwn
<1>10. ElementsOwn'
  <2> SUFFICES ASSUME NEW v \in Elements PROVE ElementOwns(v)'
    BY DEF ElementsOwn
  <2>1. ElementOwns(v)
    BY DEF GuestInv, ElementsOwn
  <2> QED
    BY <2>1, <1>2, <1>3, <1>7, <1>9 DEF ElementOwns
<1>11. ElementsApart'
  BY <1>2 DEF GuestInv, ElementsApart
<1>12. RequestsOwn'
  BY <1>2, <1>3, <1>4, <1>7 DEF GuestInv, RequestsOwn
<1>13. ResponsesOwn'
  BY <1>2, <1>3, <1>7, <1>8, <1>9 DEF GuestInv, ResponsesOwn
<1>14. GuestsKnown'
  BY <1>2, <1>6, <1>7 DEF GuestInv, GuestsKnown, GuestsOfPage, Live
<1> QED
  BY <1>7, <1>10, <1>11, <1>12, <1>13, <1>14

-----------------------------------------------------------------------------
(* Without elements that own anything, requests and guests all of it holds.*)
LEMMA NothingOwned ==
  ASSUME element = [w \in Elements |-> NewElement], toBrowser = <<>>, toPage = <<>>,
         guests = {}, reverseMap = {}, contentsMap = {}, elementMap = {}, instanceMap = {}
  PROVE  ElementsOwn /\ ElementsApart /\ RequestsOwn /\ ResponsesOwn /\ MapsOwn /\ GuestsKnown
<1>3. \A m : ~In(m, toBrowser) /\ ~In(m, toPage)
  BY DEF In
<1>4. \A h : ~Exists(h)
  BY DEF Exists
<1>5. \A w \in Elements : element[w] = NewElement
  OBVIOUS
<1>6. ElementsOwn /\ ElementsApart
  BY <1>5 DEF ElementsOwn, ElementOwns, ElementsApart, NewElement, NoGuest
<1>7. RequestsOwn /\ ResponsesOwn
  BY <1>3 DEF RequestsOwn, ResponsesOwn, Asked, Gives, Attaches, Comes, Ordered, Distinct
<1>8. MapsOwn /\ GuestsKnown
  BY <1>4 DEF MapsOwn, MapsInverse, GuestsKnown, GuestsOfPage
<1> QED
  BY <1>6, <1>7, <1>8

(* Nothing is on the way or owned when a page is gone, and no guest exists.*)
LEMMA GoneStep ==
  ASSUME GuestInv, Navigate \/ Crash \/ EmbedderDestroyed
  PROVE  /\ ElementsOwn' /\ ElementsApart' /\ RequestsOwn' /\ ResponsesOwn'
         /\ MapsOwn' /\ GuestsKnown'
<1>1. /\ element' = [w \in Elements |-> NewElement] /\ instances' = 0
      /\ toBrowser' = <<>> /\ toPage' = <<>> /\ LeavePage
  BY DEF Navigate, Crash, EmbedderDestroyed, PageGone
<1>2. guests' = {} /\ reverseMap' = {} /\ contentsMap' = {} /\ elementMap' = {} /\ instanceMap' = {}
  <2> DEFINE gs == {g[1] : g \in guests}
  <2>1. /\ reverseMap = {<<pair[2], pair[1]>> : pair \in elementMap} /\ instanceMap = elementMap
        /\ contentsMap = {pair[2] : pair \in elementMap}
        /\ \A pair \in elementMap : Exists(pair[2])
    BY DEF GuestInv, MapsOwn, MapsInverse
  <2>2. \A h : Exists(h) => h \in gs
    <3>1. \A h, q : <<h, q>> \in guests => h \in gs
      <4>1. ASSUME NEW h, NEW q, <<h, q>> \in guests PROVE h \in gs
        <5>1. <<h, q>>[1] = h
          OBVIOUS
        <5> QED
          BY <4>1, <5>1
      <4> QED
        BY <4>1
    <3> QED
      BY <3>1 DEF Exists
  <2>3. DestroyGuests(gs)
    BY <1>1 DEF LeavePage
  <2>4. guests' = {}
    BY <2>3 DEF DestroyGuests
  <2> HIDE DEF gs
  <2>5. \A pair \in elementMap : pair[2] \in gs
    BY <2>1, <2>2
  <2>6. contentsMap' = {}
    BY <2>1, <2>3, <2>5 DEF DestroyGuests
  <2>7. instanceMap' = {}
    BY <2>1, <2>3, <2>5 DEF DestroyGuests, Without
  <2>8. \A q \in reverseMap : q[1] \in gs
    BY <2>1, <2>5
  <2>9. reverseMap' = {}
    BY <2>3, <2>8 DEF DestroyGuests
  <2>10. elementMap' = {}
    <3>1. \A pair \in elementMap : \E q \in reverseMap : q[2] = pair[1]
      BY <2>1, Mirrored
    <3>2. \A pair \in elementMap : pair[1] \in KeysOf(gs)
      BY <2>8, <3>1 DEF KeysOf
    <3> QED
      BY <2>3, <3>2 DEF DestroyGuests
  <2> QED
    BY <2>4, <2>6, <2>7, <2>9, <2>10
<1>3. \A m : ~In(m, toBrowser)' /\ ~In(m, toPage)'
  BY <1>1 DEF In
<1>4. \A h : ~Exists(h)'
  BY <1>2 DEF Exists
<1>5. \A w \in Elements : element'[w] = NewElement
  BY <1>1
<1>6. ElementsOwn' /\ ElementsApart'
  BY <1>5 DEF ElementsOwn, ElementOwns, ElementsApart, NewElement, NoGuest
<1>7. RequestsOwn' /\ ResponsesOwn'
  BY <1>1, <1>3 DEF RequestsOwn, ResponsesOwn, Asked, Gives, Attaches, Comes, Ordered, Distinct, In
<1>8. MapsOwn' /\ GuestsKnown'
  BY <1>2, <1>4 DEF MapsOwn, MapsInverse, GuestsKnown, GuestsOfPage
<1> QED
  BY <1>6, <1>7, <1>8

-----------------------------------------------------------------------------
(* The initial states and every step.                                      *)
LEMMA InitInv == Init => GuestInv
<1> SUFFICES ASSUME Init PROVE GuestInv
  OBVIOUS
<1>1. TypeOK /\ GuestsBounded
  BY TypeInit
<1>2. ElementsOwn /\ ElementsApart /\ RequestsOwn /\ ResponsesOwn /\ MapsOwn /\ GuestsKnown
  BY NothingOwned DEF Init
<1> QED
  BY <1>1, <1>2 DEF GuestInv

(* A step of the page leaves the browser process alone.                    *)
LEMMA PageMaps ==
  ASSUME GuestInv, UNCHANGED <<page, embedder, manager>>,
         instances' = instances \/ instances' = instances + 1
  PROVE  MapsOwn' /\ GuestsKnown'
BY ManagerSame, MapsSame DEF GuestInv

LEMMA StutterStep ==
  ASSUME GuestInv, UNCHANGED vars
  PROVE  /\ ElementsOwn' /\ ElementsApart' /\ RequestsOwn' /\ ResponsesOwn'
         /\ MapsOwn' /\ GuestsKnown'
<1>1. /\ UNCHANGED <<page, embedder, manager>> /\ element' = element /\ instances' = instances
      /\ toBrowser' = toBrowser /\ toPage' = toPage
  BY DEF vars, renderer
<1>2. MapsOwn' /\ GuestsKnown'
  BY <1>1, PageMaps
<1>3. /\ \A g : (Placed(g)' <=> Placed(g)) /\ (Exists(g)' <=> Exists(g))
      /\ \A i : Taken(i)' <=> Taken(i)
  BY <1>1, ManagerSame
<1>4. /\ \A w : Asked(w)' <=> Asked(w)
      /\ \A i, g : Attaches(i, g)' <=> Attaches(i, g)
      /\ \A g : Gives(g)' <=> Gives(g)
      /\ Ordered(toBrowser')
  BY <1>1, RequestsSame DEF GuestInv, RequestsOwn
<1>5. (\A w, g : Comes(w, g)' <=> Comes(w, g)) /\ Distinct(toPage')
  BY <1>1, ResponsesSame DEF GuestInv, ResponsesOwn
<1>6. ElementsOwn'
  BY <1>1, <1>3, <1>4 DEF GuestInv, ElementsOwn, ElementOwns
<1>7. ElementsApart'
  BY <1>1 DEF GuestInv, ElementsApart
<1>8. RequestsOwn'
  BY <1>1, <1>3, <1>4 DEF GuestInv, RequestsOwn
<1>9. ResponsesOwn'
  BY <1>1, <1>3, <1>4, <1>5 DEF GuestInv, ResponsesOwn
<1> QED
  BY <1>2, <1>6, <1>7, <1>8, <1>9

LEMMA StepInv == GuestInv /\ [Next]_vars => GuestInv'
<1> SUFFICES ASSUME GuestInv, [Next]_vars PROVE GuestInv'
  OBVIOUS
<1>1. TypeOK' /\ GuestsBounded'
  BY TypeStep DEF GuestInv
<1> SUFFICES /\ ElementsOwn' /\ ElementsApart' /\ RequestsOwn' /\ ResponsesOwn'
             /\ MapsOwn' /\ GuestsKnown'
  BY <1>1 DEF GuestInv
<1>2. ASSUME NEW w \in Elements, AttachElement(w) \/ WriteSrc(w)
      PROVE  /\ ElementsOwn' /\ ElementsApart' /\ RequestsOwn' /\ ResponsesOwn'
             /\ MapsOwn' /\ GuestsKnown'
  BY <1>2, ParseStep, PageMaps DEF AttachElement, WriteSrc
<1>3. ASSUME NEW w \in Elements, DetachElement(w)
      PROVE  /\ ElementsOwn' /\ ElementsApart' /\ RequestsOwn' /\ ResponsesOwn'
             /\ MapsOwn' /\ GuestsKnown'
  BY <1>3, DetachStep, PageMaps DEF DetachElement
<1>4. ASSUME NEW w \in Elements, PluginInstance(w)
      PROVE  /\ ElementsOwn' /\ ElementsApart' /\ RequestsOwn' /\ ResponsesOwn'
             /\ MapsOwn' /\ GuestsKnown'
  BY <1>4, PluginStep, PageMaps DEF PluginInstance
<1>5. ASSUME NEW w \in Elements, GuestCreated(w)
      PROVE  /\ ElementsOwn' /\ ElementsApart' /\ RequestsOwn' /\ ResponsesOwn'
             /\ MapsOwn' /\ GuestsKnown'
  BY <1>5, CreatedStep, PageMaps DEF GuestCreated
<1>6. CASE CreateGuest
  BY <1>1, <1>6, CreateStep
<1>7. CASE AttachGuest
  BY <1>7, AttachStep
<1>8. CASE DestroyGuest
  BY <1>8, DestroyStep
<1>9. CASE Navigate \/ Crash \/ EmbedderDestroyed
  BY <1>9, GoneStep
<1>10. CASE UNCHANGED vars
  BY <1>10, StutterStep
<1> QED
  BY <1>2, <1>3, <1>4, <1>5, <1>6, <1>7, <1>8, <1>9, <1>10 DEF Next, HandleMessage

LEMMA GuestInvariant == Spec => []GuestInv
<1>1. Init => GuestInv
  BY InitInv
<1>2. GuestInv /\ [Next]_vars => GuestInv'
  BY StepInv
<1> QED
  BY <1>1, <1>2, PTL DEF Spec

-----------------------------------------------------------------------------
(* The variables keep their types, and no more guests are made than asked  *)
(* for: the ids of guest-view-manager.coffee stay within their bound.      *)
THEOREM TypeCorrect == Spec => []TypeOK
<1>1. GuestInv => TypeOK
  BY DEF GuestInv
<1> QED
  BY <1>1, GuestInvariant, PTL

(* The two maps of the guest view manager and the two of WebViewManager    *)
(* tell the same of which guest is shown by which element.                 *)
THEOREM MapsStayInverse == Spec => []MapsInverse
<1>1. GuestInv => MapsInverse
  BY DEF GuestInv, MapsOwn
<1> QED
  BY <1>1, GuestInvariant, PTL

(* No guest outlives the page it was made for.                             *)
THEOREM GuestsOfTheirPage == Spec => []GuestsOfPage
<1>1. GuestInv => GuestsOfPage
  BY DEF GuestInv, GuestsKnown
<1> QED
  BY <1>1, GuestInvariant, PTL

(* Every request of the page to attach or to destroy a guest finds it.     *)
THEOREM RequestsAlwaysFindGuest == Spec => []RequestsFindGuest
<1>1. GuestInv => RequestsFindGuest
  <2> SUFFICES ASSUME GuestInv, NEW i \in 1..Len(toBrowser),
                      toBrowser[i].type # "CREATE_GUEST"
               PROVE  Exists(toBrowser[i].guest)
    BY DEF RequestsFindGuest
  <2> DEFINE m == toBrowser[i]
  <2>1. m \in Message /\ In(m, toBrowser)
    BY DEF GuestInv, TypeOK, In
  <2> HIDE DEF m
  <2>2. m.type # "CREATE_GUEST"
    BY DEF m
  <2>3. CASE m.instance \in Instance /\ m.guest \in Guest /\ m = Attach(m.instance, m.guest)
    BY <2>1, <2>3 DEF GuestInv, RequestsOwn, Attaches, m
  <2>4. CASE m.guest \in Guest /\ m = Destroy(m.guest)
    BY <2>1, <2>4 DEF GuestInv, RequestsOwn, Gives, m
  <2> QED
    BY <2>1, <2>2, <2>3, <2>4, Messages DEF m
<1> QED
  BY <1>1, GuestInvariant, PTL
===============================================================================
