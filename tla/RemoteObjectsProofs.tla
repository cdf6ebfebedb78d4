------------------------ MODULE RemoteObjectsProofs ------------------------
(* Theorems about RemoteObjects, for every value of its constants.         *)
EXTENDS RemoteObjects, TLAPS

USE NullsAssumption, ContentsAssumption, EnvironmentAssumption, BoundsAssumption

-----------------------------------------------------------------------------
(* The messages the actions put on the channels are messages.              *)
LEMMA MessageTypes ==
  /\ Plain \in Meta
  /\ \A id, arg \in Nat, cb \in Callbacks \cup {NoCallback} :
       Request(id, arg, cb) \in ToBrowser
  /\ \A p \in Meta : Dereference(p) \in ToBrowser
  /\ \A cb \in Callbacks, m \in Meta :
       /\ [kind |-> "callback", cb |-> cb, meta |-> m] \in ToView
       /\ [kind |-> "release", cb |-> cb, meta |-> m] \in ToView
BY DEF Plain, Meta, Request, Dereference, ToBrowser, ToView

(* The types hold initially.                                               *)
LEMMA TypeInit == Init => TypeOK
BY MessageTypes DEF Init, TypeOK, EmptyMap

(* A synchronous request keeps the types of the channels.                  *)
LEMMA TypeSendSync ==
  ASSUME TypeOK, NEW v \in Views, NEW m \in ToBrowser, SendSync(v, m)
  PROVE  /\ calling' \in [Views -> {"idle", "waiting", "deferred", "abandoned", "replied"}]
         /\ toBrowser' \in [Views -> Seq(ToBrowser)]
         /\ toView' \in [Views -> Seq(ToView)]
         /\ reply' \in [Views -> Meta]
BY DEF TypeOK, SendSync

(* Steps of a page keep the types.                                         *)
LEMMA TypePageStep ==
  ASSUME TypeOK, NEW v \in Views, PageStep(v)
  PROVE  TypeOK'
<1> USE MessageTypes
<1>1. CASE RequireRemote(v)
  <2> DEFINE m == Request(0, 0, NoCallback)
  <2>1. m \in ToBrowser /\ SendSync(v, m)
    BY <1>1 DEF RequireRemote
  <2> HIDE DEF m
  <2> QED
    BY <1>1, <2>1, TypeSendSync
       DEF TypeOK, RequireRemote, registry, stores, wrappers, views, page
<1>2. ASSUME NEW p \in proxies[v], NEW arg \in {q.id : q \in proxies[v]} \cup {0},
             CallProxy(v, p, arg)
      PROVE  TypeOK'
  <2>1. p.id \in Nat /\ arg \in Nat
    BY DEF TypeOK, Meta
  <2> DEFINE m == Request(p.id, arg, NoCallback)
  <2>2. m \in ToBrowser /\ SendSync(v, m)
    BY <1>2, <2>1 DEF CallProxy
  <2> HIDE DEF m
  <2> QED
    BY <1>2, <2>2, TypeSendSync
       DEF TypeOK, CallProxy, registry, stores, wrappers, views, page
<1>3. ASSUME NEW p \in proxies[v], NEW c \in Callbacks,
             CallProxyWithCallback(v, p, c)
      PROVE  TypeOK'
  <2>1. p.id \in Nat
    BY DEF TypeOK, Meta
  <2> DEFINE m == Request(p.id, 0, c)
  <2>2. m \in ToBrowser /\ SendSync(v, m)
    BY <1>3, <2>1 DEF CallProxyWithCallback
  <2> HIDE DEF m
  <2> QED
    BY <1>3, <2>2, TypeSendSync
       DEF TypeOK, CallProxyWithCallback, registry, stores, wrappers, views
<1>4. ASSUME NEW p \in proxies[v], Detach(v, p)
      PROVE  TypeOK'
  BY <1>4 DEF TypeOK, Detach, registry, stores, wrappers, views, channels
<1>5. ASSUME NEW p \in proxies[v], CollectProxy(v, p)
      PROVE  TypeOK'
  BY <1>5 DEF TypeOK, CollectProxy, registry, stores, wrappers, views
<1>6. ASSUME NEW p \in methods[v], CallMethod(v, p)
      PROVE  TypeOK'
  <2>1. p.id \in Nat
    BY DEF TypeOK, Meta
  <2> DEFINE m == Request(p.id, 0, NoCallback)
  <2>2. m \in ToBrowser /\ SendSync(v, m)
    BY <1>6, <2>1 DEF CallMethod
  <2>3. methods' \in [Views -> SUBSET Meta] /\ loose' \in [Views -> SUBSET Nat]
    BY <1>6, <2>1 DEF TypeOK, CallMethod
  <2> HIDE DEF m
  <2> QED
    BY <1>6, <2>2, <2>3, TypeSendSync
       DEF TypeOK, CallMethod, registry, stores, wrappers, views
<1>7. ASSUME NEW id \in loose[v], CallMethodAgain(v, id)
      PROVE  TypeOK'
  <2>1. id \in Nat
    BY DEF TypeOK
  <2> DEFINE m == Request(id, 0, NoCallback)
  <2>2. m \in ToBrowser /\ SendSync(v, m)
    BY <1>7, <2>1 DEF CallMethodAgain
  <2> HIDE DEF m
  <2> QED
    BY <1>7, <2>2, TypeSendSync
       DEF TypeOK, CallMethodAgain, registry, stores, wrappers, views, page
<1>8. CASE ReceiveReply(v)
  BY <1>8 DEF TypeOK, ReceiveReply, registry, stores, wrappers, views
<1>9. ASSUME toView[v] # << >>
      PROVE  /\ Head(toView[v]) \in ToView
             /\ Head(toView[v]).meta \in Meta
             /\ Head(toView[v]).meta.sid \in Nat
             /\ Tail(toView[v]) \in Seq(ToView)
  <2>1. toView[v] \in Seq(ToView)
    BY DEF TypeOK
  <2>2. Head(toView[v]) \in ToView /\ Tail(toView[v]) \in Seq(ToView)
    BY <1>9, <2>1
  <2> QED
    BY <2>2 DEF ToView, Meta
<1>10. CASE DropMessage(v)
  BY <1>9, <1>10 DEF TypeOK, DropMessage, registry, stores, wrappers, views, page
<1>11. CASE ReceiveCallback(v)
  BY <1>9, <1>11 DEF TypeOK, ReceiveCallback, registry, stores, wrappers, views
<1>12. CASE ReceiveRelease(v)
  BY <1>9, <1>12 DEF TypeOK, ReceiveRelease, registry, stores, wrappers, views
<1>13. CASE DidCreateDocumentElement(v)
  BY <1>13 DEF TypeOK, DidCreateDocumentElement, registry, stores, wrappers, views, channels
<1> QED
  BY <1>1, <1>2, <1>3, <1>4, <1>5, <1>6, <1>7, <1>8, <1>10, <1>11, <1>12, <1>13
     DEF PageStep, ReceiveMessage

-----------------------------------------------------------------------------
(* A delivered message belongs to a current key, and is a message.         *)
LEMMA DeliveredTypes ==
  ASSUME TypeOK, NEW v \in Views, NEW kind, Delivered(v, kind)
  PROVE  /\ Key(v) \in Views
         /\ Head(toBrowser[v]) \in ToBrowser
         /\ Head(toBrowser[v]).cb \in Callbacks \cup {NoCallback}
         /\ Tail(toBrowser[v]) \in Seq(ToBrowser)
<1>1. toBrowser[v] \in Seq(ToBrowser) /\ toBrowser[v] # << >>
  BY DEF TypeOK, Delivered
<1>2. Head(toBrowser[v]) \in ToBrowser /\ Tail(toBrowser[v]) \in Seq(ToBrowser)
  BY <1>1
<1>3. Key(v) \in Views
  BY DEF TypeOK, Delivered, Key
<1> QED
  BY <1>2, <1>3 DEF ToBrowser

(* objectsRegistry.add keeps the types, for a key that is a view or not.   *)
LEMMA TypeAdd ==
  ASSUME TypeOK, NEW k, NEW o \in Objects, Add(k, o)
  PROVE  /\ heap' \in [Objects -> {"unborn", "live", "collected"}]
         /\ atomId' \in [Objects -> Nat]
         /\ nextId' \in Nat
         /\ DOMAIN weakMap' \subseteq 1 .. nextId'
         /\ weakMap' \in [DOMAIN weakMap' -> Objects]
         /\ storeNext' \in [Views -> Nat]
         /\ DOMAIN store' = Views
         /\ \A v \in Views : /\ DOMAIN store'[v] \subseteq 1 .. storeNext'[v]
                             /\ store'[v] \in [DOMAIN store'[v] -> Objects]
         /\ k \in Views => MetaFor(k, o) \in Meta
<1>1. IdFor(o) \in Nat
  BY DEF TypeOK, IdFor
<1>2. heap' \in [Objects -> {"unborn", "live", "collected"}]
  BY DEF TypeOK, Add
<1>3. atomId' \in [Objects -> Nat] /\ nextId' \in Nat
  BY <1>1 DEF TypeOK, Add
<1>4. /\ DOMAIN weakMap' \subseteq 1 .. nextId'
      /\ weakMap' \in [DOMAIN weakMap' -> Objects]
  <2>1. CASE atomId[o] = 0
    <3>1. weakMap' = Put(weakMap, nextId + 1, o) /\ nextId' = nextId + 1
      BY <2>1 DEF Add, IdFor
    <3>2. /\ DOMAIN weakMap \subseteq 1 .. nextId /\ nextId \in Nat
          /\ weakMap \in [DOMAIN weakMap -> Objects]
      BY DEF TypeOK
    <3> QED
      BY <3>1, <3>2 DEF Put
  <2>2. CASE atomId[o] # 0
    BY <2>2 DEF TypeOK, Add
  <2> QED
    BY <2>1, <2>2
<1>5. storeNext' \in [Views -> Nat] /\ DOMAIN store' = Views
  <2>1. storeNext' = [storeNext EXCEPT ![k] = storeNext[k] + 1]
    BY DEF Add
  <2>2. storeNext \in [Views -> Nat] /\ DOMAIN store = Views
    BY DEF TypeOK
  <2>3. storeNext' \in [Views -> Nat]
    <3>1. CASE k \in Views
      BY <2>1, <2>2, <3>1
    <3>2. CASE k \notin Views
      <4>1. storeNext' = storeNext
        BY <2>1, <2>2, <3>2
      <4> QED
        BY <2>2, <4>1
    <3> QED
      BY <3>1, <3>2
  <2>4. DOMAIN store' = DOMAIN store
    BY DEF Add
  <2> QED
    BY <2>2, <2>3, <2>4
<1>6. ASSUME NEW v \in Views
      PROVE  /\ DOMAIN store'[v] \subseteq 1 .. storeNext'[v]
             /\ store'[v] \in [DOMAIN store'[v] -> Objects]
  <2>1. CASE v = k
    <3>1. /\ storeNext'[v] = storeNext[v] + 1
          /\ store'[v] = Put(store[v], storeNext[v] + 1, o)
      BY <2>1 DEF TypeOK, Add
    <3>2. /\ storeNext[v] \in Nat
          /\ DOMAIN store[v] \subseteq 1 .. storeNext[v]
          /\ store[v] \in [DOMAIN store[v] -> Objects]
      BY DEF TypeOK
    <3> QED
      BY <3>1, <3>2 DEF Put
  <2>2. CASE v # k
    BY <2>2 DEF TypeOK, Add
  <2> QED
    BY <2>1, <2>2
<1>7. k \in Views => MetaFor(k, o) \in Meta
  BY <1>1 DEF TypeOK, MetaFor, Meta
<1> QED
  BY <1>2, <1>3, <1>4, <1>5, <1>6, <1>7

(* The types of wrappers after unwrapArgs.                                 *)
LEMMA TypeUnwrapArgs ==
  ASSUME TypeOK, NEW v \in Views, NEW kind, Delivered(v, kind),
         UnwrapArgs(v, Head(toBrowser[v]))
  PROVE  /\ wrapper' \in [Callbacks -> {"none", "live", "released", "gone"}]
         /\ wrapperKey' \in [Callbacks -> Views \cup {NoView}]
BY DeliveredTypes DEF TypeOK, UnwrapArgs

(* The type of the queue after a handler took its message.                 *)
LEMMA TypeTakeCall ==
  ASSUME TypeOK, NEW v \in Views, NEW kind, Delivered(v, kind), TakeCall(v)
  PROVE  toBrowser' \in [Views -> Seq(ToBrowser)]
BY DeliveredTypes DEF TypeOK, TakeCall

(* The types of the reply after SendReply.                                 *)
LEMMA TypeAnswer ==
  ASSUME TypeOK, NEW v \in Views, NEW m \in Meta, Answer(v, m)
  PROVE  /\ calling' \in [Views -> {"idle", "waiting", "deferred", "abandoned", "replied"}]
         /\ reply' \in [Views -> Meta]
         /\ lost' \in [Views -> SUBSET Nat]
         /\ toView' = toView
<1>1. m.sid \in Nat
  BY DEF Meta
<1> QED
  BY <1>1 DEF TypeOK, Answer

(* The types of the queue to a page after SendIPCMessage.                  *)
LEMMA TypePost ==
  ASSUME TypeOK, NEW k, NEW m \in ToView, Post(k, m)
  PROVE  /\ toView' \in [Views -> Seq(ToView)]
         /\ lost' \in [Views -> SUBSET Nat]
<1>1. m.meta.sid \in Nat
  BY DEF ToView, Meta
<1>2. toView' \in [Views -> Seq(ToView)]
  <2>1. CASE k \in Views /\ up[k]
    <3>1. Append(toView[k], m) \in Seq(ToView)
      BY <2>1 DEF TypeOK
    <3> QED
      BY <2>1, <3>1 DEF TypeOK, Post
  <2>2. CASE ~(k \in Views /\ up[k])
    <3>1. toView' = toView
      BY <2>2 DEF TypeOK, Post
    <3> QED
      BY <3>1 DEF TypeOK
  <2> QED
    BY <2>1, <2>2
<1>3. lost' \in [Views -> SUBSET Nat]
  BY <1>1 DEF TypeOK, Post
<1> QED
  BY <1>2, <1>3

(* Handlers of the browser keep the types.                                 *)
LEMMA TypeHandleMessage ==
  ASSUME TypeOK, NEW v \in Views, HandleMessage(v)
  PROVE  TypeOK'
<1> DEFINE m == Head(toBrowser[v])
<1>1. \A kind : Delivered(v, kind) =>
        /\ Named(m) \subseteq Objects
        /\ Reachable(m) \subseteq Objects
  BY DEF TypeOK, Named, Reachable
<1>2. ASSUME NEW kept \in SUBSET Objects, CallReturnsValue(v, kept)
      PROVE  TypeOK'
  <2>1. /\ Delivered(v, "call") /\ TakeCall(v) /\ UnwrapArgs(v, m)
        /\ Answer(v, Plain)
    BY <1>2 DEF CallReturnsValue
  <2>2. pinned' \subseteq Objects
    BY <1>2 DEF CallReturnsValue, TypeOK
  <2> QED
    BY <1>2, <2>1, <2>2, MessageTypes, TypeTakeCall, TypeUnwrapArgs, TypeAnswer
       DEF TypeOK, CallReturnsValue, stores, views, page
<1>3. ASSUME NEW o \in Objects, NEW kept \in SUBSET Objects,
             CallReturnsObject(v, o, kept)
      PROVE  TypeOK'
  <2>1. /\ Delivered(v, "call") /\ TakeCall(v) /\ UnwrapArgs(v, m)
        /\ Add(Key(v), o) /\ Answer(v, MetaFor(Key(v), o))
    BY <1>3 DEF CallReturnsObject
  <2>2. pinned' \subseteq Objects
    BY <1>3 DEF CallReturnsObject, TypeOK
  <2>3. Key(v) \in Views /\ MetaFor(Key(v), o) \in Meta
    BY <2>1, DeliveredTypes, TypeAdd
  <2> QED
    BY <1>3, <2>1, <2>2, <2>3, TypeTakeCall, TypeUnwrapArgs, TypeAnswer, TypeAdd
       DEF TypeOK, CallReturnsObject, views, page
<1>4. ASSUME NEW o \in Objects, CallReturnsBrokenObject(v, o)
      PROVE  TypeOK'
  <2>1. /\ Delivered(v, "call") /\ TakeCall(v) /\ UnwrapArgs(v, m)
        /\ Add(Key(v), o) /\ Key(v) \in Views
    BY <1>4, DeliveredTypes DEF CallReturnsBrokenObject
  <2>2. calling' \in [Views -> {"idle", "waiting", "deferred", "abandoned", "replied"}]
    BY <1>4 DEF CallReturnsBrokenObject, TypeOK
  <2>3. lost' \in [Views -> SUBSET Nat]
    BY <1>4, <2>1 DEF CallReturnsBrokenObject, TypeOK
  <2> QED
    BY <1>4, <2>1, <2>2, <2>3, TypeTakeCall, TypeUnwrapArgs, TypeAdd
       DEF TypeOK, CallReturnsBrokenObject, views, page
<1>8. ASSUME NEW o \in Objects, BrokenObjectAbandons(v, o)
      PROVE  TypeOK'
  <2>1. /\ Delivered(v, "call") /\ TakeCall(v) /\ UnwrapArgs(v, m)
        /\ Add(Key(v), o) /\ Key(v) \in Views
    BY <1>8, DeliveredTypes DEF BrokenObjectAbandons
  <2>2. calling' \in [Views -> {"idle", "waiting", "deferred", "abandoned", "replied"}]
    BY <1>8 DEF BrokenObjectAbandons, Abandon, TypeOK
  <2>3. lost' \in [Views -> SUBSET Nat]
    BY <1>8, <2>1 DEF BrokenObjectAbandons, TypeOK
  <2>4. UNCHANGED <<toView, reply>>
    BY <1>8 DEF BrokenObjectAbandons, Abandon
  <2> QED
    BY <1>8, <2>1, <2>2, <2>3, <2>4, TypeTakeCall, TypeUnwrapArgs, TypeAdd
       DEF TypeOK, BrokenObjectAbandons, views, page
<1>9. ASSUME NEW kept \in SUBSET Objects, CallThrowsNothing(v, kept)
      PROVE  TypeOK'
  <2>1. Delivered(v, "call") /\ TakeCall(v) /\ UnwrapArgs(v, m)
    BY <1>9 DEF CallThrowsNothing
  <2>2. pinned' \subseteq Objects
    BY <1>9 DEF CallThrowsNothing, TypeOK
  <2>3. calling' \in [Views -> {"idle", "waiting", "deferred", "abandoned", "replied"}]
    BY <1>9 DEF CallThrowsNothing, Abandon, TypeOK
  <2>4. UNCHANGED <<toView, reply>>
    BY <1>9 DEF CallThrowsNothing, Abandon
  <2> QED
    BY <1>9, <2>1, <2>2, <2>3, <2>4, TypeTakeCall, TypeUnwrapArgs
       DEF TypeOK, CallThrowsNothing, stores, views, page
<1>5. CASE CallOfUnknownId(v)
  <2>1. /\ Delivered(v, "call") /\ TakeCall(v) /\ UnwrapArgs(v, m)
        /\ Answer(v, Plain)
    BY <1>5 DEF CallOfUnknownId
  <2> QED
    BY <1>5, <2>1, MessageTypes, TypeTakeCall, TypeUnwrapArgs, TypeAnswer
       DEF TypeOK, CallOfUnknownId, registry, stores, views, page
<1>6. CASE CallIsDeferred(v)
  <2>1. Delivered(v, "call") /\ TakeCall(v)
    BY <1>6 DEF CallIsDeferred
  <2>2. calling' \in [Views -> {"idle", "waiting", "deferred", "abandoned", "replied"}]
    BY <1>6 DEF CallIsDeferred, TypeOK
  <2> QED
    BY <1>6, <2>1, <2>2, TypeTakeCall
       DEF TypeOK, CallIsDeferred, registry, stores, wrappers, views, page
<1>7. CASE HandleDereference(v)
  <2>1. Delivered(v, "dereference") /\ TakeCall(v)
    BY <1>7 DEF HandleDereference
  <2>2. DOMAIN store' = Views
    BY <1>7 DEF HandleDereference, TypeOK
  <2>3. ASSUME NEW u \in Views
        PROVE  /\ DOMAIN store'[u] \subseteq 1 .. storeNext'[u]
               /\ store'[u] \in [DOMAIN store'[u] -> Objects]
    BY <1>7 DEF HandleDereference, TypeOK, Drop
  <2> QED
    BY <1>7, <2>1, <2>2, <2>3, TypeTakeCall
       DEF TypeOK, HandleDereference, registry, wrappers, views, page
<1> QED
  BY <1>2, <1>3, <1>4, <1>5, <1>6, <1>7, <1>8, <1>9 DEF HandleMessage

(* Wrappers, the application and the collector keep the types.             *)
LEMMA TypeBrowserStep ==
  ASSUME TypeOK, BrowserStep
  PROVE  TypeOK'
<1>1. ASSUME NEW c \in Callbacks, CallWrapper(c)
      PROVE  TypeOK'
  BY <1>1, MessageTypes, TypePost
     DEF TypeOK, CallWrapper, registry, stores, wrappers, views, page
<1>2. ASSUME NEW c \in Callbacks, CollectWrapper(c)
      PROVE  TypeOK'
  <2>1. /\ toView' \in [Views -> Seq(ToView)]
        /\ lost' \in [Views -> SUBSET Nat]
    BY <1>2, MessageTypes, TypePost DEF CollectWrapper, TypeOK
  <2> QED
    BY <1>2, <2>1 DEF TypeOK, CollectWrapper, registry, stores, views, page
<1>3. ASSUME NEW c \in Callbacks, NEW o \in Objects, CallWrapperWithObject(c, o)
      PROVE  TypeOK'
  <2> DEFINE k == Sender(c)
             m == [kind |-> "callback", cb |-> c, meta |-> MetaFor(k, o)]
  <2>1. Add(k, o) /\ Post(k, m)
    BY <1>3 DEF CallWrapperWithObject
  <2>2. /\ toView' \in [Views -> Seq(ToView)]
        /\ lost' \in [Views -> SUBSET Nat]
    <3>1. CASE k \in Views
      BY <2>1, <3>1, TypeAdd, TypePost, MessageTypes
    <3>2. CASE k \notin Views
      BY <2>1, <3>2 DEF Post, TypeOK
    <3> QED
      BY <3>1, <3>2
  <2> QED
    BY <1>3, <2>1, <2>2, TypeAdd
       DEF TypeOK, CallWrapperWithObject, wrappers, views, page
<1>4. ASSUME NEW o \in Objects, CreateObject(o)
      PROVE  TypeOK'
  BY <1>4 DEF TypeOK, CreateObject, stores, wrappers, views, page, channels
<1>5. ASSUME NEW o \in Objects, ForgetObject(o)
      PROVE  TypeOK'
  BY <1>5 DEF TypeOK, ForgetObject, stores, wrappers, views, page, channels
<1>6. ASSUME NEW o \in Objects, CollectObject(o)
      PROVE  TypeOK'
  BY <1>6 DEF TypeOK, CollectObject, Drop, stores, wrappers, views, page, channels
<1> QED
  BY <1>1, <1>2, <1>3, <1>4, <1>5, <1>6 DEF BrowserStep

(* Views that come and go keep the types.                                  *)
LEMMA TypeViewStep ==
  ASSUME TypeOK, NEW v \in Views, ViewStep(v)
  PROVE  TypeOK'
<1>1. CASE Navigate(v)
  BY <1>1 DEF TypeOK, Navigate, registry, stores, wrappers, channels
<1>2. ASSUME ForgetPage(v)
      PROVE  /\ up' \in [Views -> BOOLEAN]
             /\ proxies' \in [Views -> SUBSET Meta]
             /\ methods' \in [Views -> SUBSET Meta]
             /\ loose' \in [Views -> SUBSET Nat]
             /\ registered' \in [Views -> SUBSET Callbacks]
             /\ calling' \in [Views -> {"idle", "waiting", "deferred", "abandoned", "replied"}]
             /\ toView' \in [Views -> Seq(ToView)]
             /\ reply' \in [Views -> Meta]
  BY <1>2, MessageTypes DEF TypeOK, ForgetPage
<1>3. ASSUME Clear(v)
      PROVE  /\ wrapper' \in [Callbacks -> {"none", "live", "released", "gone"}]
             /\ storeNext' \in [Views -> Nat]
             /\ DOMAIN store' = Views
             /\ \A u \in Views :
                  /\ DOMAIN store'[u] \subseteq 1 .. storeNext'[u]
                  /\ store'[u] \in [DOMAIN store'[u] -> Objects]
  BY <1>3 DEF TypeOK, Clear, EmptyMap
<1>4. ASSUME RenderViewGone(v), current' \in [Contents -> Views \cup {NoView}],
             destroyed' \subseteq Contents
      PROVE  TypeOK'
  BY <1>2, <1>3, <1>4 DEF TypeOK, RenderViewGone, registry
<1>5. CASE RenderViewDeleted(v)
  BY <1>4, <1>5 DEF RenderViewDeleted, TypeOK
<1>6. CASE WebContentsDestroyed(v)
  BY <1>4, <1>6, SMTT(30) DEF WebContentsDestroyed, TypeOK
<1>7. CASE RenderProcessGone(v)
  BY <1>2, <1>7 DEF TypeOK, RenderProcessGone, registry, stores, wrappers, views
<1> QED
  BY <1>1, <1>5, <1>6, <1>7 DEF ViewStep

(* No step of the browser, a page or a collector leaves the state space:   *)
(* ids and storeIds never outrun their counters, whatever the order.       *)
LEMMA TypeNext == TypeOK /\ [Next]_vars => TypeOK'
<1> SUFFICES ASSUME TypeOK, [Next]_vars PROVE TypeOK'
  OBVIOUS
<1>1. ASSUME NEW v \in Views, DeferredReply(v)
      PROVE  TypeOK'
  BY <1>1 DEF TypeOK, DeferredReply, registry, stores, wrappers, views, page
<1>2. CASE UNCHANGED vars
  BY <1>2 DEF TypeOK, vars, registry, stores, wrappers, views, page, channels
<1> QED
  BY <1>1, <1>2, TypePageStep, TypeHandleMessage, TypeBrowserStep, TypeViewStep
     DEF Next

(* Every reachable state has the declared types.                           *)
THEOREM TypeCorrect == Spec => []TypeOK
<1> QED
  BY TypeInit, TypeNext, PTL DEF Spec

-----------------------------------------------------------------------------
(* Why a live proxy always finds its object: ids first, then the views,    *)
(* then the references that travel between a page and the browser.         *)

-----------------------------------------------------------------------------
(* The registry.                                                           *)

(* objectsRegistry.add of an object that has not been collected.           *)
LEMMA RegistryAdd ==
  ASSUME TypeOK, RegistryInv, NEW k, NEW o \in Objects, Add(k, o),
         heap[o] # "collected",
         pinned' \subseteq pinned \cup {x \in Objects : heap[x] = "live"}
  PROVE  RegistryInv'
<1>1. IdFor(o) \in Nat /\ IdFor(o) # 0 /\ nextId \in Nat
  BY DEF TypeOK, IdFor
<1>2. /\ heap' = [heap EXCEPT ![o] = "live"]
      /\ atomId' = [atomId EXCEPT ![o] = IdFor(o)]
      /\ heap \in [Objects -> {"unborn", "live", "collected"}]
      /\ atomId \in [Objects -> Nat]
  BY DEF Add, TypeOK
<1>3. \A x \in Objects :
        /\ heap'[x] = (IF x = o THEN "live" ELSE heap[x])
        /\ atomId'[x] = (IF x = o THEN IdFor(o) ELSE atomId[x])
  BY <1>2
<1>4. /\ \A i \in DOMAIN weakMap : i \in DOMAIN weakMap' /\ weakMap'[i] = weakMap[i]
      /\ \A i \in DOMAIN weakMap' : i \in DOMAIN weakMap \/ i = IdFor(o)
      /\ IdFor(o) \in DOMAIN weakMap' /\ weakMap'[IdFor(o)] = o
      /\ nextId <= nextId' /\ IdFor(o) <= nextId'
  <2>1. CASE atomId[o] = 0
    <3>1. IdFor(o) = nextId + 1 /\ nextId' = nextId + 1
      BY <2>1 DEF Add, IdFor
    <3>2. weakMap' = Put(weakMap, nextId + 1, o)
      BY <2>1, <3>1 DEF Add
    <3>3. nextId + 1 \notin DOMAIN weakMap
      BY <1>1 DEF TypeOK
    <3> QED
      BY <1>1, <3>1, <3>2, <3>3 DEF Put
  <2>2. CASE atomId[o] # 0
    <3>1. weakMap' = weakMap /\ nextId' = nextId /\ IdFor(o) = atomId[o]
      BY <2>2 DEF Add, IdFor
    <3>2. heap[o] = "live"
      BY <1>2, <2>2 DEF RegistryInv
    <3> QED
      BY <1>1, <2>2, <3>1, <3>2 DEF RegistryInv
  <2> QED
    BY <2>1, <2>2
<1>5. \A v \in Views : \A s \in DOMAIN store'[v] :
        store'[v][s] = o \/ (s \in DOMAIN store[v] /\ store'[v][s] = store[v][s])
  <2>1. store' = [store EXCEPT ![k] = Put(store[k], storeNext[k] + 1, o)]
    BY DEF Add
  <2> QED
    BY <2>1 DEF TypeOK, Put
<1>6. DOMAIN weakMap \subseteq Nat /\ \A i \in DOMAIN weakMap : weakMap[i] \in Objects
  BY DEF TypeOK
<1>7. \A v \in Views : \A s \in DOMAIN store[v] : store[v][s] \in Objects
  BY DEF TypeOK
<1>8. \A x \in Objects :
        /\ heap'[x] = "unborn" => atomId'[x] = 0
        /\ atomId'[x] <= nextId'
        /\ heap'[x] = "live" /\ atomId'[x] # 0 =>
             atomId'[x] \in DOMAIN weakMap' /\ weakMap'[atomId'[x]] = x
  <2> SUFFICES ASSUME NEW x \in Objects
               PROVE  /\ heap'[x] = "unborn" => atomId'[x] = 0
                      /\ atomId'[x] <= nextId'
                      /\ heap'[x] = "live" /\ atomId'[x] # 0 =>
                           atomId'[x] \in DOMAIN weakMap' /\ weakMap'[atomId'[x]] = x
    OBVIOUS
  <2>0. nextId' \in Nat /\ atomId[x] \in Nat
    BY TypeAdd, <1>2
  <2>1. CASE x = o
    BY <1>3, <1>4, <2>1
  <2>2. CASE x # o
    BY <1>1, <1>3, <1>4, <2>0, <2>2 DEF RegistryInv
  <2> QED
    BY <2>1, <2>2
<1>9. \A i \in DOMAIN weakMap' : heap'[weakMap'[i]] = "live" /\ atomId'[weakMap'[i]] = i
  <2> SUFFICES ASSUME NEW i \in DOMAIN weakMap'
               PROVE  heap'[weakMap'[i]] = "live" /\ atomId'[weakMap'[i]] = i
    OBVIOUS
  <2>1. CASE i = IdFor(o)
    BY <1>3, <1>4, <2>1
  <2>2. CASE i # IdFor(o)
    <3>1. i \in DOMAIN weakMap /\ weakMap'[i] = weakMap[i] /\ weakMap[i] \in Objects
      BY <1>4, <1>6, <2>2
    <3>2. heap[weakMap[i]] = "live" /\ atomId[weakMap[i]] = i
      BY <3>1 DEF RegistryInv
    <3>3. weakMap[i] # o
      <4>1. i # 0
        BY <3>1 DEF TypeOK
      <4> QED
        BY <2>2, <3>2, <4>1 DEF IdFor
    <3> QED
      BY <1>3, <3>1, <3>2, <3>3
  <2> QED
    BY <2>1, <2>2
<1>10. \A x \in pinned' : heap'[x] = "live"
  BY <1>3 DEF RegistryInv, TypeOK
<1>11. \A v \in Views : \A s \in DOMAIN store'[v] :
         heap'[store'[v][s]] = "live" /\ atomId'[store'[v][s]] # 0
  BY <1>1, <1>3, <1>5, <1>7 DEF RegistryInv
<1> QED
  BY <1>8, <1>9, <1>10, <1>11 DEF RegistryInv

(* What a call can return has not been collected.                          *)
LEMMA ReachableAlive ==
  ASSUME TypeOK, RegistryInv, NEW m, NEW o \in Reachable(m)
  PROVE  o \in Objects /\ heap[o] # "collected"
BY DEF TypeOK, RegistryInv, Reachable, Named

(* The objects that a message names are live.                              *)
LEMMA NamedAlive ==
  ASSUME TypeOK, RegistryInv, NEW m
  PROVE  Named(m) \subseteq {x \in Objects : heap[x] = "live"}
BY DEF TypeOK, RegistryInv, Named

(* Steps that only shrink the stores or the set of kept objects.           *)
LEMMA RegistryShrink ==
  ASSUME RegistryInv, UNCHANGED <<heap, atomId, nextId, weakMap>>,
         \A o \in pinned' : o \in pinned \/ heap[o] = "live",
         \A v \in Views : \A s \in DOMAIN store'[v] :
           s \in DOMAIN store[v] /\ store'[v][s] = store[v][s]
  PROVE  RegistryInv'
BY DEF RegistryInv

(* RegistryInv is kept by every step ...                                   *)
LEMMA RegistryNext ==
  ASSUME TypeOK, RegistryInv, [Next]_vars
  PROVE  RegistryInv'
<1>1. ASSUME UNCHANGED <<registry, stores>>
      PROVE  RegistryInv'
  BY <1>1, RegistryShrink DEF registry, stores
<1>2. ASSUME NEW v \in Views, PageStep(v)
      PROVE  RegistryInv'
  <2>1. UNCHANGED <<registry, stores>>
    BY <1>2 DEF PageStep, RequireRemote, CallProxy, CallProxyWithCallback, Detach,
       CallMethod, CallMethodAgain, ReceiveReply, ReceiveMessage, DropMessage,
       ReceiveCallback, ReceiveRelease, CollectProxy, DidCreateDocumentElement
  <2> QED
    BY <1>1, <2>1
<1>3. ASSUME NEW v \in Views, HandleMessage(v)
      PROVE  RegistryInv'
  <2>1. ASSUME NEW kept \in SUBSET Objects,
               CallReturnsValue(v, kept) \/ CallThrowsNothing(v, kept)
        PROVE  RegistryInv'
    BY <2>1, NamedAlive, RegistryShrink DEF CallReturnsValue, CallThrowsNothing, stores
  <2>2. ASSUME NEW o \in Objects, NEW kept \in SUBSET Objects,
               CallReturnsObject(v, o, kept)
        PROVE  RegistryInv'
    BY <2>2, NamedAlive, ReachableAlive, RegistryAdd DEF CallReturnsObject
  <2>3. ASSUME NEW o \in Objects, CallReturnsBrokenObject(v, o) \/ BrokenObjectAbandons(v, o)
        PROVE  RegistryInv'
    BY <2>3, ReachableAlive, RegistryAdd DEF CallReturnsBrokenObject, BrokenObjectAbandons
  <2>4. CASE CallOfUnknownId(v) \/ CallIsDeferred(v)
    BY <1>1, <2>4 DEF CallOfUnknownId, CallIsDeferred
  <2>5. CASE HandleDereference(v)
    <3>1. \A u \in Views : \A s \in DOMAIN store'[u] :
            s \in DOMAIN store[u] /\ store'[u][s] = store[u][s]
      BY <2>5 DEF HandleDereference, Drop, TypeOK
    <3> QED
      BY <2>5, <3>1, RegistryShrink DEF HandleDereference, registry
  <2> QED
    BY <1>3, <2>1, <2>2, <2>3, <2>4, <2>5 DEF HandleMessage
<1>4. ASSUME BrowserStep
      PROVE  RegistryInv'
  <2>1. ASSUME NEW c \in Callbacks, CallWrapper(c) \/ CollectWrapper(c)
        PROVE  RegistryInv'
    BY <1>1, <2>1 DEF CallWrapper, CollectWrapper
  <2>2. ASSUME NEW c \in Callbacks, NEW o \in Objects, CallWrapperWithObject(c, o)
        PROVE  RegistryInv'
    <3>1. heap[o] # "collected"
      BY <2>2 DEF CallWrapperWithObject, RegistryInv
    <3> QED
      BY <2>2, <3>1, RegistryAdd DEF CallWrapperWithObject
  <2>3. ASSUME NEW o \in Objects, CreateObject(o)
        PROVE  RegistryInv'
    <3>1. /\ heap' = [heap EXCEPT ![o] = "live"] /\ atomId[o] = 0
          /\ pinned' = pinned \cup {o}
          /\ UNCHANGED <<atomId, nextId, weakMap, store>>
      BY <2>3 DEF CreateObject, RegistryInv, stores
    <3> QED
      BY <3>1 DEF RegistryInv, TypeOK
  <2>4. ASSUME NEW o \in Objects, ForgetObject(o)
        PROVE  RegistryInv'
    BY <2>4, RegistryShrink DEF ForgetObject, stores
  <2>5. ASSUME NEW o \in Objects, CollectObject(o)
        PROVE  RegistryInv'
    <3>1. /\ heap' = [heap EXCEPT ![o] = "collected"]
          /\ weakMap' = Drop(weakMap, atomId[o])
          /\ UNCHANGED <<pinned, atomId, nextId, store>>
          /\ o \notin pinned /\ heap[o] = "live"
      BY <2>5 DEF CollectObject, stores
    <3>2. \A v \in Views : \A s \in DOMAIN store[v] : store[v][s] # o
      BY <2>5 DEF CollectObject, Stored
    <3>3. \A i \in DOMAIN weakMap' :
            i \in DOMAIN weakMap /\ i # atomId[o] /\ weakMap'[i] = weakMap[i]
      BY <3>1 DEF Drop
    <3>4. \A i \in DOMAIN weakMap : i # atomId[o] =>
            i \in DOMAIN weakMap' /\ weakMap'[i] = weakMap[i]
      BY <3>1 DEF Drop
    <3>5. \A x \in Objects : x # o /\ heap[x] = "live" /\ atomId[x] # 0 =>
            atomId[x] # atomId[o]
      BY <3>1 DEF RegistryInv
    <3>6. \A x \in Objects : heap'[x] = IF x = o THEN "collected" ELSE heap[x]
      BY <3>1 DEF TypeOK
    <3>7. /\ \A i \in DOMAIN weakMap : weakMap[i] \in Objects
          /\ pinned \subseteq Objects
          /\ \A v \in Views : \A s \in DOMAIN store[v] : store[v][s] \in Objects
      BY DEF TypeOK
    <3>8. \A i \in DOMAIN weakMap' :
            heap'[weakMap'[i]] = "live" /\ atomId'[weakMap'[i]] = i
      BY <3>1, <3>3, <3>6, <3>7 DEF RegistryInv
    <3> QED
      BY <3>1, <3>2, <3>4, <3>5, <3>6, <3>7, <3>8 DEF RegistryInv
  <2> QED
    BY <1>4, <2>1, <2>2, <2>3, <2>4, <2>5 DEF BrowserStep
<1>5. ASSUME NEW v \in Views, ViewStep(v)
      PROVE  RegistryInv'
  <2>1. CASE Navigate(v) \/ RenderProcessGone(v)
    BY <1>1, <2>1 DEF Navigate, RenderProcessGone
  <2>2. CASE RenderViewDeleted(v) \/ WebContentsDestroyed(v)
    <3>1. UNCHANGED registry /\ store' = [store EXCEPT ![v] = EmptyMap]
      BY <2>2 DEF RenderViewDeleted, WebContentsDestroyed, RenderViewGone, Clear
    <3>2. \A u \in Views : \A s \in DOMAIN store'[u] :
            s \in DOMAIN store[u] /\ store'[u][s] = store[u][s]
      BY <3>1 DEF EmptyMap, TypeOK
    <3> QED
      BY <3>1, <3>2, RegistryShrink DEF registry
  <2> QED
    BY <1>5, <2>1, <2>2 DEF ViewStep
<1>6. ASSUME NEW v \in Views, DeferredReply(v)
      PROVE  RegistryInv'
  BY <1>1, <1>6 DEF DeferredReply
<1>7. CASE UNCHANGED vars
  BY <1>1, <1>7 DEF vars
<1> QED
  BY <1>2, <1>3, <1>4, <1>5, <1>6, <1>7 DEF Next

(* ... holds initially ...                                                 *)
LEMMA RegistryInit == Init => RegistryInv
BY DEF Init, RegistryInv, EmptyMap

(* ... and so ids always name live objects and nothing else.               *)
THEOREM RegistryCorrect == Spec => []RegistryInv
<1> QED
  BY RegistryInit, RegistryNext, TypeCorrect, PTL DEF Spec

(* An object has one id, for every number of views and objects.            *)
THEOREM OneId == Spec => []OneIdPerObject
<1>1. RegistryInv => OneIdPerObject
  BY DEF RegistryInv, OneIdPerObject
<1> QED
  BY <1>1, RegistryCorrect, PTL

(* What a step does to the weak map: nothing, one new id above all others, *)
(* or one removal.                                                         *)
LEMMA WeakMapStep ==
  ASSUME TypeOK, [Next]_vars
  PROVE  \/ weakMap' = weakMap
         \/ weakMap' = Put(weakMap, nextId + 1, weakMap'[nextId + 1])
         \/ \E i : weakMap' = Drop(weakMap, i)
<1>1. ASSUME NEW k, NEW o, Add(k, o)
      PROVE  \/ weakMap' = weakMap
             \/ weakMap' = Put(weakMap, nextId + 1, weakMap'[nextId + 1])
  BY <1>1 DEF Add, IdFor, Put
<1>2. ASSUME NEW v \in Views, PageStep(v)
      PROVE  weakMap' = weakMap
  BY <1>2 DEF PageStep, RequireRemote, CallProxy, CallProxyWithCallback, Detach,
     CallMethod, CallMethodAgain, ReceiveReply, ReceiveMessage, DropMessage,
     ReceiveCallback, ReceiveRelease, CollectProxy, DidCreateDocumentElement,
     registry
<1>3. ASSUME NEW v \in Views, HandleMessage(v)
      PROVE  \/ weakMap' = weakMap
             \/ weakMap' = Put(weakMap, nextId + 1, weakMap'[nextId + 1])
  BY <1>1, <1>3 DEF HandleMessage, CallReturnsValue, CallReturnsObject,
     CallReturnsBrokenObject, CallThrowsNothing,
       BrokenObjectAbandons, Abandon, CallOfUnknownId, CallIsDeferred, HandleDereference,
     registry
<1>4. ASSUME NEW v \in Views, ViewStep(v) \/ DeferredReply(v)
      PROVE  weakMap' = weakMap
  BY <1>4 DEF ViewStep, Navigate, RenderViewDeleted, WebContentsDestroyed,
     RenderViewGone, RenderProcessGone, DeferredReply, registry
<1>5. CASE BrowserStep
  BY <1>1, <1>5 DEF BrowserStep, CallWrapper, CollectWrapper,
     CallWrapperWithObject, CreateObject, ForgetObject, CollectObject, registry
<1>6. CASE UNCHANGED vars
  BY <1>6 DEF vars, registry
<1> QED
  BY <1>2, <1>3, <1>4, <1>5, <1>6 DEF Next

(* An id is never given to a second object.                                *)
THEOREM IdsNeverReused == Spec => IdNeverReused
<1>1. ASSUME TypeOK, [Next]_vars, NEW i \in 1 .. nextId, i \in DOMAIN weakMap'
      PROVE  i \in DOMAIN weakMap /\ weakMap'[i] = weakMap[i]
  <2>0. nextId \in Nat
    BY <1>1 DEF TypeOK
  <2>1. i # nextId + 1
    BY <2>0
  <2>2. CASE weakMap' = weakMap
    BY <1>1, <2>2
  <2>3. CASE weakMap' = Put(weakMap, nextId + 1, weakMap'[nextId + 1])
    <3> DEFINE x == weakMap'[nextId + 1]
    <3>1. weakMap' = Put(weakMap, nextId + 1, x)
      BY <2>3
    <3> HIDE DEF x
    <3> QED
      BY <1>1, <2>1, <3>1 DEF Put
  <2>4. CASE \E j : weakMap' = Drop(weakMap, j)
    BY <1>1, <2>4 DEF Drop
  <2> QED
    BY <1>1, <2>2, <2>3, <2>4, WeakMapStep
<1>2. TypeOK /\ [Next]_vars =>
        [\A i \in 1 .. nextId : i \in DOMAIN weakMap' =>
           i \in DOMAIN weakMap /\ weakMap'[i] = weakMap[i]]_vars
  BY <1>1
<1> QED
  BY <1>2, TypeCorrect, PTL DEF Spec, IdNeverReused

-----------------------------------------------------------------------------
(* The views.                                                              *)

(* OwnerInv holds initially.                                               *)
LEMMA OwnerInit == Init => OwnerInv
BY DEF Init, OwnerInv

(* A queue loses its head: the rest was there before.                      *)
LEMMA TailElements ==
  ASSUME NEW S, NEW q \in Seq(S), q # << >>
  PROVE  /\ Tail(q) \in Seq(S) /\ Head(q) = q[1] /\ 1 \in DOMAIN q
         /\ \A i \in DOMAIN Tail(q) : i + 1 \in DOMAIN q /\ Tail(q)[i] = q[i + 1]
OBVIOUS

(* A queue gets one message.                                               *)
LEMMA AppendElements ==
  ASSUME NEW S, NEW q \in Seq(S), NEW m \in S
  PROVE  /\ Append(q, m) \in Seq(S) /\ DOMAIN Append(q, m) = 1 .. (Len(q) + 1)
         /\ DOMAIN q = 1 .. Len(q) /\ Len(q) \in Nat
         /\ \A i \in DOMAIN q : Append(q, m)[i] = q[i]
         /\ Append(q, m)[Len(q) + 1] = m
OBVIOUS

(* A message whose callback is registered keeps it.                        *)
LEMMA OwnerSend ==
  ASSUME TypeOK, OwnerInv, NEW v \in Views, NEW m \in ToBrowser,
         toBrowser' = [toBrowser EXCEPT ![v] = Append(@, m)],
         m.cb # NoCallback => cbOwner'[m.cb] \in Views,
         \A c \in Callbacks : cbOwner[c] \in Views => cbOwner'[c] \in Views,
         UNCHANGED wrapper
  PROVE  OwnerInv'
<1>1. ASSUME NEW u \in Views, NEW i \in DOMAIN toBrowser'[u],
             toBrowser'[u][i].cb # NoCallback
      PROVE  cbOwner'[toBrowser'[u][i].cb] \in Views
  <2>1. toBrowser[u] \in Seq(ToBrowser)
    BY DEF TypeOK
  <2>2. \A j \in DOMAIN toBrowser[u] : toBrowser[u][j].cb \in Callbacks \cup {NoCallback}
    <3>1. \A j \in DOMAIN toBrowser[u] : toBrowser[u][j] \in ToBrowser
      BY <2>1
    <3> QED
      BY <3>1 DEF ToBrowser
  <2>3. toBrowser'[u] = IF u = v THEN Append(toBrowser[u], m) ELSE toBrowser[u]
    BY DEF TypeOK
  <2> QED
    BY <1>1, <2>1, <2>2, <2>3, AppendElements DEF OwnerInv
<1> QED
  BY <1>1 DEF OwnerInv

(* So does a handler that wraps the callback of its message.               *)
LEMMA OwnerTake ==
  ASSUME TypeOK, OwnerInv, NEW v \in Views, NEW kind, Delivered(v, kind),
         TakeCall(v), UNCHANGED cbOwner,
         UNCHANGED wrapper \/ UnwrapArgs(v, Head(toBrowser[v]))
  PROVE  OwnerInv'
<1>1. toBrowser[v] \in Seq(ToBrowser) /\ toBrowser[v] # << >>
  BY DEF TypeOK, Delivered
<1>2. toBrowser' = [toBrowser EXCEPT ![v] = Tail(toBrowser[v])]
  BY DEF TakeCall
<1>3. ASSUME NEW u \in Views, NEW i \in DOMAIN toBrowser'[u],
             toBrowser'[u][i].cb # NoCallback
      PROVE  cbOwner'[toBrowser'[u][i].cb] \in Views
  <2>1. toBrowser'[u] = IF u = v THEN Tail(toBrowser[u]) ELSE toBrowser[u]
    BY <1>2 DEF TypeOK
  <2> QED
    BY <1>1, <1>3, <2>1, TailElements DEF OwnerInv
<1>4. ASSUME NEW c \in Callbacks, wrapper'[c] # "none"
      PROVE  cbOwner'[c] \in Views
  <2>1. CASE UNCHANGED wrapper
    BY <1>4, <2>1 DEF OwnerInv
  <2>2. CASE UnwrapArgs(v, Head(toBrowser[v]))
    BY <1>1, <1>4, <2>2, TailElements DEF OwnerInv, UnwrapArgs, TypeOK
  <2> QED
    BY <2>1, <2>2
<1> QED
  BY <1>3, <1>4 DEF OwnerInv

(* OwnerInv is kept by every step ...                                      *)
LEMMA OwnerNext ==
  ASSUME TypeOK, OwnerInv, [Next]_vars
  PROVE  OwnerInv'
<1>1. ASSUME UNCHANGED <<cbOwner, toBrowser>>,
             \A c \in Callbacks : wrapper[c] = "none" => wrapper'[c] = "none"
      PROVE  OwnerInv'
  BY <1>1 DEF OwnerInv
<1>2. ASSUME NEW v \in Views, PageStep(v)
      PROVE  OwnerInv'
  <2>1. ASSUME NEW m \in ToBrowser, m.cb = NoCallback, SendSync(v, m),
               UNCHANGED <<cbOwner, wrapper>>
        PROVE  OwnerInv'
    BY <2>1, OwnerSend DEF SendSync
  <2>2. \A id, arg \in Nat : /\ Request(id, arg, NoCallback) \in ToBrowser
                             /\ Request(id, arg, NoCallback).cb = NoCallback
    BY MessageTypes DEF Request
  <2>3. CASE RequireRemote(v)
    BY <2>1, <2>2, <2>3 DEF RequireRemote, page, wrappers
  <2>4. ASSUME NEW p \in proxies[v], NEW arg \in {q.id : q \in proxies[v]} \cup {0},
               CallProxy(v, p, arg)
        PROVE  OwnerInv'
    <3>1. p.id \in Nat /\ arg \in Nat
      BY DEF TypeOK, Meta
    <3> QED
      BY <2>1, <2>2, <2>4, <3>1 DEF CallProxy, page, wrappers
  <2>5. ASSUME NEW p \in proxies[v], NEW c \in Callbacks,
               CallProxyWithCallback(v, p, c)
        PROVE  OwnerInv'
    <3> DEFINE m == Request(p.id, 0, c)
    <3>1. p.id \in Nat
      BY DEF TypeOK, Meta
    <3>2. m \in ToBrowser /\ m.cb = c
      BY <3>1, MessageTypes DEF Request
    <3>3. /\ cbOwner' = [cbOwner EXCEPT ![c] = v] /\ SendSync(v, m)
          /\ UNCHANGED wrapper
      BY <2>5 DEF CallProxyWithCallback, wrappers
    <3> HIDE DEF m
    <3>4. /\ m.cb # NoCallback => cbOwner'[m.cb] \in Views
          /\ \A d \in Callbacks : cbOwner[d] \in Views => cbOwner'[d] \in Views
      BY <3>2, <3>3 DEF TypeOK
    <3>5. toBrowser' = [toBrowser EXCEPT ![v] = Append(@, m)]
      BY <3>3 DEF SendSync
    <3> QED
      BY <3>2, <3>3, <3>4, <3>5, OwnerSend
  <2>6. ASSUME NEW p \in methods[v], CallMethod(v, p)
        PROVE  OwnerInv'
    <3>1. p.id \in Nat
      BY DEF TypeOK, Meta
    <3> QED
      BY <2>1, <2>2, <2>6, <3>1 DEF CallMethod, wrappers
  <2>7. ASSUME NEW id \in loose[v], CallMethodAgain(v, id)
        PROVE  OwnerInv'
    <3>1. id \in Nat
      BY DEF TypeOK
    <3> QED
      BY <2>1, <2>2, <2>7, <3>1 DEF CallMethodAgain, page, wrappers
  <2>8. ASSUME NEW p \in proxies[v], CollectProxy(v, p)
        PROVE  OwnerInv'
    <3>1. Dereference(p) \in ToBrowser /\ Dereference(p).cb = NoCallback
      BY MessageTypes DEF Dereference, TypeOK
    <3> QED
      BY <2>8, <3>1, OwnerSend DEF CollectProxy, wrappers
  <2>9. ASSUME NEW p \in proxies[v], Detach(v, p)
        PROVE  OwnerInv'
    BY <1>1, <2>9 DEF Detach, wrappers, channels
  <2>10. CASE ReceiveReply(v) \/ ReceiveMessage(v) \/ DidCreateDocumentElement(v)
    BY <1>1, <2>10 DEF ReceiveReply, ReceiveMessage, DropMessage, ReceiveCallback,
       ReceiveRelease, DidCreateDocumentElement, wrappers, channels, page
  <2> QED
    BY <1>2, <2>3, <2>4, <2>5, <2>6, <2>7, <2>8, <2>9, <2>10 DEF PageStep
<1>3. ASSUME NEW v \in Views, HandleMessage(v)
      PROVE  OwnerInv'
  <2>1. \E kind : Delivered(v, kind) /\ TakeCall(v) /\ UNCHANGED cbOwner
                 /\ (UNCHANGED wrapper \/ UnwrapArgs(v, Head(toBrowser[v])))
    BY <1>3 DEF HandleMessage, CallReturnsValue, CallReturnsObject,
       CallReturnsBrokenObject, CallThrowsNothing,
       BrokenObjectAbandons, Abandon, CallOfUnknownId, CallIsDeferred,
       HandleDereference, page, wrappers
  <2> QED
    BY <2>1, OwnerTake
<1>4. CASE BrowserStep
  BY <1>1, <1>4 DEF BrowserStep, CallWrapper, CollectWrapper, CallWrapperWithObject,
     CreateObject, ForgetObject, CollectObject, page, wrappers, channels, TypeOK
<1>5. ASSUME NEW v \in Views, ViewStep(v) \/ DeferredReply(v)
      PROVE  OwnerInv'
  <2>1. CASE Navigate(v) \/ RenderProcessGone(v) \/ DeferredReply(v)
    BY <1>1, <2>1 DEF Navigate, RenderProcessGone, DeferredReply, wrappers,
       channels, page
  <2>2. CASE RenderViewDeleted(v) \/ WebContentsDestroyed(v)
    <3>1. /\ UNCHANGED cbOwner /\ toBrowser' = [toBrowser EXCEPT ![v] = << >>]
          /\ \A c \in Callbacks : wrapper[c] = "none" => wrapper'[c] = "none"
      BY <2>2 DEF RenderViewDeleted, WebContentsDestroyed, RenderViewGone, Clear
    <3>2. \A u \in Views : toBrowser'[u] = IF u = v THEN << >> ELSE toBrowser[u]
      BY <3>1 DEF TypeOK
    <3> QED
      BY <3>1, <3>2 DEF OwnerInv
  <2> QED
    BY <1>5, <2>1, <2>2 DEF ViewStep
<1>6. CASE UNCHANGED vars
  BY <1>1, <1>6 DEF vars, page, wrappers, channels
<1> QED
  BY <1>2, <1>3, <1>4, <1>5, <1>6 DEF Next

(* ... and so holds in every reachable state.                              *)
LEMMA OwnersCorrect == Spec => []OwnerInv
<1> QED
  BY OwnerInit, OwnerNext, TypeCorrect, PTL DEF Spec

(* ViewInv holds initially.                                                *)
LEMMA ViewInit == Init => ViewInv
BY DEF Init, ViewInv, EmptyMap

(* Steps that leave the views alone add to the store of a current key.     *)
LEMMA ViewKeep ==
  ASSUME ViewInv, UNCHANGED <<life, current>>,
         \A v \in Views : life[v] \in {"unborn", "deleted"} =>
           DOMAIN store'[v] \subseteq DOMAIN store[v]
  PROVE  ViewInv'
BY DEF ViewInv, Key

(* A reference that is added under a current key keeps it.                 *)
LEMMA ViewAdd ==
  ASSUME TypeOK, ViewInv, NEW w \in Contents, NEW o, current[w] # NoView,
         Add(current[w], o), UNCHANGED views
  PROVE  ViewInv'
<1>1. store' = [store EXCEPT ![current[w]] =
                  Put(store[current[w]], storeNext[current[w]] + 1, o)]
  BY DEF Add
<1>2. life[current[w]] = "current"
  BY DEF ViewInv
<1>3. \A v \in Views : life[v] \in {"unborn", "deleted"} => store'[v] = store[v]
  BY <1>1, <1>2 DEF TypeOK
<1> QED
  BY <1>3, ViewKeep DEF views

(* ViewInv is kept by every step ...                                       *)
LEMMA ViewNext ==
  ASSUME TypeOK, OwnerInv, ViewInv, [Next]_vars
  PROVE  ViewInv'
<1>1. ASSUME UNCHANGED <<views, store>>
      PROVE  ViewInv'
  BY <1>1, ViewKeep DEF views
<1>2. ASSUME NEW v \in Views, PageStep(v)
      PROVE  ViewInv'
  <2>1. UNCHANGED <<views, store>>
    BY <1>2 DEF PageStep, RequireRemote, CallProxy, CallProxyWithCallback, Detach,
       CallMethod, CallMethodAgain, ReceiveReply, ReceiveMessage, DropMessage,
       ReceiveCallback, ReceiveRelease, CollectProxy, DidCreateDocumentElement,
       stores
  <2> QED
    BY <1>1, <2>1
<1>3. ASSUME NEW v \in Views, HandleMessage(v)
      PROVE  ViewInv'
  <2>1. ContentsOf[v] \in Contents
    OBVIOUS
  <2>2. ASSUME NEW o \in Objects, NEW kept \in SUBSET Objects,
               CallReturnsObject(v, o, kept)
        PROVE  ViewInv'
    BY <2>1, <2>2, ViewAdd DEF CallReturnsObject, Delivered, Key
  <2>3. ASSUME NEW o \in Objects, CallReturnsBrokenObject(v, o) \/ BrokenObjectAbandons(v, o)
        PROVE  ViewInv'
    BY <2>1, <2>3, ViewAdd DEF CallReturnsBrokenObject, BrokenObjectAbandons, Delivered, Key
  <2>4. ASSUME NEW kept \in SUBSET Objects,
               \/ CallReturnsValue(v, kept) \/ CallThrowsNothing(v, kept)
               \/ CallOfUnknownId(v) \/ CallIsDeferred(v)
        PROVE  ViewInv'
    BY <1>1, <2>4 DEF CallReturnsValue, CallThrowsNothing, CallOfUnknownId, CallIsDeferred,
       stores
  <2>5. CASE HandleDereference(v)
    <3>1. \A u \in Views : DOMAIN store'[u] \subseteq DOMAIN store[u]
      BY <2>5 DEF HandleDereference, Drop, TypeOK
    <3> QED
      BY <2>5, <3>1, ViewKeep DEF HandleDereference, views
  <2> QED
    BY <1>3, <2>2, <2>3, <2>4, <2>5 DEF HandleMessage
<1>4. ASSUME BrowserStep
      PROVE  ViewInv'
  <2>1. ASSUME NEW c \in Callbacks, NEW o \in Objects, CallWrapperWithObject(c, o)
        PROVE  ViewInv'
    <3>1. /\ Add(Sender(c), o) /\ UNCHANGED views /\ Sender(c) # NoView
          /\ Sender(c) = current[ContentsOf[cbOwner[c]]]
      BY <2>1 DEF CallWrapperWithObject, CanPost, Sender, Key
    <3>2. cbOwner[c] \in Views
      BY <2>1 DEF CallWrapperWithObject, OwnerInv
    <3>3. ContentsOf[cbOwner[c]] \in Contents
      BY <3>2
    <3> QED
      BY <3>1, <3>3, ViewAdd
  <2>2. ASSUME NEW c \in Callbacks, CallWrapper(c) \/ CollectWrapper(c)
        PROVE  ViewInv'
    BY <1>1, <2>2 DEF CallWrapper, CollectWrapper, stores
  <2>3. ASSUME NEW o \in Objects,
               CreateObject(o) \/ ForgetObject(o) \/ CollectObject(o)
        PROVE  ViewInv'
    BY <1>1, <2>3 DEF CreateObject, ForgetObject, CollectObject, stores
  <2> QED
    BY <1>4, <2>1, <2>2, <2>3 DEF BrowserStep
<1>5. ASSUME NEW v \in Views, Navigate(v)
      PROVE  ViewInv'
  <2>1. /\ life[v] = "unborn" /\ UNCHANGED store
        /\ \A u \in Views : life'[u] = IF u = v THEN "current"
                             ELSE IF u = Key(v) THEN "swapped" ELSE life[u]
        /\ \A w \in Contents : current'[w] = IF w = ContentsOf[v] THEN v
                                             ELSE current[w]
    BY <1>5 DEF Navigate, stores, TypeOK
  <2>2. \A u \in Views : life'[u] = "current" => Key(u)' = u
    <3> SUFFICES ASSUME NEW u \in Views, life'[u] = "current"
                 PROVE  Key(u)' = u
      OBVIOUS
    <3>1. Key(u)' = IF ContentsOf[u] = ContentsOf[v] THEN v ELSE Key(u)
      BY <2>1 DEF Key
    <3> QED
      BY <2>1, <3>1 DEF ViewInv, Key
  <2>3. \A w \in Contents : current'[w] # NoView =>
          life'[current'[w]] = "current" /\ ContentsOf[current'[w]] = w
    <3> SUFFICES ASSUME NEW w \in Contents, current'[w] # NoView
                 PROVE  life'[current'[w]] = "current" /\ ContentsOf[current'[w]] = w
      OBVIOUS
    <3>1. CASE w = ContentsOf[v]
      BY <2>1, <3>1
    <3>2. CASE w # ContentsOf[v]
      <4>1. /\ current'[w] = current[w] /\ current[w] \in Views
            /\ life[current[w]] = "current" /\ ContentsOf[current[w]] = w
        BY <2>1, <3>2 DEF ViewInv, TypeOK
      <4>2. current[w] # v /\ current[w] # Key(v)
        <5>1. ContentsOf[v] \in Contents
          OBVIOUS
        <5> QED
          BY <2>1, <3>2, <4>1, <5>1 DEF ViewInv, Key
      <4> QED
        BY <2>1, <4>1, <4>2
    <3> QED
      BY <3>1, <3>2
  <2>4. \A u \in Views : life'[u] \in {"unborn", "deleted"} => DOMAIN store'[u] = {}
    BY <2>1 DEF ViewInv
  <2> QED
    BY <2>2, <2>3, <2>4 DEF ViewInv
<1>6. ASSUME NEW v \in Views, RenderViewDeleted(v) \/ WebContentsDestroyed(v)
      PROVE  ViewInv'
  <2>1. /\ life' = [life EXCEPT ![v] = "deleted"]
        /\ store' = [store EXCEPT ![v] = EmptyMap]
    BY <1>6 DEF RenderViewDeleted, WebContentsDestroyed, RenderViewGone, Clear
  <2>2. \A u \in Views : life'[u] \in {"unborn", "deleted"} => DOMAIN store'[u] = {}
    BY <2>1 DEF ViewInv, TypeOK, EmptyMap
  <2>3. CASE RenderViewDeleted(v)
    <3>1. life[v] = "swapped" /\ UNCHANGED current
      BY <2>3 DEF RenderViewDeleted
    <3>2. \A w \in Contents : current[w] # v
      BY <3>1 DEF ViewInv
    <3> QED
      BY <2>1, <2>2, <3>1, <3>2 DEF ViewInv, Key, TypeOK
  <2>4. CASE WebContentsDestroyed(v)
    <3>1. life[v] = "current" /\ current' = [current EXCEPT ![ContentsOf[v]] = NoView]
      BY <2>4 DEF WebContentsDestroyed
    <3>2. Key(v) = v
      BY <3>1 DEF ViewInv
    <3>3. \A u \in Views : life'[u] = "current" => Key(u)' = u
      <4> SUFFICES ASSUME NEW u \in Views, life'[u] = "current" PROVE Key(u)' = u
        OBVIOUS
      <4>1. u # v /\ life[u] = "current" /\ Key(u) = u
        BY <2>1 DEF ViewInv, TypeOK
      <4>2. ContentsOf[u] # ContentsOf[v]
        BY <3>2, <4>1 DEF Key
      <4> QED
        BY <3>1, <4>1, <4>2 DEF Key, TypeOK
    <3>4. \A w \in Contents : current'[w] # NoView =>
            life'[current'[w]] = "current" /\ ContentsOf[current'[w]] = w
      BY <2>1, <3>1, <3>2 DEF ViewInv, Key, TypeOK
    <3> QED
      BY <2>2, <3>3, <3>4 DEF ViewInv
  <2> QED
    BY <1>6, <2>3, <2>4
<1>7. ASSUME NEW v \in Views, RenderProcessGone(v) \/ DeferredReply(v)
      PROVE  ViewInv'
  BY <1>1, <1>7 DEF RenderProcessGone, DeferredReply, stores
<1>8. CASE UNCHANGED vars
  BY <1>1, <1>8 DEF vars, stores
<1> QED
  BY <1>2, <1>3, <1>4, <1>5, <1>6, <1>7, <1>8 DEF Next, ViewStep

(* ... and so getId() names the current view, and views that are gone have *)
(* no store.                                                               *)
THEOREM ViewsCorrect == Spec => []ViewInv
<1> QED
  BY ViewInit, ViewNext, TypeCorrect, OwnersCorrect, PTL DEF Spec

(* A released view never gets a store again, whichever messages come late. *)
THEOREM ReleasedViewsStayEmpty == Spec => []ReleasedViewStaysEmpty
<1>1. ViewInv => ReleasedViewStaysEmpty
  BY DEF ViewInv, ReleasedViewStaysEmpty
<1> QED
  BY <1>1, ViewsCorrect, PTL

-----------------------------------------------------------------------------
(* The references of a page: every storeId is in one place only, and the   *)
(* store holds the object it was made for, until its dereference is        *)
(* handled.  This is what keeps a live proxy's object from being released, *)
(* provided that content does not deliver messages of swapped-out views.   *)

-----------------------------------------------------------------------------
(* Queues of messages, each with the meta data of at most one reference.   *)

Messages(S) == \A m \in S : m.meta \in Meta

(* Both kinds of messages carry meta data.                                 *)
LEMMA ChannelMessages == Messages(ToBrowser) /\ Messages(ToView)
BY DEF Messages, ToBrowser, ToView

(* The references of a queue after a message was sent ...                  *)
LEMMA QueueAppend ==
  ASSUME NEW S, Messages(S), NEW q \in Seq(S), NEW m \in S
  PROVE  /\ Metas(Append(q, m)) = Metas(q) \cup {x \in {m.meta} : x.sid # 0}
         /\ Sids(Append(q, m)) = Sids(q) \cup ({m.meta.sid} \ {0})
         /\ Once(q) /\ m.meta.sid \notin Sids(q) => Once(Append(q, m))
         /\ Tagged(q) /\ (m.kind = "dereference" => m.meta.sid # 0)
              => Tagged(Append(q, m))
<1> DEFINE a == Append(q, m)
<1>1. /\ DOMAIN a = 1 .. (Len(q) + 1) /\ DOMAIN q = 1 .. Len(q) /\ Len(q) \in Nat
      /\ \A i \in DOMAIN q : a[i] = q[i]
      /\ a[Len(q) + 1] = m
  BY AppendElements
<1> HIDE DEF a
<1>2. \A i \in DOMAIN a : i \in DOMAIN q \/ i = Len(q) + 1
  BY <1>1
<1>3. Len(q) + 1 \in DOMAIN a /\ \A i \in DOMAIN q : i \in DOMAIN a
  BY <1>1
<1>4. Metas(a) = Metas(q) \cup {x \in {m.meta} : x.sid # 0}
  BY <1>1, <1>2, <1>3 DEF Metas
<1>5. Sids(a) = Sids(q) \cup ({m.meta.sid} \ {0})
  BY <1>4 DEF Sids
<1>6. Once(q) /\ m.meta.sid \notin Sids(q) => Once(a)
  <2>1. \A i \in DOMAIN q : q[i].meta.sid # 0 => q[i].meta.sid \in Sids(q)
    BY DEF Sids, Metas
  <2> QED
    BY <1>1, <1>2, <2>1 DEF Once
<1>7. Tagged(q) /\ (m.kind = "dereference" => m.meta.sid # 0) => Tagged(a)
  BY <1>1, <1>2 DEF Tagged
<1> QED
  BY <1>4, <1>5, <1>6, <1>7 DEF a

(* ... and after one was received.                                         *)
LEMMA QueueTail ==
  ASSUME NEW S, Messages(S), NEW q \in Seq(S), q # << >>, Once(q)
  PROVE  /\ Metas(Tail(q)) \subseteq Metas(q)
         /\ Sids(Tail(q)) = Sids(q) \ {Head(q).meta.sid}
         /\ Head(q).meta.sid # 0 => /\ Head(q).meta \in Metas(q)
                                    /\ Head(q).meta.sid \in Sids(q)
         /\ Once(Tail(q))
         /\ Tagged(q) => Tagged(Tail(q))
<1> DEFINE t == Tail(q)
<1>1. /\ Head(q) = q[1] /\ 1 \in DOMAIN q
      /\ DOMAIN q = 1 .. Len(q) /\ Len(q) \in Nat
      /\ DOMAIN t = 1 .. (Len(q) - 1)
      /\ \A i \in DOMAIN t : t[i] = q[i + 1]
  OBVIOUS
<1> HIDE DEF t
<1>2. /\ \A i \in DOMAIN t : i + 1 \in DOMAIN q /\ i + 1 # 1
      /\ \A i \in DOMAIN q : i # 1 => i - 1 \in DOMAIN t /\ t[i - 1] = q[i]
  BY <1>1
<1>3. Metas(t) \subseteq Metas(q)
  BY <1>1, <1>2 DEF Metas
<1>4. Head(q).meta.sid # 0 => Head(q).meta \in Metas(q) /\ Head(q).meta.sid \in Sids(q)
  BY <1>1 DEF Metas, Sids
<1>5. Sids(t) = Sids(q) \ {Head(q).meta.sid}
  <2>1. Sids(t) \subseteq Sids(q)
    BY <1>3 DEF Sids
  <2>2. Head(q).meta.sid \notin Sids(t)
    BY <1>1, <1>2, SMTT(30) DEF Sids, Metas, Once
  <2>3. ASSUME NEW s \in Sids(q), s # Head(q).meta.sid
        PROVE  s \in Sids(t)
    <3>1. PICK i \in DOMAIN q : q[i].meta.sid = s /\ s # 0
      BY DEF Sids, Metas
    <3>2. i # 1
      BY <1>1, <2>3, <3>1
    <3>3. i - 1 \in DOMAIN t /\ t[i - 1].meta.sid = s
      BY <1>2, <3>1, <3>2
    <3> QED
      BY <3>1, <3>3 DEF Sids, Metas
  <2> QED
    BY <2>1, <2>2, <2>3
<1>6. Once(t)
  <2> SUFFICES ASSUME NEW i \in DOMAIN t, NEW j \in DOMAIN t,
                      t[i].meta.sid = t[j].meta.sid, t[i].meta.sid # 0
               PROVE  i = j
    BY DEF Once
  <2>1. i + 1 \in DOMAIN q /\ j + 1 \in DOMAIN q /\ i \in Nat /\ j \in Nat
    BY <1>1, <1>2
  <2>2. i + 1 = j + 1
    BY <1>1, <2>1 DEF Once
  <2> QED
    BY <2>1, <2>2
<1>7. Tagged(q) => Tagged(t)
  BY <1>1, <1>2 DEF Tagged
<1> QED
  BY <1>3, <1>4, <1>5, <1>6, <1>7 DEF t

(* An empty queue carries none.                                            *)
LEMMA QueueEmpty ==
  Metas(<< >>) = {} /\ Sids(<< >>) = {} /\ Once(<< >>) /\ Tagged(<< >>)
BY DEF Metas, Sids, Once, Tagged

-----------------------------------------------------------------------------
(* One view: its invariant, and what other steps leave of it.              *)

Ok(v) == /\ Distinct(proxies[v], toView[v], toBrowser[v], reply[v])
         /\ \A m \in References(v) : StoredAs(v, m)

(* The types of what belongs to one view.                                  *)
LEMMA ViewTypes ==
  ASSUME TypeOK, NEW v \in Views
  PROVE  /\ proxies[v] \subseteq Meta /\ reply[v] \in Meta
         /\ toView[v] \in Seq(ToView) /\ toBrowser[v] \in Seq(ToBrowser)
         /\ storeNext[v] \in Nat /\ DOMAIN store[v] \subseteq 1 .. storeNext[v]
         /\ \A s \in DOMAIN store[v] : store[v][s] \in Objects
BY DEF TypeOK

(* The fields of meta data are numbers.                                    *)
LEMMA MetaFields == \A m \in Meta : m.id \in Nat /\ m.sid \in Nat
BY DEF Meta

(* All references of a view are in its store, so the next storeId is new.  *)
LEMMA Fresh ==
  ASSUME TypeOK, NEW v \in Views, Ok(v)
  PROVE  LET s == storeNext[v] + 1 IN
         /\ s # 0 /\ s \notin DOMAIN store[v]
         /\ \A p \in proxies[v] : p.sid # s
         /\ s \notin Sids(toView[v]) \cup Sids(toBrowser[v])
         /\ reply[v].sid # s
<1> DEFINE s == storeNext[v] + 1
<1>1. s # 0 /\ s \notin DOMAIN store[v]
  BY ViewTypes
<1>2. \A m \in References(v) : m.sid # s
  BY <1>1 DEF Ok, StoredAs
<1>3. reply[v].sid # s
  BY <1>1, <1>2 DEF References
<1> QED
  BY <1>1, <1>2, <1>3 DEF References, Sids

(* The store keeps what it has, and ids of stored objects do not change:   *)
(* references that stay are still stored.                                  *)
Stable(v) ==
  /\ \A s \in DOMAIN store[v] : s \in DOMAIN store'[v] /\ store'[v][s] = store[v][s]
  /\ \A s \in DOMAIN store[v] : atomId'[store[v][s]] = atomId[store[v][s]]

(* What is stored stays stored under a stable store.                       *)
LEMMA StayStored ==
  ASSUME NEW v \in Views, Stable(v), NEW m, StoredAs(v, m)
  PROVE  StoredAs(v, m)'
BY DEF StoredAs, Stable

(* A step that leaves a view alone keeps its invariant.                    *)
LEMMA OkFrame ==
  ASSUME NEW v \in Views, Ok(v), Stable(v),
         proxies'[v] = proxies[v], toView'[v] = toView[v],
         toBrowser'[v] = toBrowser[v], reply'[v] = reply[v]
  PROVE  Ok(v)'
<1>1. References(v)' = References(v)
  BY DEF References
<1> QED
  BY <1>1, StayStored DEF Ok

(* References only move or disappear.                                      *)
LEMMA OkMove ==
  ASSUME NEW v \in Views, Ok(v), Stable(v), References(v)' \subseteq References(v),
         Distinct(proxies[v], toView[v], toBrowser[v], reply[v])'
  PROVE  Ok(v)'
BY StayStored DEF Ok

(* ids are set once                                                        *)
LEMMA AddStable ==
  ASSUME TypeOK, RegistryInv, NEW k, NEW o \in Objects, Add(k, o), NEW v \in Views
  PROVE  Stable(v)
<1>1. atomId' = [atomId EXCEPT ![o] = IdFor(o)]
  BY DEF Add
<1>2. \A x \in Objects : atomId[x] # 0 => atomId'[x] = atomId[x]
  BY <1>1 DEF TypeOK, IdFor
<1>3. \A s \in DOMAIN store[v] : atomId'[store[v][s]] = atomId[store[v][s]]
  BY <1>2, ViewTypes DEF RegistryInv
<1>4. store' = [store EXCEPT ![k] = Put(store[k], storeNext[k] + 1, o)]
  BY DEF Add
<1>5. \A s \in DOMAIN store[v] : s \in DOMAIN store'[v] /\ store'[v][s] = store[v][s]
  <2>1. CASE v = k
    <3>1. store'[v] = Put(store[v], storeNext[v] + 1, o)
      BY <1>4, <2>1 DEF TypeOK
    <3>2. storeNext[v] + 1 \notin DOMAIN store[v]
      BY ViewTypes
    <3> QED
      BY <3>1, <3>2 DEF Put
  <2>2. CASE v # k
    BY <1>4, <2>2 DEF TypeOK
  <2> QED
    BY <2>1, <2>2
<1> QED
  BY <1>3, <1>5 DEF Stable

(* ObjectsRegistry::add stores what its meta data says.                    *)
LEMMA AddStores ==
  ASSUME TypeOK, NEW k \in Views, NEW o \in Objects, Add(k, o),
         NEW m, m = MetaFor(k, o)
  PROVE  StoredAs(k, m)'
<1>1. m.sid = storeNext[k] + 1 /\ m.id = IdFor(o)
  BY DEF MetaFor
<1>2. store'[k] = Put(store[k], storeNext[k] + 1, o) /\ atomId'[o] = IdFor(o)
  BY DEF Add, TypeOK
<1> QED
  BY <1>1, <1>2 DEF StoredAs, Put

-----------------------------------------------------------------------------
(* The steps of a page.                                                    *)

(* A call is appended to the messages of v, nothing else moves.            *)
LEMMA OkSend ==
  ASSUME TypeOK, NEW v \in Views, Ok(v), UNCHANGED <<registry, stores>>,
         NEW m \in ToBrowser, m.meta = Plain, m.kind = "call", SendSync(v, m),
         proxies' = proxies
  PROVE  \A u \in Views : Ok(u) => Ok(u)'
<1>1. /\ toBrowser' = [toBrowser EXCEPT ![v] = Append(toBrowser[v], m)]
      /\ UNCHANGED <<toView, reply>>
  BY DEF SendSync
<1>2. \A u \in Views : Stable(u)
  BY DEF Stable, registry, stores
<1>3. toBrowser'[v] = Append(toBrowser[v], m) /\ toBrowser[v] \in Seq(ToBrowser)
  BY <1>1, ViewTypes DEF TypeOK
<1>4. /\ Metas(toBrowser'[v]) = Metas(toBrowser[v])
      /\ Sids(toBrowser'[v]) = Sids(toBrowser[v])
      /\ Once(toBrowser[v]) => Once(toBrowser'[v])
      /\ Tagged(toBrowser[v]) => Tagged(toBrowser'[v])
  <2>1. m.meta.sid = 0
    BY DEF Plain
  <2>2. 0 \notin Sids(toBrowser[v])
    BY DEF Sids, Metas
  <2>3. /\ Metas(toBrowser'[v]) = Metas(toBrowser[v]) \cup {x \in {m.meta} : x.sid # 0}
        /\ Sids(toBrowser'[v]) = Sids(toBrowser[v]) \cup ({m.meta.sid} \ {0})
        /\ Once(toBrowser[v]) /\ m.meta.sid \notin Sids(toBrowser[v]) =>
             Once(toBrowser'[v])
        /\ Tagged(toBrowser[v]) /\ (m.kind = "dereference" => m.meta.sid # 0) =>
             Tagged(toBrowser'[v])
    BY <1>3, QueueAppend, ChannelMessages
  <2>4. {x \in {m.meta} : x.sid # 0} = {} /\ {m.meta.sid} \ {0} = {}
    BY <2>1
  <2> QED
    BY <2>1, <2>2, <2>3, <2>4
<1>5. Ok(v)'
  <2>1. References(v)' = References(v)
    BY <1>1, <1>4 DEF References
  <2>2. Distinct(proxies[v], toView[v], toBrowser[v], reply[v])'
    BY <1>1, <1>4 DEF Ok, Distinct
  <2> QED
    BY <1>2, <2>1, <2>2, OkMove
<1>6. ASSUME NEW u \in Views, u # v, Ok(u)
      PROVE  Ok(u)'
  <2>1. toBrowser'[u] = toBrowser[u]
    BY <1>1, <1>6 DEF TypeOK
  <2> QED
    BY <1>1, <1>2, <1>6, <2>1, OkFrame
<1> QED
  BY <1>5, <1>6

(* Steps of a page keep ReferenceInv.                                      *)
LEMMA ReferencePageStep ==
  ASSUME TypeOK, ReferenceInv, NEW v \in Views, PageStep(v)
  PROVE  ReferenceInv'
<1> SUFFICES \A u \in Views : Ok(u) => Ok(u)'
  BY DEF ReferenceInv, Ok
<1>0. Ok(v)
  BY DEF ReferenceInv, Ok
<1>1. UNCHANGED <<registry, stores>> /\ \A u \in Views : Stable(u)
  <2>1. UNCHANGED <<registry, stores>>
    BY DEF PageStep, RequireRemote, CallProxy, CallProxyWithCallback, Detach,
       CallMethod, CallMethodAgain, ReceiveReply, ReceiveMessage, DropMessage,
       ReceiveCallback, ReceiveRelease, CollectProxy, DidCreateDocumentElement
  <2> QED
    BY <2>1 DEF Stable, registry, stores
<1>2. ASSUME NEW id \in Nat, NEW arg \in Nat, NEW c \in Callbacks \cup {NoCallback},
             SendSync(v, Request(id, arg, c)), proxies' = proxies
      PROVE  \A u \in Views : Ok(u) => Ok(u)'
  <2>1. /\ Request(id, arg, c) \in ToBrowser
        /\ Request(id, arg, c).meta = Plain /\ Request(id, arg, c).kind = "call"
    BY MessageTypes DEF Request
  <2> QED
    BY <1>0, <1>1, <1>2, <2>1, OkSend
<1>3. CASE RequireRemote(v)
  BY <1>2, <1>3 DEF RequireRemote, page
<1>4. ASSUME NEW p \in proxies[v], NEW arg \in {q.id : q \in proxies[v]} \cup {0},
             CallProxy(v, p, arg)
      PROVE  \A u \in Views : Ok(u) => Ok(u)'
  <2>1. p.id \in Nat /\ arg \in Nat
    BY ViewTypes, MetaFields
  <2> QED
    BY <1>2, <1>4, <2>1 DEF CallProxy, page
<1>5. ASSUME NEW p \in proxies[v], NEW c \in Callbacks,
             CallProxyWithCallback(v, p, c)
      PROVE  \A u \in Views : Ok(u) => Ok(u)'
  <2>1. p.id \in Nat
    BY ViewTypes, MetaFields
  <2> QED
    BY <1>2, <1>5, <2>1 DEF CallProxyWithCallback
<1>6. ASSUME NEW p \in methods[v], CallMethod(v, p)
      PROVE  \A u \in Views : Ok(u) => Ok(u)'
  <2>1. p.id \in Nat
    BY DEF TypeOK, Meta
  <2> QED
    BY <1>2, <1>6, <2>1 DEF CallMethod
<1>7. ASSUME NEW id \in loose[v], CallMethodAgain(v, id)
      PROVE  \A u \in Views : Ok(u) => Ok(u)'
  <2>1. id \in Nat
    BY DEF TypeOK
  <2> QED
    BY <1>2, <1>7, <2>1 DEF CallMethodAgain, page
<1>8. ASSUME UNCHANGED <<proxies, toView, toBrowser, reply>>
      PROVE  \A u \in Views : Ok(u) => Ok(u)'
  BY <1>1, <1>8, OkFrame
<1>9. ASSUME NEW p \in proxies[v], Detach(v, p)
      PROVE  \A u \in Views : Ok(u) => Ok(u)'
  BY <1>8, <1>9 DEF Detach, channels
<1>10. CASE DidCreateDocumentElement(v)
  BY <1>8, <1>10 DEF DidCreateDocumentElement, channels
<1>11. CASE ReceiveReply(v)
  <2>1. /\ reply' = [reply EXCEPT ![v] = Plain]
        /\ proxies' = [proxies EXCEPT ![v] =
              IF reply[v].sid = 0 THEN proxies[v] ELSE proxies[v] \cup {reply[v]}]
        /\ UNCHANGED <<toBrowser, toView>>
    BY <1>11 DEF ReceiveReply
  <2>2. /\ reply'[v] = Plain /\ Plain.sid = 0
        /\ proxies'[v] = IF reply[v].sid = 0 THEN proxies[v]
                                             ELSE proxies[v] \cup {reply[v]}
    BY <2>1 DEF TypeOK, Plain
  <2>3. References(v)' \subseteq References(v)
    BY <2>1, <2>2 DEF References
  <2>4. 0 \notin Sids(toView[v]) \cup Sids(toBrowser[v])
    BY DEF Sids, Metas
  <2>5. Distinct(proxies[v], toView[v], toBrowser[v], reply[v])'
    BY <1>0, <2>1, <2>2, <2>4 DEF Ok, Distinct
  <2>6. Ok(v)'
    BY <1>0, <1>1, <2>3, <2>5, OkMove
  <2>7. ASSUME NEW u \in Views, u # v, Ok(u)
        PROVE  Ok(u)'
    <3>1. reply'[u] = reply[u] /\ proxies'[u] = proxies[u]
      BY <2>1, <2>7 DEF TypeOK
    <3> QED
      BY <1>1, <2>1, <2>7, <3>1, OkFrame
  <2> QED
    BY <2>6, <2>7
<1>12. CASE ReceiveMessage(v)
  <2> DEFINE h == Head(toView[v])
  <2>1. /\ toView[v] # << >> /\ toView' = [toView EXCEPT ![v] = Tail(toView[v])]
        /\ UNCHANGED <<toBrowser, reply>>
        /\ \/ proxies' = proxies
           \/ h.meta.sid # 0 /\ proxies' = [proxies EXCEPT ![v] =
                                              proxies[v] \cup {h.meta}]
    BY <1>12 DEF ReceiveMessage, DropMessage, ReceiveCallback, ReceiveRelease, page, TypeOK
  <2>2. /\ toView'[v] = Tail(toView[v])
        /\ \/ proxies'[v] = proxies[v]
           \/ h.meta.sid # 0 /\ proxies'[v] = proxies[v] \cup {h.meta}
    BY <2>1 DEF TypeOK
  <2>3. /\ Metas(toView'[v]) \subseteq Metas(toView[v])
        /\ Sids(toView'[v]) = Sids(toView[v]) \ {h.meta.sid}
        /\ h.meta.sid # 0 => /\ h.meta \in Metas(toView[v])
                             /\ h.meta.sid \in Sids(toView[v])
        /\ Once(toView'[v])
    BY <1>0, <2>1, <2>2, ViewTypes, ChannelMessages, QueueTail DEF Ok, Distinct
  <2> HIDE DEF h
  <2>4. References(v)' \subseteq References(v)
    BY <2>1, <2>2, <2>3 DEF References
  <2>5. Distinct(proxies[v], toView[v], toBrowser[v], reply[v])'
    BY <1>0, <2>1, <2>2, <2>3 DEF Ok, Distinct
  <2>6. Ok(v)'
    BY <1>0, <1>1, <2>4, <2>5, OkMove
  <2>7. ASSUME NEW u \in Views, u # v, Ok(u)
        PROVE  Ok(u)'
    <3>1. toView'[u] = toView[u] /\ proxies'[u] = proxies[u]
      BY <2>1, <2>7 DEF TypeOK
    <3> QED
      BY <1>1, <2>1, <2>7, <3>1, OkFrame
  <2> QED
    BY <2>6, <2>7
<1>13. ASSUME NEW p \in proxies[v], CollectProxy(v, p)
       PROVE  \A u \in Views : Ok(u) => Ok(u)'
  <2> DEFINE m == Dereference(p)
  <2>1. /\ proxies' = [proxies EXCEPT ![v] = proxies[v] \ {p}]
        /\ toBrowser' = [toBrowser EXCEPT ![v] = Append(toBrowser[v], m)]
        /\ UNCHANGED <<toView, reply>>
    BY <1>13 DEF CollectProxy
  <2>2. m \in ToBrowser /\ m.meta = p
    BY MessageTypes, ViewTypes DEF Dereference
  <2> HIDE DEF m
  <2>3. proxies'[v] = proxies[v] \ {p} /\ toBrowser'[v] = Append(toBrowser[v], m)
    BY <2>1 DEF TypeOK
  <2>4. p.sid # 0 /\ p.sid \notin Sids(toBrowser[v])
    BY <1>0 DEF Ok, Distinct
  <2>5. /\ Metas(toBrowser'[v]) = Metas(toBrowser[v]) \cup {p}
        /\ Sids(toBrowser'[v]) = Sids(toBrowser[v]) \cup {p.sid}
        /\ Once(toBrowser'[v]) /\ Tagged(toBrowser'[v])
    BY <1>0, <2>2, <2>3, <2>4, QueueAppend, ChannelMessages, ViewTypes DEF Ok, Distinct
  <2>6. References(v)' \subseteq References(v)
    BY <2>1, <2>3, <2>5 DEF References
  <2>7. Distinct(proxies[v], toView[v], toBrowser[v], reply[v])'
    BY <1>0, <2>1, <2>3, <2>4, <2>5 DEF Ok, Distinct
  <2>8. Ok(v)'
    BY <1>0, <1>1, <2>6, <2>7, OkMove
  <2>9. ASSUME NEW u \in Views, u # v, Ok(u)
        PROVE  Ok(u)'
    <3>1. toBrowser'[u] = toBrowser[u] /\ proxies'[u] = proxies[u]
      BY <2>1, <2>9 DEF TypeOK
    <3> QED
      BY <1>1, <2>1, <2>9, <3>1, OkFrame
  <2> QED
    BY <2>8, <2>9
<1> QED
  BY <1>3, <1>4, <1>5, <1>6, <1>7, <1>9, <1>10, <1>11, <1>12, <1>13 DEF PageStep

-----------------------------------------------------------------------------
(* The steps of the browser.                                               *)

(* A message of v is taken; what the page holds does not grow, but for the *)
(* reply, which is plain or new.                                           *)
LEMMA OkTake ==
  ASSUME TypeOK, NEW v \in Views, Ok(v), NEW kind, Delivered(v, kind), TakeCall(v)
  PROVE  /\ Metas(toBrowser'[v]) \subseteq Metas(toBrowser[v])
         /\ Sids(toBrowser'[v]) = Sids(toBrowser[v]) \ {Head(toBrowser[v]).meta.sid}
         /\ Once(toBrowser'[v]) /\ Tagged(toBrowser'[v])
         /\ Head(toBrowser[v]).meta.sid # 0 =>
              Head(toBrowser[v]).meta.sid \in Sids(toBrowser[v])
         /\ \A u \in Views : u # v => toBrowser'[u] = toBrowser[u]
<1>1. toBrowser[v] # << >> /\ toBrowser' = [toBrowser EXCEPT ![v] = Tail(toBrowser[v])]
  BY DEF Delivered, TakeCall
<1>2. toBrowser'[v] = Tail(toBrowser[v]) /\ \A u \in Views : u # v => toBrowser'[u] = toBrowser[u]
  BY <1>1 DEF TypeOK
<1> QED
  BY <1>1, <1>2, ViewTypes, ChannelMessages, QueueTail DEF Ok, Distinct

(* The call was handled without a new reference.                           *)
LEMMA OkCallPlain ==
  ASSUME TypeOK, ReferenceInv, NEW v \in Views, Delivered(v, "call"), TakeCall(v),
         \A u \in Views : Stable(u),
         UNCHANGED <<proxies, toView>>,
         \A u \in Views : reply'[u] = reply[u] \/ reply'[u] = Plain
  PROVE  ReferenceInv'
<1>1. ASSUME NEW u \in Views
      PROVE  Ok(u)'
  <2>1. Ok(u) /\ Ok(v)
    BY DEF ReferenceInv, Ok
  <2>2. Plain.sid = 0 /\ 0 \notin Sids(toView[u]) \cup Sids(toBrowser[u])
    BY DEF Plain, Sids, Metas
  <2>3. /\ Metas(toBrowser'[u]) \subseteq Metas(toBrowser[u])
        /\ Sids(toBrowser'[u]) \subseteq Sids(toBrowser[u])
        /\ Once(toBrowser'[u]) /\ Tagged(toBrowser'[u])
    BY <2>1, OkTake DEF Ok, Distinct
  <2>4. References(u)' \subseteq References(u)
    BY <2>2, <2>3 DEF References
  <2>5. Distinct(proxies[u], toView[u], toBrowser[u], reply[u])'
    BY <2>1, <2>2, <2>3 DEF Ok, Distinct
  <2> QED
    BY <2>1, <2>4, <2>5, OkMove
<1> QED
  BY <1>1 DEF ReferenceInv, Ok

(* Adding an object to the store of v gives a reference that is new.       *)
LEMMA AddFresh ==
  ASSUME TypeOK, NEW v \in Views, Ok(v), NEW o \in Objects, NEW m, m = MetaFor(v, o)
  PROVE  /\ m.sid # 0 /\ m.sid \notin Sids(toView[v]) \cup Sids(toBrowser[v])
         /\ \A p \in proxies[v] : p.sid # m.sid
         /\ reply[v].sid # m.sid
<1>1. m.sid = storeNext[v] + 1
  BY DEF MetaFor
<1> QED
  BY <1>1, Fresh

(* The call was handled by adding an object to the store of v's key.       *)
LEMMA OkCallObject ==
  ASSUME TypeOK, RegistryInv, ReferenceInv, NEW v \in Views,
         Delivered(v, "call"), TakeCall(v), UNCHANGED <<proxies, toView>>,
         NEW o \in Objects, NEW k, k = Key(v), Add(k, o),
         NEW m, m = MetaFor(k, o), Answer(v, m)
  PROVE  ReferenceInv'
<1>1. \A u \in Views : Stable(u) /\ Ok(u)
  BY AddStable DEF ReferenceInv, Ok
<1>2. CASE k # v \/ ~up[v]
  <2>1. reply' = reply
    BY <1>2 DEF Answer
  <2> QED
    BY <1>1, <2>1, OkCallPlain
<1>3. CASE k = v /\ up[v]
  <2>1. reply' = [reply EXCEPT ![v] = m]
    BY <1>3 DEF Answer
  <2>2. reply'[v] = m /\ \A u \in Views : u # v => reply'[u] = reply[u]
    BY <2>1 DEF TypeOK
  <2>3. StoredAs(v, m)'
    BY <1>3, AddStores
  <2>4. /\ Metas(toBrowser'[v]) \subseteq Metas(toBrowser[v])
        /\ Sids(toBrowser'[v]) \subseteq Sids(toBrowser[v])
        /\ Once(toBrowser'[v]) /\ Tagged(toBrowser'[v])
        /\ \A u \in Views : u # v => toBrowser'[u] = toBrowser[u]
    BY <1>1, OkTake
  <2>5. References(v)' \subseteq References(v) \cup {m}
    BY <2>2, <2>4 DEF References
  <2>6. \A x \in References(v)' : StoredAs(v, x)'
    BY <1>1, <2>3, <2>5, StayStored DEF Ok
  <2>7. /\ m.sid # 0 /\ m.sid \notin Sids(toView[v]) \cup Sids(toBrowser[v])
        /\ \A p \in proxies[v] : p.sid # m.sid
    BY <1>1, <1>3, AddFresh
  <2>8. Distinct(proxies[v], toView[v], toBrowser[v], reply[v])'
    BY <1>1, <2>2, <2>4, <2>7 DEF Ok, Distinct
  <2>9. Ok(v)'
    BY <2>6, <2>8 DEF Ok
  <2>10. ASSUME NEW u \in Views, u # v
         PROVE  Ok(u)'
    BY <1>1, <2>2, <2>4, <2>10, OkFrame
  <2> QED
    BY <2>9, <2>10 DEF ReferenceInv, Ok
<1> QED
  BY <1>2, <1>3

(* Handlers of the browser keep it.                                        *)
LEMMA ReferenceHandleMessage ==
  ASSUME TypeOK, RegistryInv, ViewInv, ReferenceInv, ~LateMessages,
         NEW v \in Views, HandleMessage(v)
  PROVE  ReferenceInv'
<1>0. Plain.sid = 0 /\ Plain \in Meta
  BY DEF Plain, Meta
<1>1. ASSUME UNCHANGED <<registry, stores, proxies>>, Delivered(v, "call"),
             TakeCall(v), Answer(v, Plain)
      PROVE  ReferenceInv'
  <2>1. \A u \in Views : Stable(u)
    BY <1>1 DEF Stable, registry, stores
  <2>2. toView' = toView /\ \A u \in Views : reply'[u] = reply[u] \/ reply'[u] = Plain
    BY <1>1 DEF Answer, TypeOK
  <2> QED
    BY <1>1, <2>1, <2>2, OkCallPlain
<1>2. ASSUME NEW kept \in SUBSET Objects, CallReturnsValue(v, kept)
      PROVE  ReferenceInv'
  <2>1. /\ UNCHANGED <<atomId, store, proxies>> /\ Delivered(v, "call")
        /\ TakeCall(v) /\ Answer(v, Plain)
    BY <1>2 DEF CallReturnsValue, stores, page
  <2>2. \A u \in Views : Stable(u)
    BY <2>1 DEF Stable
  <2>3. toView' = toView /\ \A u \in Views : reply'[u] = reply[u] \/ reply'[u] = Plain
    BY <2>1 DEF Answer, TypeOK
  <2> QED
    BY <2>1, <2>2, <2>3, OkCallPlain
<1>3. CASE CallOfUnknownId(v)
  BY <1>1, <1>3 DEF CallOfUnknownId, page
<1>4. CASE CallIsDeferred(v)
  <2>1. /\ UNCHANGED <<atomId, store, proxies, toView, reply>>
        /\ Delivered(v, "call") /\ TakeCall(v)
    BY <1>4 DEF CallIsDeferred, registry, stores, page
  <2>2. \A u \in Views : Stable(u)
    BY <2>1 DEF Stable
  <2> QED
    BY <2>1, <2>2, OkCallPlain
<1>8. ASSUME NEW kept \in SUBSET Objects, CallThrowsNothing(v, kept)
      PROVE  ReferenceInv'
  <2>1. /\ UNCHANGED <<atomId, store, proxies, toView, reply>>
        /\ Delivered(v, "call") /\ TakeCall(v)
    BY <1>8 DEF CallThrowsNothing, Abandon, stores, page
  <2>2. \A u \in Views : Stable(u)
    BY <2>1 DEF Stable
  <2> QED
    BY <2>1, <2>2, OkCallPlain
<1>5. ASSUME NEW o \in Objects, CallReturnsBrokenObject(v, o) \/ BrokenObjectAbandons(v, o)
      PROVE  ReferenceInv'
  <2>1. /\ Add(Key(v), o) /\ UNCHANGED <<proxies, toView, reply>>
        /\ Delivered(v, "call") /\ TakeCall(v)
    BY <1>5 DEF CallReturnsBrokenObject, BrokenObjectAbandons, Abandon, page
  <2>2. PICK k : k = Key(v)
    OBVIOUS
  <2>3. \A u \in Views : Stable(u)
    BY <2>1, <2>2, AddStable
  <2> QED
    BY <2>1, <2>3, OkCallPlain
<1>6. ASSUME NEW o \in Objects, NEW kept \in SUBSET Objects,
             CallReturnsObject(v, o, kept)
      PROVE  ReferenceInv'
  <2>1. PICK k : k = Key(v)
    OBVIOUS
  <2>2. PICK m : m = MetaFor(k, o)
    OBVIOUS
  <2>3. /\ Delivered(v, "call") /\ TakeCall(v) /\ UNCHANGED <<proxies, toView>>
        /\ Add(k, o) /\ Answer(v, m)
    BY <1>6, <2>1, <2>2 DEF CallReturnsObject, Answer, page
  <2> QED
    BY <2>1, <2>2, <2>3, OkCallObject
<1>7. CASE HandleDereference(v)
  <2> DEFINE s == Head(toBrowser[v]).meta.sid
  <2>1. /\ Delivered(v, "dereference") /\ TakeCall(v)
        /\ UNCHANGED <<proxies, toView, reply, atomId>>
        /\ store' = [store EXCEPT ![Key(v)] = Drop(store[Key(v)], s)]
    BY <1>7 DEF HandleDereference, registry, page
  <2>2. Key(v) = v /\ toBrowser[v] # << >> /\ Head(toBrowser[v]).kind = "dereference"
    BY <2>1 DEF Delivered, ViewInv
  <2>3. Ok(v)
    BY DEF ReferenceInv, Ok
  <2>4. /\ Metas(toBrowser'[v]) \subseteq Metas(toBrowser[v])
        /\ Sids(toBrowser'[v]) = Sids(toBrowser[v]) \ {s}
        /\ Once(toBrowser'[v]) /\ Tagged(toBrowser'[v])
        /\ s # 0 => s \in Sids(toBrowser[v])
        /\ \A u \in Views : u # v => toBrowser'[u] = toBrowser[u]
    BY <2>1, <2>3, OkTake
  <2>5. s # 0
    <3>1. 1 \in DOMAIN toBrowser[v] /\ Head(toBrowser[v]) = toBrowser[v][1]
      BY <2>2, ViewTypes
    <3> QED
      BY <2>2, <2>3, <3>1 DEF Ok, Distinct, Tagged
  <2>6. store'[v] = Drop(store[v], s) /\ \A u \in Views : u # v => store'[u] = store[u]
    BY <2>1, <2>2 DEF TypeOK
  <2> HIDE DEF s
  <2>7. References(v)' \subseteq References(v)
    BY <2>1, <2>4 DEF References
  <2>8. \A m \in References(v)' : m.sid # s
    <3>1. \A p \in proxies[v] : p.sid # s
      BY <2>3, <2>4, <2>5 DEF Ok, Distinct
    <3>2. \A m \in Metas(toView[v]) : m.sid # s
      BY <2>3, <2>4, <2>5 DEF Ok, Distinct, Sids
    <3>3. \A m \in Metas(toBrowser'[v]) : m.sid # s
      BY <2>4 DEF Sids
    <3>4. reply[v].sid # s
      BY <2>3, <2>4, <2>5 DEF Ok, Distinct
    <3> QED
      BY <2>1, <3>1, <3>2, <3>3, <3>4 DEF References
  <2>9. \A m \in References(v)' : StoredAs(v, m)'
    BY <2>1, <2>3, <2>6, <2>7, <2>8 DEF Ok, StoredAs, Drop
  <2>10. Distinct(proxies[v], toView[v], toBrowser[v], reply[v])'
    BY <2>1, <2>3, <2>4 DEF Ok, Distinct
  <2>11. ASSUME NEW u \in Views, u # v
         PROVE  Ok(u)'
    <3>1. Ok(u) /\ Stable(u)
      BY <2>1, <2>6, <2>11 DEF ReferenceInv, Ok, Stable
    <3> QED
      BY <2>1, <2>4, <2>11, <3>1, OkFrame
  <2> QED
    BY <2>9, <2>10, <2>11 DEF ReferenceInv, Ok
<1> QED
  BY <1>2, <1>3, <1>4, <1>5, <1>6, <1>7, <1>8 DEF HandleMessage

(* A message with a new reference, or with none, is posted to view k.      *)
LEMMA OkPost ==
  ASSUME TypeOK, ReferenceInv, NEW k \in Views, NEW m \in ToView, Post(k, m),
         UNCHANGED <<proxies, toBrowser, reply>>,
         \A u \in Views : Stable(u),
         m.meta.sid # 0 =>
           /\ StoredAs(k, m.meta)'
           /\ m.meta.sid \notin Sids(toView[k]) \cup Sids(toBrowser[k])
           /\ \A p \in proxies[k] : p.sid # m.meta.sid
           /\ reply[k].sid # m.meta.sid
  PROVE  ReferenceInv'
<1>0. \A u \in Views : Ok(u)
  BY DEF ReferenceInv, Ok
<1>1. CASE ~up[k]
  <2>1. toView' = toView
    BY <1>1 DEF Post
  <2> QED
    BY <1>0, <2>1, OkFrame DEF ReferenceInv, Ok
<1>2. CASE up[k]
  <2>1. /\ toView'[k] = Append(toView[k], m)
        /\ \A u \in Views : u # k => toView'[u] = toView[u]
    BY <1>2 DEF Post, TypeOK
  <2>2. /\ Metas(toView'[k]) = Metas(toView[k]) \cup {x \in {m.meta} : x.sid # 0}
        /\ Sids(toView'[k]) = Sids(toView[k]) \cup ({m.meta.sid} \ {0})
        /\ Once(toView[k]) /\ m.meta.sid \notin Sids(toView[k]) => Once(toView'[k])
    BY <2>1, ViewTypes, ChannelMessages, QueueAppend
  <2>3. 0 \notin Sids(toView[k])
    BY DEF Sids, Metas
  <2>4. References(k)' \subseteq References(k) \cup {x \in {m.meta} : x.sid # 0}
    BY <2>2 DEF References
  <2>5. \A x \in References(k)' : StoredAs(k, x)'
    BY <1>0, <2>4, StayStored DEF Ok
  <2>6. Distinct(proxies[k], toView[k], toBrowser[k], reply[k])'
    BY <1>0, <2>2, <2>3 DEF Ok, Distinct
  <2>7. ASSUME NEW u \in Views, u # k
        PROVE  Ok(u)'
    BY <1>0, <2>1, <2>7, OkFrame
  <2> QED
    BY <2>5, <2>6, <2>7 DEF ReferenceInv, Ok
<1> QED
  BY <1>1, <1>2

(* Wrappers, the application and the collector keep it.                    *)
LEMMA ReferenceBrowserStep ==
  ASSUME TypeOK, RegistryInv, OwnerInv, ReferenceInv, BrowserStep
  PROVE  ReferenceInv'
<1>0. Plain.sid = 0 /\ Plain \in Meta
  BY DEF Plain, Meta
<1>1. ASSUME UNCHANGED <<atomId, store, proxies, toView, toBrowser, reply>>
      PROVE  ReferenceInv'
  <2>1. \A u \in Views : Ok(u) /\ Stable(u)
    BY <1>1 DEF ReferenceInv, Ok, Stable
  <2> QED
    BY <1>1, <2>1, OkFrame DEF ReferenceInv, Ok
<1>2. ASSUME NEW c \in Callbacks, NEW kind \in {"callback", "release"},
             wrapper[c] = "live", Sender(c) # NoView,
             Post(Sender(c), [kind |-> kind, cb |-> c, meta |-> Plain]),
             UNCHANGED <<atomId, store, proxies, toBrowser, reply>>
      PROVE  ReferenceInv'
  <2>1. PICK k : k = Sender(c)
    OBVIOUS
  <2>2. k \in Views
    BY <1>2, <2>1 DEF Sender, Key, OwnerInv, TypeOK
  <2>3. PICK m : m = [kind |-> kind, cb |-> c, meta |-> Plain]
    OBVIOUS
  <2>4. m \in ToView /\ m.meta.sid = 0
    BY <1>0, <2>3 DEF ToView
  <2>5. \A u \in Views : Stable(u)
    BY <1>2 DEF Stable
  <2>6. Post(k, m)
    BY <1>2, <2>1, <2>3
  <2> QED
    BY <1>2, <2>2, <2>4, <2>5, <2>6, OkPost
<1>3. ASSUME NEW c \in Callbacks, CallWrapper(c)
      PROVE  ReferenceInv'
  BY <1>2, <1>3 DEF CallWrapper, CanPost, registry, stores, page
<1>4. ASSUME NEW c \in Callbacks, CollectWrapper(c)
      PROVE  ReferenceInv'
  <2>1. UNCHANGED <<atomId, store, proxies, toBrowser, reply>>
    BY <1>4 DEF CollectWrapper, registry, stores, page
  <2>2. CASE wrapper[c] = "live" /\ Sender(c) # NoView
    BY <1>2, <1>4, <2>1, <2>2 DEF CollectWrapper
  <2>3. CASE ~(wrapper[c] = "live" /\ Sender(c) # NoView)
    BY <1>1, <1>4, <2>1, <2>3 DEF CollectWrapper
  <2> QED
    BY <2>2, <2>3
<1>5. ASSUME NEW c \in Callbacks, NEW o \in Objects, CallWrapperWithObject(c, o)
      PROVE  ReferenceInv'
  <2>1. PICK k : k = Sender(c)
    OBVIOUS
  <2>2. k \in Views
    BY <1>5, <2>1 DEF CallWrapperWithObject, CanPost, Sender, Key, OwnerInv, TypeOK
  <2>3. PICK x : x = MetaFor(k, o)
    OBVIOUS
  <2>4. PICK m : m = [kind |-> "callback", cb |-> c, meta |-> x]
    OBVIOUS
  <2>5. Add(k, o) /\ Post(k, m) /\ UNCHANGED <<proxies, toBrowser, reply>>
    BY <1>5, <2>1, <2>3, <2>4 DEF CallWrapperWithObject, page
  <2>6. x \in Meta
    BY <2>2, <2>3 DEF MetaFor, IdFor, Meta, TypeOK
  <2>7. m \in ToView /\ m.meta = x
    BY <2>4, <2>6 DEF ToView
  <2>8. \A u \in Views : Ok(u) /\ Stable(u)
    BY <2>5, AddStable DEF ReferenceInv, Ok
  <2>9. StoredAs(k, x)'
    BY <2>2, <2>3, <2>5, AddStores
  <2>10. /\ x.sid \notin Sids(toView[k]) \cup Sids(toBrowser[k])
         /\ \A p \in proxies[k] : p.sid # x.sid
         /\ reply[k].sid # x.sid
    BY <2>2, <2>3, <2>8, AddFresh
  <2>11. StoredAs(k, m.meta)'
    BY <2>7, <2>9
  <2> QED
    BY <2>2, <2>5, <2>7, <2>8, <2>10, <2>11, OkPost
<1>6. ASSUME NEW o \in Objects, CreateObject(o) \/ ForgetObject(o) \/ CollectObject(o)
      PROVE  ReferenceInv'
  BY <1>1, <1>6 DEF CreateObject, ForgetObject, CollectObject, stores, page, channels
<1> QED
  BY <1>3, <1>4, <1>5, <1>6 DEF BrowserStep

-----------------------------------------------------------------------------
(* The steps of the views.                                                 *)

(* Nothing is shared by nothing.                                           *)
LEMMA DistinctEmpty == Distinct({}, << >>, << >>, Plain)
BY QueueEmpty DEF Distinct, Plain

(* Views that come and go keep it.                                         *)
LEMMA ReferenceViewStep ==
  ASSUME TypeOK, ReferenceInv, NEW v \in Views, ViewStep(v)
  PROVE  ReferenceInv'
<1>0. \A u \in Views : Ok(u)
  BY DEF ReferenceInv, Ok
<1>1. CASE Navigate(v)
  <2>1. /\ UNCHANGED <<proxies, toView, toBrowser, reply>>
        /\ \A u \in Views : Stable(u)
    BY <1>1 DEF Navigate, registry, stores, channels, Stable
  <2> QED
    BY <1>0, <2>1, OkFrame DEF ReferenceInv, Ok
<1>2. ASSUME ForgetPage(v)
      PROVE  /\ proxies'[v] = {} /\ toView'[v] = << >> /\ reply'[v] = Plain
             /\ \A u \in Views : u # v => /\ proxies'[u] = proxies[u]
                                        /\ toView'[u] = toView[u]
                                        /\ reply'[u] = reply[u]
  BY <1>2 DEF ForgetPage, TypeOK
<1>3. CASE RenderProcessGone(v)
  <2>1. ForgetPage(v) /\ UNCHANGED toBrowser /\ \A u \in Views : Stable(u)
    BY <1>3 DEF RenderProcessGone, registry, stores, Stable
  <2>2. Plain.sid = 0 /\ 0 \notin Sids(toBrowser[v])
    BY DEF Plain, Sids, Metas
  <2>3. References(v)' \subseteq References(v)
    BY <1>2, <2>1, <2>2, QueueEmpty DEF References
  <2>4. Distinct(proxies[v], toView[v], toBrowser[v], reply[v])'
    BY <1>0, <1>2, <2>1, <2>2, QueueEmpty DEF Ok, Distinct
  <2>5. Ok(v)'
    BY <1>0, <2>1, <2>3, <2>4, OkMove
  <2>6. ASSUME NEW u \in Views, u # v
        PROVE  Ok(u)'
    BY <1>0, <1>2, <2>1, <2>6, OkFrame
  <2> QED
    BY <2>5, <2>6 DEF ReferenceInv, Ok
<1>4. ASSUME RenderViewGone(v)
      PROVE  ReferenceInv'
  <2>1. /\ ForgetPage(v) /\ UNCHANGED atomId
        /\ store' = [store EXCEPT ![v] = EmptyMap]
        /\ toBrowser' = [toBrowser EXCEPT ![v] = << >>]
    BY <1>4 DEF RenderViewGone, Clear, registry
  <2>2. /\ toBrowser'[v] = << >>
        /\ \A u \in Views : u # v => toBrowser'[u] = toBrowser[u] /\ store'[u] = store[u]
    BY <2>1 DEF TypeOK
  <2>3. References(v)' = {}
    BY <1>2, <2>1, <2>2, QueueEmpty DEF References, Plain
  <2>4. Distinct(proxies[v], toView[v], toBrowser[v], reply[v])'
    BY <1>2, <2>1, <2>2, DistinctEmpty
  <2>5. ASSUME NEW u \in Views, u # v
        PROVE  Ok(u)'
    <3>1. Stable(u)
      BY <2>1, <2>2, <2>5 DEF Stable
    <3> QED
      BY <1>0, <1>2, <2>1, <2>2, <2>5, <3>1, OkFrame
  <2> QED
    BY <2>3, <2>4, <2>5 DEF ReferenceInv, Ok
<1> QED
  BY <1>1, <1>3, <1>4 DEF ViewStep, RenderViewDeleted, WebContentsDestroyed

-----------------------------------------------------------------------------
(* ReferenceInv holds initially ...                                        *)
LEMMA ReferenceInit == Init => ReferenceInv
<1> SUFFICES ASSUME Init, NEW v \in Views
             PROVE  Ok(v)
  BY DEF ReferenceInv, Ok
<1>1. proxies[v] = {} /\ toView[v] = << >> /\ toBrowser[v] = << >> /\ reply[v] = Plain
  BY DEF Init
<1>2. References(v) = {}
  BY <1>1, QueueEmpty DEF References, Plain
<1> QED
  BY <1>1, <1>2, DistinctEmpty DEF Ok

(* ... and every step keeps it.                                            *)
LEMMA ReferenceNext ==
  ASSUME TypeOK, RegistryInv, OwnerInv, ViewInv, ReferenceInv, ~LateMessages, [Next]_vars
  PROVE  ReferenceInv'
<1>1. ASSUME UNCHANGED <<atomId, store, proxies, toView, toBrowser, reply>>
      PROVE  ReferenceInv'
  <2>1. \A u \in Views : Ok(u) /\ Stable(u)
    BY <1>1 DEF ReferenceInv, Ok, Stable
  <2> QED
    BY <1>1, <2>1, OkFrame DEF ReferenceInv, Ok
<1>2. ASSUME NEW v \in Views, DeferredReply(v)
      PROVE  ReferenceInv'
  BY <1>1, <1>2 DEF DeferredReply, registry, stores, page
<1>3. CASE UNCHANGED vars
  BY <1>1, <1>3 DEF vars, registry, stores, page, channels
<1> QED
  BY <1>2, <1>3, ReferencePageStep, ReferenceHandleMessage, ReferenceBrowserStep,
     ReferenceViewStep DEF Next

(* When content delivers no message of a swapped-out view, every storeId   *)
(* is in one place and its entry holds the object it was made for.         *)
THEOREM ReferencesCorrect == ~LateMessages => (Spec => []ReferenceInv)
<1> SUFFICES ASSUME ~LateMessages
             PROVE  Spec => []ReferenceInv
  OBVIOUS
<1>1. TypeOK /\ RegistryInv /\ OwnerInv /\ ViewInv /\ ReferenceInv /\ [Next]_vars
        => ReferenceInv'
  BY ReferenceNext
<1> QED
  BY <1>1, ReferenceInit, TypeCorrect, RegistryCorrect, OwnersCorrect, ViewsCorrect,
     PTL DEF Spec

(* Under the same assumption a proxy's object is never released while the  *)
(* proxy lives: ObjectsRegistry and setDestructor keep what                *)
(* docs/api/remote.md promises.                                            *)
THEOREM ProxiesBacked == ~LateMessages => (Spec => []ProxyBacked)
<1> SUFFICES ASSUME ~LateMessages
             PROVE  Spec => []ProxyBacked
  OBVIOUS
<1>1. TypeOK /\ RegistryInv /\ ReferenceInv => ProxyBacked
  <2> SUFFICES ASSUME TypeOK, RegistryInv, ReferenceInv, NEW v \in Views,
                      NEW p \in proxies[v]
               PROVE  Backs(v, p)
    BY DEF ProxyBacked
  <2>1. StoredAs(v, p)
    BY DEF ReferenceInv, References
  <2>2. store[v][p.sid] \in Objects /\ p.sid \in DOMAIN store[v]
    BY <2>1, ViewTypes DEF StoredAs
  <2> QED
    BY <2>1, <2>2 DEF RegistryInv, StoredAs, Backs
<1> QED
  BY <1>1, ReferencesCorrect, TypeCorrect, RegistryCorrect, PTL

(* Under the same assumption ObjectsStore.remove never meets a storeId     *)
(* that is not in the store.                                               *)
THEOREM DereferencesFound == ~LateMessages => (Spec => []DereferenceFound)
<1> SUFFICES ASSUME ~LateMessages
             PROVE  Spec => []DereferenceFound
  OBVIOUS
<1>1. TypeOK /\ ViewInv /\ ReferenceInv => DereferenceFound
  <2> SUFFICES ASSUME TypeOK, ViewInv, ReferenceInv, NEW v \in Views,
                      Delivered(v, "dereference")
               PROVE  Head(toBrowser[v]).meta.sid \in DOMAIN store[Key(v)]
    BY DEF DereferenceFound
  <2>1. Key(v) = v /\ toBrowser[v] # << >> /\ Head(toBrowser[v]).kind = "dereference"
    BY DEF Delivered, ViewInv
  <2>2. 1 \in DOMAIN toBrowser[v] /\ Head(toBrowser[v]) = toBrowser[v][1]
    BY <2>1, ViewTypes
  <2>3. Head(toBrowser[v]).meta.sid # 0
    BY <2>1, <2>2 DEF ReferenceInv, Distinct, Tagged
  <2>4. Head(toBrowser[v]).meta \in References(v)
    BY <2>2, <2>3 DEF References, Metas
  <2> QED
    BY <2>1, <2>4 DEF ReferenceInv, StoredAs
<1> QED
  BY <1>1, ReferencesCorrect, TypeCorrect, ViewsCorrect, PTL

-----------------------------------------------------------------------------
(* A view that is not born yet has sent nothing and registered nothing.    *)
UnbornInv ==
  \A v \in Views : life[v] = "unborn" =>
    ~up[v] /\ toBrowser[v] = << >> /\ \A c \in Callbacks : cbOwner[c] # v

(* Synchronous calls.  A page that runs has one call under way at most, in *)
(* its queue while the page waits; only then can a reply bring an object.  *)
Calls(q) == {i \in DOMAIN q : q[i].kind = "call"}

Synchronous(v) ==
  /\ \A i \in Calls(toBrowser[v]) : toBrowser[v][i].meta.sid = 0
  /\ reply[v].sid # 0 => calling[v] = "replied"
  /\ up[v] => /\ \A i, j \in Calls(toBrowser[v]) : i = j
              /\ calling[v] # "waiting" => Calls(toBrowser[v]) = {}

(* Why an entry of the store is there.                                     *)
Reason(v, s) ==
  \/ \E p \in proxies[v] : p.sid = s
  \/ s \in Carried(toBrowser[v]) \cup Carried(toView[v])
  \/ s = reply[v].sid
  \/ s \in lost[v]

Accounted(v) ==
  /\ \A i \in DOMAIN toView[v] : toView[v][i].kind = "release" => toView[v][i].meta.sid = 0
  /\ life[v] = "current" /\ up[v] => \A s \in DOMAIN store[v] : Reason(v, s)

OrphanInv == \A v \in Views : Synchronous(v) /\ Accounted(v)

-----------------------------------------------------------------------------
(* A callback on its way to the browser has no wrapper yet and is nowhere  *)
(* else; the release of a wrapper comes after its calls and is the last.   *)
Travelling(v) ==
  \A i \in DOMAIN toBrowser[v] :
    LET c == toBrowser[v][i].cb IN
    c # NoCallback =>
      /\ cbOwner[c] = v /\ wrapper[c] = "none"
      /\ \A j \in DOMAIN toBrowser[v] : toBrowser[v][j].cb = c => i = j

Posted(v) ==
  \A i \in DOMAIN toView[v] :
    LET m == toView[v][i] IN
    /\ wrapper[m.cb] # "none"
    /\ m.kind = "release" => wrapper[m.cb] = "gone"
    /\ m.kind = "callback" => \A j \in 1..(i - 1) : toView[v][j].kind = "release" =>
                                toView[v][j].cb # m.cb
    /\ m.kind = "callback" /\ cbOwner[m.cb] = v => m.cb \in registered[v]

Registered(c) ==
  cbOwner[c] # NoView /\ up[cbOwner[c]] /\ wrapper[c] # "gone" => c \in registered[cbOwner[c]]

CallbackInv ==
  /\ \A v \in Views : Travelling(v) /\ Posted(v)
  /\ \A c \in Callbacks : Registered(c)

(* A wrapper listens to the "clear" of the view that registered its        *)
(* callback, which is not gone.                                            *)
ListenInv ==
  \A c \in Callbacks : wrapper[c] = "live" =>
    cbOwner[c] \in Views /\ wrapperKey[c] = cbOwner[c]
      /\ life[cbOwner[c]] \in {"current", "swapped"}

(* The object that a call names is stored until the call has come.         *)
Secured(v, i, x) ==
  x = 0 \/ \E s \in DOMAIN store[v] :
             /\ atomId[store[v][s]] = x
             /\ \A j \in 1..(i - 1) : toBrowser[v][j].kind = "dereference" =>
                                        toBrowser[v][j].meta.sid # s

(* A kept method that was called before, or a page that crashed, may name  *)
(* an object that is stored no longer.                                     *)
Excused(v, x) == x \in loose[v] \/ ~up[v]

CallsSecured(v) ==
  \A i \in Calls(toBrowser[v]) :
    /\ Secured(v, i, toBrowser[v][i].id) \/ Excused(v, toBrowser[v][i].id)
    /\ Secured(v, i, toBrowser[v][i].arg)

CallInv == \A v \in Views : methods[v] \subseteq proxies[v] /\ CallsSecured(v)

UniqueIds == \A o, x \in Objects : atomId[o] = atomId[x] /\ atomId[o] # 0 => o = x

(* UnbornInv is kept by every step.                                        *)
LEMMA UnbornNext ==
  ASSUME TypeOK, UnbornInv, [Next]_vars
  PROVE  UnbornInv'
<1>1. ASSUME UNCHANGED <<life, up, toBrowser, cbOwner>> PROVE UnbornInv'
  BY <1>1 DEF UnbornInv
<1>2. ASSUME NEW v \in Views, life[v] # "unborn", life'[v] # "unborn",
             \A u \in Views : u # v =>
               /\ life'[u] = "unborn" => life[u] = "unborn"
               /\ up'[u] = up[u] /\ toBrowser'[u] = toBrowser[u],
             \A c \in Callbacks : cbOwner'[c] \in {cbOwner[c], v}
      PROVE  UnbornInv'
  BY <1>2 DEF UnbornInv
<1>3. ASSUME NEW v \in Views, PageStep(v) PROVE UnbornInv'
  <2>1. UNCHANGED <<life, up>> /\ up[v]
    BY <1>3 DEF PageStep, RequireRemote, CallProxy, CallProxyWithCallback, Detach,
       CallMethod, CallMethodAgain, ReceiveReply, ReceiveMessage, DropMessage,
       ReceiveCallback, ReceiveRelease, CollectProxy, DidCreateDocumentElement,
       page, views, Idle, MaySend
  <2>2. /\ UNCHANGED toBrowser \/ \E q : toBrowser' = [toBrowser EXCEPT ![v] = q]
        /\ UNCHANGED cbOwner \/ \E c \in Callbacks : cbOwner' = [cbOwner EXCEPT ![c] = v]
    BY <1>3 DEF PageStep, RequireRemote, CallProxy, CallProxyWithCallback, Detach,
       CallMethod, CallMethodAgain, ReceiveReply, ReceiveMessage, DropMessage,
       ReceiveCallback, ReceiveRelease, CollectProxy, DidCreateDocumentElement,
       page, channels, SendSync
  <2>3. \A u \in Views : u # v => toBrowser'[u] = toBrowser[u]
    BY <2>2 DEF TypeOK
  <2>4. \A c \in Callbacks : cbOwner'[c] \in {cbOwner[c], v}
    BY <2>2 DEF TypeOK
  <2>5. life[v] # "unborn"
    BY <2>1 DEF UnbornInv
  <2>. QED
    BY <1>2, <2>1, <2>3, <2>4, <2>5
<1>4. ASSUME NEW v \in Views, HandleMessage(v) PROVE UnbornInv'
  <2>1. /\ UNCHANGED <<life, up, cbOwner>> /\ TakeCall(v) /\ toBrowser[v] # << >>
    BY <1>4 DEF HandleMessage, CallReturnsValue, CallReturnsObject,
       CallReturnsBrokenObject, CallThrowsNothing,
       BrokenObjectAbandons, Abandon, CallOfUnknownId, CallIsDeferred,
       HandleDereference, page, views, Delivered
  <2>2. \A u \in Views : u # v => toBrowser'[u] = toBrowser[u]
    BY <2>1 DEF TakeCall, TypeOK
  <2>3. life[v] # "unborn"
    BY <2>1 DEF UnbornInv
  <2>. QED
    BY <1>2, <2>1, <2>2, <2>3
<1>5. CASE BrowserStep
  BY <1>1, <1>5 DEF BrowserStep, CallWrapper, CollectWrapper, CallWrapperWithObject,
     CreateObject, ForgetObject, CollectObject, page, channels, views
<1>6. ASSUME NEW v \in Views, DeferredReply(v) PROVE UnbornInv'
  BY <1>1, <1>6 DEF DeferredReply, page, views
<1>7. ASSUME NEW v \in Views, ViewStep(v) PROVE UnbornInv'
  <2>1. CASE Navigate(v)
    <3>1. /\ life' = [u \in Views |-> IF u = v THEN "current"
                                      ELSE IF u = Key(v) THEN "swapped" ELSE life[u]]
          /\ up' = [up EXCEPT ![v] = TRUE] /\ UNCHANGED <<toBrowser, cbOwner>>
      BY <2>1 DEF Navigate, channels
    <3>2. \A u \in Views : /\ life'[u] = "unborn" => u # v /\ life[u] = "unborn"
                           /\ u # v => up'[u] = up[u]
      BY <3>1 DEF TypeOK
    <3>. QED
      BY <3>1, <3>2 DEF UnbornInv
  <2>2. CASE RenderViewDeleted(v) \/ WebContentsDestroyed(v) \/ RenderProcessGone(v)
    <3>1. /\ up' = [up EXCEPT ![v] = FALSE] /\ UNCHANGED cbOwner
          /\ UNCHANGED toBrowser \/ toBrowser' = [toBrowser EXCEPT ![v] = << >>]
          /\ UNCHANGED life \/ life' = [life EXCEPT ![v] = "deleted"]
      BY <2>2 DEF RenderViewDeleted, WebContentsDestroyed, RenderViewGone, RenderProcessGone,
         ForgetPage, views
    <3>2. \A u \in Views : /\ life'[u] = "unborn" => life[u] = "unborn"
                           /\ up'[u] => up[u]
                           /\ toBrowser'[u] \in {toBrowser[u], << >>}
      BY <3>1 DEF TypeOK
    <3>. QED
      BY <3>1, <3>2 DEF UnbornInv
  <2>. QED
    BY <1>7, <2>1, <2>2 DEF ViewStep
<1>8. CASE UNCHANGED vars
  BY <1>1, <1>8 DEF vars, page, channels, views
<1>. QED
  BY <1>3, <1>4, <1>5, <1>6, <1>7, <1>8 DEF Next

(* It holds initially.                                                     *)
LEMMA UnbornInit == Init => UnbornInv
BY DEF Init, UnbornInv

-----------------------------------------------------------------------------
(* Calls wait in the queue of a page until they are taken.                 *)
LEMMA CallsAppend ==
  ASSUME NEW S, NEW q \in Seq(S), NEW m \in S
  PROVE  /\ m.kind # "call" => Calls(Append(q, m)) = Calls(q)
         /\ m.kind = "call" => Calls(Append(q, m)) = Calls(q) \cup {Len(q) + 1}
         /\ \A i \in Calls(q) : Append(q, m)[i] = q[i]
         /\ Append(q, m)[Len(q) + 1] = m
<1> DEFINE u == Append(q, m)
<1>1. /\ DOMAIN u = 1 .. (Len(q) + 1) /\ DOMAIN q = 1 .. Len(q) /\ Len(q) \in Nat
      /\ \A i \in DOMAIN q : u[i] = q[i]
      /\ u[Len(q) + 1] = m
  BY AppendElements
<1> HIDE DEF u
<1>2. DOMAIN u = DOMAIN q \cup {Len(q) + 1}
  BY <1>1
<1>. QED
  BY <1>1, <1>2 DEF Calls, u

(* Other messages leave the calls alone.                                   *)
LEMMA CallsKept ==
  ASSUME NEW q \in Seq(ToBrowser), NEW m \in ToBrowser, m.kind # "call"
  PROVE  Calls(Append(q, m)) = Calls(q) /\ \A i \in Calls(q) : Append(q, m)[i] = q[i]
<1> DEFINE u == Append(q, m)
<1>1. /\ DOMAIN u = 1 .. (Len(q) + 1) /\ DOMAIN q = 1 .. Len(q) /\ Len(q) \in Nat
      /\ \A i \in DOMAIN q : u[i] = q[i]
      /\ u[Len(q) + 1] = m
  BY AppendElements
<1> HIDE DEF u
<1>2. DOMAIN u = DOMAIN q \cup {Len(q) + 1}
  BY <1>1
<1>. QED
  BY <1>1, <1>2 DEF Calls, u

(* A message is taken: the calls that are left were there before.          *)
LEMMA CallsTail ==
  ASSUME NEW S, NEW q \in Seq(S), q # << >>
  PROVE  /\ \A i \in Calls(Tail(q)) : i + 1 \in Calls(q) /\ Tail(q)[i] = q[i + 1] /\ i \in Nat
                                      /\ i >= 1
         /\ Head(q).kind = "call" => 1 \in Calls(q)
<1>1. /\ Head(q) = q[1] /\ 1 \in DOMAIN q
      /\ \A i \in DOMAIN Tail(q) : i + 1 \in DOMAIN q /\ Tail(q)[i] = q[i + 1]
  BY TailElements
<1>2. DOMAIN Tail(q) \subseteq Nat \ {0}
  OBVIOUS
<1>. QED
  BY <1>1, <1>2 DEF Calls

(* A step that leaves a page alone keeps its calls synchronous.            *)
LEMMA SynchronousFrame ==
  ASSUME NEW u, Synchronous(u), toBrowser'[u] = toBrowser[u], reply'[u] = reply[u],
         calling'[u] = calling[u], up'[u] => up[u]
  PROVE  Synchronous(u)'
BY DEF Synchronous

(* An idle page sends its call and waits.                                  *)
LEMMA SynchronousSend ==
  ASSUME TypeOK, NEW v \in Views, Synchronous(v), Idle(v), NEW m \in ToBrowser,
         m.kind = "call", m.meta = Plain, SendSync(v, m), UNCHANGED up
  PROVE  \A u \in Views : Synchronous(u) => Synchronous(u)'
<1>1. /\ toBrowser' = [toBrowser EXCEPT ![v] = Append(toBrowser[v], m)]
      /\ calling' = [calling EXCEPT ![v] = "waiting"] /\ reply' = reply
      /\ calling[v] = "idle" /\ up[v]
  BY DEF SendSync, Idle, MaySend
<1>2. ASSUME NEW u \in Views, u # v, Synchronous(u) PROVE Synchronous(u)'
  BY <1>1, <1>2, SynchronousFrame DEF TypeOK
<1> DEFINE q == toBrowser[v]
           a == Append(q, m)
<1>3. toBrowser'[v] = a /\ calling'[v] = "waiting" /\ q \in Seq(ToBrowser)
  BY <1>1 DEF TypeOK
<1>4. Calls(q) = {} /\ reply[v].sid = 0
  BY <1>1 DEF Synchronous
<1>5. Calls(a) = {Len(q) + 1} /\ a[Len(q) + 1] = m
  BY <1>3, <1>4, CallsAppend
<1> HIDE DEF a
<1>6. Synchronous(v)'
  <2> HIDE DEF q
  <2>1. \A i \in Calls(a) : a[i].meta.sid = 0
    BY <1>5 DEF Plain
  <2>2. \A i, j \in Calls(a) : i = j
    BY <1>5
  <2>3. toBrowser'[v] = a /\ calling'[v] = "waiting" /\ reply'[v].sid = 0
    BY <1>1, <1>3, <1>4
  <2>. QED
    BY <2>1, <2>2, <2>3 DEF Synchronous
<1>. QED
  BY <1>2, <1>6

(* A handler takes a message, and answers a call at most.                  *)
LEMMA SynchronousTake ==
  ASSUME TypeOK, NEW v \in Views, Synchronous(v), NEW kind, Delivered(v, kind), TakeCall(v),
         UNCHANGED up,
         \/ UNCHANGED <<calling, reply>>
         \/ /\ kind = "call" /\ up[v]
            /\ \E c \in {"deferred", "abandoned", "replied"} : calling' = [calling EXCEPT ![v] = c]
            /\ UNCHANGED reply
         \/ /\ kind = "call" /\ up[v]
            /\ calling' = [calling EXCEPT ![v] = "replied"]
            /\ \E r : reply' = [reply EXCEPT ![v] = r]
  PROVE  \A u \in Views : Synchronous(u) => Synchronous(u)'
<1>1. /\ toBrowser' = [toBrowser EXCEPT ![v] = Tail(toBrowser[v])]
      /\ toBrowser[v] # << >> /\ Head(toBrowser[v]).kind = kind
  BY DEF TakeCall, Delivered
<1>2. ASSUME NEW u \in Views, u # v, Synchronous(u) PROVE Synchronous(u)'
  BY <1>1, <1>2, SynchronousFrame DEF TypeOK
<1> DEFINE q == toBrowser[v]
           t == Tail(q)
<1>3. toBrowser'[v] = t /\ q \in Seq(ToBrowser)
  BY <1>1 DEF TypeOK
<1>4. /\ \A i \in Calls(t) : i + 1 \in Calls(q) /\ t[i] = q[i + 1] /\ i \in Nat /\ i >= 1
      /\ kind = "call" => 1 \in Calls(q)
  BY <1>1, <1>3, CallsTail
<1> HIDE DEF t
<1>5. \A i \in Calls(t) : t[i].meta.sid = 0
  BY <1>4 DEF Synchronous
<1>6. up[v] => \A i, j \in Calls(t) : i = j
  <2>1. ASSUME up[v], NEW i \in Calls(t), NEW j \in Calls(t) PROVE i = j
    <3>1. i + 1 = j + 1
      BY <1>4, <2>1 DEF Synchronous
    <3>. QED
      BY <1>4, <3>1
  <2>. QED
    BY <2>1
<1>7. up[v] /\ kind = "call" => Calls(t) = {} /\ calling[v] = "waiting" /\ reply[v].sid = 0
  <2>1. ASSUME up[v], kind = "call", NEW i \in Calls(t) PROVE FALSE
    <3>1. i + 1 = 1
      BY <1>4, <2>1 DEF Synchronous
    <3>. QED
      BY <1>4, <3>1
  <2>. QED
    BY <1>4, <2>1 DEF Synchronous
<1>8. Synchronous(v)'
  <2>1. CASE UNCHANGED <<calling, reply>>
    <3>1. up[v] /\ calling[v] # "waiting" => Calls(t) = {}
      <4>1. up[v] /\ calling[v] # "waiting" => Calls(q) = {}
        BY DEF Synchronous
      <4>. QED
        BY <1>4, <4>1
    <3>. QED
      BY <1>3, <1>5, <1>6, <2>1, <3>1 DEF Synchronous
  <2>2. CASE /\ kind = "call" /\ up[v]
             /\ \E c \in {"deferred", "abandoned", "replied"} : calling' = [calling EXCEPT ![v] = c]
             /\ UNCHANGED reply
    BY <1>3, <1>5, <1>7, <2>2 DEF Synchronous
  <2>3. CASE /\ kind = "call" /\ up[v]
             /\ calling' = [calling EXCEPT ![v] = "replied"]
             /\ \E r : reply' = [reply EXCEPT ![v] = r]
    <3>1. calling'[v] = "replied"
      BY <2>3 DEF TypeOK
    <3>. QED
      BY <1>3, <1>5, <1>7, <2>3, <3>1 DEF Synchronous
  <2>. QED
    BY <2>1, <2>2, <2>3
<1>. QED
  BY <1>2, <1>8

(* Every step keeps it.                                                    *)
LEMMA SynchronousNext ==
  ASSUME TypeOK, UnbornInv, \A v \in Views : Synchronous(v), [Next]_vars
  PROVE  \A v \in Views : Synchronous(v)'
<1>1. ASSUME UNCHANGED <<toBrowser, reply, calling, up>>
      PROVE  \A v \in Views : Synchronous(v)'
  BY <1>1, SynchronousFrame
<1>2. ASSUME NEW v \in Views, PageStep(v)
      PROVE  \A u \in Views : Synchronous(u)'
  <2>1. \A id, arg \in Nat, cb \in Callbacks \cup {NoCallback} :
          LET m == Request(id, arg, cb) IN
          m \in ToBrowser /\ m.kind = "call" /\ m.meta = Plain
    BY MessageTypes DEF Request
  <2>2. ASSUME NEW id \in Nat, NEW arg \in Nat, NEW cb \in Callbacks \cup {NoCallback},
               Idle(v), SendSync(v, Request(id, arg, cb)), UNCHANGED up
        PROVE  \A u \in Views : Synchronous(u)'
    BY <2>1, <2>2, SynchronousSend
  <2>3. CASE RequireRemote(v)
    <3>1. Idle(v) /\ SendSync(v, Request(0, 0, NoCallback)) /\ UNCHANGED up
      BY <2>3 DEF RequireRemote, page
    <3>2. 0 \in Nat /\ NoCallback \in Callbacks \cup {NoCallback}
      OBVIOUS
    <3>. QED
      BY <2>2, <3>1, <3>2
  <2>4. ASSUME NEW p \in proxies[v], NEW arg \in {q.id : q \in proxies[v]} \cup {0},
               CallProxy(v, p, arg)
        PROVE  \A u \in Views : Synchronous(u)'
    <3>1. p.id \in Nat /\ arg \in Nat
      BY DEF TypeOK, Meta
    <3>2. Idle(v) /\ SendSync(v, Request(p.id, arg, NoCallback)) /\ UNCHANGED up
      BY <2>4 DEF CallProxy, page
    <3>. QED
      BY <2>2, <3>1, <3>2
  <2>5. ASSUME NEW p \in proxies[v], NEW c \in Callbacks, CallProxyWithCallback(v, p, c)
        PROVE  \A u \in Views : Synchronous(u)'
    <3>1. p.id \in Nat /\ 0 \in Nat
      BY DEF TypeOK, Meta
    <3>2. Idle(v) /\ SendSync(v, Request(p.id, 0, c)) /\ UNCHANGED up
      BY <2>5 DEF CallProxyWithCallback
    <3>. QED
      BY <2>2, <3>1, <3>2
  <2>6. ASSUME NEW p \in methods[v], CallMethod(v, p)
        PROVE  \A u \in Views : Synchronous(u)'
    <3>1. p.id \in Nat /\ 0 \in Nat
      BY DEF TypeOK, Meta
    <3>2. Idle(v) /\ SendSync(v, Request(p.id, 0, NoCallback)) /\ UNCHANGED up
      BY <2>6 DEF CallMethod
    <3>. QED
      BY <2>2, <3>1, <3>2
  <2>7. ASSUME NEW id \in loose[v], CallMethodAgain(v, id)
        PROVE  \A u \in Views : Synchronous(u)'
    <3>1. id \in Nat /\ 0 \in Nat
      BY DEF TypeOK
    <3>2. Idle(v) /\ SendSync(v, Request(id, 0, NoCallback)) /\ UNCHANGED up
      BY <2>7 DEF CallMethodAgain, page
    <3>. QED
      BY <2>2, <3>1, <3>2
  <2>8. ASSUME NEW p \in proxies[v], CollectProxy(v, p)
        PROVE  \A u \in Views : Synchronous(u)'
    <3> DEFINE m == Dereference(p)
               q == toBrowser[v]
    <3>1. m \in ToBrowser /\ m.kind # "call"
      BY MessageTypes DEF Dereference, TypeOK
    <3>2. /\ toBrowser' = [toBrowser EXCEPT ![v] = Append(q, m)]
          /\ UNCHANGED <<calling, reply, up>>
      BY <2>8 DEF CollectProxy
    <3> HIDE DEF m
    <3>3. q \in Seq(ToBrowser) /\ toBrowser'[v] = Append(q, m)
      BY <3>2 DEF TypeOK
    <3> DEFINE a == Append(q, m)
    <3>4. Calls(a) = Calls(q) /\ \A i \in Calls(q) : a[i] = q[i]
      <4>1. q \in Seq(ToBrowser)
        BY <3>3
      <4> HIDE DEF q, a
      <4>. QED
        BY <3>1, <4>1, CallsKept DEF a
    <3>5. Synchronous(v)'
      <4>1. toBrowser'[v] = a
        BY <3>3
      <4> HIDE DEF a
      <4>. QED
        BY <3>2, <3>4, <4>1 DEF Synchronous
    <3>6. ASSUME NEW u \in Views, u # v PROVE Synchronous(u)'
      BY <3>2, <3>6, SynchronousFrame DEF TypeOK
    <3>. QED
      BY <3>5, <3>6
  <2>9. ASSUME NEW p \in proxies[v], Detach(v, p)
        PROVE  \A u \in Views : Synchronous(u)'
    BY <1>1, <2>9 DEF Detach, channels
  <2>10. CASE ReceiveReply(v)
    <3>1. /\ calling' = [calling EXCEPT ![v] = "idle"] /\ calling[v] = "replied"
          /\ reply' = [reply EXCEPT ![v] = Plain] /\ UNCHANGED <<toBrowser, up>>
      BY <2>10 DEF ReceiveReply
    <3>2. calling'[v] = "idle" /\ reply'[v].sid = 0
      BY <3>1 DEF TypeOK, Plain
    <3>3. Synchronous(v)'
      BY <3>1, <3>2 DEF Synchronous
    <3>4. ASSUME NEW u \in Views, u # v PROVE Synchronous(u)'
      BY <3>1, <3>4, SynchronousFrame DEF TypeOK
    <3>. QED
      BY <3>3, <3>4
  <2>11. CASE ReceiveMessage(v) \/ DidCreateDocumentElement(v)
    BY <1>1, <2>11 DEF ReceiveMessage, DropMessage, ReceiveCallback,
       ReceiveRelease, DidCreateDocumentElement, channels, page
  <2>. QED
    BY <1>2, <2>3, <2>4, <2>5, <2>6, <2>7, <2>8, <2>9, <2>10, <2>11 DEF PageStep
<1>3. ASSUME NEW v \in Views, HandleMessage(v)
      PROVE  \A u \in Views : Synchronous(u)'
  <2>1. ASSUME NEW meta, Answer(v, meta)
        PROVE  \/ UNCHANGED <<calling, reply>>
               \/ /\ up[v] /\ calling' = [calling EXCEPT ![v] = "replied"]
                  /\ \E r : reply' = [reply EXCEPT ![v] = r]
    BY <2>1 DEF Answer
  <2>2. ASSUME NEW meta, Answer(v, meta), Delivered(v, "call"), TakeCall(v), UNCHANGED up
        PROVE  \A u \in Views : Synchronous(u)'
    BY <2>1, <2>2, SynchronousTake
  <2>3. ASSUME NEW kept \in SUBSET Objects, CallReturnsValue(v, kept)
        PROVE  \A u \in Views : Synchronous(u)'
    BY <2>2, <2>3 DEF CallReturnsValue, page
  <2>4. ASSUME NEW o \in Objects, NEW kept \in SUBSET Objects, CallReturnsObject(v, o, kept)
        PROVE  \A u \in Views : Synchronous(u)'
    BY <2>2, <2>4 DEF CallReturnsObject, page
  <2>5. CASE CallOfUnknownId(v)
    BY <2>2, <2>5 DEF CallOfUnknownId, page
  <2>6. ASSUME NEW o \in Objects, CallReturnsBrokenObject(v, o)
        PROVE  \A u \in Views : Synchronous(u)'
    <3>1. /\ Delivered(v, "call") /\ TakeCall(v) /\ UNCHANGED <<up, reply>>
          /\ \/ UNCHANGED calling
             \/ up[v] /\ calling' = [calling EXCEPT ![v] = "replied"]
      BY <2>6 DEF CallReturnsBrokenObject, page
    <3>. QED
      BY <3>1, SynchronousTake
  <2>9. ASSUME NEW o \in Objects, BrokenObjectAbandons(v, o)
        PROVE  \A u \in Views : Synchronous(u)'
    <3>1. /\ Delivered(v, "call") /\ TakeCall(v) /\ UNCHANGED <<up, reply>>
          /\ \/ UNCHANGED calling
             \/ up[v] /\ calling' = [calling EXCEPT ![v] = "abandoned"]
      BY <2>9 DEF BrokenObjectAbandons, Abandon, page
    <3>. QED
      BY <3>1, SynchronousTake
  <2>10. ASSUME NEW kept \in SUBSET Objects, CallThrowsNothing(v, kept)
        PROVE  \A u \in Views : Synchronous(u)'
    <3>1. /\ Delivered(v, "call") /\ TakeCall(v) /\ UNCHANGED <<up, reply>>
          /\ \/ UNCHANGED calling
             \/ up[v] /\ calling' = [calling EXCEPT ![v] = "abandoned"]
      BY <2>10 DEF CallThrowsNothing, Abandon, page
    <3>. QED
      BY <3>1, SynchronousTake
  <2>7. CASE CallIsDeferred(v)
    <3>1. /\ Delivered(v, "call") /\ TakeCall(v) /\ UNCHANGED <<up, reply>>
          /\ \/ UNCHANGED calling
             \/ up[v] /\ calling' = [calling EXCEPT ![v] = "deferred"]
      BY <2>7 DEF CallIsDeferred, page
    <3>. QED
      BY <3>1, SynchronousTake
  <2>8. CASE HandleDereference(v)
    <3>1. Delivered(v, "dereference") /\ TakeCall(v) /\ UNCHANGED <<up, calling, reply>>
      BY <2>8 DEF HandleDereference, page
    <3>. QED
      BY <3>1, SynchronousTake
  <2>. QED
    BY <1>3, <2>3, <2>4, <2>5, <2>6, <2>7, <2>8, <2>9, <2>10 DEF HandleMessage
<1>4. CASE BrowserStep
  BY <1>1, <1>4 DEF BrowserStep, CallWrapper, CollectWrapper, CallWrapperWithObject,
     CreateObject, ForgetObject, CollectObject, page, channels
<1>5. ASSUME NEW v \in Views, DeferredReply(v)
      PROVE  \A u \in Views : Synchronous(u)'
  <2>1. /\ calling[v] = "deferred" /\ UNCHANGED <<toBrowser, reply, up>>
        /\ \E c : calling' = [calling EXCEPT ![v] = c]
    BY <1>5 DEF DeferredReply, page
  <2>2. ASSUME NEW u \in Views, u # v PROVE Synchronous(u)'
    BY <2>1, <2>2, SynchronousFrame DEF TypeOK
  <2>3. Synchronous(v)'
    BY <2>1 DEF Synchronous
  <2>. QED
    BY <2>2, <2>3
<1>6. ASSUME NEW v \in Views, ViewStep(v)
      PROVE  \A u \in Views : Synchronous(u)'
  <2>1. CASE Navigate(v)
    <3>1. /\ life[v] = "unborn" /\ UNCHANGED <<toBrowser, reply, calling>>
          /\ up' = [up EXCEPT ![v] = TRUE]
      BY <2>1 DEF Navigate, channels
    <3>2. ASSUME NEW u \in Views, u # v PROVE Synchronous(u)'
      BY <3>1, <3>2, SynchronousFrame DEF TypeOK
    <3>3. toBrowser[v] = << >>
      BY <3>1 DEF UnbornInv
    <3>4. Calls(toBrowser[v]) = {}
      BY <3>3 DEF Calls
    <3>5. Synchronous(v)'
      BY <3>1, <3>4 DEF Synchronous
    <3>. QED
      BY <3>2, <3>5
  <2>2. ASSUME ForgetPage(v), \A u \in Views : toBrowser'[u] = toBrowser[u]
                                             \/ (u = v /\ toBrowser'[u] = << >>)
        PROVE  \A u \in Views : Synchronous(u)'
    <3>1. /\ up' = [up EXCEPT ![v] = FALSE] /\ calling' = [calling EXCEPT ![v] = "idle"]
          /\ reply' = [reply EXCEPT ![v] = Plain]
      BY <2>2 DEF ForgetPage
    <3>2. ASSUME NEW u \in Views, u # v PROVE Synchronous(u)'
      BY <2>2, <3>1, <3>2, SynchronousFrame DEF TypeOK
    <3>3. ~up'[v] /\ reply'[v].sid = 0
      BY <3>1 DEF TypeOK, Plain
    <3>4. \A i \in Calls(toBrowser'[v]) : toBrowser'[v][i].meta.sid = 0
      <4>1. CASE toBrowser'[v] = toBrowser[v]
        BY <4>1 DEF Synchronous
      <4>2. CASE toBrowser'[v] = << >>
        BY <4>2 DEF Calls
      <4>. QED
        BY <2>2, <4>1, <4>2
    <3>5. Synchronous(v)'
      BY <3>3, <3>4 DEF Synchronous
    <3>. QED
      BY <3>2, <3>5
  <2>3. CASE RenderProcessGone(v)
    <3>1. ForgetPage(v) /\ UNCHANGED toBrowser
      BY <2>3 DEF RenderProcessGone
    <3>. QED
      BY <2>2, <3>1
  <2>4. CASE RenderViewDeleted(v) \/ WebContentsDestroyed(v)
    <3>1. ForgetPage(v) /\ toBrowser' = [toBrowser EXCEPT ![v] = << >>]
      BY <2>4 DEF RenderViewDeleted, WebContentsDestroyed, RenderViewGone
    <3>2. \A u \in Views : toBrowser'[u] = toBrowser[u] \/ (u = v /\ toBrowser'[u] = << >>)
      BY <3>1 DEF TypeOK
    <3>. QED
      BY <2>2, <3>1, <3>2
  <2>. QED
    BY <1>6, <2>1, <2>3, <2>4 DEF ViewStep
<1>7. CASE UNCHANGED vars
  BY <1>1, <1>7 DEF vars, page, channels
<1>. QED
  BY <1>2, <1>3, <1>4, <1>5, <1>6, <1>7 DEF Next

-----------------------------------------------------------------------------
(* The references on a queue when a message comes or goes.                 *)
LEMMA CarriedAppend ==
  ASSUME NEW S, NEW q \in Seq(S), NEW m \in S
  PROVE  /\ Carried(Append(q, m)) = Carried(q) \cup {m.meta.sid}
         /\ \A i \in DOMAIN Append(q, m) : \/ i \in DOMAIN q /\ Append(q, m)[i] = q[i]
                                           \/ Append(q, m)[i] = m
<1> DEFINE u == Append(q, m)
<1>1. /\ DOMAIN u = 1 .. (Len(q) + 1) /\ DOMAIN q = 1 .. Len(q) /\ Len(q) \in Nat
      /\ \A i \in DOMAIN q : u[i] = q[i]
      /\ u[Len(q) + 1] = m
  BY AppendElements
<1> HIDE DEF u
<1>2. DOMAIN u = DOMAIN q \cup {Len(q) + 1}
  BY <1>1
<1>3. \A i \in DOMAIN u : (i \in DOMAIN q /\ u[i] = q[i]) \/ u[i] = m
  BY <1>1, <1>2
<1>4. Carried(u) = Carried(q) \cup {m.meta.sid}
  BY <1>1, <1>2 DEF Carried
<1>. QED
  BY <1>3, <1>4 DEF u

(* ... and when one goes.                                                  *)
LEMMA CarriedTail ==
  ASSUME NEW S, NEW q \in Seq(S), q # << >>
  PROVE  /\ Carried(q) \subseteq Carried(Tail(q)) \cup {Head(q).meta.sid}
         /\ Head(q).meta.sid \in Carried(q)
         /\ \A i \in DOMAIN Tail(q) : i + 1 \in DOMAIN q /\ Tail(q)[i] = q[i + 1]
<1> DEFINE t == Tail(q)
<1>1. /\ Head(q) = q[1] /\ 1 \in DOMAIN q
      /\ DOMAIN q = 1 .. Len(q) /\ Len(q) \in Nat
      /\ DOMAIN t = 1 .. (Len(q) - 1)
      /\ \A i \in DOMAIN t : t[i] = q[i + 1]
  OBVIOUS
<1> HIDE DEF t
<1>2. /\ \A i \in DOMAIN t : i + 1 \in DOMAIN q
      /\ \A i \in DOMAIN q : i # 1 => i - 1 \in DOMAIN t /\ t[i - 1] = q[i]
  BY <1>1
<1>3. Carried(q) \subseteq Carried(t) \cup {Head(q).meta.sid}
  BY <1>1, <1>2 DEF Carried
<1>. QED
  BY <1>1, <1>2, <1>3 DEF Carried, t

(* A view stays accounted for when entries only go, or keep a reason.      *)
LEMMA AccountedKeep ==
  ASSUME NEW u \in Views, Accounted(u),
         \A i \in DOMAIN toView'[u] :
           toView'[u][i].kind = "release" => toView'[u][i].meta.sid = 0,
         life'[u] = "current" /\ up'[u] => life[u] = "current" /\ up[u],
         life'[u] = "current" /\ up'[u] => \A s \in DOMAIN store'[u] :
           \/ Reason(u, s)'
           \/ s \in DOMAIN store[u] /\ (Reason(u, s) => Reason(u, s)')
  PROVE  Accounted(u)'
BY DEF Accounted

(* A step that leaves the references of a view alone keeps its reasons.    *)
LEMMA AccountedFrame ==
  ASSUME NEW u \in Views, Accounted(u), DOMAIN store'[u] \subseteq DOMAIN store[u],
         life'[u] = "current" /\ up'[u] => life[u] = "current" /\ up[u],
         proxies'[u] = proxies[u], Carried(toBrowser[u]) \subseteq Carried(toBrowser'[u]),
         toView'[u] = toView[u], reply'[u] = reply[u], lost[u] \subseteq lost'[u]
  PROVE  Accounted(u)'
<1>1. \A s : Reason(u, s) => Reason(u, s)'
  BY DEF Reason
<1>2. \A i \in DOMAIN toView'[u] :
        toView'[u][i].kind = "release" => toView'[u][i].meta.sid = 0
  BY DEF Accounted
<1>. QED
  BY <1>1, <1>2, AccountedKeep

(* storeIds count from one.                                                *)
LEMMA StoreIds ==
  ASSUME TypeOK, NEW u \in Views
  PROVE  0 \notin DOMAIN store[u]
BY ViewTypes

(* A page sends a message.                                                 *)
LEMMA AccountedSend ==
  ASSUME TypeOK, NEW v \in Views, NEW m \in ToBrowser,
         toBrowser' = [toBrowser EXCEPT ![v] = Append(toBrowser[v], m)],
         UNCHANGED <<store, life, up, toView, reply, lost>>,
         UNCHANGED proxies \/ proxies' = [proxies EXCEPT ![v] = @ \ {m.meta}]
  PROVE  \A u \in Views : Accounted(u) => Accounted(u)'
<1>1. ASSUME NEW u \in Views, u # v, Accounted(u) PROVE Accounted(u)'
  BY <1>1, AccountedFrame DEF TypeOK
<1> DEFINE q == toBrowser[v]
           a == Append(q, m)
<1>2. toBrowser'[v] = a /\ q \in Seq(ToBrowser)
  BY DEF TypeOK
<1>3. Carried(a) = Carried(q) \cup {m.meta.sid}
  BY <1>2, CarriedAppend
<1> HIDE DEF a
<1>4. \A p \in proxies[v] : p \in proxies'[v] \/ p = m.meta
  BY DEF TypeOK
<1>5. \A s : Reason(v, s) => Reason(v, s)'
  BY <1>2, <1>3, <1>4 DEF Reason
<1>6. ASSUME Accounted(v) PROVE Accounted(v)'
  <2>1. \A i \in DOMAIN toView'[v] :
          toView'[v][i].kind = "release" => toView'[v][i].meta.sid = 0
    BY <1>6 DEF Accounted
  <2>. QED
    BY <1>5, <1>6, <2>1, AccountedKeep
<1>. QED
  BY <1>1, <1>6

(* A page receives a message: its reference becomes a proxy or is lost.    *)
LEMMA AccountedReceive ==
  ASSUME TypeOK, NEW v \in Views, toView[v] # << >>,
         toView' = [toView EXCEPT ![v] = Tail(toView[v])],
         UNCHANGED <<store, life, up, toBrowser, reply>>,
         \A u \in Views : proxies[u] \subseteq proxies'[u] /\ lost[u] \subseteq lost'[u],
         \A u \in Views : u # v => proxies'[u] = proxies[u],
         LET s == Head(toView[v]).meta.sid IN
         \/ s = 0 \/ s \in lost'[v] \/ \E p \in proxies'[v] : p.sid = s
         \/ Head(toView[v]).kind = "release"
  PROVE  \A u \in Views : Accounted(u) => Accounted(u)'
<1>1. ASSUME NEW u \in Views, u # v, Accounted(u) PROVE Accounted(u)'
  BY <1>1, AccountedFrame DEF TypeOK
<1> DEFINE q == toView[v]
           t == Tail(q)
<1>2. toView'[v] = t /\ q \in Seq(ToView) /\ q # << >>
  BY DEF TypeOK
<1>3. /\ Carried(q) \subseteq Carried(t) \cup {Head(q).meta.sid}
      /\ \A i \in DOMAIN t : i + 1 \in DOMAIN q /\ t[i] = q[i + 1]
      /\ Head(q) = q[1] /\ 1 \in DOMAIN q
  BY <1>2, CarriedTail, TailElements
<1> HIDE DEF t
<1>4. ASSUME Accounted(v) PROVE Accounted(v)'
  <2>1. \A i \in DOMAIN q : q[i].kind = "release" => q[i].meta.sid = 0
    BY <1>4 DEF Accounted
  <2>2. \A i \in DOMAIN t : t[i].kind = "release" => t[i].meta.sid = 0
    BY <1>3, <2>1
  <2>3. LET s == Head(q).meta.sid IN
        s = 0 \/ s \in lost'[v] \/ \E p \in proxies'[v] : p.sid = s
    BY <1>3, <2>1
  <2>4. ASSUME NEW s, s # 0, Reason(v, s) PROVE Reason(v, s)'
    <3>1. CASE s \in Carried(q)
      BY <1>2, <1>3, <2>3, <2>4, <3>1 DEF Reason
    <3>2. CASE s \notin Carried(q)
      <4>1. proxies[v] \subseteq proxies'[v] /\ lost[v] \subseteq lost'[v]
        OBVIOUS
      <4>. QED
        BY <2>4, <3>2, <4>1 DEF Reason
    <3>. QED
      BY <3>1, <3>2
  <2>5. \A s \in DOMAIN store'[v] :
          s \in DOMAIN store[v] /\ (Reason(v, s) => Reason(v, s)')
    BY <2>4, StoreIds
  <2>. QED
    BY <1>2, <1>4, <2>2, <2>5, AccountedKeep
<1>. QED
  BY <1>1, <1>4

(* Steps of a page.                                                        *)
LEMMA AccountedPageStep ==
  ASSUME TypeOK, NEW v \in Views, PageStep(v), \A u \in Views : Accounted(u)
  PROVE  \A u \in Views : Accounted(u)'
<1>1. ASSUME NEW m \in ToBrowser, SendSync(v, m), UNCHANGED <<store, life, up, proxies, lost>>
      PROVE  \A u \in Views : Accounted(u)'
  <2>1. toBrowser' = [toBrowser EXCEPT ![v] = Append(toBrowser[v], m)]
        /\ UNCHANGED <<toView, reply>>
    BY <1>1 DEF SendSync
  <2>. QED
    BY <1>1, <2>1, AccountedSend
<1>2. \A id, arg \in Nat, cb \in Callbacks \cup {NoCallback} : Request(id, arg, cb) \in ToBrowser
  BY MessageTypes
<1>3. CASE RequireRemote(v)
  <2> DEFINE m == Request(0, 0, NoCallback)
  <2>1. m \in ToBrowser /\ SendSync(v, m) /\ UNCHANGED <<store, life, up, proxies, lost>>
    BY <1>2, <1>3 DEF RequireRemote, stores, views, page
  <2> HIDE DEF m
  <2>. QED
    BY <1>1, <2>1
<1>4. ASSUME NEW p \in proxies[v], NEW arg \in {q.id : q \in proxies[v]} \cup {0},
             CallProxy(v, p, arg)
      PROVE  \A u \in Views : Accounted(u)'
  <2> DEFINE m == Request(p.id, arg, NoCallback)
  <2>1. p.id \in Nat /\ arg \in Nat
    BY DEF TypeOK, Meta
  <2>2. m \in ToBrowser /\ SendSync(v, m) /\ UNCHANGED <<store, life, up, proxies, lost>>
    BY <1>2, <1>4, <2>1 DEF CallProxy, stores, views, page
  <2> HIDE DEF m
  <2>. QED
    BY <1>1, <2>2
<1>5. ASSUME NEW p \in proxies[v], NEW c \in Callbacks, CallProxyWithCallback(v, p, c)
      PROVE  \A u \in Views : Accounted(u)'
  <2> DEFINE m == Request(p.id, 0, c)
  <2>1. p.id \in Nat
    BY DEF TypeOK, Meta
  <2>2. m \in ToBrowser /\ SendSync(v, m) /\ UNCHANGED <<store, life, up, proxies, lost>>
    BY <1>2, <1>5, <2>1 DEF CallProxyWithCallback, stores, views
  <2> HIDE DEF m
  <2>. QED
    BY <1>1, <2>2
<1>6. ASSUME NEW p \in methods[v], CallMethod(v, p)
      PROVE  \A u \in Views : Accounted(u)'
  <2> DEFINE m == Request(p.id, 0, NoCallback)
  <2>1. p.id \in Nat
    BY DEF TypeOK, Meta
  <2>2. m \in ToBrowser /\ SendSync(v, m) /\ UNCHANGED <<store, life, up, proxies, lost>>
    BY <1>2, <1>6, <2>1 DEF CallMethod, stores, views
  <2> HIDE DEF m
  <2>. QED
    BY <1>1, <2>2
<1>7. ASSUME NEW id \in loose[v], CallMethodAgain(v, id)
      PROVE  \A u \in Views : Accounted(u)'
  <2> DEFINE m == Request(id, 0, NoCallback)
  <2>1. id \in Nat
    BY DEF TypeOK
  <2>2. m \in ToBrowser /\ SendSync(v, m) /\ UNCHANGED <<store, life, up, proxies, lost>>
    BY <1>2, <1>7, <2>1 DEF CallMethodAgain, stores, views, page
  <2> HIDE DEF m
  <2>. QED
    BY <1>1, <2>2
<1>8. ASSUME NEW p \in proxies[v], CollectProxy(v, p)
      PROVE  \A u \in Views : Accounted(u)'
  <2> DEFINE m == Dereference(p)
  <2>1. m \in ToBrowser /\ m.meta = p
    BY MessageTypes DEF Dereference, TypeOK
  <2>2. /\ toBrowser' = [toBrowser EXCEPT ![v] = Append(toBrowser[v], m)]
        /\ proxies' = [proxies EXCEPT ![v] = @ \ {p}]
        /\ UNCHANGED <<store, life, up, toView, reply, lost>>
    BY <1>8 DEF CollectProxy, stores, views
  <2> HIDE DEF m
  <2>. QED
    BY <2>1, <2>2, AccountedSend
<1>9. ASSUME NEW p \in proxies[v], Detach(v, p)
      PROVE  \A u \in Views : Accounted(u)'
  BY <1>9, AccountedFrame DEF Detach, stores, views, channels
<1>10. CASE DidCreateDocumentElement(v)
  BY <1>10, AccountedFrame DEF DidCreateDocumentElement, stores, views, channels
<1>11. CASE ReceiveReply(v)
  <2>1. /\ reply' = [reply EXCEPT ![v] = Plain]
        /\ proxies' = [proxies EXCEPT ![v] =
             IF reply[v].sid = 0 THEN @ ELSE @ \cup {reply[v]}]
        /\ UNCHANGED <<store, life, up, toBrowser, toView, lost>>
    BY <1>11 DEF ReceiveReply, stores, views
  <2>2. ASSUME NEW u \in Views, u # v PROVE Accounted(u)'
    BY <2>1, <2>2, AccountedFrame DEF TypeOK
  <2>3. /\ proxies[v] \subseteq proxies'[v]
        /\ reply[v].sid # 0 => reply[v] \in proxies'[v]
    BY <2>1 DEF TypeOK
  <2>4. ASSUME NEW s, s # 0, Reason(v, s) PROVE Reason(v, s)'
    BY <2>1, <2>3, <2>4 DEF Reason
  <2>5. \A s \in DOMAIN store'[v] :
          s \in DOMAIN store[v] /\ (Reason(v, s) => Reason(v, s)')
    BY <2>1, <2>4, StoreIds
  <2>6. Accounted(v)'
    BY <2>1, <2>5, AccountedKeep DEF Accounted
  <2>. QED
    BY <2>2, <2>6
<1>12. CASE ReceiveMessage(v)
  <2>1. /\ toView[v] # << >> /\ toView' = [toView EXCEPT ![v] = Tail(toView[v])]
        /\ UNCHANGED <<store, life, up, toBrowser, reply>>
    BY <1>12 DEF ReceiveMessage, DropMessage, ReceiveCallback, ReceiveRelease, stores,
       views, page
  <2> DEFINE m == Head(toView[v])
  <2>2. /\ \A u \in Views : proxies[u] \subseteq proxies'[u] /\ lost[u] \subseteq lost'[u]
        /\ \A u \in Views : u # v => proxies'[u] = proxies[u]
        /\ \/ m.meta.sid = 0 \/ m.meta.sid \in lost'[v]
           \/ \E p \in proxies'[v] : p.sid = m.meta.sid
           \/ m.kind = "release"
    <3> HIDE DEF m
    <3>1. CASE DropMessage(v)
      BY <3>1 DEF DropMessage, page, TypeOK, m
    <3>2. CASE ReceiveCallback(v)
      BY <3>2 DEF ReceiveCallback, TypeOK, m
    <3>3. CASE ReceiveRelease(v)
      BY <3>3 DEF ReceiveRelease, TypeOK, m
    <3>. QED
      BY <1>12, <3>1, <3>2, <3>3 DEF ReceiveMessage
  <2>. QED
    BY <2>1, <2>2, AccountedReceive
<1>. QED
  BY <1>3, <1>4, <1>5, <1>6, <1>7, <1>8, <1>9, <1>10, <1>11, <1>12 DEF PageStep

(* A handler takes a message: a call carries no reference, a dereference   *)
(* removes the entry it names, and a new entry is replied or lost.         *)
LEMMA AccountedTake ==
  ASSUME TypeOK, ViewInv, \A u \in Views : Synchronous(u), \A u \in Views : Accounted(u),
         NEW v \in Views, NEW kind, Delivered(v, kind), TakeCall(v),
         UNCHANGED <<life, up, proxies, toView>>,
         \A u \in Views : lost[u] \subseteq lost'[u],
         \A u \in Views : u # v => reply'[u] = reply[u],
         reply'[v] = reply[v] \/ reply[v].sid = 0,
         kind = "call" \/ Head(toBrowser[v]).meta.sid \notin DOMAIN store'[Key(v)],
         \A u \in Views : \A s \in DOMAIN store'[u] :
           s \in DOMAIN store[u] \/ s \in lost'[u] \/ s = reply'[u].sid
  PROVE  \A u \in Views : Accounted(u)'
<1> DEFINE q == toBrowser[v]
           t == Tail(q)
           h == Head(q).meta.sid
<1>1. /\ toBrowser' = [toBrowser EXCEPT ![v] = Tail(toBrowser[v])]
      /\ q # << >> /\ Head(q).kind = kind
  BY DEF TakeCall, Delivered
<1>2. toBrowser'[v] = t /\ q \in Seq(ToBrowser)
  BY <1>1 DEF TypeOK
<1>3. Carried(q) \subseteq Carried(t) \cup {h}
  BY <1>1, <1>2, CarriedTail
<1>4. kind = "call" => h = 0
  <2>1. 1 \in DOMAIN q /\ Head(q) = q[1]
    BY <1>1, <1>2, TailElements
  <2>2. ASSUME kind = "call" PROVE h = 0
    <3>1. 1 \in Calls(q)
      BY <1>1, <2>1, <2>2 DEF Calls
    <3>. QED
      BY <2>1, <3>1 DEF Synchronous
  <2>. QED
    BY <2>2
<1> HIDE DEF t, h
<1>5. ASSUME NEW u \in Views, u # v PROVE Accounted(u)'
  <2>1. toBrowser'[u] = toBrowser[u] /\ reply'[u] = reply[u]
    BY <1>1, <1>5 DEF TypeOK
  <2>2. \A s : Reason(u, s) => Reason(u, s)'
    BY <2>1 DEF Reason
  <2>3. \A s \in DOMAIN store'[u] :
          \/ Reason(u, s)'
          \/ s \in DOMAIN store[u] /\ (Reason(u, s) => Reason(u, s)')
    BY <2>2 DEF Reason
  <2>4. Accounted(u)
    OBVIOUS
  <2>5. \A i \in DOMAIN toView'[u] :
          toView'[u][i].kind = "release" => toView'[u][i].meta.sid = 0
    BY <2>4 DEF Accounted
  <2>. QED
    BY <2>3, <2>4, <2>5, AccountedKeep
<1>6. Accounted(v)'
  <2>1. Accounted(v)
    OBVIOUS
  <2>2. \A i \in DOMAIN toView'[v] :
          toView'[v][i].kind = "release" => toView'[v][i].meta.sid = 0
    BY <2>1 DEF Accounted
  <2>3. ASSUME NEW s, s # 0, s # h, Reason(v, s) PROVE Reason(v, s)'
    <3>1. s \in Carried(q) => s \in Carried(t)
      BY <1>3, <2>3
    <3>2. s = reply[v].sid => s = reply'[v].sid
      BY <2>3
    <3>. QED
      BY <1>2, <2>3, <3>1, <3>2 DEF Reason
  <2>4. ASSUME life'[v] = "current", NEW s \in DOMAIN store'[v], s \in DOMAIN store[v]
        PROVE  s # 0 /\ s # h
    <3>1. s # 0
      BY <2>4, StoreIds
    <3>2. Key(v) = v
      BY <2>4 DEF ViewInv
    <3>. QED
      BY <1>4, <3>1, <3>2, <2>4 DEF h
  <2>5. life'[v] = "current" => \A s \in DOMAIN store'[v] :
          \/ Reason(v, s)'
          \/ s \in DOMAIN store[v] /\ (Reason(v, s) => Reason(v, s)')
    <3>1. ASSUME life'[v] = "current", NEW s \in DOMAIN store'[v]
          PROVE  \/ Reason(v, s)'
                 \/ s \in DOMAIN store[v] /\ (Reason(v, s) => Reason(v, s)')
      <4>1. CASE s \in DOMAIN store[v]
        BY <2>3, <2>4, <3>1, <4>1
      <4>2. CASE s \in lost'[v] \/ s = reply'[v].sid
        BY <4>2 DEF Reason
      <4>. QED
        BY <4>1, <4>2
    <3>. QED
      BY <3>1
  <2>. QED
    BY <2>1, <2>2, <2>5, AccountedKeep
<1>. QED
  BY <1>5, <1>6

(* objectsRegistry.add makes one entry.                                    *)
LEMMA AddEntry ==
  ASSUME TypeOK, NEW k \in Views, NEW o \in Objects, Add(k, o)
  PROVE  \A u \in Views : \A s \in DOMAIN store'[u] :
           s \in DOMAIN store[u] \/ (u = k /\ s = storeNext[k] + 1)
<1>1. store' = [store EXCEPT ![k] = Put(store[k], storeNext[k] + 1, o)]
  BY DEF Add
<1>2. ASSUME NEW u \in Views, NEW s \in DOMAIN store'[u]
      PROVE  s \in DOMAIN store[u] \/ (u = k /\ s = storeNext[k] + 1)
  <2>1. CASE u = k
    <3>1. store'[u] = Put(store[k], storeNext[k] + 1, o)
      BY <1>1, <2>1 DEF TypeOK
    <3>. QED
      BY <1>2, <2>1, <3>1 DEF Put
  <2>2. CASE u # k
    <3>1. store'[u] = store[u]
      BY <1>1, <2>2 DEF TypeOK
    <3>. QED
      BY <1>2, <3>1
  <2>. QED
    BY <2>1, <2>2
<1>. QED
  BY <1>2

(* An answer reaches a page that waits, whose reply is still empty.        *)
LEMMA AnswerReaches ==
  ASSUME TypeOK, NEW v \in Views, Synchronous(v), Delivered(v, "call"), NEW m \in Meta,
         Answer(v, m)
  PROVE  /\ \A u \in Views : lost[u] \subseteq lost'[u]
         /\ \A u \in Views : u # v => reply'[u] = reply[u]
         /\ reply'[v] = reply[v] \/ reply[v].sid = 0
         /\ m.sid # 0 => m.sid \in lost'[Key(v)] \/ (Key(v) = v /\ reply'[v] = m)
         /\ toView' = toView
<1>1. Key(v) \in Views
  BY DeliveredTypes
<1>2. up[v] => reply[v].sid = 0
  <2>1. toBrowser[v] \in Seq(ToBrowser) /\ toBrowser[v] # << >>
    BY DEF TypeOK, Delivered
  <2>2. 1 \in DOMAIN toBrowser[v] /\ Head(toBrowser[v]) = toBrowser[v][1]
    BY <2>1, TailElements
  <2>3. 1 \in Calls(toBrowser[v])
    BY <2>2 DEF Calls, Delivered
  <2>4. up[v] => calling[v] = "waiting"
    BY <2>3 DEF Synchronous
  <2>. QED
    BY <2>4 DEF Synchronous
<1>3. CASE Key(v) = v /\ up[v]
  <2>1. reply' = [reply EXCEPT ![v] = m] /\ lost' = lost /\ toView' = toView
    BY <1>3 DEF Answer
  <2>. QED
    BY <1>2, <1>3, <2>1 DEF TypeOK
<1>4. CASE ~(Key(v) = v /\ up[v])
  <2>1. reply' = reply /\ toView' = toView
        /\ lost' = IF m.sid = 0 THEN lost ELSE [lost EXCEPT ![Key(v)] = @ \cup {m.sid}]
    BY <1>4 DEF Answer
  <2>2. \A u \in Views : lost[u] \subseteq lost'[u]
    BY <2>1 DEF TypeOK
  <2>3. m.sid # 0 => m.sid \in lost'[Key(v)]
    BY <1>1, <2>1 DEF TypeOK
  <2>. QED
    BY <2>1, <2>2, <2>3
<1>. QED
  BY <1>3, <1>4

(* Handlers keep every entry accounted for.                                *)
LEMMA AccountedHandleMessage ==
  ASSUME TypeOK, ViewInv, \A u \in Views : Synchronous(u), \A u \in Views : Accounted(u),
         NEW v \in Views, HandleMessage(v)
  PROVE  \A u \in Views : Accounted(u)'
<1>1. ASSUME Delivered(v, "call"), TakeCall(v), Answer(v, Plain),
             UNCHANGED <<store, life, up, proxies>>
      PROVE  \A u \in Views : Accounted(u)'
  <2>1. Plain \in Meta /\ Synchronous(v)
    BY MessageTypes
  <2>2. /\ \A u \in Views : lost[u] \subseteq lost'[u]
        /\ \A u \in Views : u # v => reply'[u] = reply[u]
        /\ reply'[v] = reply[v] \/ reply[v].sid = 0
        /\ toView' = toView
    BY <1>1, <2>1, AnswerReaches
  <2>. QED
    BY <1>1, <2>2, AccountedTake
<1>2. ASSUME NEW kept \in SUBSET Objects, CallReturnsValue(v, kept)
      PROVE  \A u \in Views : Accounted(u)'
  BY <1>1, <1>2 DEF CallReturnsValue, stores, views, page
<1>3. CASE CallOfUnknownId(v)
  BY <1>1, <1>3 DEF CallOfUnknownId, stores, views, page
<1>4. ASSUME NEW o \in Objects, NEW kept \in SUBSET Objects, CallReturnsObject(v, o, kept)
      PROVE  \A u \in Views : Accounted(u)'
  <2> DEFINE k == Key(v)
             m == MetaFor(k, o)
  <2>1. /\ Delivered(v, "call") /\ TakeCall(v) /\ Add(k, o) /\ Answer(v, m)
        /\ UNCHANGED <<life, up, proxies>>
    BY <1>4 DEF CallReturnsObject, views, page
  <2>2. k \in Views /\ m \in Meta /\ m.sid = storeNext[k] + 1 /\ Synchronous(v)
    BY <2>1, DeliveredTypes, TypeAdd DEF MetaFor
  <2>3. m.sid # 0
    BY <2>2, ViewTypes
  <2> HIDE DEF m
  <2>4. /\ \A u \in Views : lost[u] \subseteq lost'[u]
        /\ \A u \in Views : u # v => reply'[u] = reply[u]
        /\ reply'[v] = reply[v] \/ reply[v].sid = 0
        /\ m.sid \in lost'[k] \/ (k = v /\ reply'[v] = m)
        /\ toView' = toView
    BY <2>1, <2>2, <2>3, AnswerReaches
  <2>5. \A u \in Views : \A s \in DOMAIN store'[u] :
          s \in DOMAIN store[u] \/ (u = k /\ s = m.sid)
    <3> HIDE DEF k
    <3>. QED
      BY <2>1, <2>2, AddEntry
  <2>6. \A u \in Views : \A s \in DOMAIN store'[u] :
          s \in DOMAIN store[u] \/ s \in lost'[u] \/ s = reply'[u].sid
    BY <2>4, <2>5
  <2> HIDE DEF k
  <2>. QED
    BY <2>1, <2>4, <2>6, AccountedTake
<1>5. ASSUME NEW o \in Objects, CallReturnsBrokenObject(v, o) \/ BrokenObjectAbandons(v, o)
      PROVE  \A u \in Views : Accounted(u)'
  <2> DEFINE k == Key(v)
  <2>1. /\ Delivered(v, "call") /\ TakeCall(v) /\ Add(k, o)
        /\ lost' = [lost EXCEPT ![k] = @ \cup {storeNext[k] + 1}]
        /\ UNCHANGED <<life, up, proxies, toView, reply>>
    BY <1>5 DEF CallReturnsBrokenObject, BrokenObjectAbandons, Abandon, views, page
  <2>2. k \in Views
    BY <2>1, DeliveredTypes
  <2> HIDE DEF k
  <2>3. \A u \in Views : \A s \in DOMAIN store'[u] :
          s \in DOMAIN store[u] \/ (u = k /\ s = storeNext[k] + 1)
    BY <2>1, <2>2, AddEntry
  <2>4. (\A u \in Views : lost[u] \subseteq lost'[u]) /\ storeNext[k] + 1 \in lost'[k]
    BY <2>1, <2>2 DEF TypeOK
  <2>. QED
    BY <2>1, <2>3, <2>4, AccountedTake
<1>6. CASE CallIsDeferred(v)
  <2>1. /\ Delivered(v, "call") /\ TakeCall(v)
        /\ UNCHANGED <<store, life, up, proxies, toView, reply, lost>>
    BY <1>6 DEF CallIsDeferred, stores, views, page
  <2>. QED
    BY <2>1, AccountedTake
<1>8. ASSUME NEW kept \in SUBSET Objects, CallThrowsNothing(v, kept)
      PROVE  \A u \in Views : Accounted(u)'
  <2>1. /\ Delivered(v, "call") /\ TakeCall(v)
        /\ UNCHANGED <<store, life, up, proxies, toView, reply, lost>>
    BY <1>8 DEF CallThrowsNothing, Abandon, stores, views, page
  <2>. QED
    BY <2>1, AccountedTake
<1>7. CASE HandleDereference(v)
  <2>1. /\ Delivered(v, "dereference") /\ TakeCall(v)
        /\ store' = [store EXCEPT ![Key(v)] = Drop(store[Key(v)], Head(toBrowser[v]).meta.sid)]
        /\ UNCHANGED <<life, up, proxies, toView, reply, lost>>
    BY <1>7 DEF HandleDereference, views, page
  <2>2. Key(v) \in Views
    BY <2>1, DeliveredTypes
  <2>3. Head(toBrowser[v]).meta.sid \notin DOMAIN store'[Key(v)]
    BY <2>1, <2>2 DEF TypeOK, Drop
  <2>4. \A u \in Views : \A s \in DOMAIN store'[u] : s \in DOMAIN store[u]
    BY <2>1, <2>2 DEF TypeOK, Drop
  <2>. QED
    BY <2>1, <2>3, <2>4, AccountedTake
<1>. QED
  BY <1>2, <1>3, <1>4, <1>5, <1>6, <1>7, <1>8 DEF HandleMessage

(* A message is posted: the new entry travels with it, or is lost.         *)
LEMMA AccountedPost ==
  ASSUME TypeOK, \A u \in Views : Accounted(u), NEW k \in Views, NEW m \in ToView,
         Post(k, m), UNCHANGED <<life, up, proxies, toBrowser, reply>>,
         m.kind = "release" => m.meta.sid = 0,
         \A u \in Views : \A s \in DOMAIN store'[u] :
           s \in DOMAIN store[u] \/ (u = k /\ s = m.meta.sid)
  PROVE  \A u \in Views : Accounted(u)'
<1>1. ASSUME NEW u \in Views, u # k PROVE Accounted(u)'
  <2>1. toView'[u] = toView[u] /\ lost'[u] = lost[u]
    BY <1>1 DEF Post, TypeOK
  <2>2. DOMAIN store'[u] \subseteq DOMAIN store[u]
    BY <1>1
  <2>3. Accounted(u)
    OBVIOUS
  <2>. QED
    BY <2>1, <2>2, <2>3, AccountedFrame
<1>2. Accounted(k)'
  <2> DEFINE q == toView[k]
             a == Append(q, m)
  <2>1. Accounted(k) /\ q \in Seq(ToView)
    BY DEF TypeOK
  <2>2. /\ Carried(a) = Carried(q) \cup {m.meta.sid}
        /\ \A i \in DOMAIN a : (i \in DOMAIN q /\ a[i] = q[i]) \/ a[i] = m
    BY <2>1, CarriedAppend
  <2> HIDE DEF a
  <2>3. CASE up[k]
    <3>1. toView'[k] = a /\ lost' = lost
      BY <2>3 DEF Post, TypeOK, a
    <3>2. \A i \in DOMAIN a : a[i].kind = "release" => a[i].meta.sid = 0
      BY <2>1, <2>2 DEF Accounted
    <3>3. \A s : Reason(k, s) \/ s = m.meta.sid => Reason(k, s)'
      BY <2>2, <3>1 DEF Reason
    <3>. QED
      BY <2>1, <3>1, <3>2, <3>3, AccountedKeep
  <2>4. CASE ~up[k]
    <3>1. toView'[k] = toView[k] /\ ~up'[k]
      BY <2>4 DEF Post, TypeOK
    <3>. QED
      BY <2>1, <3>1 DEF Accounted
  <2>. QED
    BY <2>3, <2>4
<1>. QED
  BY <1>1, <1>2

(* Steps of wrappers, the application and the collector.                   *)
LEMMA AccountedBrowserStep ==
  ASSUME TypeOK, OwnerInv, BrowserStep, \A u \in Views : Accounted(u)
  PROVE  \A u \in Views : Accounted(u)'
<1>1. ASSUME UNCHANGED <<store, life, up, proxies, toBrowser, toView, reply, lost>>
      PROVE  \A u \in Views : Accounted(u)'
  BY <1>1, AccountedFrame
<1>2. \A c \in Callbacks : wrapper[c] # "none" /\ Sender(c) # NoView => Sender(c) \in Views
  BY DEF Sender, Key, TypeOK, OwnerInv
<1>3. \A c \in Callbacks :
        /\ [kind |-> "callback", cb |-> c, meta |-> Plain] \in ToView
        /\ [kind |-> "release", cb |-> c, meta |-> Plain] \in ToView
  BY MessageTypes
<1>4. ASSUME NEW c \in Callbacks, CallWrapper(c)
      PROVE  \A u \in Views : Accounted(u)'
  <2> DEFINE m == [kind |-> "callback", cb |-> c, meta |-> Plain]
  <2>1. /\ Sender(c) \in Views /\ Post(Sender(c), m) /\ m \in ToView
        /\ UNCHANGED <<store, life, up, proxies, toBrowser, reply>>
    BY <1>2, <1>3, <1>4 DEF CallWrapper, CanPost, stores, views, page
  <2>. QED
    BY <2>1, AccountedPost
<1>5. ASSUME NEW c \in Callbacks, NEW o \in Objects, CallWrapperWithObject(c, o)
      PROVE  \A u \in Views : Accounted(u)'
  <2> DEFINE k == Sender(c)
             m == [kind |-> "callback", cb |-> c, meta |-> MetaFor(k, o)]
  <2>1. /\ k \in Views /\ Add(k, o) /\ Post(k, m)
        /\ UNCHANGED <<life, up, proxies, toBrowser, reply>>
    BY <1>2, <1>5 DEF CallWrapperWithObject, CanPost, views, page
  <2>2. m \in ToView /\ m.meta.sid = storeNext[k] + 1 /\ m.kind = "callback"
    BY <2>1, TypeAdd, MessageTypes DEF MetaFor
  <2> HIDE DEF m, k
  <2>3. \A u \in Views : \A s \in DOMAIN store'[u] :
          s \in DOMAIN store[u] \/ (u = k /\ s = m.meta.sid)
    BY <2>1, <2>2, AddEntry
  <2>. QED
    BY <2>1, <2>2, <2>3, AccountedPost
<1>6. ASSUME NEW c \in Callbacks, CollectWrapper(c)
      PROVE  \A u \in Views : Accounted(u)'
  <2> DEFINE m == [kind |-> "release", cb |-> c, meta |-> Plain]
  <2>1. UNCHANGED <<store, life, up, proxies, toBrowser, reply>>
    BY <1>6 DEF CollectWrapper, stores, views, page
  <2>2. CASE wrapper[c] = "live" /\ Sender(c) # NoView
    <3>1. Sender(c) \in Views /\ Post(Sender(c), m) /\ m \in ToView /\ m.meta.sid = 0
      BY <1>2, <1>3, <1>6, <2>2 DEF CollectWrapper, Plain
    <3>. QED
      BY <2>1, <3>1, AccountedPost
  <2>3. CASE ~(wrapper[c] = "live" /\ Sender(c) # NoView)
    <3>1. UNCHANGED <<toView, lost>>
      BY <1>6, <2>3 DEF CollectWrapper
    <3>. QED
      BY <1>1, <2>1, <3>1
  <2>. QED
    BY <2>2, <2>3
<1>7. ASSUME NEW o \in Objects, CreateObject(o) \/ ForgetObject(o) \/ CollectObject(o)
      PROVE  \A u \in Views : Accounted(u)'
  BY <1>1, <1>7 DEF CreateObject, ForgetObject, CollectObject, stores, views, page, channels
<1>. QED
  BY <1>4, <1>5, <1>6, <1>7 DEF BrowserStep

(* Views come and go: a new page has no entries, a dead one needs none.    *)
LEMMA AccountedViewStep ==
  ASSUME TypeOK, ViewInv, NEW v \in Views, ViewStep(v), \A u \in Views : Accounted(u)
  PROVE  \A u \in Views : Accounted(u)'
<1>1. CASE Navigate(v)
  <2>1. /\ life[v] = "unborn" /\ UNCHANGED <<store, proxies, toBrowser, toView, reply, lost>>
        /\ up' = [up EXCEPT ![v] = TRUE]
        /\ \A u \in Views : u # v /\ life'[u] = "current" => life[u] = "current"
    BY <1>1 DEF Navigate, stores, channels
  <2>2. ASSUME NEW u \in Views, u # v PROVE Accounted(u)'
    BY <2>1, <2>2, AccountedFrame DEF TypeOK
  <2>3. DOMAIN store[v] = {}
    BY <2>1 DEF ViewInv
  <2>4. Accounted(v)'
    BY <2>1, <2>3 DEF Accounted
  <2>. QED
    BY <2>2, <2>4
<1>2. ASSUME ForgetPage(v), UNCHANGED <<store, lost, toBrowser, life>>
      PROVE  \A u \in Views : Accounted(u)'
  <2>1. ASSUME NEW u \in Views, u # v PROVE Accounted(u)'
    BY <1>2, <2>1, AccountedFrame DEF ForgetPage, TypeOK
  <2>2. ~up'[v] /\ toView'[v] = << >>
    BY <1>2 DEF ForgetPage, TypeOK
  <2>3. Accounted(v)'
    BY <2>2 DEF Accounted
  <2>. QED
    BY <2>1, <2>3
<1>3. CASE RenderProcessGone(v)
  BY <1>2, <1>3 DEF RenderProcessGone, stores, views
<1>4. ASSUME RenderViewGone(v)
      PROVE  \A u \in Views : Accounted(u)'
  <2>1. ASSUME NEW u \in Views, u # v PROVE Accounted(u)'
    BY <1>4, <2>1, AccountedFrame DEF RenderViewGone, ForgetPage, Clear, TypeOK
  <2>2. ~up'[v] /\ toView'[v] = << >>
    BY <1>4 DEF RenderViewGone, ForgetPage, TypeOK
  <2>3. Accounted(v)'
    BY <2>2 DEF Accounted
  <2>. QED
    BY <2>1, <2>3
<1>. QED
  BY <1>1, <1>3, <1>4 DEF ViewStep, RenderViewDeleted, WebContentsDestroyed

(* OrphanInv is kept by every step ...                                     *)
LEMMA OrphanNext ==
  ASSUME TypeOK, OwnerInv, ViewInv, UnbornInv, OrphanInv, [Next]_vars
  PROVE  OrphanInv'
<1>1. \A v \in Views : Synchronous(v)'
  BY SynchronousNext DEF OrphanInv
<1>2. (\A v \in Views : Synchronous(v)) /\ (\A v \in Views : Accounted(v))
  BY DEF OrphanInv
<1>3. ASSUME UNCHANGED <<store, life, up, proxies, toBrowser, toView, reply, lost>>
      PROVE  \A u \in Views : Accounted(u)'
  BY <1>2, <1>3, AccountedFrame
<1>4. ASSUME NEW v \in Views, PageStep(v) PROVE \A u \in Views : Accounted(u)'
  BY <1>2, <1>4, AccountedPageStep
<1>5. ASSUME NEW v \in Views, HandleMessage(v) PROVE \A u \in Views : Accounted(u)'
  BY <1>2, <1>5, AccountedHandleMessage
<1>6. ASSUME NEW v \in Views, DeferredReply(v) PROVE \A u \in Views : Accounted(u)'
  BY <1>3, <1>6 DEF DeferredReply, stores, views, page
<1>7. ASSUME NEW v \in Views, ViewStep(v) PROVE \A u \in Views : Accounted(u)'
  BY <1>2, <1>7, AccountedViewStep
<1>8. ASSUME BrowserStep PROVE \A u \in Views : Accounted(u)'
  BY <1>2, <1>8, AccountedBrowserStep
<1>9. ASSUME UNCHANGED vars PROVE \A u \in Views : Accounted(u)'
  BY <1>3, <1>9 DEF vars, stores, views, page, channels
<1>10. \A u \in Views : Accounted(u)'
  BY <1>4, <1>5, <1>6, <1>7, <1>8, <1>9 DEF Next
<1>. QED
  BY <1>1, <1>10 DEF OrphanInv

(* It holds initially.                                                     *)
LEMMA OrphanInit == Init => OrphanInv
BY DEF Init, OrphanInv, Synchronous, Accounted, Calls, Plain, EmptyMap

(* A view that is not born has sent and registered nothing.                *)
LEMMA UnbornCorrect == Spec => []UnbornInv
<1>. QED
  BY UnbornInit, UnbornNext, TypeCorrect, PTL DEF Spec

(* ... and so no entry of a running page's store is kept for nothing:      *)
(* whatever is dropped, answered late, crashed or thrown, an entry has a   *)
(* proxy, travels, or its meta data never reached the page.                *)
THEOREM EntriesHaveReasons == Spec => []NoOrphanEntry
<1>1. Spec => []OrphanInv
  BY OrphanInit, OrphanNext, TypeCorrect, OwnersCorrect, ViewsCorrect, UnbornCorrect, PTL
     DEF Spec
<1>2. OrphanInv => NoOrphanEntry
  BY DEF OrphanInv, Accounted, Reason, NoOrphanEntry
<1>. QED
  BY <1>1, <1>2, PTL

-----------------------------------------------------------------------------
(* Callbacks.                                                              *)

(* What a message of each queue is.                                        *)
LEMMA QueueTypes ==
  ASSUME TypeOK, NEW v \in Views
  PROVE  /\ \A i \in DOMAIN toView[v] : toView[v][i] \in ToView /\ toView[v][i].cb \in Callbacks
                                        /\ toView[v][i].kind \in {"callback", "release"}
         /\ \A i \in DOMAIN toBrowser[v] : toBrowser[v][i].cb \in Callbacks \cup {NoCallback}
<1>1. toView[v] \in Seq(ToView) /\ toBrowser[v] \in Seq(ToBrowser)
  BY ViewTypes
<1>2. /\ \A i \in DOMAIN toView[v] : toView[v][i] \in ToView
      /\ \A i \in DOMAIN toBrowser[v] : toBrowser[v][i] \in ToBrowser
  BY <1>1
<1>. QED
  BY <1>2 DEF ToView, ToBrowser

(* A step that leaves a queue and its callbacks alone.                     *)
LEMMA TravellingFrame ==
  ASSUME TypeOK, NEW u \in Views, Travelling(u), toBrowser'[u] = toBrowser[u],
         \A c \in Callbacks : cbOwner[c] = u => cbOwner'[c] = u,
         \A c \in Callbacks : cbOwner[c] = u /\ wrapper[c] = "none" => wrapper'[c] = "none"
  PROVE  Travelling(u)'
BY QueueTypes DEF Travelling

(* A step that leaves a queue alone and releases or registers more.        *)
LEMMA PostedFrame ==
  ASSUME TypeOK, NEW u \in Views, Posted(u), toView'[u] = toView[u],
         \A c \in Callbacks : wrapper[c] # "none" =>
           /\ wrapper'[c] # "none" /\ cbOwner'[c] = cbOwner[c]
           /\ wrapper[c] = "gone" => wrapper'[c] = "gone",
         registered[u] \subseteq registered'[u]
  PROVE  Posted(u)'
BY QueueTypes DEF Posted

(* A step that leaves a callback registered.                               *)
LEMMA RegisteredFrame ==
  ASSUME NEW c \in Callbacks, Registered(c), cbOwner'[c] = cbOwner[c],
         cbOwner[c] # NoView /\ wrapper'[c] # "gone" /\ up'[cbOwner[c]] =>
           /\ wrapper[c] # "gone" /\ up[cbOwner[c]]
           /\ c \in registered[cbOwner[c]] => c \in registered'[cbOwner[c]]
  PROVE  Registered(c)'
BY DEF Registered

(* Nothing happens to callbacks.                                           *)
LEMMA CallbackFrame ==
  ASSUME TypeOK, CallbackInv, UNCHANGED <<toBrowser, toView, cbOwner, wrapper, registered>>,
         \A v \in Views : up'[v] => up[v]
  PROVE  CallbackInv'
BY TravellingFrame, PostedFrame, RegisteredFrame DEF CallbackInv, TypeOK

(* A page sends a message; a callback in it is registered first.           *)
LEMMA CallbackSend ==
  ASSUME TypeOK, OwnerInv, CallbackInv, NEW v \in Views, NEW m \in ToBrowser,
         toBrowser' = [toBrowser EXCEPT ![v] = Append(toBrowser[v], m)],
         UNCHANGED <<toView, wrapper, up>>,
         \/ m.cb = NoCallback /\ UNCHANGED <<cbOwner, registered>>
         \/ /\ m.cb \in Callbacks /\ cbOwner[m.cb] = NoView
            /\ cbOwner' = [cbOwner EXCEPT ![m.cb] = v]
            /\ registered' = [registered EXCEPT ![v] = @ \cup {m.cb}]
  PROVE  CallbackInv'
<1>1. /\ \A u \in Views : registered[u] \subseteq registered'[u]
      /\ \A c \in Callbacks : cbOwner[c] # NoView => cbOwner'[c] = cbOwner[c]
      /\ \A c \in Callbacks : cbOwner'[c] # cbOwner[c] => c = m.cb
      /\ m.cb # NoCallback => /\ m.cb \in Callbacks /\ cbOwner[m.cb] = NoView
                              /\ cbOwner'[m.cb] = v /\ m.cb \in registered'[v]
  <2>1. CASE m.cb = NoCallback /\ UNCHANGED <<cbOwner, registered>>
    BY <2>1
  <2>2. CASE /\ m.cb \in Callbacks /\ cbOwner[m.cb] = NoView
             /\ cbOwner' = [cbOwner EXCEPT ![m.cb] = v]
             /\ registered' = [registered EXCEPT ![v] = @ \cup {m.cb}]
    <3> DEFINE c == m.cb
    <3>1. c \in Callbacks /\ cbOwner[c] = NoView /\ cbOwner' = [cbOwner EXCEPT ![c] = v]
          /\ registered' = [registered EXCEPT ![v] = registered[v] \cup {c}]
      BY <2>2
    <3> HIDE DEF c
    <3>2. /\ \A u \in Views : registered[u] \subseteq registered'[u]
          /\ \A d \in Callbacks : cbOwner[d] # NoView => cbOwner'[d] = cbOwner[d]
          /\ \A d \in Callbacks : cbOwner'[d] # cbOwner[d] => d = c
          /\ cbOwner'[c] = v /\ c \in registered'[v]
      BY <3>1 DEF TypeOK
    <3>. QED
      BY <3>1, <3>2 DEF c
  <2>. QED
    BY <2>1, <2>2
<1>2. \A c \in Callbacks : wrapper[c] # "none" => cbOwner[c] # NoView
  BY DEF OwnerInv
<1>3. ASSUME NEW u \in Views PROVE Posted(u)'
  <2>1. Posted(u)
    BY DEF CallbackInv
  <2>2. \A c \in Callbacks : wrapper[c] # "none" =>
          /\ wrapper'[c] # "none" /\ cbOwner'[c] = cbOwner[c]
          /\ wrapper[c] = "gone" => wrapper'[c] = "gone"
    BY <1>1, <1>2
  <2>. QED
    BY <1>1, <2>1, <2>2, PostedFrame
<1>4. ASSUME NEW c \in Callbacks PROVE Registered(c)'
  <2>1. CASE cbOwner'[c] = cbOwner[c]
    BY <1>1, <2>1, RegisteredFrame DEF CallbackInv, TypeOK
  <2>2. CASE cbOwner'[c] # cbOwner[c]
    BY <1>1, <2>2 DEF Registered
  <2>. QED
    BY <2>1, <2>2
<1>5. ASSUME NEW u \in Views, u # v PROVE Travelling(u)'
  <2>1. Travelling(u) /\ toBrowser'[u] = toBrowser[u]
    BY <1>5 DEF CallbackInv, TypeOK
  <2>2. \A c \in Callbacks : cbOwner[c] = u => cbOwner'[c] = u
    BY <1>1
  <2>. QED
    BY <2>1, <2>2, TravellingFrame
<1>6. Travelling(v)'
  <2> DEFINE q == toBrowser[v]
             a == Append(q, m)
  <2>1. toBrowser'[v] = a /\ q \in Seq(ToBrowser) /\ Travelling(v)
    BY DEF CallbackInv, TypeOK
  <2>2. /\ DOMAIN a = 1 .. (Len(q) + 1) /\ DOMAIN q = 1 .. Len(q) /\ Len(q) \in Nat
        /\ \A i \in DOMAIN q : a[i] = q[i]
        /\ a[Len(q) + 1] = m
    BY <2>1, AppendElements
  <2> HIDE DEF a
  <2>3. \A i \in DOMAIN a : i \in DOMAIN q \/ i = Len(q) + 1
    BY <2>2
  <2>4. \A i \in DOMAIN q : q[i].cb # NoCallback => q[i].cb \in Callbacks /\ q[i].cb # m.cb
    <3>1. \A i \in DOMAIN q : q[i].cb # NoCallback => q[i].cb \in Callbacks
      BY QueueTypes
    <3>2. \A i \in DOMAIN q : q[i].cb # NoCallback => cbOwner[q[i].cb] \in Views
      BY DEF OwnerInv
    <3>. QED
      BY <1>1, <3>1, <3>2
  <2>5. ASSUME NEW i \in DOMAIN a, a[i].cb # NoCallback
        PROVE  /\ cbOwner'[a[i].cb] = v /\ wrapper[a[i].cb] = "none"
               /\ \A j \in DOMAIN a : a[j].cb = a[i].cb => i = j
    <3>1. CASE i \in DOMAIN q
      <4>1. a[i] = q[i]
        BY <2>2, <3>1
      <4>2. /\ cbOwner[q[i].cb] = v /\ wrapper[q[i].cb] = "none"
            /\ \A j \in DOMAIN q : q[j].cb = q[i].cb => i = j
        BY <2>1, <2>5, <3>1, <4>1 DEF Travelling
      <4>3. cbOwner'[q[i].cb] = v
        BY <1>1, <2>4, <2>5, <3>1, <4>1, <4>2
      <4>. QED
        BY <2>2, <2>3, <2>4, <2>5, <3>1, <4>1, <4>2, <4>3
    <3>2. CASE i = Len(q) + 1
      <4>1. a[i] = m
        BY <2>2, <3>2
      <4>2. cbOwner'[m.cb] = v /\ wrapper[m.cb] = "none"
        BY <1>1, <1>2, <2>5, <4>1
      <4>3. \A j \in DOMAIN a : a[j].cb = m.cb => i = j
        BY <2>2, <2>3, <2>4, <2>5, <3>2, <4>1
      <4>. QED
        BY <4>1, <4>2, <4>3
    <3>. QED
      BY <2>3, <3>1, <3>2
  <2>. QED
    BY <2>1, <2>5 DEF Travelling
<1>. QED
  BY <1>3, <1>4, <1>5, <1>6 DEF CallbackInv

(* A page takes a message; a release makes it forget its callback.         *)
LEMMA CallbackReceive ==
  ASSUME TypeOK, OwnerInv, CallbackInv, NEW v \in Views, toView[v] # << >>,
         toView' = [toView EXCEPT ![v] = Tail(toView[v])],
         UNCHANGED <<toBrowser, cbOwner, wrapper, up>>,
         \/ UNCHANGED registered
         \/ /\ Head(toView[v]).kind = "release"
            /\ registered' = [registered EXCEPT ![v] = @ \ {Head(toView[v]).cb}]
  PROVE  CallbackInv'
<1> DEFINE q == toView[v]
           t == Tail(q)
           c == Head(q).cb
<1>1. toView'[v] = t /\ q \in Seq(ToView) /\ Posted(v) /\ q # << >>
  BY DEF CallbackInv, TypeOK
<1>2. /\ Head(q) = q[1] /\ 1 \in DOMAIN q
      /\ DOMAIN q = 1 .. Len(q) /\ Len(q) \in Nat
      /\ DOMAIN t = 1 .. (Len(q) - 1)
      /\ \A i \in DOMAIN t : t[i] = q[i + 1]
  BY <1>1
<1>3. \A u \in Views : Travelling(u)'
  BY TravellingFrame DEF CallbackInv
<1>4. \A u \in Views : u # v => Posted(u)'
  <2>1. \A u \in Views : u # v => toView'[u] = toView[u] /\ registered'[u] = registered[u]
    BY DEF TypeOK
  <2>. QED
    BY <2>1, PostedFrame DEF CallbackInv
<1> HIDE DEF t, c
<1>5. /\ registered'[v] = registered[v] \/ Head(q).kind = "release"
      /\ \A d \in registered[v] : d = c \/ d \in registered'[v]
      /\ \A u \in Views : u # v => registered'[u] = registered[u]
      /\ UNCHANGED registered \/ wrapper[c] = "gone"
  <2>1. Head(q).kind = "release" => wrapper[c] = "gone"
    BY <1>1, <1>2 DEF Posted, c
  <2>. QED
    BY <2>1 DEF TypeOK, c
<1>6. \A d \in Callbacks : Registered(d)'
  <2>1. ASSUME NEW d \in Callbacks PROVE Registered(d)'
    <3>1. Registered(d)
      BY DEF CallbackInv
    <3>2. cbOwner[d] \in Views \cup {NoView}
      BY DEF TypeOK
    <3>3. wrapper[d] # "gone" /\ cbOwner[d] \in Views /\ d \in registered[cbOwner[d]]
            => d \in registered'[cbOwner[d]]
      BY <1>5
    <3>. QED
      BY <3>1, <3>2, <3>3 DEF Registered
  <2>. QED
    BY <2>1
<1>7. Posted(v)'
  <2>1. ASSUME NEW i \in DOMAIN t
        PROVE  LET m == t[i] IN
               /\ wrapper[m.cb] # "none"
               /\ m.kind = "release" => wrapper[m.cb] = "gone"
               /\ m.kind = "callback" => \A j \in 1..(i - 1) : t[j].kind = "release" =>
                                           t[j].cb # m.cb
               /\ m.kind = "callback" /\ cbOwner[m.cb] = v => m.cb \in registered'[v]
    <3>1. /\ i + 1 \in DOMAIN q /\ t[i] = q[i + 1] /\ i \in Nat /\ 1 \in 1 .. ((i + 1) - 1)
          /\ \A j \in 1..(i - 1) : /\ j \in DOMAIN t /\ t[j] = q[j + 1]
                                   /\ j + 1 \in 1 .. ((i + 1) - 1)
      <4>1. i \in 1 .. (Len(q) - 1) /\ Len(q) \in Nat
        BY <1>2
      <4>2. i + 1 \in 1 .. Len(q) /\ i \in Nat /\ 1 \in 1 .. ((i + 1) - 1)
        BY <4>1
      <4>3. \A j \in 1..(i - 1) : j \in 1 .. (Len(q) - 1) /\ j + 1 \in 1 .. ((i + 1) - 1)
        BY <4>1
      <4>. QED
        BY <1>2, <4>2, <4>3
    <3> DEFINE m == q[i + 1]
    <3>2. /\ wrapper[m.cb] # "none"
          /\ m.kind = "release" => wrapper[m.cb] = "gone"
          /\ m.kind = "callback" => \A j \in 1..((i + 1) - 1) : q[j].kind = "release" =>
                                      q[j].cb # m.cb
          /\ m.kind = "callback" /\ cbOwner[m.cb] = v => m.cb \in registered[v]
      BY <1>1, <3>1 DEF Posted
    <3> HIDE DEF m
    <3>3. m.kind = "callback" => \A j \in 1..(i - 1) : t[j].kind = "release" => t[j].cb # m.cb
      BY <3>1, <3>2
    <3>4. m.kind = "callback" /\ cbOwner[m.cb] = v => m.cb \in registered'[v]
      <4>1. m.kind = "callback" /\ Head(q).kind = "release" => m.cb # c
        BY <1>2, <3>1, <3>2 DEF c
      <4>. QED
        BY <1>5, <3>2, <4>1
    <3>. QED
      BY <3>1, <3>2, <3>3, <3>4 DEF m
  <2>2. wrapper' = wrapper /\ cbOwner' = cbOwner /\ toView'[v] = t
    BY <1>1
  <2> HIDE DEF q
  <2>3. \A i \in DOMAIN toView'[v] :
          LET m == toView'[v][i] IN
          /\ wrapper'[m.cb] # "none"
          /\ m.kind = "release" => wrapper'[m.cb] = "gone"
          /\ m.kind = "callback" => \A j \in 1..(i - 1) : toView'[v][j].kind = "release" =>
                                      toView'[v][j].cb # m.cb
          /\ m.kind = "callback" /\ cbOwner'[m.cb] = v => m.cb \in registered'[v]
    BY ONLY <2>1, <2>2
  <2>. QED
    BY ONLY <2>3 DEF Posted
<1>. QED
  BY <1>3, <1>4, <1>6, <1>7 DEF CallbackInv

(* A handler takes a message and may wrap the callback it brings.          *)
LEMMA CallbackTake ==
  ASSUME TypeOK, CallbackInv, NEW v \in Views, NEW kind, Delivered(v, kind), TakeCall(v),
         UNCHANGED <<toView, cbOwner, up, registered>>,
         UNCHANGED wrapper \/ UnwrapArgs(v, Head(toBrowser[v]))
  PROVE  CallbackInv'
<1> DEFINE q == toBrowser[v]
           t == Tail(q)
           c == Head(q).cb
<1>1. toBrowser' = [toBrowser EXCEPT ![v] = Tail(toBrowser[v])] /\ q # << >>
  BY DEF TakeCall, Delivered
<1>2. toBrowser'[v] = t /\ q \in Seq(ToBrowser) /\ Travelling(v)
  BY <1>1 DEF CallbackInv, TypeOK
<1>3. /\ c = q[1].cb /\ 1 \in DOMAIN q
      /\ DOMAIN q = 1 .. Len(q) /\ Len(q) \in Nat
      /\ DOMAIN t = 1 .. (Len(q) - 1)
      /\ \A i \in DOMAIN t : t[i] = q[i + 1]
  BY <1>1, <1>2
<1> HIDE DEF t, c
<1>4. c # NoCallback => /\ c \in Callbacks /\ cbOwner[c] = v /\ wrapper[c] = "none"
                        /\ \A j \in DOMAIN q : q[j].cb = c => j = 1
  BY <1>2, <1>3, QueueTypes DEF Travelling
<1>5. \A d \in Callbacks : wrapper'[d] = wrapper[d] \/ (d = c /\ wrapper'[d] = "live")
  <2>1. CASE UNCHANGED wrapper
    BY <2>1
  <2>2. CASE UnwrapArgs(v, Head(toBrowser[v]))
    <3>1. wrapper' = IF c = NoCallback THEN wrapper ELSE [wrapper EXCEPT ![c] = "live"]
      BY <2>2 DEF UnwrapArgs, c
    <3>. QED
      BY <3>1 DEF TypeOK
  <2>. QED
    BY <2>1, <2>2
<1>6. \A d \in Callbacks : wrapper[d] # "none" => wrapper'[d] = wrapper[d]
  BY <1>4, <1>5
<1>7. ASSUME NEW u \in Views PROVE Posted(u)'
  BY <1>6, PostedFrame DEF CallbackInv
<1>8. ASSUME NEW d \in Callbacks PROVE Registered(d)'
  BY <1>4, <1>5, RegisteredFrame DEF CallbackInv
<1>9. ASSUME NEW u \in Views, u # v PROVE Travelling(u)'
  <2>1. toBrowser'[u] = toBrowser[u] /\ Travelling(u)
    BY <1>1, <1>9 DEF CallbackInv, TypeOK
  <2>2. \A d \in Callbacks : cbOwner[d] = u => wrapper'[d] = wrapper[d]
    BY <1>4, <1>5, <1>9
  <2>. QED
    BY <2>1, <2>2, TravellingFrame
<1>10. Travelling(v)'
  <2>1. ASSUME NEW i \in DOMAIN t, t[i].cb # NoCallback
        PROVE  /\ cbOwner[t[i].cb] = v /\ wrapper'[t[i].cb] = "none"
               /\ \A j \in DOMAIN t : t[j].cb = t[i].cb => i = j
    <3>1. /\ i + 1 \in DOMAIN q /\ t[i] = q[i + 1] /\ i \in Nat /\ i + 1 # 1
          /\ \A j \in DOMAIN t : j + 1 \in DOMAIN q /\ t[j] = q[j + 1] /\ j \in Nat
      BY <1>3
    <3> DEFINE d == q[i + 1].cb
    <3>2. /\ cbOwner[d] = v /\ wrapper[d] = "none" /\ d \in Callbacks
          /\ \A j \in DOMAIN q : q[j].cb = d => i + 1 = j
      BY <1>2, <2>1, <3>1, QueueTypes DEF Travelling
    <3>3. d # c
      BY <1>4, <2>1, <3>1
    <3> HIDE DEF d
    <3>4. wrapper'[d] = "none"
      BY <1>5, <3>2, <3>3
    <3>5. \A j \in DOMAIN t : t[j].cb = d => i + 1 = j + 1
      BY <3>1, <3>2
    <3>6. \A j \in DOMAIN t : t[j].cb = d => i = j
      BY <3>1, <3>5
    <3>. QED
      BY <3>1, <3>2, <3>4, <3>6 DEF d
  <2>2. cbOwner' = cbOwner /\ toBrowser'[v] = t
    BY <1>2
  <2> HIDE DEF q
  <2>. QED
    BY ONLY <2>1, <2>2 DEF Travelling
<1>. QED
  BY <1>7, <1>8, <1>9, <1>10 DEF CallbackInv

(* The queue to a page gets one message at most, after all others.         *)
LEMMA PostQueue ==
  ASSUME TypeOK, NEW k \in Views, NEW m \in ToView, Post(k, m)
  PROVE  /\ \A u \in Views : u # k => toView'[u] = toView[u]
         /\ \/ toView'[k] = toView[k] /\ ~up[k]
            \/ toView'[k] = Append(toView[k], m) /\ up[k]
BY DEF Post, TypeOK

(* A wrapper is called or collected.                                       *)
LEMMA CallbackPost ==
  ASSUME TypeOK, OwnerInv, CallbackInv, NEW c \in Callbacks, wrapper[c] = "live",
         NEW k \in Views, NEW m \in ToView, m.cb = c, Post(k, m),
         UNCHANGED <<toBrowser, cbOwner, up, registered>>,
         \/ m.kind = "callback" /\ wrapper' = wrapper
         \/ m.kind = "release" /\ wrapper' = [wrapper EXCEPT ![c] = "gone"]
  PROVE  CallbackInv'
<1>1. \A d \in Callbacks : wrapper'[d] = wrapper[d]
                           \/ (d = c /\ wrapper'[d] = "gone" /\ m.kind = "release")
  BY DEF TypeOK
<1>2. \A d \in Callbacks : wrapper[d] # "none" =>
        /\ wrapper'[d] # "none" /\ cbOwner'[d] = cbOwner[d]
        /\ wrapper[d] = "gone" => wrapper'[d] = "gone"
  BY <1>1
<1>3. \A u \in Views : Travelling(u)'
  BY <1>1, TravellingFrame DEF CallbackInv
<1>4. \A d \in Callbacks : Registered(d)'
  BY <1>1, RegisteredFrame DEF CallbackInv
<1>5. ASSUME NEW u \in Views, toView'[u] = toView[u] PROVE Posted(u)'
  BY <1>2, <1>5, PostedFrame DEF CallbackInv
<1>6. ASSUME up[k], toView'[k] = Append(toView[k], m) PROVE Posted(k)'
  <2> DEFINE q == toView[k]
             a == Append(q, m)
  <2>1. toView'[k] = a /\ q \in Seq(ToView) /\ Posted(k)
    BY <1>6 DEF CallbackInv, TypeOK
  <2>2. /\ DOMAIN a = 1 .. (Len(q) + 1) /\ DOMAIN q = 1 .. Len(q) /\ Len(q) \in Nat
        /\ \A i \in DOMAIN q : a[i] = q[i]
        /\ a[Len(q) + 1] = m
    BY <2>1, AppendElements
  <2> HIDE DEF a
  <2>3. \A i \in DOMAIN a : /\ i \in DOMAIN q \/ i = Len(q) + 1
                            /\ \A j \in 1 .. (i - 1) : j \in DOMAIN q
    BY <2>2
  <2>4. ASSUME NEW i \in DOMAIN a
        PROVE  LET n == a[i] IN
               /\ wrapper'[n.cb] # "none"
               /\ n.kind = "release" => wrapper'[n.cb] = "gone"
               /\ n.kind = "callback" => \A j \in 1..(i - 1) : a[j].kind = "release" =>
                                           a[j].cb # n.cb
               /\ n.kind = "callback" /\ cbOwner[n.cb] = k => n.cb \in registered[k]
    <3>1. CASE i \in DOMAIN q
      <4>1. a[i] = q[i] /\ \A j \in 1 .. (i - 1) : a[j] = q[j]
        BY <2>2, <2>3, <3>1
      <4>2. q[i].cb \in Callbacks
        BY <3>1, QueueTypes
      <4>3. LET n == q[i] IN
            /\ wrapper[n.cb] # "none"
            /\ n.kind = "release" => wrapper[n.cb] = "gone"
            /\ n.kind = "callback" => \A j \in 1..(i - 1) : q[j].kind = "release" =>
                                        q[j].cb # n.cb
            /\ n.kind = "callback" /\ cbOwner[n.cb] = k => n.cb \in registered[k]
        BY <2>1, <3>1 DEF Posted
      <4> HIDE DEF q
      <4>. QED
        BY <1>2, <4>1, <4>2, <4>3
    <3>2. CASE i = Len(q) + 1
      <4>1. a[i] = m /\ \A j \in 1 .. (i - 1) : j \in DOMAIN q /\ a[j] = q[j]
        BY <2>2, <2>3, <3>2
      <4>2. \A j \in DOMAIN q : q[j].kind = "release" => q[j].cb # c
        BY <2>1 DEF Posted
      <4>3. m.kind = "release" => wrapper'[c] = "gone"
        BY DEF TypeOK
      <4>4. cbOwner[c] = k => c \in registered[k]
        <5>1. Registered(c)
          BY DEF CallbackInv
        <5>2. k # NoView
          OBVIOUS
        <5>. QED
          BY <1>6, <5>1, <5>2 DEF Registered
      <4>5. wrapper'[c] # "none"
        BY <1>1
      <4> HIDE DEF q
      <4>. QED
        BY <4>1, <4>2, <4>3, <4>4, <4>5
    <3>. QED
      BY <2>3, <3>1, <3>2
  <2>5. cbOwner' = cbOwner /\ toView'[k] = a /\ registered' = registered
    BY <2>1
  <2> HIDE DEF q
  <2>. QED
    BY ONLY <2>4, <2>5 DEF Posted
<1>7. \A u \in Views : Posted(u)'
  BY <1>5, <1>6, PostQueue
<1>. QED
  BY <1>3, <1>4, <1>7 DEF CallbackInv

(* A page sends and receives.                                              *)
LEMMA CallbackPageStep ==
  ASSUME TypeOK, OwnerInv, CallbackInv, NEW v \in Views, PageStep(v)
  PROVE  CallbackInv'
<1>1. ASSUME NEW id \in Nat, NEW arg \in Nat, SendSync(v, Request(id, arg, NoCallback)),
             UNCHANGED <<wrapper, up, cbOwner, registered>>
      PROVE  CallbackInv'
  <2> DEFINE m == Request(id, arg, NoCallback)
  <2>1. m \in ToBrowser /\ m.cb = NoCallback
    BY MessageTypes DEF Request
  <2>2. toBrowser' = [toBrowser EXCEPT ![v] = Append(toBrowser[v], m)] /\ UNCHANGED toView
    BY <1>1 DEF SendSync
  <2> HIDE DEF m
  <2>. QED
    BY <1>1, <2>1, <2>2, CallbackSend
<1>2. CASE RequireRemote(v)
  <2>1. 0 \in Nat
    OBVIOUS
  <2>. QED
    BY <1>1, <1>2, <2>1 DEF RequireRemote, wrappers, page
<1>3. ASSUME NEW p \in proxies[v], NEW arg \in {q.id : q \in proxies[v]} \cup {0},
             CallProxy(v, p, arg)
      PROVE  CallbackInv'
  <2>1. p.id \in Nat /\ arg \in Nat
    BY DEF TypeOK, Meta
  <2>. QED
    BY <1>1, <1>3, <2>1 DEF CallProxy, wrappers, page
<1>4. ASSUME NEW p \in proxies[v], NEW c \in Callbacks, CallProxyWithCallback(v, p, c)
      PROVE  CallbackInv'
  <2> DEFINE m == Request(p.id, 0, c)
  <2>1. p.id \in Nat
    BY DEF TypeOK, Meta
  <2>2. m \in ToBrowser /\ m.cb = c
    BY <2>1, MessageTypes DEF Request
  <2>3. /\ toBrowser' = [toBrowser EXCEPT ![v] = Append(toBrowser[v], m)]
        /\ UNCHANGED <<toView, wrapper, up>> /\ cbOwner[c] = NoView
        /\ cbOwner' = [cbOwner EXCEPT ![c] = v]
        /\ registered' = [registered EXCEPT ![v] = @ \cup {c}]
    BY <1>4 DEF CallProxyWithCallback, SendSync, wrappers
  <2> HIDE DEF m
  <2>. QED
    BY <2>2, <2>3, CallbackSend
<1>5. ASSUME NEW p \in methods[v], CallMethod(v, p)
      PROVE  CallbackInv'
  <2>1. p.id \in Nat /\ 0 \in Nat
    BY DEF TypeOK, Meta
  <2>. QED
    BY <1>1, <1>5, <2>1 DEF CallMethod, wrappers
<1>6. ASSUME NEW id \in loose[v], CallMethodAgain(v, id)
      PROVE  CallbackInv'
  <2>1. id \in Nat /\ 0 \in Nat
    BY DEF TypeOK
  <2>. QED
    BY <1>1, <1>6, <2>1 DEF CallMethodAgain, wrappers, page
<1>7. ASSUME NEW p \in proxies[v], CollectProxy(v, p)
      PROVE  CallbackInv'
  <2> DEFINE m == Dereference(p)
  <2>1. m \in ToBrowser /\ m.cb = NoCallback
    BY MessageTypes DEF Dereference, TypeOK
  <2>2. /\ toBrowser' = [toBrowser EXCEPT ![v] = Append(toBrowser[v], m)]
        /\ UNCHANGED <<toView, wrapper, up, cbOwner, registered>>
    BY <1>7 DEF CollectProxy, wrappers
  <2> HIDE DEF m
  <2>. QED
    BY <2>1, <2>2, CallbackSend
<1>8. ASSUME NEW p \in proxies[v], Detach(v, p)
      PROVE  CallbackInv'
  BY <1>8, CallbackFrame DEF Detach, wrappers, channels
<1>9. CASE DidCreateDocumentElement(v) \/ ReceiveReply(v)
  BY <1>9, CallbackFrame DEF DidCreateDocumentElement, ReceiveReply, wrappers, channels
<1>10. CASE ReceiveMessage(v)
  <2>1. /\ toView[v] # << >> /\ toView' = [toView EXCEPT ![v] = Tail(toView[v])]
        /\ UNCHANGED <<toBrowser, cbOwner, wrapper, up>>
        /\ \/ UNCHANGED registered
           \/ /\ Head(toView[v]).kind = "release"
              /\ registered' = [registered EXCEPT ![v] = @ \ {Head(toView[v]).cb}]
    BY <1>10 DEF ReceiveMessage, DropMessage, ReceiveCallback, ReceiveRelease, wrappers, page
  <2>. QED
    BY <2>1, CallbackReceive
<1>. QED
  BY <1>2, <1>3, <1>4, <1>5, <1>6, <1>7, <1>8, <1>9, <1>10 DEF PageStep

(* Views come and go: a dead page has no callbacks and no queue.           *)
LEMMA CallbackViewStep ==
  ASSUME TypeOK, OwnerInv, UnbornInv, CallbackInv, NEW v \in Views, ViewStep(v)
  PROVE  CallbackInv'
<1>1. CASE Navigate(v)
  <2>1. /\ UNCHANGED <<toBrowser, toView, cbOwner, wrapper, registered>>
        /\ life[v] = "unborn" /\ up' = [up EXCEPT ![v] = TRUE]
    BY <1>1 DEF Navigate, channels, wrappers
  <2>2. \A c \in Callbacks : cbOwner[c] # v
    BY <2>1 DEF UnbornInv
  <2>3. \A u \in Views : Travelling(u)' /\ Posted(u)'
    BY <2>1, TravellingFrame, PostedFrame DEF CallbackInv
  <2>4. ASSUME NEW c \in Callbacks PROVE Registered(c)'
    <3>1. Registered(c) /\ cbOwner[c] \in Views \cup {NoView}
      BY DEF CallbackInv, TypeOK
    <3>2. cbOwner[c] # NoView => up'[cbOwner[c]] = up[cbOwner[c]]
      BY <2>1, <2>2, <3>1 DEF TypeOK
    <3>. QED
      BY <2>1, <3>1, <3>2 DEF Registered
  <2>. QED
    BY <2>3, <2>4 DEF CallbackInv
<1>2. ASSUME ForgetPage(v), UNCHANGED cbOwner,
             \A u \in Views : u # v => toBrowser'[u] = toBrowser[u],
             toBrowser'[v] = toBrowser[v] \/ toBrowser'[v] = << >>,
             \A c \in Callbacks : wrapper'[c] = wrapper[c]
                                  \/ (wrapper[c] = "live" /\ wrapper'[c] = "released")
      PROVE  CallbackInv'
  <2>1. /\ up' = [up EXCEPT ![v] = FALSE] /\ registered' = [registered EXCEPT ![v] = {}]
        /\ toView' = [toView EXCEPT ![v] = << >>]
    BY <1>2 DEF ForgetPage
  <2>2. /\ \A c \in Callbacks : wrapper[c] = "none" => wrapper'[c] = "none"
        /\ \A c \in Callbacks : wrapper[c] # "none" => wrapper'[c] # "none"
        /\ \A c \in Callbacks : wrapper[c] = "gone" <=> wrapper'[c] = "gone"
    BY <1>2
  <2>3. ASSUME NEW u \in Views, toBrowser'[u] = toBrowser[u] PROVE Travelling(u)'
    BY <1>2, <2>2, <2>3, TravellingFrame DEF CallbackInv
  <2>4. ASSUME NEW u \in Views, toBrowser'[u] = << >> PROVE Travelling(u)'
    BY <2>4 DEF Travelling
  <2>5. ASSUME NEW u \in Views, u # v PROVE Posted(u)'
    <3>1. toView'[u] = toView[u] /\ registered'[u] = registered[u] /\ Posted(u)
      BY <2>1, <2>5 DEF CallbackInv, TypeOK
    <3>. QED
      BY <1>2, <2>2, <3>1, PostedFrame
  <2>6. Posted(v)'
    <3>1. toView'[v] = << >>
      BY <2>1 DEF TypeOK
    <3>. QED
      BY <3>1 DEF Posted
  <2>7. ASSUME NEW c \in Callbacks PROVE Registered(c)'
    <3>1. Registered(c) /\ cbOwner[c] \in Views \cup {NoView}
      BY DEF CallbackInv, TypeOK
    <3>2. cbOwner[c] \in Views =>
            \/ ~up'[cbOwner[c]]
            \/ up'[cbOwner[c]] = up[cbOwner[c]]
               /\ registered'[cbOwner[c]] = registered[cbOwner[c]]
      BY <2>1 DEF TypeOK
    <3>. QED
      BY <1>2, <2>2, <3>1, <3>2 DEF Registered
  <2>. QED
    BY <1>2, <2>3, <2>4, <2>5, <2>6, <2>7 DEF CallbackInv
<1>3. CASE RenderProcessGone(v)
  BY <1>2, <1>3 DEF RenderProcessGone, wrappers
<1>4. CASE RenderViewDeleted(v) \/ WebContentsDestroyed(v)
  <2>1. /\ ForgetPage(v) /\ Clear(v) /\ UNCHANGED cbOwner
        /\ toBrowser' = [toBrowser EXCEPT ![v] = << >>]
    BY <1>4 DEF RenderViewDeleted, WebContentsDestroyed, RenderViewGone
  <2>2. /\ \A u \in Views : u # v => toBrowser'[u] = toBrowser[u]
        /\ toBrowser'[v] = << >>
    BY <2>1 DEF TypeOK
  <2>3. \A c \in Callbacks : wrapper'[c] = wrapper[c]
                             \/ (wrapper[c] = "live" /\ wrapper'[c] = "released")
    BY <2>1 DEF Clear
  <2>. QED
    BY <1>2, <2>1, <2>2, <2>3
<1>. QED
  BY <1>1, <1>3, <1>4 DEF ViewStep

(* Wrappers are called and collected.                                      *)
LEMMA CallbackBrowserStep ==
  ASSUME TypeOK, OwnerInv, CallbackInv, BrowserStep
  PROVE  CallbackInv'
<1>1. \A c \in Callbacks : wrapper[c] # "none" /\ Sender(c) # NoView => Sender(c) \in Views
  BY DEF Sender, Key, TypeOK, OwnerInv
<1>2. \A c \in Callbacks :
        /\ [kind |-> "callback", cb |-> c, meta |-> Plain] \in ToView
        /\ [kind |-> "release", cb |-> c, meta |-> Plain] \in ToView
  BY MessageTypes
<1>3. ASSUME NEW c \in Callbacks, CallWrapper(c) PROVE CallbackInv'
  <2> DEFINE m == [kind |-> "callback", cb |-> c, meta |-> Plain]
             k == Sender(c)
  <2>1. /\ k \in Views /\ Post(k, m) /\ m \in ToView /\ wrapper[c] = "live"
        /\ m.cb = c /\ m.kind = "callback"
        /\ UNCHANGED <<toBrowser, cbOwner, up, registered, wrapper>>
    BY <1>1, <1>2, <1>3 DEF CallWrapper, CanPost, wrappers, page
  <2> HIDE DEF m, k
  <2>. QED
    BY <2>1, CallbackPost
<1>4. ASSUME NEW c \in Callbacks, NEW o \in Objects, CallWrapperWithObject(c, o)
      PROVE  CallbackInv'
  <2> DEFINE k == Sender(c)
             m == [kind |-> "callback", cb |-> c, meta |-> MetaFor(k, o)]
  <2>1. /\ k \in Views /\ Add(k, o) /\ Post(k, m) /\ wrapper[c] = "live"
        /\ m.cb = c /\ m.kind = "callback"
        /\ UNCHANGED <<toBrowser, cbOwner, up, registered, wrapper>>
    BY <1>1, <1>4 DEF CallWrapperWithObject, CanPost, wrappers, page
  <2>2. m \in ToView
    BY <2>1, TypeAdd, MessageTypes
  <2> HIDE DEF m, k
  <2>. QED
    BY <2>1, <2>2, CallbackPost
<1>5. ASSUME NEW c \in Callbacks, CollectWrapper(c) PROVE CallbackInv'
  <2> DEFINE m == [kind |-> "release", cb |-> c, meta |-> Plain]
             k == Sender(c)
  <2>1. /\ UNCHANGED <<toBrowser, cbOwner, up, registered>>
        /\ wrapper' = [wrapper EXCEPT ![c] = "gone"] /\ wrapper[c] \in {"live", "released"}
    BY <1>5 DEF CollectWrapper, page
  <2>2. CASE wrapper[c] = "live" /\ k # NoView
    <3>1. /\ k \in Views /\ Post(k, m) /\ m \in ToView /\ m.cb = c /\ m.kind = "release"
      BY <1>1, <1>2, <1>5, <2>2 DEF CollectWrapper
    <3> HIDE DEF m, k
    <3>. QED
      BY <2>1, <2>2, <3>1, CallbackPost
  <2>3. CASE ~(wrapper[c] = "live" /\ k # NoView)
    <3>1. UNCHANGED toView
      BY <1>5, <2>3 DEF CollectWrapper
    <3>2. /\ \A d \in Callbacks : wrapper[d] = "none" => wrapper'[d] = "none"
          /\ \A d \in Callbacks : wrapper[d] # "none" => wrapper'[d] # "none"
          /\ \A d \in Callbacks : wrapper[d] = "gone" => wrapper'[d] = "gone"
      BY <2>1 DEF TypeOK
    <3>3. \A u \in Views : Travelling(u)' /\ Posted(u)'
      BY <2>1, <3>1, <3>2, TravellingFrame, PostedFrame DEF CallbackInv
    <3>4. \A d \in Callbacks : Registered(d)'
      BY <2>1, <3>2, RegisteredFrame DEF CallbackInv
    <3>. QED
      BY <3>3, <3>4 DEF CallbackInv
  <2>. QED
    BY <2>2, <2>3
<1>6. ASSUME NEW o \in Objects, CreateObject(o) \/ ForgetObject(o) \/ CollectObject(o)
      PROVE  CallbackInv'
  BY <1>6, CallbackFrame DEF CreateObject, ForgetObject, CollectObject, wrappers, page, channels
<1>. QED
  BY <1>3, <1>4, <1>5, <1>6 DEF BrowserStep

(* CallbackInv is kept by every step ...                                   *)
LEMMA CallbackNext ==
  ASSUME TypeOK, OwnerInv, UnbornInv, CallbackInv, [Next]_vars
  PROVE  CallbackInv'
<1>1. ASSUME NEW v \in Views, HandleMessage(v) PROVE CallbackInv'
  <2>1. \E kind : /\ Delivered(v, kind) /\ TakeCall(v)
                  /\ UNCHANGED <<toView, cbOwner, up, registered>>
                  /\ UNCHANGED wrapper \/ UnwrapArgs(v, Head(toBrowser[v]))
    BY <1>1 DEF HandleMessage, CallReturnsValue, CallReturnsObject,
       CallReturnsBrokenObject, CallThrowsNothing,
       BrokenObjectAbandons, Abandon, CallOfUnknownId, CallIsDeferred,
       HandleDereference, page, wrappers, Answer
  <2>. QED
    BY <2>1, CallbackTake
<1>2. ASSUME NEW v \in Views, DeferredReply(v) PROVE CallbackInv'
  BY <1>2, CallbackFrame DEF DeferredReply, wrappers, page
<1>3. CASE UNCHANGED vars
  BY <1>3, CallbackFrame DEF vars, wrappers, page, channels
<1>. QED
  BY <1>1, <1>2, <1>3, CallbackPageStep, CallbackViewStep, CallbackBrowserStep DEF Next

(* It holds initially.                                                     *)
LEMMA CallbackInit == Init => CallbackInv
BY DEF Init, CallbackInv, Travelling, Posted, Registered

(* ... and so holds in every reachable state.                              *)
LEMMA CallbacksCorrect == Spec => []CallbackInv
<1>. QED
  BY CallbackInit, CallbackNext, TypeCorrect, OwnersCorrect, UnbornCorrect, PTL DEF Spec

(* A callback message that reaches the page that registered the callback   *)
(* finds it there: its release neither overtakes nor precedes a call.      *)
THEOREM CallbacksInTime == Spec => []CallbackNeverLate
<1>1. CallbackInv => CallbackNeverLate
  BY DEF CallbackInv, Posted, CallbackNeverLate
<1>. QED
  BY <1>1, CallbacksCorrect, PTL

-----------------------------------------------------------------------------
(* Wrappers listen to the view that registered their callback, as long as  *)
(* content delivers no message of a swapped-out view.                      *)
LEMMA ListenFrame ==
  ASSUME TypeOK, ListenInv,
         \A c \in Callbacks : wrapper'[c] = "live" =>
           wrapper[c] = "live" /\ wrapperKey'[c] = wrapperKey[c] /\ cbOwner'[c] = cbOwner[c],
         \A c \in Callbacks : wrapper'[c] = "live" /\ life[cbOwner[c]] \in {"current", "swapped"}
           => life'[cbOwner[c]] \in {"current", "swapped"}
  PROVE  ListenInv'
BY DEF ListenInv

(* ListenInv is kept by every step.                                        *)
LEMMA ListenNext ==
  ASSUME ~LateMessages, TypeOK, OwnerInv, ViewInv, CallbackInv, ListenInv, [Next]_vars
  PROVE  ListenInv'
<1>1. ASSUME UNCHANGED <<wrapper, wrapperKey, cbOwner, life>> PROVE ListenInv'
  BY <1>1, ListenFrame
<1>2. ASSUME NEW v \in Views, PageStep(v) PROVE ListenInv'
  <2>1. UNCHANGED <<wrapper, wrapperKey, life>>
    BY <1>2 DEF PageStep, RequireRemote, CallProxy, CallProxyWithCallback, Detach,
       CallMethod, CallMethodAgain, ReceiveReply, ReceiveMessage, DropMessage,
       ReceiveCallback, ReceiveRelease, CollectProxy, DidCreateDocumentElement,
       wrappers, views
  <2>2. UNCHANGED cbOwner \/ \E c \in Callbacks : /\ cbOwner[c] = NoView
                                                  /\ cbOwner' = [cbOwner EXCEPT ![c] = v]
    BY <1>2 DEF PageStep, RequireRemote, CallProxy, CallProxyWithCallback, Detach,
       CallMethod, CallMethodAgain, ReceiveReply, ReceiveMessage, DropMessage,
       ReceiveCallback, ReceiveRelease, CollectProxy, DidCreateDocumentElement, page
  <2>3. \A c \in Callbacks : cbOwner'[c] = cbOwner[c] \/ cbOwner[c] = NoView
    BY <2>2 DEF TypeOK
  <2>4. \A c \in Callbacks : wrapper[c] = "live" => cbOwner'[c] = cbOwner[c]
    BY <2>3 DEF OwnerInv
  <2>. QED
    BY <2>1, <2>4, ListenFrame
<1>3. ASSUME NEW v \in Views, HandleMessage(v) PROVE ListenInv'
  <2>1. CASE UNCHANGED <<wrapper, wrapperKey>>
    <3>1. UNCHANGED <<cbOwner, life>>
      BY <1>3 DEF HandleMessage, CallReturnsValue, CallReturnsObject,
         CallReturnsBrokenObject, CallThrowsNothing,
       BrokenObjectAbandons, Abandon, CallOfUnknownId, CallIsDeferred, HandleDereference, page, views
    <3>. QED
      BY <1>1, <2>1, <3>1
  <2>2. CASE ~UNCHANGED <<wrapper, wrapperKey>>
    <3> DEFINE c == Head(toBrowser[v]).cb
    <3>1. /\ Delivered(v, "call") /\ UnwrapArgs(v, Head(toBrowser[v]))
          /\ UNCHANGED <<cbOwner, life>>
      BY <1>3, <2>2 DEF HandleMessage, CallReturnsValue, CallReturnsObject,
         CallReturnsBrokenObject, CallThrowsNothing,
       BrokenObjectAbandons, Abandon, CallOfUnknownId, CallIsDeferred, HandleDereference, page, views,
         wrappers
    <3>2. toBrowser[v] \in Seq(ToBrowser) /\ toBrowser[v] # << >>
      BY <3>1 DEF Delivered, TypeOK
    <3>3. 1 \in DOMAIN toBrowser[v] /\ c = toBrowser[v][1].cb
      BY <3>2, TailElements
    <3> HIDE DEF c
    <3>4. /\ wrapper' = IF c = NoCallback THEN wrapper ELSE [wrapper EXCEPT ![c] = "live"]
          /\ wrapperKey' = IF c = NoCallback THEN wrapperKey
                           ELSE [wrapperKey EXCEPT ![c] = Key(v)]
      BY <3>1 DEF UnwrapArgs, c
    <3>5. c # NoCallback /\ c \in Callbacks /\ cbOwner[c] = v
      <4>1. c # NoCallback
        BY <2>2, <3>4
      <4>. QED
        BY <3>3, <4>1, QueueTypes DEF CallbackInv, Travelling
    <3>6. life[v] = "current" /\ Key(v) = v
      BY <3>1 DEF Delivered, ViewInv
    <3>7. \A d \in Callbacks : d # c => wrapper'[d] = wrapper[d] /\ wrapperKey'[d] = wrapperKey[d]
      BY <3>4 DEF TypeOK
    <3>8. wrapperKey'[c] = v
      BY <3>4, <3>5, <3>6 DEF TypeOK
    <3>. QED
      BY <3>1, <3>5, <3>6, <3>7, <3>8 DEF ListenInv
  <2>. QED
    BY <2>1, <2>2
<1>4. CASE BrowserStep
  <2>1. /\ UNCHANGED <<wrapperKey, cbOwner, life>>
        /\ \A c \in Callbacks : wrapper'[c] = "live" => wrapper[c] = "live"
    BY <1>4 DEF BrowserStep, CallWrapper, CollectWrapper, CallWrapperWithObject,
       CreateObject, ForgetObject, CollectObject, page, wrappers, views, TypeOK
  <2>. QED
    BY <2>1, ListenFrame
<1>5. ASSUME NEW v \in Views, DeferredReply(v) \/ RenderProcessGone(v) PROVE ListenInv'
  BY <1>1, <1>5 DEF DeferredReply, RenderProcessGone, wrappers, page, views
<1>6. ASSUME NEW v \in Views, Navigate(v) PROVE ListenInv'
  <2>1. /\ UNCHANGED <<wrapper, wrapperKey, cbOwner>>
        /\ \A u \in Views : life[u] \in {"current", "swapped"}
                              => life'[u] \in {"current", "swapped"}
    BY <1>6 DEF Navigate, wrappers, TypeOK
  <2>2. \A c \in Callbacks : wrapper[c] = "live" => cbOwner[c] \in Views
    BY DEF ListenInv
  <2>. QED
    BY <2>1, <2>2, ListenFrame
<1>7. ASSUME NEW v \in Views, RenderViewDeleted(v) \/ WebContentsDestroyed(v) PROVE ListenInv'
  <2>1. /\ Clear(v) /\ UNCHANGED <<wrapperKey, cbOwner>>
        /\ life' = [life EXCEPT ![v] = "deleted"]
    BY <1>7 DEF RenderViewDeleted, WebContentsDestroyed, RenderViewGone
  <2>2. \A c \in Callbacks : wrapper'[c] = "live" => wrapper[c] = "live" /\ wrapperKey[c] # v
    BY <2>1 DEF Clear
  <2>3. \A c \in Callbacks : wrapper'[c] = "live" => cbOwner[c] \in Views /\ cbOwner[c] # v
    BY <2>2 DEF ListenInv
  <2>4. \A u \in Views : u # v => life'[u] = life[u]
    BY <2>1 DEF TypeOK
  <2>. QED
    BY <2>1, <2>2, <2>3, <2>4, ListenFrame
<1>8. CASE UNCHANGED vars
  BY <1>1, <1>8 DEF vars, wrappers, page, views
<1>. QED
  BY <1>2, <1>3, <1>4, <1>5, <1>6, <1>7, <1>8 DEF Next, ViewStep

(* It holds initially.                                                     *)
LEMMA ListenInit == Init => ListenInv
BY DEF Init, ListenInv

(* A step that makes a queue to a page longer is a call or the release of  *)
(* a wrapper that is live.                                                 *)
LEMMA OnlyWrappersPost ==
  ASSUME TypeOK, OwnerInv, [Next]_vars, NEW v \in Views, Len(toView'[v]) > Len(toView[v])
  PROVE  \E c \in Callbacks : wrapper[c] = "live" /\ toView'[v][Len(toView'[v])].cb = c
<1>1. toView[v] \in Seq(ToView) /\ Len(toView[v]) \in Nat
  BY ViewTypes
<1>2. ASSUME toView'[v] = toView[v] \/ toView'[v] = << >>
             \/ (toView[v] # << >> /\ toView'[v] = Tail(toView[v]))
      PROVE  FALSE
  <2>1. CASE toView'[v] = toView[v]
    BY <1>1, <2>1
  <2>2. CASE toView'[v] = << >>
    BY <1>1, <2>2
  <2>3. CASE toView[v] # << >> /\ toView'[v] = Tail(toView[v])
    <3>1. Len(Tail(toView[v])) = Len(toView[v]) - 1
      BY <1>1, <2>3
    <3>. QED
      BY <1>1, <2>3, <3>1
  <2>. QED
    BY <1>2, <2>1, <2>2, <2>3
<1>3. ASSUME NEW c \in Callbacks, wrapper[c] = "live", NEW m \in ToView, m.cb = c,
             Sender(c) \in Views, Post(Sender(c), m)
      PROVE  toView'[v][Len(toView'[v])].cb = c
  <2>1. toView'[v] = Append(toView[v], m)
    BY <1>2, <1>3, PostQueue
  <2>2. Len(Append(toView[v], m)) = Len(toView[v]) + 1
        /\ Append(toView[v], m)[Len(toView[v]) + 1] = m
    BY <1>1, AppendElements
  <2>. QED
    BY <1>3, <2>1, <2>2
<1>4. \A c \in Callbacks : wrapper[c] # "none" /\ Sender(c) # NoView => Sender(c) \in Views
  BY DEF Sender, Key, TypeOK, OwnerInv
<1>5. \A c \in Callbacks :
        /\ [kind |-> "callback", cb |-> c, meta |-> Plain] \in ToView
        /\ [kind |-> "release", cb |-> c, meta |-> Plain] \in ToView
  BY MessageTypes
<1>6. ASSUME NEW c \in Callbacks, CallWrapper(c)
      PROVE  wrapper[c] = "live" /\ toView'[v][Len(toView'[v])].cb = c
  <2> DEFINE m == [kind |-> "callback", cb |-> c, meta |-> Plain]
  <2>1. /\ Sender(c) \in Views /\ Post(Sender(c), m) /\ m \in ToView /\ wrapper[c] = "live"
        /\ m.cb = c
    BY <1>4, <1>5, <1>6 DEF CallWrapper, CanPost
  <2> HIDE DEF m
  <2>. QED
    BY <1>3, <2>1
<1>7. ASSUME NEW c \in Callbacks, NEW o \in Objects, CallWrapperWithObject(c, o)
      PROVE  wrapper[c] = "live" /\ toView'[v][Len(toView'[v])].cb = c
  <2> DEFINE m == [kind |-> "callback", cb |-> c, meta |-> MetaFor(Sender(c), o)]
  <2>1. /\ Sender(c) \in Views /\ Add(Sender(c), o) /\ Post(Sender(c), m)
        /\ wrapper[c] = "live" /\ m.cb = c
    BY <1>4, <1>7 DEF CallWrapperWithObject, CanPost
  <2>2. m \in ToView
    BY <2>1, TypeAdd, MessageTypes
  <2> HIDE DEF m
  <2>. QED
    BY <1>3, <2>1, <2>2
<1>8. ASSUME NEW c \in Callbacks, CollectWrapper(c)
      PROVE  wrapper[c] = "live" /\ toView'[v][Len(toView'[v])].cb = c
  <2> DEFINE m == [kind |-> "release", cb |-> c, meta |-> Plain]
  <2>1. wrapper[c] = "live" /\ Sender(c) # NoView
    BY <1>2, <1>8 DEF CollectWrapper
  <2>2. /\ Sender(c) \in Views /\ Post(Sender(c), m) /\ m \in ToView /\ m.cb = c
    BY <1>4, <1>5, <1>8, <2>1 DEF CollectWrapper
  <2> HIDE DEF m
  <2>. QED
    BY <1>3, <2>1, <2>2
<1>9. ASSUME NEW u \in Views, PageStep(u) PROVE FALSE
  <2>1. UNCHANGED toView \/ (toView[u] # << >> /\ toView' = [toView EXCEPT ![u] = Tail(toView[u])])
    BY <1>9 DEF PageStep, RequireRemote, CallProxy, CallProxyWithCallback, Detach,
       CallMethod, CallMethodAgain, ReceiveReply, ReceiveMessage, DropMessage,
       ReceiveCallback, ReceiveRelease, CollectProxy, DidCreateDocumentElement,
       channels, SendSync
  <2>2. toView'[v] = toView[v] \/ (toView[v] # << >> /\ toView'[v] = Tail(toView[v]))
    BY <2>1 DEF TypeOK
  <2>. QED
    BY <1>2, <2>2
<1>10. ASSUME NEW u \in Views, HandleMessage(u) \/ DeferredReply(u) PROVE FALSE
  <2>1. UNCHANGED toView
    BY <1>10 DEF HandleMessage, CallReturnsValue, CallReturnsObject,
       CallReturnsBrokenObject, CallThrowsNothing,
       BrokenObjectAbandons, Abandon, CallOfUnknownId, CallIsDeferred, HandleDereference, Answer,
       DeferredReply
  <2>. QED
    BY <1>2, <2>1
<1>11. ASSUME NEW u \in Views, ViewStep(u) PROVE FALSE
  <2>1. UNCHANGED toView \/ toView' = [toView EXCEPT ![u] = << >>]
    BY <1>11 DEF ViewStep, Navigate, RenderViewDeleted, WebContentsDestroyed, RenderViewGone,
       RenderProcessGone, ForgetPage, channels
  <2>2. toView'[v] = toView[v] \/ toView'[v] = << >>
    BY <2>1 DEF TypeOK
  <2>. QED
    BY <1>2, <2>2
<1>12. ASSUME NEW o \in Objects, CreateObject(o) \/ ForgetObject(o) \/ CollectObject(o)
       PROVE FALSE
  BY <1>2, <1>12 DEF CreateObject, ForgetObject, CollectObject, channels
<1>13. ASSUME UNCHANGED vars PROVE FALSE
  BY <1>2, <1>13 DEF vars, channels
<1>. QED
  BY <1>6, <1>7, <1>8, <1>9, <1>10, <1>11, <1>12, <1>13 DEF Next, BrowserStep

(* Once the view that registered a callback is released, nothing more is   *)
(* posted for the callback to the page that took its place.                *)
THEOREM NothingPostedForReleased == ~LateMessages => (Spec => NoPostForReleasedView)
<1> SUFFICES ASSUME ~LateMessages PROVE Spec => NoPostForReleasedView
  OBVIOUS
<1>1. TypeOK /\ OwnerInv /\ ViewInv /\ CallbackInv /\ ListenInv /\ [Next]_vars => ListenInv'
  BY ListenNext
<1>2. Spec => []ListenInv
  BY <1>1, ListenInit, TypeCorrect, OwnersCorrect, ViewsCorrect, CallbacksCorrect, PTL DEF Spec
<1>3. TypeOK /\ OwnerInv /\ ListenInv /\ [Next]_vars =>
        [\A v \in Views : Len(toView'[v]) > Len(toView[v]) =>
           life[cbOwner[toView'[v][Len(toView'[v])].cb]] # "deleted"]_vars
  <2> SUFFICES ASSUME TypeOK, OwnerInv, ListenInv, [Next]_vars, NEW v \in Views,
                      Len(toView'[v]) > Len(toView[v])
               PROVE  life[cbOwner[toView'[v][Len(toView'[v])].cb]] # "deleted"
    OBVIOUS
  <2>1. PICK c \in Callbacks : wrapper[c] = "live" /\ toView'[v][Len(toView'[v])].cb = c
    BY OnlyWrappersPost
  <2>. QED
    BY <2>1 DEF ListenInv
<1>. QED
  BY <1>2, <1>3, TypeCorrect, OwnersCorrect, PTL DEF Spec, NoPostForReleasedView

-----------------------------------------------------------------------------
(* Calls find their objects, as long as content delivers no message of a   *)
(* swapped-out view.                                                       *)

(* What excuses a call of u excuses it after the step.                     *)
StaysExcused(u) == (loose[u] \subseteq loose'[u] \/ ~up'[u]) /\ (up'[u] => up[u])

(* The queue of u, and what it names, are left alone.                      *)
LEMMA SecuredFrame ==
  ASSUME TypeOK, NEW u \in Views, CallsSecured(u), Stable(u), toBrowser'[u] = toBrowser[u],
         StaysExcused(u)
  PROVE  CallsSecured(u)'
BY DEF CallsSecured, Secured, Stable, Excused, StaysExcused

(* A message goes to the end of the queue.                                 *)
LEMMA SecuredSend ==
  ASSUME TypeOK, NEW v \in Views, NEW m \in ToBrowser, CallsSecured(v),
         toBrowser'[v] = Append(toBrowser[v], m), UNCHANGED <<store, atomId>>,
         StaysExcused(v),
         m.kind = "call" => \A x \in {m.id, m.arg} : x # 0 =>
           \/ \E s \in DOMAIN store[v] : atomId[store[v][s]] = x /\ s \notin Sids(toBrowser[v])
           \/ x = m.id /\ m.arg = 0 /\ x \in loose[v]
  PROVE  CallsSecured(v)'
<1> DEFINE q == toBrowser[v]
           a == Append(q, m)
<1>1. toBrowser'[v] = a /\ q \in Seq(ToBrowser)
  BY DEF TypeOK
<1>2. /\ DOMAIN a = 1 .. (Len(q) + 1) /\ DOMAIN q = 1 .. Len(q) /\ Len(q) \in Nat
      /\ \A i \in DOMAIN q : a[i] = q[i]
      /\ a[Len(q) + 1] = m
  BY <1>1, AppendElements
<1> HIDE DEF a
<1>3. \A i \in DOMAIN a : /\ i \in DOMAIN q \/ i = Len(q) + 1
                          /\ \A j \in 1 .. (i - 1) : j \in DOMAIN q /\ a[j] = q[j]
  BY <1>2
<1>4. \A s \in DOMAIN store[v] : s # 0
  BY StoreIds
<1>5. \A j \in DOMAIN q : q[j].meta.sid # 0 => q[j].meta.sid \in Sids(q)
  BY DEF Sids, Metas
<1>6. CallsSecured(v)
  OBVIOUS
<1> HIDE DEF q
<1>9. \A x : Excused(v, x) => Excused(v, x)'
  BY DEF Excused, StaysExcused
<1>7. ASSUME NEW i \in Calls(a), NEW x \in {a[i].id, a[i].arg}, x # 0,
             x = a[i].arg \/ ~Excused(v, x)
      PROVE  \E s \in DOMAIN store[v] :
               /\ atomId[store[v][s]] = x
               /\ \A j \in 1 .. (i - 1) : a[j].kind = "dereference" => a[j].meta.sid # s
  <2>1. i \in DOMAIN a /\ a[i].kind = "call"
    BY DEF Calls
  <2>2. CASE i \in DOMAIN q
    <3>1. i \in Calls(q) /\ a[i] = q[i]
      BY <1>2, <2>1, <2>2 DEF Calls
    <3>2. Secured(v, i, x)
      BY <1>6, <1>7, <3>1 DEF CallsSecured, q
    <3>3. \E s \in DOMAIN store[v] :
            /\ atomId[store[v][s]] = x
            /\ \A j \in 1 .. (i - 1) : q[j].kind = "dereference" => q[j].meta.sid # s
      BY <1>7, <3>2 DEF Secured, q
    <3>. QED
      BY <1>3, <2>1, <3>3
  <2>3. CASE i = Len(q) + 1
    <3>1. a[i] = m
      BY <1>2, <2>3
    <3>2. PICK s \in DOMAIN store[v] : atomId[store[v][s]] = x /\ s \notin Sids(q)
      BY <1>7, <2>1, <3>1 DEF q, Excused
    <3>3. \A j \in 1 .. (i - 1) : a[j].meta.sid # s
      BY <1>3, <1>4, <1>5, <2>1, <3>2
    <3>. QED
      BY <3>2, <3>3
  <2>. QED
    BY <1>3, <2>1, <2>2, <2>3
<1>8. store' = store /\ atomId' = atomId
  OBVIOUS
<1>. QED
  BY ONLY <1>1, <1>7, <1>8, <1>9 DEF CallsSecured, Secured

(* A message leaves it: a dereference only takes its own entry.            *)
LEMMA SecuredTake ==
  ASSUME TypeOK, NEW v \in Views, CallsSecured(v), toBrowser[v] # << >>,
         toBrowser'[v] = Tail(toBrowser[v]),
         \A s \in DOMAIN store[v] :
           \/ s \in DOMAIN store'[v] /\ store'[v][s] = store[v][s]
           \/ Head(toBrowser[v]).kind = "dereference" /\ s = Head(toBrowser[v]).meta.sid,
         \A s \in DOMAIN store[v] : atomId'[store[v][s]] = atomId[store[v][s]],
         StaysExcused(v)
  PROVE  CallsSecured(v)'
<1> DEFINE q == toBrowser[v]
           t == Tail(q)
<1>1. toBrowser'[v] = t /\ q \in Seq(ToBrowser) /\ q # << >>
  BY DEF TypeOK
<1>2. /\ Head(q) = q[1] /\ 1 \in DOMAIN q
      /\ DOMAIN q = 1 .. Len(q) /\ Len(q) \in Nat
      /\ DOMAIN t = 1 .. (Len(q) - 1)
      /\ \A i \in DOMAIN t : t[i] = q[i + 1]
  BY <1>1
<1>3. CallsSecured(v)
  OBVIOUS
<1>4. \A s \in DOMAIN store[v] :
        \/ s \in DOMAIN store'[v] /\ store'[v][s] = store[v][s]
        \/ q[1].kind = "dereference" /\ s = q[1].meta.sid
  BY <1>2
<1> HIDE DEF q, t
<1>6. \A x : Excused(v, x) => Excused(v, x)'
  BY DEF Excused, StaysExcused
<1>5. ASSUME NEW i \in Calls(t), NEW x \in {t[i].id, t[i].arg}, x # 0,
             x = t[i].arg \/ ~Excused(v, x)
      PROVE  \E s \in DOMAIN store'[v] :
               /\ atomId'[store'[v][s]] = x
               /\ \A j \in 1 .. (i - 1) : t[j].kind = "dereference" => t[j].meta.sid # s
  <2>1. i \in 1 .. (Len(q) - 1) /\ t[i].kind = "call" /\ t[i] = q[i + 1] /\ Len(q) \in Nat
    BY <1>2 DEF Calls
  <2>2. /\ i + 1 \in DOMAIN q /\ 1 \in 1 .. ((i + 1) - 1)
        /\ \A j \in 1..(i - 1) : j \in 1 .. (Len(q) - 1) /\ j + 1 \in 1 .. ((i + 1) - 1)
    BY <1>2, <2>1
  <2>3. \A j \in 1..(i - 1) : t[j] = q[j + 1] /\ j + 1 \in 1 .. ((i + 1) - 1)
    BY <1>2, <2>2
  <2>4. i + 1 \in Calls(q)
    BY <2>1, <2>2 DEF Calls
  <2>5. Secured(v, i + 1, x)
    BY <1>3, <1>5, <2>1, <2>4 DEF CallsSecured, q
  <2>6. PICK s \in DOMAIN store[v] :
          /\ atomId[store[v][s]] = x
          /\ \A j \in 1 .. ((i + 1) - 1) : q[j].kind = "dereference" => q[j].meta.sid # s
    BY <1>5, <2>5 DEF Secured, q
  <2>7. s \in DOMAIN store'[v] /\ store'[v][s] = store[v][s]
    BY <1>4, <2>2, <2>6
  <2>8. atomId'[store'[v][s]] = x
    BY <2>6, <2>7
  <2>9. \A j \in 1 .. (i - 1) : t[j].kind = "dereference" => t[j].meta.sid # s
    BY <2>3, <2>6
  <2>. QED
    BY <2>7, <2>8, <2>9
<1>. QED
  BY ONLY <1>1, <1>5, <1>6 DEF CallsSecured, Secured

(* A page names objects of its proxies, or of a method that it kept.       *)
LEMMA CallPageStep ==
  ASSUME TypeOK, ReferenceInv, CallInv, NEW v \in Views, PageStep(v)
  PROVE  CallInv'
<1>1. ASSUME \A u \in Views : methods'[u] \subseteq proxies'[u], \A u \in Views : CallsSecured(u)'
      PROVE  CallInv'
  BY <1>1 DEF CallInv
<1>2. \A u \in Views : CallsSecured(u) /\ methods[u] \subseteq proxies[u]
  BY DEF CallInv
<1>3. ASSUME UNCHANGED <<store, atomId>> PROVE \A u \in Views : Stable(u)
  BY <1>3 DEF Stable
<1>13. ASSUME UNCHANGED up, UNCHANGED loose \/ \E x : loose' = [loose EXCEPT ![v] = loose[v] \cup {x}]
       PROVE  \A u \in Views : StaysExcused(u)
  <2>1. \A u \in Views : loose[u] \subseteq loose'[u]
    <3>1. CASE UNCHANGED loose
      BY <3>1
    <3>2. ASSUME NEW x, loose' = [loose EXCEPT ![v] = loose[v] \cup {x}]
          PROVE  \A u \in Views : loose[u] \subseteq loose'[u]
      BY <3>2 DEF TypeOK
    <3>. QED
      BY <1>13, <3>1, <3>2
  <2>. QED
    BY <1>13, <2>1 DEF StaysExcused
<1>4. ASSUME NEW m \in ToBrowser, toBrowser' = [toBrowser EXCEPT ![v] = Append(toBrowser[v], m)],
             UNCHANGED <<store, atomId>>, \A u \in Views : methods'[u] \subseteq proxies'[u],
             \A u \in Views : StaysExcused(u),
             m.kind = "call" => \A x \in {m.id, m.arg} : x # 0 =>
               \/ \E s \in DOMAIN store[v] : atomId[store[v][s]] = x /\ s \notin Sids(toBrowser[v])
               \/ x = m.id /\ m.arg = 0 /\ x \in loose[v]
      PROVE  CallInv'
  <2>1. ASSUME NEW u \in Views, u # v PROVE CallsSecured(u)'
    <3>1. toBrowser'[u] = toBrowser[u]
      BY <1>4, <2>1 DEF TypeOK
    <3>. QED
      BY <1>2, <1>3, <1>4, <3>1, SecuredFrame
  <2>2. CallsSecured(v)'
    <3>1. toBrowser'[v] = Append(toBrowser[v], m)
      BY <1>4 DEF TypeOK
    <3>. QED
      BY <1>2, <1>4, <3>1, SecuredSend
  <2>. QED
    BY <1>1, <1>4, <2>1, <2>2
<1>5. ASSUME UNCHANGED <<up, loose, store, atomId, toBrowser>>,
             \A u \in Views : methods'[u] \subseteq proxies'[u]
      PROVE  CallInv'
  BY <1>1, <1>2, <1>3, <1>5, <1>13, SecuredFrame
<1>6. \A p \in proxies[v] : /\ p.id \in Nat
                            /\ p.sid \in DOMAIN store[v] /\ atomId[store[v][p.sid]] = p.id
                            /\ p.sid \notin Sids(toBrowser[v])
  BY DEF ReferenceInv, References, StoredAs, Distinct, TypeOK, Meta
<1>7. ASSUME NEW id, NEW arg, NEW cb \in Callbacks \cup {NoCallback},
             \/ id = 0
             \/ \E p \in proxies[v] : id = p.id
             \/ id \in loose[v] /\ arg = 0,
             arg = 0 \/ \E p \in proxies[v] : arg = p.id,
             SendSync(v, Request(id, arg, cb)), UNCHANGED <<up, proxies, store, atomId>>,
             \A u \in Views : methods'[u] \subseteq methods[u],
             UNCHANGED loose \/ \E x : loose' = [loose EXCEPT ![v] = loose[v] \cup {x}]
      PROVE  CallInv'
  <2> DEFINE m == Request(id, arg, cb)
  <2>1. id \in Nat /\ arg \in Nat
    <3>1. \A x \in loose[v] : x \in Nat
      BY DEF TypeOK
    <3>. QED
      BY <1>6, <1>7, <3>1
  <2>2. m \in ToBrowser /\ m.id = id /\ m.arg = arg
    BY <2>1, MessageTypes DEF Request
  <2>3. toBrowser' = [toBrowser EXCEPT ![v] = Append(toBrowser[v], m)]
    BY <1>7 DEF SendSync
  <2> HIDE DEF m
  <2>4. \A x \in {m.id, m.arg} : x # 0 =>
          \/ \E s \in DOMAIN store[v] : atomId[store[v][s]] = x /\ s \notin Sids(toBrowser[v])
          \/ x = m.id /\ m.arg = 0 /\ x \in loose[v]
    BY <1>6, <1>7, <2>2
  <2>5. \A u \in Views : StaysExcused(u) /\ methods'[u] \subseteq proxies'[u]
    BY <1>2, <1>7, <1>13
  <2>. QED
    BY <1>4, <1>7, <2>2, <2>3, <2>4, <2>5
<1>8. CASE RequireRemote(v)
  <2>1. /\ SendSync(v, Request(0, 0, NoCallback))
        /\ UNCHANGED <<up, proxies, methods, loose, store, atomId>>
    BY <1>8 DEF RequireRemote, page, registry, stores
  <2>. QED
    BY <1>7, <2>1
<1>9. ASSUME NEW p \in proxies[v], NEW arg \in {q.id : q \in proxies[v]} \cup {0},
             CallProxy(v, p, arg)
      PROVE  CallInv'
  <2>1. /\ SendSync(v, Request(p.id, arg, NoCallback))
        /\ UNCHANGED <<up, proxies, methods, loose, store, atomId>>
    BY <1>9 DEF CallProxy, page, registry, stores
  <2>. QED
    BY <1>7, <2>1
<1>10. ASSUME NEW p \in proxies[v], NEW c \in Callbacks, CallProxyWithCallback(v, p, c)
       PROVE  CallInv'
  <2>1. /\ SendSync(v, Request(p.id, 0, c))
        /\ UNCHANGED <<up, proxies, methods, loose, store, atomId>>
    BY <1>10 DEF CallProxyWithCallback, registry, stores
  <2>. QED
    BY <1>7, <2>1
<1>11. ASSUME NEW p \in proxies[v], CollectProxy(v, p)
       PROVE  CallInv'
  <2> DEFINE m == Dereference(p)
  <2>1. m \in ToBrowser /\ m.kind # "call"
    BY MessageTypes DEF Dereference, TypeOK
  <2>2. /\ toBrowser' = [toBrowser EXCEPT ![v] = Append(toBrowser[v], m)]
        /\ UNCHANGED <<up, methods, loose, store, atomId>>
        /\ proxies' = [proxies EXCEPT ![v] = proxies[v] \ {p}] /\ p \notin methods[v]
    BY <1>11 DEF CollectProxy, registry, stores
  <2> HIDE DEF m
  <2>3. \A u \in Views : StaysExcused(u) /\ methods'[u] \subseteq proxies'[u]
    BY <1>2, <1>13, <2>2 DEF TypeOK
  <2>. QED
    BY <1>4, <2>1, <2>2, <2>3
<1>14. ASSUME NEW p \in proxies[v], Detach(v, p)
       PROVE  CallInv'
  <2>1. /\ UNCHANGED <<up, loose, store, atomId, toBrowser, proxies>>
        /\ methods' = [methods EXCEPT ![v] = methods[v] \cup {p}]
    BY <1>14 DEF Detach, registry, stores, channels
  <2>2. \A u \in Views : methods'[u] \subseteq proxies'[u]
    BY <1>2, <2>1 DEF TypeOK
  <2>. QED
    BY <1>5, <2>1, <2>2
<1>15. ASSUME NEW p \in methods[v], CallMethod(v, p)
       PROVE  CallInv'
  <2>1. /\ SendSync(v, Request(p.id, 0, NoCallback)) /\ p \in proxies[v]
        /\ UNCHANGED <<up, proxies, store, atomId>>
        /\ methods' = [methods EXCEPT ![v] = methods[v] \ {p}]
        /\ loose' = [loose EXCEPT ![v] = loose[v] \cup {p.id}]
    BY <1>2, <1>15 DEF CallMethod, registry, stores
  <2>2. \A u \in Views : methods'[u] \subseteq methods[u]
    BY <2>1 DEF TypeOK
  <2>. QED
    BY <1>7, <2>1, <2>2
<1>16. ASSUME NEW id \in loose[v], CallMethodAgain(v, id)
       PROVE  CallInv'
  <2>1. /\ SendSync(v, Request(id, 0, NoCallback))
        /\ UNCHANGED <<up, proxies, methods, loose, store, atomId>>
    BY <1>16 DEF CallMethodAgain, page, registry, stores
  <2>. QED
    BY <1>7, <2>1
<1>12. CASE ReceiveReply(v) \/ ReceiveMessage(v) \/ DidCreateDocumentElement(v)
  <2>1. UNCHANGED <<up, methods, loose, store, atomId, toBrowser>>
    BY <1>12 DEF ReceiveReply, ReceiveMessage, DropMessage, ReceiveCallback,
       ReceiveRelease, DidCreateDocumentElement, registry, stores, channels, page
  <2>2. UNCHANGED proxies \/ \E x : proxies' = [proxies EXCEPT ![v] = proxies[v] \cup {x}]
                          \/ proxies' = [proxies EXCEPT ![v] = proxies[v]]
    BY <1>12 DEF ReceiveReply, ReceiveMessage, DropMessage, ReceiveCallback,
       ReceiveRelease, DidCreateDocumentElement, page
  <2>3. \A u \in Views : proxies[u] \subseteq proxies'[u]
    BY <2>2 DEF TypeOK
  <2>. QED
    BY <1>2, <1>5, <2>1, <2>3
<1>. QED
  BY <1>8, <1>9, <1>10, <1>11, <1>12, <1>14, <1>15, <1>16 DEF PageStep

(* Handlers leave what waiting calls name.                                 *)
LEMMA CallHandleMessage ==
  ASSUME ~LateMessages, TypeOK, RegistryInv, ViewInv, CallInv, NEW v \in Views, HandleMessage(v)
  PROVE  CallInv'
<1>1. \A u \in Views : CallsSecured(u) /\ methods[u] \subseteq proxies[u]
  BY DEF CallInv
<1>7. ASSUME UNCHANGED page
      PROVE  /\ \A u \in Views : methods'[u] \subseteq proxies'[u]
             /\ \A u \in Views : StaysExcused(u)
  BY <1>1, <1>7 DEF page, StaysExcused
<1>2. ASSUME NEW kind, Delivered(v, kind), TakeCall(v), UNCHANGED page,
             \A u \in Views : Stable(u)
      PROVE  CallInv'
  <2>1. toBrowser' = [toBrowser EXCEPT ![v] = Tail(toBrowser[v])] /\ toBrowser[v] # << >>
    BY <1>2 DEF TakeCall, Delivered
  <2>2. ASSUME NEW u \in Views, u # v PROVE CallsSecured(u)'
    <3>1. toBrowser'[u] = toBrowser[u]
      BY <2>1, <2>2 DEF TypeOK
    <3>. QED
      BY <1>1, <1>2, <1>7, <3>1, SecuredFrame
  <2>3. CallsSecured(v)'
    <3>1. toBrowser'[v] = Tail(toBrowser[v])
      BY <2>1 DEF TypeOK
    <3>. QED
      BY <1>1, <1>2, <1>7, <2>1, <3>1, SecuredTake DEF Stable
  <2>. QED
    BY <1>2, <1>7, <2>2, <2>3 DEF CallInv
<1>3. ASSUME UNCHANGED <<store, atomId>> PROVE \A u \in Views : Stable(u)
  BY <1>3 DEF Stable
<1>4. ASSUME NEW kept \in SUBSET Objects,
             \/ CallReturnsValue(v, kept) \/ CallThrowsNothing(v, kept)
             \/ CallOfUnknownId(v) \/ CallIsDeferred(v)
      PROVE  CallInv'
  <2>1. Delivered(v, "call") /\ TakeCall(v) /\ UNCHANGED <<page, store, atomId>>
    BY <1>4 DEF CallReturnsValue, CallThrowsNothing, CallOfUnknownId, CallIsDeferred,
       registry, stores
  <2>. QED
    BY <1>2, <1>3, <2>1
<1>5. ASSUME NEW o \in Objects, NEW kept \in SUBSET Objects,
             \/ CallReturnsObject(v, o, kept)
             \/ CallReturnsBrokenObject(v, o) \/ BrokenObjectAbandons(v, o)
      PROVE  CallInv'
  <2>1. Delivered(v, "call") /\ TakeCall(v) /\ UNCHANGED page /\ Add(Key(v), o)
    BY <1>5 DEF CallReturnsObject, CallReturnsBrokenObject, BrokenObjectAbandons
  <2>. QED
    BY <1>2, <2>1, AddStable
<1>6. CASE HandleDereference(v)
  <2>1. /\ Delivered(v, "dereference") /\ TakeCall(v) /\ UNCHANGED <<page, atomId>>
        /\ store' = [store EXCEPT ![Key(v)] = Drop(store[Key(v)], Head(toBrowser[v]).meta.sid)]
    BY <1>6 DEF HandleDereference, registry
  <2>2. Key(v) = v /\ toBrowser[v] # << >> /\ Head(toBrowser[v]).kind = "dereference"
    BY <2>1 DEF Delivered, ViewInv
  <2>3. toBrowser' = [toBrowser EXCEPT ![v] = Tail(toBrowser[v])]
    BY <2>1 DEF TakeCall
  <2>4. ASSUME NEW u \in Views, u # v PROVE CallsSecured(u)'
    <3>1. toBrowser'[u] = toBrowser[u] /\ store'[u] = store[u]
      BY <2>1, <2>2, <2>3, <2>4 DEF TypeOK
    <3>2. Stable(u)
      BY <2>1, <3>1 DEF Stable
    <3>. QED
      BY <1>1, <1>7, <2>1, <3>1, <3>2, SecuredFrame
  <2>5. CallsSecured(v)'
    <3>1. toBrowser'[v] = Tail(toBrowser[v])
      BY <2>3 DEF TypeOK
    <3>2. store'[v] = Drop(store[v], Head(toBrowser[v]).meta.sid)
      BY <2>1, <2>2 DEF TypeOK
    <3>3. \A s \in DOMAIN store[v] :
            \/ s \in DOMAIN store'[v] /\ store'[v][s] = store[v][s]
            \/ s = Head(toBrowser[v]).meta.sid
      BY <3>2 DEF Drop
    <3>. QED
      BY <1>1, <1>7, <2>1, <2>2, <3>1, <3>3, SecuredTake
  <2>. QED
    BY <1>7, <2>1, <2>4, <2>5 DEF CallInv
<1>. QED
  BY <1>4, <1>5, <1>6 DEF HandleMessage

(* CallInv is kept by every step.                                          *)
LEMMA CallNext ==
  ASSUME ~LateMessages, TypeOK, RegistryInv, OwnerInv, ViewInv, UnbornInv, ReferenceInv,
         CallInv, [Next]_vars
  PROVE  CallInv'
<1>1. \A u \in Views : CallsSecured(u) /\ methods[u] \subseteq proxies[u]
  BY DEF CallInv
<1>2. ASSUME UNCHANGED <<page, toBrowser>>, \A u \in Views : Stable(u) PROVE CallInv'
  BY <1>1, <1>2, SecuredFrame DEF CallInv, page, StaysExcused
<1>3. ASSUME UNCHANGED <<store, atomId>> PROVE \A u \in Views : Stable(u)
  BY <1>3 DEF Stable
<1>4. CASE BrowserStep
  <2>1. UNCHANGED <<page, toBrowser>>
    BY <1>4 DEF BrowserStep, CallWrapper, CollectWrapper, CallWrapperWithObject,
       CreateObject, ForgetObject, CollectObject, channels
  <2>2. \A u \in Views : Stable(u)
    <3>1. ASSUME NEW c \in Callbacks, NEW o \in Objects, CallWrapperWithObject(c, o),
                 NEW u \in Views
          PROVE  Stable(u)
      BY <3>1, AddStable DEF CallWrapperWithObject
    <3>2. CASE ~ \E c \in Callbacks, o \in Objects : CallWrapperWithObject(c, o)
      BY <1>3, <1>4, <3>2 DEF BrowserStep, CallWrapper, CollectWrapper,
         CreateObject, ForgetObject, CollectObject, registry, stores
    <3>. QED
      BY <3>1, <3>2
  <2>. QED
    BY <1>2, <2>1, <2>2
<1>5. ASSUME NEW v \in Views, DeferredReply(v) PROVE CallInv'
  BY <1>2, <1>3, <1>5 DEF DeferredReply, registry, stores
<1>6. ASSUME NEW v \in Views, Navigate(v) PROVE CallInv'
  <2>1. /\ UNCHANGED <<methods, loose, proxies, store, atomId, toBrowser>>
        /\ up' = [up EXCEPT ![v] = TRUE] /\ toBrowser[v] = << >>
    BY <1>6 DEF Navigate, registry, stores, channels, UnbornInv
  <2>2. ASSUME NEW u \in Views, u # v PROVE CallsSecured(u)'
    <3>1. StaysExcused(u)
      BY <2>1, <2>2 DEF StaysExcused, TypeOK
    <3>. QED
      BY <1>1, <1>3, <2>1, <3>1, SecuredFrame
  <2>3. CallsSecured(v)'
    BY <2>1 DEF CallsSecured, Calls
  <2>. QED
    BY <1>1, <2>1, <2>2, <2>3 DEF CallInv
<1>7. ASSUME NEW v \in Views, ForgetPage(v)
      PROVE  /\ \A u \in Views : methods'[u] \subseteq proxies'[u]
             /\ \A u \in Views : StaysExcused(u)
  <2>1. /\ \A u \in Views : up'[u] => up[u]
        /\ methods'[v] = {} /\ ~up'[v]
        /\ \A u \in Views : u # v => /\ loose'[u] = loose[u] /\ methods'[u] = methods[u]
                                      /\ proxies'[u] = proxies[u]
    BY <1>7 DEF ForgetPage, TypeOK
  <2>. QED
    BY <1>1, <2>1 DEF StaysExcused
<1>8. ASSUME NEW v \in Views, RenderProcessGone(v) PROVE CallInv'
  <2>1. UNCHANGED <<store, atomId, toBrowser>>
    BY <1>8 DEF RenderProcessGone, registry, stores
  <2>. QED
    BY <1>1, <1>3, <1>7, <1>8, <2>1, SecuredFrame DEF CallInv, RenderProcessGone
<1>9. ASSUME NEW v \in Views, RenderViewDeleted(v) \/ WebContentsDestroyed(v) PROVE CallInv'
  <2>1. /\ ForgetPage(v) /\ UNCHANGED atomId
        /\ store' = [store EXCEPT ![v] = EmptyMap]
        /\ toBrowser' = [toBrowser EXCEPT ![v] = << >>]
    BY <1>9 DEF RenderViewDeleted, WebContentsDestroyed, RenderViewGone, Clear, registry
  <2>2. ASSUME NEW u \in Views, u # v PROVE CallsSecured(u)'
    <3>1. toBrowser'[u] = toBrowser[u] /\ store'[u] = store[u]
      BY <2>1, <2>2 DEF TypeOK
    <3>2. Stable(u)
      BY <2>1, <3>1 DEF Stable
    <3>. QED
      BY <1>1, <1>7, <2>1, <3>1, <3>2, SecuredFrame
  <2>3. CallsSecured(v)'
    <3>1. toBrowser'[v] = << >>
      BY <2>1 DEF TypeOK
    <3>. QED
      BY <3>1 DEF CallsSecured, Calls
  <2>. QED
    BY <1>7, <2>1, <2>2, <2>3 DEF CallInv
<1>10. CASE UNCHANGED vars
  BY <1>2, <1>3, <1>10 DEF vars, registry, stores, page, channels
<1>. QED
  BY <1>4, <1>5, <1>6, <1>8, <1>9, <1>10, CallPageStep, CallHandleMessage DEF Next, ViewStep

(* It holds initially.                                                     *)
LEMMA CallInit == Init => CallInv
BY DEF Init, CallInv, CallsSecured, Calls

(* Every id in a call that reaches the browser still names an object,      *)
(* however many dereferences and collections ran while it was in flight,   *)
(* but for the id of a method that outlived its proxy.                     *)
THEOREM CallsFindObjects == ~LateMessages => (Spec => []CallFindsObject)
<1> SUFFICES ASSUME ~LateMessages PROVE Spec => []CallFindsObject
  OBVIOUS
<1>1. TypeOK /\ RegistryInv /\ OwnerInv /\ ViewInv /\ UnbornInv /\ ReferenceInv /\ CallInv
        /\ [Next]_vars => CallInv'
  BY CallNext
<1>2. Spec => []ReferenceInv
  BY ReferencesCorrect
<1>3. Spec => []CallInv
  BY <1>1, <1>2, CallInit, TypeCorrect, RegistryCorrect, OwnersCorrect, ViewsCorrect,
     UnbornCorrect, PTL DEF Spec
<1>4. TypeOK /\ RegistryInv /\ CallInv => CallFindsObject
  <2> SUFFICES ASSUME TypeOK, RegistryInv, CallInv, NEW v \in Views, Delivered(v, "call"),
                      NEW m, m = Head(toBrowser[v])
               PROVE  /\ m.arg \in DOMAIN weakMap \cup {0}
                      /\ m.id \in DOMAIN weakMap \cup {0} \/ m.id \in loose[v] \/ ~up[v]
    BY DEF CallFindsObject
  <2>1. toBrowser[v] \in Seq(ToBrowser) /\ toBrowser[v] # << >> /\ m.kind = "call"
    BY DEF TypeOK, Delivered
  <2>2. 1 \in Calls(toBrowser[v]) /\ m = toBrowser[v][1]
    BY <2>1, TailElements DEF Calls
  <2>3. (Secured(v, 1, m.id) \/ Excused(v, m.id)) /\ Secured(v, 1, m.arg)
    BY <2>2 DEF CallInv, CallsSecured
  <2>4. ASSUME NEW x, Secured(v, 1, x) PROVE x \in DOMAIN weakMap \cup {0}
    BY <2>4 DEF Secured, RegistryInv, TypeOK
  <2>. QED
    BY <2>3, <2>4 DEF Excused
<1>. QED
  BY <1>3, <1>4, TypeCorrect, RegistryCorrect, PTL

-----------------------------------------------------------------------------
(* The implementation of RemoteLifetime.                                   *)

(* No two objects have the same id, not even when they are collected.      *)
LEMMA UniqueAdd ==
  ASSUME TypeOK, RegistryInv, UniqueIds, NEW k, NEW o \in Objects, Add(k, o)
  PROVE  UniqueIds'
<1>1. atomId' = [atomId EXCEPT ![o] = IdFor(o)]
  BY DEF Add
<1>2. \A x \in Objects : atomId[x] \in Nat /\ atomId[x] <= nextId /\ nextId \in Nat
  BY DEF TypeOK, RegistryInv
<1>3. \A x \in Objects : atomId'[x] = atomId[x]
                         \/ (x = o /\ atomId'[x] = nextId + 1)
  BY <1>1 DEF TypeOK, IdFor
<1>. QED
  BY <1>2, <1>3 DEF UniqueIds

(* UniqueIds is kept by every step.                                        *)
LEMMA UniqueNext ==
  ASSUME TypeOK, RegistryInv, UniqueIds, [Next]_vars
  PROVE  UniqueIds'
<1>1. ASSUME UNCHANGED atomId PROVE UniqueIds'
  BY <1>1 DEF UniqueIds
<1>2. ASSUME NEW v \in Views, PageStep(v) \/ ViewStep(v) \/ DeferredReply(v)
      PROVE  UniqueIds'
  BY <1>1, <1>2 DEF PageStep, RequireRemote, CallProxy, CallProxyWithCallback, Detach,
     CallMethod, CallMethodAgain, ReceiveReply, ReceiveMessage, DropMessage,
     ReceiveCallback, ReceiveRelease, CollectProxy, DidCreateDocumentElement,
     ViewStep, Navigate, RenderViewDeleted, WebContentsDestroyed,
     RenderViewGone, RenderProcessGone, DeferredReply, registry
<1>3. ASSUME NEW v \in Views, HandleMessage(v) PROVE UniqueIds'
  BY <1>1, <1>3, UniqueAdd DEF HandleMessage, CallReturnsValue, CallReturnsObject,
     CallReturnsBrokenObject, CallThrowsNothing,
       BrokenObjectAbandons, Abandon, CallOfUnknownId, CallIsDeferred, HandleDereference, registry
<1>4. CASE BrowserStep
  BY <1>1, <1>4, UniqueAdd DEF BrowserStep, CallWrapper, CollectWrapper,
     CallWrapperWithObject, CreateObject, ForgetObject, CollectObject, registry
<1>5. CASE UNCHANGED vars
  BY <1>1, <1>5 DEF vars, registry
<1>. QED
  BY <1>2, <1>3, <1>4, <1>5 DEF Next

(* It holds initially.                                                     *)
LEMMA UniqueInit == Init => UniqueIds
BY DEF Init, UniqueIds

(* The object a reference of a page stands for.                            *)
LEMMA HeldObject ==
  ASSUME TypeOK, RegistryInv, ReferenceInv, UniqueIds, NEW v \in Views, NEW m \in References(v)
  PROVE  \E o \in Objects : /\ m.sid \in DOMAIN store[v] /\ o = store[v][m.sid]
                            /\ heap[o] = "live" /\ atomId[o] = m.id
                            /\ m.id # 0 /\ m.id <= nextId
                            /\ \A x \in Objects : atomId[x] = m.id <=> x = o
<1>1. m.sid \in DOMAIN store[v] /\ atomId[store[v][m.sid]] = m.id
  BY DEF ReferenceInv, StoredAs
<1> DEFINE o == store[v][m.sid]
<1>2. o \in Objects /\ heap[o] = "live" /\ atomId[o] # 0 /\ atomId[o] <= nextId
  BY <1>1 DEF TypeOK, RegistryInv
<1>. QED
  BY <1>1, <1>2 DEF UniqueIds

(* What a page holds does not change when an object gets its id.           *)
LEMMA HeldKept ==
  ASSUME TypeOK, RegistryInv, ReferenceInv, UniqueIds, UNCHANGED proxies,
         \A o \in Objects : atomId'[o] = atomId[o]
                            \/ (atomId[o] = 0 /\ atomId'[o] = nextId + 1)
  PROVE  Held' = Held
<1>1. \A v \in Views : \A p \in proxies[v] : p.id # 0 /\ p.id <= nextId
  BY HeldObject DEF References
<1>2. \A v \in Views : \A p \in proxies[v] : p.id \in Nat
  BY DEF TypeOK, Meta
<1>3. nextId \in Nat
  BY DEF TypeOK
<1>4. \A v \in Views : \A o \in Objects : \A p \in proxies[v] :
        p.id = atomId'[o] <=> p.id = atomId[o]
  BY <1>1, <1>2, <1>3
<1>. QED
  BY <1>4 DEF Held

(* What one page holds changes.                                            *)
LEMMA HeldChanges ==
  ASSUME NEW v \in Views, NEW S,
         \A u \in Views : {o \in Objects : \E p \in proxies'[u] : p.id = atomId'[o]} =
           IF u = v THEN S ELSE {o \in Objects : \E p \in proxies[u] : p.id = atomId[o]}
  PROVE  Held' = [Held EXCEPT ![v] = S]
<1> DEFINE H(u) == {o \in Objects : \E p \in proxies[u] : p.id = atomId[o]}
           G(u) == {o \in Objects : \E p \in proxies'[u] : p.id = atomId'[o]}
<1>1. \A u \in Views : G(u) = IF u = v THEN S ELSE H(u)
  OBVIOUS
<1>2. Held = [u \in Views |-> H(u)] /\ Held' = [u \in Views |-> G(u)]
  BY DEF Held
<1> HIDE DEF G, H
<1>. QED
  BY <1>1, <1>2

(* An object comes to life, or dies.                                       *)
LEMMA HeapChanges ==
  ASSUME NEW S, NEW made, NEW o \in Objects, heap \in [Objects -> S],
         heap' = [heap EXCEPT ![o] = "live"],
         \A x \in Objects : x \in made => x = o, o \in made \/ heap[o] = "live"
  PROVE  heap' = [x \in Objects |-> IF x \in made THEN "live" ELSE heap[x]]
<1>1. /\ DOMAIN heap' = Objects
      /\ \A x \in Objects : heap'[x] = IF x = o THEN "live" ELSE heap[x]
  OBVIOUS
<1>2. \A x \in Objects : heap'[x] = IF x \in made THEN "live" ELSE heap[x]
  BY <1>1
<1>. QED
  OBVIOUS

(* Nothing that RemoteLifetime sees happens.                               *)
LEMMA LifetimeStutters ==
  ASSUME UNCHANGED <<heap, pinned, proxies, atomId>>
  PROVE  UNCHANGED Lifetime!vars
BY DEF Held, Lifetime!vars

(* A page gets a reference it was sent, or drops proxies.                  *)
LEMMA LifetimeGrants ==
  ASSUME TypeOK, RegistryInv, ReferenceInv, UniqueIds, NEW v \in Views, NEW m \in References(v),
         proxies' = [proxies EXCEPT ![v] = proxies[v] \cup {m}],
         UNCHANGED <<heap, pinned, atomId>>
  PROVE  Lifetime!Next
<1>1. PICK o \in Objects : /\ heap[o] = "live"
                           /\ \A x \in Objects : atomId[x] = m.id <=> x = o
  BY HeldObject
<1>2. \A u \in Views : proxies'[u] = IF u = v THEN proxies[v] \cup {m} ELSE proxies[u]
  BY DEF TypeOK
<1>3. Held' = [Held EXCEPT ![v] = Held[v] \cup {o}]
  <2>1. \A u \in Views : {x \in Objects : \E p \in proxies'[u] : p.id = atomId'[x]} =
          IF u = v THEN Held[v] \cup {o}
          ELSE {x \in Objects : \E p \in proxies[u] : p.id = atomId[x]}
    BY <1>1, <1>2 DEF Held
  <2>. QED
    BY <2>1, HeldChanges
<1>4. Lifetime!Grant(v, o)
  BY <1>1, <1>3 DEF Lifetime!Grant
<1>. QED
  BY <1>4 DEF Lifetime!Next

(* A proxy is collected; another one of the same object may stay.          *)
LEMMA LifetimeLetsGo ==
  ASSUME TypeOK, RegistryInv, ReferenceInv, UniqueIds, NEW v \in Views, NEW p \in proxies[v],
         proxies' = [proxies EXCEPT ![v] = proxies[v] \ {p}],
         UNCHANGED <<heap, pinned, atomId>>
  PROVE  [Lifetime!Next]_Lifetime!vars
<1>1. PICK o \in Objects : \A x \in Objects : atomId[x] = p.id <=> x = o
  BY HeldObject DEF References
<1>2. \A u \in Views : proxies'[u] = IF u = v THEN proxies[v] \ {p} ELSE proxies[u]
  BY DEF TypeOK
<1>3. CASE \E r \in proxies[v] \ {p} : r.id = p.id
  <2>1. Held' = Held
    BY <1>1, <1>2, <1>3 DEF Held
  <2>. QED
    BY <2>1 DEF Lifetime!vars
<1>4. CASE ~ \E r \in proxies[v] \ {p} : r.id = p.id
  <2>1. Held' = [Held EXCEPT ![v] = Held[v] \ {o}]
    <3>1. \A u \in Views : {x \in Objects : \E r \in proxies'[u] : r.id = atomId'[x]} =
            IF u = v THEN Held[v] \ {o}
            ELSE {x \in Objects : \E r \in proxies[u] : r.id = atomId[x]}
      BY <1>1, <1>2, <1>4 DEF Held
    <3>. QED
      BY <3>1, HeldChanges
  <2>2. Lifetime!LetGo(v, o)
    BY <2>1 DEF Lifetime!LetGo
  <2>. QED
    BY <2>2 DEF Lifetime!Next
<1>. QED
  BY <1>3, <1>4

(* A page dies.                                                            *)
LEMMA LifetimeVanishes ==
  ASSUME TypeOK, NEW v \in Views, proxies' = [proxies EXCEPT ![v] = {}],
         UNCHANGED <<heap, pinned, atomId>>
  PROVE  Lifetime!Next
<1>1. \A u \in Views : proxies'[u] = IF u = v THEN {} ELSE proxies[u]
  BY DEF TypeOK
<1>2. Held' = [Held EXCEPT ![v] = {}]
  <2>1. \A u \in Views : {x \in Objects : \E p \in proxies'[u] : p.id = atomId'[x]} =
          IF u = v THEN {} ELSE {x \in Objects : \E p \in proxies[u] : p.id = atomId[x]}
    BY <1>1
  <2>. QED
    BY <2>1, HeldChanges
<1>3. Lifetime!Vanish(v)
  BY <1>2 DEF Lifetime!Vanish
<1>. QED
  BY <1>3 DEF Lifetime!Next

(* The main process makes an object, or hands one out, and keeps some.     *)
LEMMA LifetimeRuns ==
  ASSUME TypeOK, RegistryInv, ReferenceInv, UniqueIds, NEW k, NEW o \in Objects, Add(k, o),
         heap[o] # "collected", NEW keeps, keeps \subseteq {x \in Objects : heap[x] = "live"},
         pinned' = pinned \cup keeps, UNCHANGED proxies
  PROVE  Lifetime!Next
<1> DEFINE made == {x \in {o} : heap[x] = "unborn"}
<1>1. heap' = [heap EXCEPT ![o] = "live"] /\ atomId' = [atomId EXCEPT ![o] = IdFor(o)]
  BY DEF Add
<1>2. heap' = [x \in Objects |-> IF x \in made THEN "live" ELSE heap[x]]
  <2>1. heap[o] \in {"unborn", "live"} /\ heap \in [Objects -> {"unborn", "live", "collected"}]
    BY DEF TypeOK
  <2>2. (\A x \in Objects : x \in made => x = o) /\ (o \in made \/ heap[o] = "live")
    BY <2>1
  <2> HIDE DEF made
  <2>. QED
    BY <1>1, <2>1, <2>2, HeapChanges
<1>3. Held' = Held
  <2>1. \A x \in Objects : atomId'[x] = atomId[x] \/ (atomId[x] = 0 /\ atomId'[x] = nextId + 1)
    BY <1>1 DEF TypeOK, IdFor
  <2>. QED
    BY <2>1, HeldKept
<1>4. /\ \A x \in made : heap[x] = "unborn"
      /\ made \subseteq Objects /\ keeps \subseteq Objects
      /\ keeps \subseteq Lifetime!Live \cup made
  BY DEF Lifetime!Live
<1> HIDE DEF made
<1>5. Lifetime!Run(made, keeps)
  BY <1>2, <1>3, <1>4 DEF Lifetime!Run
<1>. QED
  BY <1>4, <1>5 DEF Lifetime!Next

(* The main process keeps what a call named.                               *)
LEMMA LifetimeKeeps ==
  ASSUME TypeOK, NEW keeps, keeps \subseteq {x \in Objects : heap[x] = "live"},
         pinned' = pinned \cup keeps, UNCHANGED <<heap, proxies, atomId>>
  PROVE  Lifetime!Next
<1>1. heap' = [x \in Objects |-> IF x \in {} THEN "live" ELSE heap[x]]
  BY DEF TypeOK
<1>2. Held' = Held
  BY DEF Held
<1>3. Lifetime!Run({}, keeps)
  BY <1>1, <1>2 DEF Lifetime!Run, Lifetime!Live
<1>4. {} \in SUBSET Objects /\ keeps \in SUBSET Objects
  OBVIOUS
<1>. QED
  BY <1>3, <1>4 DEF Lifetime!Next

(* Every step is a step of RemoteLifetime, or one it does not see.         *)
LEMMA LifetimePageStep ==
  ASSUME TypeOK, RegistryInv, ReferenceInv, UniqueIds, NEW v \in Views, PageStep(v)
  PROVE  [Lifetime!Next]_Lifetime!vars
<1>1. UNCHANGED <<heap, pinned, atomId>>
  BY DEF PageStep, RequireRemote, CallProxy, CallProxyWithCallback, Detach,
     CallMethod, CallMethodAgain, ReceiveReply, ReceiveMessage, DropMessage,
     ReceiveCallback, ReceiveRelease, CollectProxy, DidCreateDocumentElement, registry
<1>2. ASSUME UNCHANGED proxies PROVE [Lifetime!Next]_Lifetime!vars
  BY <1>1, <1>2, LifetimeStutters
<1>3. CASE ReceiveReply(v)
  <2>1. CASE reply[v].sid = 0
    <3>1. proxies' = proxies
      BY <1>3, <2>1 DEF ReceiveReply, TypeOK
    <3>. QED
      BY <1>2, <3>1
  <2>2. CASE reply[v].sid # 0
    <3>1. /\ reply[v] \in References(v)
          /\ proxies' = [proxies EXCEPT ![v] = proxies[v] \cup {reply[v]}]
      BY <1>3, <2>2 DEF ReceiveReply, References
    <3>. QED
      BY <1>1, <3>1, LifetimeGrants
  <2>. QED
    BY <2>1, <2>2
<1>4. CASE ReceiveCallback(v)
  <2> DEFINE m == Head(toView[v]).meta
  <2>1. /\ proxies' = [proxies EXCEPT ![v] = IF m.sid = 0 THEN proxies[v] ELSE proxies[v] \cup {m}]
        /\ toView[v] # << >> /\ toView[v] \in Seq(ToView)
    BY <1>4 DEF ReceiveCallback, TypeOK
  <2>2. m.sid # 0 => m \in References(v)
    <3>1. 1 \in DOMAIN toView[v] /\ Head(toView[v]) = toView[v][1]
      BY <2>1, TailElements
    <3>. QED
      BY <3>1 DEF References, Metas
  <2> HIDE DEF m
  <2>3. CASE m.sid = 0
    <3>1. proxies' = proxies
      BY <2>1, <2>3 DEF TypeOK
    <3>. QED
      BY <1>2, <3>1
  <2>4. CASE m.sid # 0
    BY <1>1, <2>1, <2>2, <2>4, LifetimeGrants
  <2>. QED
    BY <2>3, <2>4
<1>5. ASSUME NEW p \in proxies[v], CollectProxy(v, p) PROVE [Lifetime!Next]_Lifetime!vars
  <2>1. proxies' = [proxies EXCEPT ![v] = proxies[v] \ {p}]
    BY <1>5 DEF CollectProxy
  <2>. QED
    BY <1>1, <2>1, LifetimeLetsGo
<1>6. CASE UNCHANGED proxies
  BY <1>2, <1>6
<1>7. \/ UNCHANGED proxies \/ ReceiveReply(v) \/ ReceiveCallback(v)
      \/ \E p \in proxies[v] : CollectProxy(v, p)
  BY DEF PageStep, RequireRemote, CallProxy, CallProxyWithCallback, Detach,
     CallMethod, CallMethodAgain, ReceiveMessage, DropMessage, ReceiveRelease,
     DidCreateDocumentElement, page
<1>. QED
  BY <1>3, <1>4, <1>5, <1>6, <1>7

(* So is a handler of the browser,                                         *)
LEMMA LifetimeHandleMessage ==
  ASSUME TypeOK, RegistryInv, ReferenceInv, UniqueIds, NEW v \in Views, HandleMessage(v)
  PROVE  [Lifetime!Next]_Lifetime!vars
<1>1. Named(Head(toBrowser[v])) \subseteq {x \in Objects : heap[x] = "live"}
  BY NamedAlive
<1>2. ASSUME NEW kept \in SUBSET Objects,
             CallReturnsValue(v, kept) \/ CallThrowsNothing(v, kept)
      PROVE  [Lifetime!Next]_Lifetime!vars
  <2>1. /\ kept \subseteq {x \in Objects : heap[x] = "live"}
        /\ pinned' = pinned \cup kept /\ UNCHANGED <<heap, proxies, atomId>>
    BY <1>1, <1>2 DEF CallReturnsValue, CallThrowsNothing, page
  <2>. QED
    BY <2>1, LifetimeKeeps
<1>3. ASSUME NEW o \in Objects, NEW kept \in SUBSET Objects, CallReturnsObject(v, o, kept)
      PROVE  [Lifetime!Next]_Lifetime!vars
  <2>1. /\ kept \subseteq {x \in Objects : heap[x] = "live"} /\ Add(Key(v), o)
        /\ heap[o] # "collected" /\ pinned' = pinned \cup kept /\ UNCHANGED proxies
    BY <1>1, <1>3, ReachableAlive DEF CallReturnsObject, page
  <2>. QED
    BY <2>1, LifetimeRuns
<1>4. ASSUME NEW o \in Objects, CallReturnsBrokenObject(v, o) \/ BrokenObjectAbandons(v, o)
      PROVE  [Lifetime!Next]_Lifetime!vars
  <2>1. /\ Add(Key(v), o) /\ heap[o] # "collected" /\ UNCHANGED proxies
        /\ pinned' = pinned \cup {} /\ {} \subseteq {x \in Objects : heap[x] = "live"}
    BY <1>4, ReachableAlive DEF CallReturnsBrokenObject, BrokenObjectAbandons, page
  <2>. QED
    BY <2>1, LifetimeRuns
<1>5. CASE CallOfUnknownId(v) \/ CallIsDeferred(v) \/ HandleDereference(v)
  BY <1>5, LifetimeStutters DEF CallOfUnknownId, CallIsDeferred, HandleDereference, registry, page
<1>. QED
  BY <1>2, <1>3, <1>4, <1>5 DEF HandleMessage

(* a step of the application or a collector,                               *)
LEMMA LifetimeBrowserStep ==
  ASSUME TypeOK, RegistryInv, ReferenceInv, UniqueIds, BrowserStep
  PROVE  [Lifetime!Next]_Lifetime!vars
<1>1. ASSUME NEW c \in Callbacks, CallWrapper(c) \/ CollectWrapper(c)
      PROVE  [Lifetime!Next]_Lifetime!vars
  BY <1>1, LifetimeStutters DEF CallWrapper, CollectWrapper, registry, page
<1>2. ASSUME NEW c \in Callbacks, NEW o \in Objects, CallWrapperWithObject(c, o)
      PROVE  [Lifetime!Next]_Lifetime!vars
  <2>1. /\ Add(Sender(c), o) /\ UNCHANGED proxies
        /\ pinned' = pinned \cup {} /\ {} \subseteq {x \in Objects : heap[x] = "live"}
    BY <1>2 DEF CallWrapperWithObject, page
  <2>2. heap[o] # "collected"
    BY <1>2 DEF CallWrapperWithObject, RegistryInv
  <2>. QED
    BY <2>1, <2>2, LifetimeRuns
<1>3. ASSUME NEW o \in Objects, CreateObject(o) PROVE [Lifetime!Next]_Lifetime!vars
  <2>1. /\ heap[o] = "unborn" /\ heap' = [heap EXCEPT ![o] = "live"]
        /\ pinned' = pinned \cup {o} /\ UNCHANGED <<atomId, proxies>>
    BY <1>3 DEF CreateObject, page
  <2>2. heap' = [x \in Objects |-> IF x \in {o} THEN "live" ELSE heap[x]] /\ Held' = Held
    <3>1. heap \in [Objects -> {"unborn", "live", "collected"}]
      BY DEF TypeOK
    <3>2. heap' = [x \in Objects |-> IF x \in {o} THEN "live" ELSE heap[x]]
      BY <2>1, <3>1, HeapChanges
    <3>3. Held' = Held
      BY <2>1 DEF Held
    <3>. QED
      BY <3>2, <3>3
  <2>3. Lifetime!Run({o}, {o})
    BY <2>1, <2>2 DEF Lifetime!Run
  <2>4. {o} \in SUBSET Objects
    OBVIOUS
  <2>. QED
    BY <2>3, <2>4 DEF Lifetime!Next
<1>4. ASSUME NEW o \in Objects, ForgetObject(o) PROVE [Lifetime!Next]_Lifetime!vars
  <2>1. pinned' = pinned \ {o} /\ heap' = heap /\ Held' = Held
    BY <1>4 DEF ForgetObject, page, Held
  <2>2. Lifetime!Forget(o)
    BY <2>1 DEF Lifetime!Forget
  <2>. QED
    BY <2>2 DEF Lifetime!Next
<1>5. ASSUME NEW o \in Objects, CollectObject(o) PROVE [Lifetime!Next]_Lifetime!vars
  <2>1. /\ heap[o] = "live" /\ o \notin pinned /\ ~Stored(o)
        /\ heap' = [heap EXCEPT ![o] = "collected"] /\ pinned' = pinned /\ Held' = Held
    BY <1>5 DEF CollectObject, page, Held
  <2>2. ASSUME NEW u \in Views PROVE o \notin Held[u]
    <3>1. ASSUME NEW p \in proxies[u], p.id = atomId[o] PROVE FALSE
      <4>1. p \in References(u)
        BY DEF References
      <4>2. PICK x \in Objects : /\ p.sid \in DOMAIN store[u] /\ x = store[u][p.sid]
                                 /\ \A y \in Objects : atomId[y] = p.id <=> y = x
        BY <4>1, HeldObject
      <4>3. x = o
        BY <3>1, <4>2
      <4>. QED
        BY <2>1, <4>2, <4>3 DEF Stored
    <3>. QED
      BY <3>1 DEF Held
  <2>3. Lifetime!Reclaim(o)
    BY <2>1, <2>2 DEF Lifetime!Reclaim
  <2>. QED
    BY <2>3 DEF Lifetime!Next
<1>. QED
  BY <1>1, <1>2, <1>3, <1>4, <1>5 DEF BrowserStep

(* and every other step.                                                   *)
LEMMA LifetimeNext ==
  ASSUME TypeOK, RegistryInv, ReferenceInv, UniqueIds, [Next]_vars
  PROVE  [Lifetime!Next]_Lifetime!vars
<1>1. ASSUME NEW v \in Views, DeferredReply(v) \/ Navigate(v) PROVE [Lifetime!Next]_Lifetime!vars
  BY <1>1, LifetimeStutters DEF DeferredReply, Navigate, registry, page
<1>2. ASSUME NEW v \in Views,
             RenderViewDeleted(v) \/ WebContentsDestroyed(v) \/ RenderProcessGone(v)
      PROVE  [Lifetime!Next]_Lifetime!vars
  <2>1. proxies' = [proxies EXCEPT ![v] = {}] /\ UNCHANGED <<heap, pinned, atomId>>
    BY <1>2 DEF RenderViewDeleted, WebContentsDestroyed, RenderViewGone, RenderProcessGone,
       ForgetPage, registry
  <2>. QED
    BY <2>1, LifetimeVanishes
<1>3. CASE UNCHANGED vars
  BY <1>3, LifetimeStutters DEF vars, registry, page
<1>. QED
  BY <1>1, <1>2, <1>3, LifetimePageStep, LifetimeHandleMessage, LifetimeBrowserStep
     DEF Next, ViewStep

(* Initial states are initial states of RemoteLifetime.                    *)
LEMMA LifetimeInit == Init => Lifetime!Init
BY DEF Init, Lifetime!Init, Held

(* The ids, stores, messages and collectors implement the lifetime of      *)
(* remote objects: an object that a page holds is never released.          *)
THEOREM LifetimeImplemented == ~LateMessages => (Spec => ImplementsLifetime)
<1> SUFFICES ASSUME ~LateMessages PROVE Spec => ImplementsLifetime
  OBVIOUS
<1>1. Spec => []ReferenceInv
  BY ReferencesCorrect
<1>2. Spec => []UniqueIds
  BY UniqueInit, UniqueNext, TypeCorrect, RegistryCorrect, PTL DEF Spec
<1>. QED
  BY <1>1, <1>2, LifetimeInit, LifetimeNext, TypeCorrect, RegistryCorrect, PTL
     DEF Spec, ImplementsLifetime, Lifetime!Spec
=============================================================================
