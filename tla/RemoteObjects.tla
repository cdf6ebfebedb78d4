--------------------------- MODULE RemoteObjects ---------------------------
(***************************************************************************)
(* The `remote' module: renderer pages hold proxies of objects that live   *)
(* in the browser process, and the browser holds wrappers of callbacks     *)
(* that live in the pages.                                                 *)
(*                                                                         *)
(*   atom/browser/lib/rpc-server.coffee         the handlers               *)
(*   atom/browser/lib/objects-registry.coffee   ids, and one store of      *)
(*                                              strong references per view *)
(*   atom/common/api/atom_api_id_weak_map.cc    id -> weakly held object   *)
(*   atom/renderer/api/lib/remote.coffee        the proxies                *)
(*   atom/common/api/lib/callbacks-registry.coffee                         *)
(*                                                                         *)
(* A web contents shows one render view at a time; every navigation makes  *)
(* a new view in a new process and swaps the old one out.  The key of a    *)
(* view's store is "processId-routingId", computed by webContents.getId()  *)
(* when a handler runs: it names the view that is CURRENT then, which need *)
(* not be the view that sent the message.  One action is one run of a      *)
(* handler on the browser's or a page's single JavaScript thread, or one   *)
(* garbage collection.                                                     *)
(***************************************************************************)
EXTENDS Naturals, Sequences

CONSTANTS
  Contents,       \* web contents
  Views,          \* render views; a view stands for its key
  ContentsOf,     \* the web contents a view belongs to
  Objects,        \* objects of the browser process
  Callbacks,      \* random ids handed out by CallbacksRegistry::add
  NoView, NoCallback,
  LateMessages,   \* does content deliver the messages of a swapped-out view?
  Detaching,      \* do pages keep a method of a proxy without the proxy?
  MaxStoreId,     \* bound on the storeIds one store hands out
  MaxQueue        \* bound on the messages in flight in one direction

ASSUME NullsAssumption == NoView \notin Views /\ NoCallback \notin Callbacks
ASSUME ContentsAssumption == ContentsOf \in [Views -> Contents]
ASSUME EnvironmentAssumption == LateMessages \in BOOLEAN /\ Detaching \in BOOLEAN
ASSUME BoundsAssumption == MaxStoreId \in Nat /\ MaxQueue \in Nat

VARIABLES
  (* the browser process *)
  heap,        \* [Objects -> {"unborn", "live", "collected"}]
  pinned,      \* objects the application's own code references
  atomId,      \* hidden value 'atomId' of an object, 0 when it has none
  nextId,      \* IDWeakMap::next_id_ of objectsWeakMap
  weakMap,     \* IDWeakMap::map_ of objectsWeakMap: id -> object
  store,       \* ObjectsStore.stores[key].objects: storeId -> object
  storeNext,   \* ObjectsStore.stores[key].nextId
  wrapper,     \* the function that stands for a page's callback
  wrapperKey,  \* the key whose "clear" the wrapper listens to
  (* the views *)
  life,        \* [Views -> {"unborn", "current", "swapped", "deleted"}]
  current,     \* the view webContents.getId() names, NoView when none
  destroyed,   \* the web contents that are gone
  (* the renderer processes *)
  up,          \* is the process running?
  ready,       \* document_created_
  calling,     \* "idle", "waiting" in sendSync, where the handler may have
               \* "deferred" its reply or "abandoned" the call, or "replied"
  proxies,     \* the proxies that have not been collected
  methods,     \* detached methods whose closure still reaches their proxy
  loose,       \* ids used by detached methods that lost their proxy
  registered,  \* CallbacksRegistry.callbacks
  cbOwner,     \* the view that registered a callback, NoView while unused
  (* the channels *)
  toBrowser,   \* messages of a view, calls and dereferences, in order
  toView,      \* messages to a view, in order
  reply,       \* the reply to a view's synchronous call
  (* history *)
  lost         \* storeIds whose meta data never reached their page

registry  == <<heap, pinned, atomId, nextId, weakMap>>
stores    == <<store, storeNext>>
wrappers  == <<wrapper, wrapperKey>>
views     == <<life, current, destroyed>>
page      == <<up, ready, proxies, methods, loose, registered, cbOwner>>
channels  == <<calling, toBrowser, toView, reply>>
vars == <<registry, stores, wrappers, views, page, channels, lost>>

(* The meta data of one value: an object has an id and a storeId, anything *)
(* else (a plain value, an error) has neither.                             *)
Meta  == [id : Nat, sid : Nat]
Plain == [id |-> 0, sid |-> 0]

Request(id, arg, cb) ==
  [kind |-> "call", id |-> id, arg |-> arg, cb |-> cb, meta |-> Plain]

(* remote.coffee sends meta.storeId alone; nothing below reads the id.     *)
Dereference(p) ==
  [kind |-> "dereference", id |-> 0, arg |-> 0, cb |-> NoCallback, meta |-> p]

ToBrowser == [kind : {"call", "dereference"}, id : Nat, arg : Nat,
              cb : Callbacks \cup {NoCallback}, meta : Meta]
ToView    == [kind : {"callback", "release"}, cb : Callbacks, meta : Meta]

Put(f, k, x)  == [i \in DOMAIN f \cup {k} |-> IF i = k THEN x ELSE f[i]]
Drop(f, k)    == [i \in DOMAIN f \ {k} |-> f[i]]
EmptyMap      == [i \in {} |-> i]

Init ==
  /\ heap = [o \in Objects |-> "unborn"]
  /\ pinned = {}
  /\ atomId = [o \in Objects |-> 0]
  /\ nextId = 0
  /\ weakMap = EmptyMap
  /\ store = [v \in Views |-> EmptyMap]
  /\ storeNext = [v \in Views |-> 0]
  /\ wrapper = [c \in Callbacks |-> "none"]
  /\ wrapperKey = [c \in Callbacks |-> NoView]
  /\ life = [v \in Views |-> "unborn"]
  /\ current = [w \in Contents |-> NoView]
  /\ destroyed = {}
  /\ up = [v \in Views |-> FALSE]
  /\ ready = [v \in Views |-> FALSE]
  /\ calling = [v \in Views |-> "idle"]
  /\ proxies = [v \in Views |-> {}]
  /\ methods = [v \in Views |-> {}]
  /\ loose = [v \in Views |-> {}]
  /\ registered = [v \in Views |-> {}]
  /\ cbOwner = [c \in Callbacks |-> NoView]
  /\ toBrowser = [v \in Views |-> << >>]
  /\ toView = [v \in Views |-> << >>]
  /\ reply = [v \in Views |-> Plain]
  /\ lost = [v \in Views |-> {}]

-----------------------------------------------------------------------------
(* The page.                                                               *)

MaySend(v) == up[v] /\ Len(toBrowser[v]) < MaxQueue
Idle(v)    == calling[v] = "idle" /\ MaySend(v)

SendSync(v, m) ==
  /\ calling' = [calling EXCEPT ![v] = "waiting"]
  /\ toBrowser' = [toBrowser EXCEPT ![v] = Append(@, m)]
  /\ UNCHANGED <<toView, reply>>

(* remote.require, getGlobal, getCurrentWindow, getCurrentWebContents and  *)
(* getGuestWebContents: a request that names no object.                    *)
RequireRemote(v) ==
  /\ Idle(v)
  /\ SendSync(v, Request(0, 0, NoCallback))
  /\ UNCHANGED <<registry, stores, wrappers, views, page, lost>>

(* A call, construction or member access through the proxy p; an argument  *)
(* may be another proxy, which wrapArgs sends as its id.                   *)
CallProxy(v, p, arg) ==
  /\ Idle(v)
  /\ p \in proxies[v]
  /\ arg \in {q.id : q \in proxies[v]} \cup {0}
  /\ SendSync(v, Request(p.id, arg, NoCallback))
  /\ UNCHANGED <<registry, stores, wrappers, views, page, lost>>

(* A call through p with a function argument: wrapArgs registers it.       *)
CallProxyWithCallback(v, p, c) ==
  /\ Idle(v)
  /\ p \in proxies[v]
  /\ cbOwner[c] = NoView
  /\ cbOwner' = [cbOwner EXCEPT ![c] = v]
  /\ registered' = [registered EXCEPT ![v] = @ \cup {c}]
  /\ SendSync(v, Request(p.id, 0, c))
  /\ UNCHANGED <<registry, stores, wrappers, views, up, ready, proxies,
                 methods, loose, lost>>

(* The page keeps p.method.  The closure of RemoteMemberFunction reaches p *)
(* through metaToValue's variable `ret', so p cannot be collected ...      *)
Detach(v, p) ==
  /\ Detaching
  /\ up[v]
  /\ p \in proxies[v]
  /\ methods' = [methods EXCEPT ![v] = @ \cup {p}]
  /\ UNCHANGED <<registry, stores, wrappers, views, up, ready, proxies, loose,
                 registered, cbOwner, channels, lost>>

(* ... until the method is called once: `ret = ipc.sendSync ...' assigns   *)
(* the enclosing `ret', and the method no longer reaches its proxy.        *)
CallMethod(v, p) ==
  /\ Idle(v)
  /\ p \in methods[v]
  /\ methods' = [methods EXCEPT ![v] = @ \ {p}]
  /\ loose' = [loose EXCEPT ![v] = @ \cup {p.id}]
  /\ SendSync(v, Request(p.id, 0, NoCallback))
  /\ UNCHANGED <<registry, stores, wrappers, views, up, ready, proxies,
                 registered, cbOwner, lost>>

CallMethodAgain(v, id) ==
  /\ Idle(v)
  /\ id \in loose[v]
  /\ SendSync(v, Request(id, 0, NoCallback))
  /\ UNCHANGED <<registry, stores, wrappers, views, page, lost>>

(* metaToValue of a reply: an object becomes a proxy with a destructor.    *)
ReceiveReply(v) ==
  /\ up[v]
  /\ calling[v] = "replied"
  /\ calling' = [calling EXCEPT ![v] = "idle"]
  /\ reply' = [reply EXCEPT ![v] = Plain]
  /\ proxies' = [proxies EXCEPT ![v] =
       IF reply[v].sid = 0 THEN @ ELSE @ \cup {reply[v]}]
  /\ UNCHANGED <<registry, stores, wrappers, views, up, ready, methods, loose,
                 registered, cbOwner, toBrowser, toView, lost>>

(* OnBrowserMessage drops everything before the document element exists.   *)
DropMessage(v) ==
  /\ up[v] /\ ~ready[v]
  /\ toView[v] # << >>
  /\ toView' = [toView EXCEPT ![v] = Tail(@)]
  /\ lost' = [lost EXCEPT ![v] =
       IF Head(toView[v]).meta.sid = 0 THEN @
                                       ELSE @ \cup {Head(toView[v]).meta.sid}]
  /\ UNCHANGED <<registry, stores, wrappers, views, page, calling, toBrowser,
                 reply>>

(* ATOM_RENDERER_CALLBACK: metaToValue(args) runs first and makes proxies, *)
(* then CallbacksRegistry.get finds the callback or a function that does   *)
(* nothing.  Messages are pumped while a synchronous call waits.           *)
ReceiveCallback(v) ==
  /\ up[v] /\ ready[v]
  /\ toView[v] # << >> /\ Head(toView[v]).kind = "callback"
  /\ toView' = [toView EXCEPT ![v] = Tail(@)]
  /\ proxies' = [proxies EXCEPT ![v] =
       IF Head(toView[v]).meta.sid = 0 THEN @
                                       ELSE @ \cup {Head(toView[v]).meta}]
  /\ UNCHANGED <<registry, stores, wrappers, views, up, ready, methods, loose,
                 registered, cbOwner, calling, toBrowser, reply, lost>>

(* ATOM_RENDERER_RELEASE_CALLBACK.                                         *)
ReceiveRelease(v) ==
  /\ up[v] /\ ready[v]
  /\ toView[v] # << >> /\ Head(toView[v]).kind = "release"
  /\ toView' = [toView EXCEPT ![v] = Tail(@)]
  /\ registered' = [registered EXCEPT ![v] = @ \ {Head(toView[v]).cb}]
  /\ UNCHANGED <<registry, stores, wrappers, views, up, ready, proxies, methods,
                 loose, cbOwner, calling, toBrowser, reply, lost>>

(* Mutant: the proxy has no destructor.                                    *)
CollectProxySilently(v, p) ==
  /\ MaySend(v)
  /\ p \in proxies[v] \ methods[v]
  /\ proxies' = [proxies EXCEPT ![v] = @ \ {p}]
  /\ UNCHANGED <<registry, stores, wrappers, views, up, ready, methods, loose,
                 registered, cbOwner, channels, lost>>

(* Mutant: the proxy has two destructors.                                  *)
CollectProxyTwice(v, p) ==
  /\ MaySend(v)
  /\ p \in proxies[v] \ methods[v]
  /\ proxies' = [proxies EXCEPT ![v] = @ \ {p}]
  /\ toBrowser' = [toBrowser EXCEPT
       ![v] = @ \o <<Dereference(p), Dereference(p)>>]
  /\ UNCHANGED <<registry, stores, wrappers, views, up, ready, methods, loose,
                 registered, cbOwner, calling, toView, reply, lost>>

(* The page's garbage collector takes a proxy; its destructor sends        *)
(* ATOM_BROWSER_DEREFERENCE.                                               *)
CollectProxy(v, p) ==
  /\ MaySend(v)
  /\ p \in proxies[v] \ methods[v]
  /\ proxies' = [proxies EXCEPT ![v] = @ \ {p}]
  /\ toBrowser' = [toBrowser EXCEPT ![v] = Append(@, Dereference(p))]
  /\ UNCHANGED <<registry, stores, wrappers, views, up, ready, methods, loose,
                 registered, cbOwner, calling, toView, reply, lost>>

DidCreateDocumentElement(v) ==
  /\ up[v] /\ ~ready[v]
  /\ ready' = [ready EXCEPT ![v] = TRUE]
  /\ UNCHANGED <<registry, stores, wrappers, views, up, proxies, methods, loose,
                 registered, cbOwner, channels, lost>>

-----------------------------------------------------------------------------
(* The browser's handlers.                                                 *)

(* event.sender.getId(): the current view of the sender's web contents.    *)
Key(v) == current[ContentsOf[v]]

Delivered(v, kind) ==
  /\ toBrowser[v] # << >> /\ Head(toBrowser[v]).kind = kind
  /\ Key(v) # NoView
  /\ life[v] = "current" \/ (LateMessages /\ life[v] = "swapped")

(* objectsRegistry.get throws for an id the weak map does not hold.        *)
Known(m) == {m.id, m.arg} \subseteq DOMAIN weakMap \cup {0}

Named(m) == {weakMap[i] : i \in {m.id, m.arg} \cap DOMAIN weakMap}

(* What the application can return, or keep, when it is called.            *)
Reachable(m) == pinned \cup Named(m) \cup {o \in Objects : heap[o] = "unborn"}

(* unwrapArgs: a function argument becomes a wrapper that listens to the   *)
(* "clear" of the sender's key.                                            *)
UnwrapArgs(v, m) ==
  /\ wrapper' = IF m.cb = NoCallback THEN wrapper
                ELSE [wrapper EXCEPT ![m.cb] = "live"]
  /\ wrapperKey' = IF m.cb = NoCallback THEN wrapperKey
                   ELSE [wrapperKey EXCEPT ![m.cb] = Key(v)]

(* Mutant: the ids of collected objects are used again.                    *)
IdForSmallest(o) ==
  IF atomId[o] # 0 THEN atomId[o]
  ELSE CHOOSE i \in 1 .. (nextId + 1) :
         i \notin DOMAIN weakMap /\ \A j \in 1 .. (i - 1) : j \in DOMAIN weakMap

(* objectsRegistry.add(k, o), and the meta data valueToMeta makes of it.   *)
IdFor(o)   == IF atomId[o] = 0 THEN nextId + 1 ELSE atomId[o]
MetaFor(k, o) == [id |-> IdFor(o), sid |-> storeNext[k] + 1]

(* Mutant: an object that has an id already is not stored again.           *)
AddOnlyNew(k, o) ==
  /\ storeNext[k] < MaxStoreId
  /\ heap' = [heap EXCEPT ![o] = "live"]
  /\ atomId' = [atomId EXCEPT ![o] = IdFor(o)]
  /\ nextId' = IF atomId[o] = 0 THEN nextId + 1 ELSE nextId
  /\ weakMap' = IF atomId[o] = 0 THEN Put(weakMap, IdFor(o), o) ELSE weakMap
  /\ storeNext' = [storeNext EXCEPT ![k] = @ + 1]
  /\ store' = IF atomId[o] # 0 THEN store
              ELSE [store EXCEPT ![k] = Put(@, storeNext[k] + 1, o)]

Add(k, o) ==
  /\ storeNext[k] < MaxStoreId
  /\ heap' = [heap EXCEPT ![o] = "live"]
  /\ atomId' = [atomId EXCEPT ![o] = IdFor(o)]
  /\ nextId' = IF atomId[o] = 0 THEN nextId + 1 ELSE nextId
  /\ weakMap' = IF atomId[o] = 0 THEN Put(weakMap, IdFor(o), o) ELSE weakMap
  /\ storeNext' = [storeNext EXCEPT ![k] = @ + 1]
  /\ store' = [store EXCEPT ![k] = Put(@, storeNext[k] + 1, o)]

(* event.sendReply goes to the process of the current view: a caller that  *)
(* was swapped out, or crashed, never sees it.                             *)
Answer(v, meta) ==
  LET reached == Key(v) = v /\ up[v] IN
  /\ calling' = IF reached THEN [calling EXCEPT ![v] = "replied"] ELSE calling
  /\ reply' = IF reached THEN [reply EXCEPT ![v] = meta] ELSE reply
  /\ lost' = IF reached \/ meta.sid = 0 THEN lost
             ELSE [lost EXCEPT ![Key(v)] = @ \cup {meta.sid}]
  /\ UNCHANGED toView

TakeCall(v) == toBrowser' = [toBrowser EXCEPT ![v] = Tail(@)]

(* A call returns a plain value, or throws; the application may keep its   *)
(* argument.                                                               *)
CallReturnsValue(v, kept) ==
  /\ Delivered(v, "call") /\ Known(Head(toBrowser[v]))
  /\ kept \subseteq Named(Head(toBrowser[v]))
  /\ TakeCall(v)
  /\ UnwrapArgs(v, Head(toBrowser[v]))
  /\ pinned' = pinned \cup kept
  /\ Answer(v, Plain)
  /\ UNCHANGED <<heap, atomId, nextId, weakMap, stores, views, page>>

CallReturnsObject(v, o, kept) ==
  /\ Delivered(v, "call") /\ Known(Head(toBrowser[v]))
  /\ o \in Reachable(Head(toBrowser[v]))
  /\ kept \subseteq Named(Head(toBrowser[v]))
  /\ TakeCall(v)
  /\ UnwrapArgs(v, Head(toBrowser[v]))
  /\ pinned' = pinned \cup kept
  /\ Add(Key(v), o)
  /\ Answer(v, MetaFor(Key(v), o))
  /\ UNCHANGED <<views, page>>

(* Mutant: the exception is not turned into a reply.                       *)
CallReturnsNothing(v, o) ==
  /\ Delivered(v, "call") /\ Known(Head(toBrowser[v]))
  /\ o \in Reachable(Head(toBrowser[v]))
  /\ TakeCall(v)
  /\ UnwrapArgs(v, Head(toBrowser[v]))
  /\ Add(Key(v), o)
  /\ lost' = [lost EXCEPT ![Key(v)] = @ \cup {storeNext[Key(v)] + 1}]
  /\ UNCHANGED <<pinned, views, page, calling, toView, reply>>

(* valueToMeta reads the fields of the object after it has added it: when  *)
(* a getter throws inside the try, the reply is an error and nobody knows  *)
(* the storeId.                                                            *)
CallReturnsBrokenObject(v, o) ==
  /\ Delivered(v, "call") /\ Known(Head(toBrowser[v]))
  /\ o \in Reachable(Head(toBrowser[v]))
  /\ TakeCall(v)
  /\ UnwrapArgs(v, Head(toBrowser[v]))
  /\ Add(Key(v), o)
  /\ calling' = IF Key(v) = v /\ up[v] THEN [calling EXCEPT ![v] = "replied"]
                                       ELSE calling
  /\ lost' = [lost EXCEPT ![Key(v)] = @ \cup {storeNext[Key(v)] + 1}]
  /\ UNCHANGED <<pinned, views, page, toView, reply>>

(* The handler throws past its try and sends no reply: errorToMeta reads   *)
(* the message of what was thrown, null or undefined too.                  *)
Abandon(v) ==
  /\ calling' = IF Key(v) = v /\ up[v] THEN [calling EXCEPT ![v] = "abandoned"]
                                       ELSE calling
  /\ UNCHANGED <<toView, reply>>

CallThrowsNothing(v, kept) ==
  /\ Delivered(v, "call") /\ Known(Head(toBrowser[v]))
  /\ kept \subseteq Named(Head(toBrowser[v]))
  /\ TakeCall(v)
  /\ UnwrapArgs(v, Head(toBrowser[v]))
  /\ pinned' = pinned \cup kept
  /\ Abandon(v)
  /\ UNCHANGED <<heap, atomId, nextId, weakMap, stores, views, page, lost>>

(* A getter throws that while valueToMeta reads the fields, or anything    *)
(* where no try is around it, in ATOM_BROWSER_CURRENT_WEB_CONTENTS.        *)
BrokenObjectAbandons(v, o) ==
  /\ Delivered(v, "call") /\ Known(Head(toBrowser[v]))
  /\ o \in Reachable(Head(toBrowser[v]))
  /\ TakeCall(v)
  /\ UnwrapArgs(v, Head(toBrowser[v]))
  /\ Add(Key(v), o)
  /\ Abandon(v)
  /\ lost' = [lost EXCEPT ![Key(v)] = @ \cup {storeNext[Key(v)] + 1}]
  /\ UNCHANGED <<pinned, views, page>>

(* "Invalid key": the error becomes the reply.                             *)
CallOfUnknownId(v) ==
  /\ Delivered(v, "call") /\ ~Known(Head(toBrowser[v]))
  /\ TakeCall(v)
  /\ UnwrapArgs(v, Head(toBrowser[v]))
  /\ Answer(v, Plain)
  /\ UNCHANGED <<registry, stores, views, page>>

(* callFunction on an asynchronous function without a callback argument    *)
(* replies when the function calls back.  That callback is outside the     *)
(* try; only the dialogs are asynchronous, and they give plain values.     *)
CallIsDeferred(v) ==
  /\ Delivered(v, "call") /\ Known(Head(toBrowser[v]))
  /\ Head(toBrowser[v]).id # 0 /\ Head(toBrowser[v]).cb = NoCallback
  /\ TakeCall(v)
  /\ calling' = IF Key(v) = v /\ up[v] THEN [calling EXCEPT ![v] = "deferred"]
                                       ELSE calling
  /\ UNCHANGED <<registry, stores, wrappers, views, page, toView, reply, lost>>

DeferredReply(v) ==
  /\ calling[v] = "deferred"
  /\ calling' = [calling EXCEPT ![v] = IF Key(v) = v THEN "replied" ELSE "waiting"]
  /\ UNCHANGED <<registry, stores, wrappers, views, page, toBrowser, toView,
                 reply, lost>>

(* ATOM_BROWSER_DEREFERENCE: ObjectsStore.remove throws for a storeId the  *)
(* store does not hold, and then changes nothing.                          *)
HandleDereference(v) ==
  /\ Delivered(v, "dereference")
  /\ TakeCall(v)
  /\ store' = [store EXCEPT ![Key(v)] = Drop(@, Head(toBrowser[v]).meta.sid)]
  /\ UNCHANGED <<registry, storeNext, wrappers, views, page, calling, toView,
                 reply, lost>>

(* The application calls a wrapper: webContents.send posts the message to  *)
(* the current view, whichever view registered the callback.               *)
Sender(c) == Key(cbOwner[c])

Post(k, m) ==
  /\ toView' = IF up[k] THEN [toView EXCEPT ![k] = Append(@, m)] ELSE toView
  /\ lost' = IF up[k] \/ m.meta.sid = 0 THEN lost
             ELSE [lost EXCEPT ![k] = @ \cup {m.meta.sid}]

CanPost(c) == Sender(c) # NoView /\ Len(toView[Sender(c)]) < MaxQueue

(* Mutant: a wrapper can be called after its release was sent.             *)
CallWrapperReleased(c) ==
  /\ wrapper[c] \in {"live", "gone"} /\ CanPost(c)
  /\ Post(Sender(c), [kind |-> "callback", cb |-> c, meta |-> Plain])
  /\ UNCHANGED <<registry, stores, wrappers, views, page, calling, toBrowser,
                 reply>>

CallWrapper(c) ==
  /\ wrapper[c] = "live" /\ CanPost(c)
  /\ Post(Sender(c), [kind |-> "callback", cb |-> c, meta |-> Plain])
  /\ UNCHANGED <<registry, stores, wrappers, views, page, calling, toBrowser,
                 reply>>

CallWrapperWithObject(c, o) ==
  /\ wrapper[c] = "live" /\ CanPost(c)
  /\ o \in pinned \cup {x \in Objects : heap[x] = "unborn"}
  /\ Add(Sender(c), o)
  /\ Post(Sender(c), [kind |-> "callback", cb |-> c,
                      meta |-> MetaFor(Sender(c), o)])
  /\ UNCHANGED <<pinned, wrappers, views, page, calling, toBrowser, reply>>

(* The browser's garbage collector takes a wrapper; its destructor tells   *)
(* the page, unless the page's view was cleared or the contents are gone.  *)
CollectWrapper(c) ==
  /\ wrapper[c] \in {"live", "released"}
  /\ wrapper' = [wrapper EXCEPT ![c] = "gone"]
  /\ IF wrapper[c] = "live" /\ Sender(c) # NoView
       THEN /\ CanPost(c)
            /\ Post(Sender(c), [kind |-> "release", cb |-> c, meta |-> Plain])
       ELSE UNCHANGED <<toView, lost>>
  /\ UNCHANGED <<registry, stores, wrapperKey, views, page, calling, toBrowser,
                 reply>>

(* The application makes an object, or forgets one.                        *)
CreateObject(o) ==
  /\ heap[o] = "unborn"
  /\ heap' = [heap EXCEPT ![o] = "live"]
  /\ pinned' = pinned \cup {o}
  /\ UNCHANGED <<atomId, nextId, weakMap, stores, wrappers, views, page,
                 channels, lost>>

ForgetObject(o) ==
  /\ o \in pinned
  /\ pinned' = pinned \ {o}
  /\ UNCHANGED <<heap, atomId, nextId, weakMap, stores, wrappers, views, page,
                 channels, lost>>

(* Mutant: the weak map holds its objects strongly.                        *)
StoredOrMapped(o) ==
  \/ \E i \in DOMAIN weakMap : weakMap[i] = o
  \/ \E v \in Views : \E s \in DOMAIN store[v] : store[v][s] = o

Stored(o) == \E v \in Views : \E s \in DOMAIN store[v] : store[v][s] = o

(* The garbage collector takes an object nothing references, and           *)
(* IDWeakMap::WeakCallback removes its entry.                              *)
CollectObject(o) ==
  /\ heap[o] = "live" /\ o \notin pinned /\ ~Stored(o)
  /\ heap' = [heap EXCEPT ![o] = "collected"]
  /\ weakMap' = Drop(weakMap, atomId[o])
  /\ UNCHANGED <<pinned, atomId, nextId, stores, wrappers, views, page,
                 channels, lost>>

-----------------------------------------------------------------------------
(* Views come and go.                                                      *)

Navigate(v) ==
  /\ life[v] = "unborn" /\ ContentsOf[v] \notin destroyed
  /\ life' = [u \in Views |-> IF u = v THEN "current"
                              ELSE IF u = Key(v) THEN "swapped" ELSE life[u]]
  /\ current' = [current EXCEPT ![ContentsOf[v]] = v]
  /\ up' = [up EXCEPT ![v] = TRUE]
  /\ UNCHANGED <<registry, stores, wrappers, destroyed, ready, proxies, methods,
                 loose, registered, cbOwner, channels, lost>>

(* The renderer process of v and everything in it are gone.                *)
ForgetPage(v) ==
  /\ up' = [up EXCEPT ![v] = FALSE]
  /\ proxies' = [proxies EXCEPT ![v] = {}]
  /\ methods' = [methods EXCEPT ![v] = {}]
  /\ loose' = [loose EXCEPT ![v] = {}]
  /\ registered' = [registered EXCEPT ![v] = {}]
  /\ calling' = [calling EXCEPT ![v] = "idle"]
  /\ toView' = [toView EXCEPT ![v] = << >>]
  /\ reply' = [reply EXCEPT ![v] = Plain]

(* Mutant: nobody emits "clear".                                           *)
ClearStore(v) ==
  /\ store' = [store EXCEPT ![v] = EmptyMap]
  /\ storeNext' = [storeNext EXCEPT ![v] = 0]
  /\ UNCHANGED wrapper

(* Mutant: the stores of all views go.                                     *)
ClearAll(v) ==
  /\ store' = [u \in Views |-> EmptyMap]
  /\ storeNext' = [u \in Views |-> 0]
  /\ UNCHANGED wrapper

(* Mutant: the handler asks the contents which view to clear.              *)
ClearCurrent(v) ==
  /\ wrapper' = [c \in Callbacks |->
       IF wrapper[c] = "live" /\ wrapperKey[c] = Key(v) THEN "released"
                                                        ELSE wrapper[c]]
  /\ store' = [u \in Views |-> IF u = Key(v) THEN EmptyMap ELSE store[u]]
  /\ storeNext' = [u \in Views |-> IF u = Key(v) THEN 0 ELSE storeNext[u]]

(* objectsRegistry.clear(v): wrappers that listen are released, and the    *)
(* store goes; a later add would start a new store from zero.              *)
Clear(v) ==
  /\ wrapper' = [c \in Callbacks |->
       IF wrapper[c] = "live" /\ wrapperKey[c] = v THEN "released"
                                                   ELSE wrapper[c]]
  /\ store' = [store EXCEPT ![v] = EmptyMap]
  /\ storeNext' = [storeNext EXCEPT ![v] = 0]

RenderViewGone(v) ==
  /\ life' = [life EXCEPT ![v] = "deleted"]
  /\ Clear(v)
  /\ ForgetPage(v)
  /\ toBrowser' = [toBrowser EXCEPT ![v] = << >>]
  /\ lost' = [lost EXCEPT ![v] = {}]
  /\ UNCHANGED <<registry, wrapperKey, ready, cbOwner>>

RenderViewDeleted(v) ==
  /\ life[v] = "swapped"
  /\ RenderViewGone(v)
  /\ UNCHANGED <<current, destroyed>>

(* The contents are destroyed while v is current (WebContentsDestroyed     *)
(* emits render-view-deleted for it).                                      *)
WebContentsDestroyed(v) ==
  /\ life[v] = "current"
  /\ RenderViewGone(v)
  /\ current' = [current EXCEPT ![ContentsOf[v]] = NoView]
  /\ destroyed' = destroyed \cup {ContentsOf[v]}

(* A crash: what the process had already sent is still delivered.          *)
RenderProcessGone(v) ==
  /\ up[v]
  /\ ForgetPage(v)
  /\ UNCHANGED <<registry, stores, wrappers, views, ready, cbOwner, toBrowser,
                 lost>>

-----------------------------------------------------------------------------
HandleMessage(v) ==
  \/ \E kept \in SUBSET Objects : CallReturnsValue(v, kept)
  \/ \E o \in Objects, kept \in SUBSET Objects : CallReturnsObject(v, o, kept)
  \/ \E o \in Objects : CallReturnsBrokenObject(v, o) \/ BrokenObjectAbandons(v, o)
  \/ \E kept \in SUBSET Objects : CallThrowsNothing(v, kept)
  \/ CallOfUnknownId(v)
  \/ CallIsDeferred(v)
  \/ HandleDereference(v)

ReceiveMessage(v) == DropMessage(v) \/ ReceiveCallback(v) \/ ReceiveRelease(v)

PageStep(v) ==
  \/ RequireRemote(v)
  \/ \E p \in proxies[v], arg \in {q.id : q \in proxies[v]} \cup {0} :
       CallProxy(v, p, arg)
  \/ \E p \in proxies[v], c \in Callbacks : CallProxyWithCallback(v, p, c)
  \/ \E p \in proxies[v] : Detach(v, p) \/ CollectProxy(v, p)
  \/ \E p \in methods[v] : CallMethod(v, p)
  \/ \E id \in loose[v] : CallMethodAgain(v, id)
  \/ ReceiveReply(v)
  \/ ReceiveMessage(v)
  \/ DidCreateDocumentElement(v)

BrowserStep ==
  \/ \E c \in Callbacks : CallWrapper(c) \/ CollectWrapper(c)
  \/ \E c \in Callbacks, o \in Objects : CallWrapperWithObject(c, o)
  \/ \E o \in Objects : CreateObject(o) \/ ForgetObject(o) \/ CollectObject(o)

ViewStep(v) ==
  \/ Navigate(v)
  \/ RenderViewDeleted(v)
  \/ WebContentsDestroyed(v)
  \/ RenderProcessGone(v)

Next ==
  \/ \E v \in Views :
       PageStep(v) \/ HandleMessage(v) \/ DeferredReply(v) \/ ViewStep(v)
  \/ BrowserStep

Spec == Init /\ [][Next]_vars

(* Chromium delivers what a live view has sent, V8 collects what nothing   *)
(* references, and an asynchronous function (a dialog) calls back.         *)
Fairness ==
  /\ \A v \in Views : WF_vars(HandleMessage(v)) /\ WF_vars(DeferredReply(v))
  /\ \A o \in Objects : WF_vars(CollectObject(o))

FairSpec == Spec /\ Fairness

-----------------------------------------------------------------------------
(* Properties.                                                             *)

TypeOK ==
  /\ heap \in [Objects -> {"unborn", "live", "collected"}]
  /\ pinned \subseteq Objects
  /\ atomId \in [Objects -> Nat]
  /\ nextId \in Nat
  /\ DOMAIN weakMap \subseteq 1 .. nextId
  /\ weakMap \in [DOMAIN weakMap -> Objects]
  /\ storeNext \in [Views -> Nat]
  /\ DOMAIN store = Views
  /\ \A v \in Views : /\ DOMAIN store[v] \subseteq 1 .. storeNext[v]
                      /\ store[v] \in [DOMAIN store[v] -> Objects]
  /\ wrapper \in [Callbacks -> {"none", "live", "released", "gone"}]
  /\ wrapperKey \in [Callbacks -> Views \cup {NoView}]
  /\ life \in [Views -> {"unborn", "current", "swapped", "deleted"}]
  /\ current \in [Contents -> Views \cup {NoView}]
  /\ destroyed \subseteq Contents
  /\ up \in [Views -> BOOLEAN]
  /\ ready \in [Views -> BOOLEAN]
  /\ calling \in [Views -> {"idle", "waiting", "deferred", "abandoned", "replied"}]
  /\ proxies \in [Views -> SUBSET Meta]
  /\ methods \in [Views -> SUBSET Meta]
  /\ loose \in [Views -> SUBSET Nat]
  /\ registered \in [Views -> SUBSET Callbacks]
  /\ cbOwner \in [Callbacks -> Views \cup {NoView}]
  /\ toBrowser \in [Views -> Seq(ToBrowser)]
  /\ toView \in [Views -> Seq(ToView)]
  /\ reply \in [Views -> Meta]
  /\ lost \in [Views -> SUBSET Nat]

(* The store of view v keeps the object that m's id names alive.           *)
Backs(v, m) ==
  /\ m.sid \in DOMAIN store[v]
  /\ m.id \in DOMAIN weakMap
  /\ weakMap[m.id] = store[v][m.sid]

(* As long as a proxy lives, the object it stands for is not released, and *)
(* its id still names that object (docs/api/remote.md, "Lifetime of remote *)
(* objects").                                                              *)
ProxyBacked == \A v \in Views : \A p \in proxies[v] : Backs(v, p)

(* Every ATOM_BROWSER_DEREFERENCE that reaches the browser names an entry  *)
(* of the store it will be looked up in: ObjectsStore.remove never throws  *)
(* "Invalid key".                                                          *)
DereferenceFound ==
  \A v \in Views : Delivered(v, "dereference") =>
    Head(toBrowser[v]).meta.sid \in DOMAIN store[Key(v)]

(* Every id in a call that reaches the browser is still in objectsWeakMap: *)
(* objectsRegistry.get never throws "Invalid key", however many            *)
(* dereferences and collections ran while the call was in flight.  The one *)
(* exception is the id of a method that was kept without its object and    *)
(* called before (remote.coffee:69), which no proxy may stand for any      *)
(* longer; of a page that crashed since, nobody can tell which ids those   *)
(* were.                                                                   *)
CallFindsObject ==
  \A v \in Views : Delivered(v, "call") =>
    LET m == Head(toBrowser[v]) IN
    /\ m.arg \in DOMAIN weakMap \cup {0}
    /\ m.id \in DOMAIN weakMap \cup {0} \/ m.id \in loose[v] \/ ~up[v]

Carried(q) == {q[i].meta.sid : i \in DOMAIN q}

(* An entry of a running page's store is there for a reason: a proxy, meta *)
(* data or a dereference still travelling, or meta data that never reached *)
(* the page.  Dropped proxies do not leak browser objects.                 *)
NoOrphanEntry ==
  \A v \in Views : life[v] = "current" /\ up[v] =>
    \A s \in DOMAIN store[v] :
      \/ \E p \in proxies[v] : p.sid = s
      \/ s \in Carried(toBrowser[v]) \cup Carried(toView[v])
      \/ s = reply[v].sid
      \/ s \in lost[v]

(* An object that is handed out twice, or to two views, keeps one id ("be  *)
(* care not to add it twice", objects-registry.coffee): a proxy passed     *)
(* back as an argument is recognised whichever reply it came with.         *)
OneIdPerObject ==
  \A i, j \in DOMAIN weakMap : weakMap[i] = weakMap[j] => i = j

(* An id is never given to a second object, even after its object was      *)
(* collected: a stale id fails, it does not reach something else.          *)
IdNeverReused ==
  [][\A i \in 1 .. nextId : i \in DOMAIN weakMap' =>
       i \in DOMAIN weakMap /\ weakMap'[i] = weakMap[i]]_vars

(* Nothing creates a store again for a view that was released: replies and *)
(* callbacks that come late must not keep objects for it.                  *)
ReleasedViewStaysEmpty ==
  \A v \in Views : life[v] = "deleted" => DOMAIN store[v] = {}

(* A callback message reaches the page that registered the callback while  *)
(* it is registered: the release never overtakes or precedes a call.       *)
CallbackNeverLate ==
  \A v \in Views : \A i \in DOMAIN toView[v] :
    LET m == toView[v][i] IN
    m.kind = "callback" /\ cbOwner[m.cb] = v =>
      /\ m.cb \in registered[v]
      /\ \A j \in 1 .. (i - 1) : toView[v][j].kind = "release" =>
           toView[v][j].cb # m.cb

(* Once the view of a callback is released the browser posts nothing more  *)
(* for it to the page that took its place ("Calling a callback of released *)
(* renderer view").                                                        *)
NoPostForReleasedView ==
  [][\A v \in Views : Len(toView'[v]) > Len(toView[v]) =>
       life[cbOwner[toView'[v][Len(toView'[v])].cb]] # "deleted"]_vars

(* Every entry that keeps o is about to go: its dereference is on its way. *)
Unneeded(o) ==
  /\ heap[o] = "live" /\ o \notin pinned
  /\ \A v \in Views : \A s \in DOMAIN store[v] : store[v][s] = o =>
       life[v] = "current" /\ \E i \in DOMAIN toBrowser[v] :
         toBrowser[v][i].kind = "dereference" /\ toBrowser[v][i].meta.sid = s

(* When the proxies of an object have been collected, the object is not    *)
(* kept for ever: it is collected too, or somebody asks for it again.      *)
EventuallyReclaimed == \A o \in Objects : []<>~Unneeded(o)

(* A page never waits for ever in sendSync while its view is current: each *)
(* handler replies on every path, those of exceptions included, but for    *)
(* the exceptions that leave the handler itself.                           *)
EventuallyAnswered ==
  \A v \in Views :
    []<>~(calling[v] \in {"waiting", "deferred"} /\ life[v] = "current")

(* What the pages hold, seen without the machinery.                        *)
Held == [v \in Views |-> {o \in Objects : \E p \in proxies[v] : p.id = atomId[o]}]

Lifetime == INSTANCE RemoteLifetime
              WITH Pages <- Views, state <- heap, kept <- pinned, held <- Held

(* The ids, stores, messages and collectors together implement the         *)
(* lifetime that docs/api/remote.md promises.                              *)
ImplementsLifetime == Lifetime!Spec

-----------------------------------------------------------------------------
(* The inductive invariants behind the safety properties.                  *)

(* Ids name live objects and nothing else; what a store or the application *)
(* references is live.                                                     *)
RegistryInv ==
  /\ \A o \in Objects :
       /\ heap[o] = "unborn" => atomId[o] = 0
       /\ atomId[o] <= nextId
       /\ heap[o] = "live" /\ atomId[o] # 0 =>
            atomId[o] \in DOMAIN weakMap /\ weakMap[atomId[o]] = o
  /\ \A i \in DOMAIN weakMap : heap[weakMap[i]] = "live" /\ atomId[weakMap[i]] = i
  /\ \A o \in pinned : heap[o] = "live"
  /\ \A v \in Views : \A s \in DOMAIN store[v] :
       heap[store[v][s]] = "live" /\ atomId[store[v][s]] # 0

(* A callback that travels, or that has a wrapper, was registered.         *)
OwnerInv ==
  /\ \A c \in Callbacks : wrapper[c] # "none" => cbOwner[c] \in Views
  /\ \A v \in Views : \A i \in DOMAIN toBrowser[v] :
       toBrowser[v][i].cb # NoCallback => cbOwner[toBrowser[v][i].cb] \in Views

(* A current view is the one its contents' getId() names; views that are   *)
(* not born or gone have no store.                                         *)
ViewInv ==
  /\ \A v \in Views : life[v] = "current" => Key(v) = v
  /\ \A w \in Contents : current[w] # NoView =>
       life[current[w]] = "current" /\ ContentsOf[current[w]] = w
  /\ \A v \in Views : life[v] \in {"unborn", "deleted"} => DOMAIN store[v] = {}

(* The references a queue carries, each at most once.                      *)
Metas(q) == {m \in {q[i].meta : i \in DOMAIN q} : m.sid # 0}
Sids(q)  == {m.sid : m \in Metas(q)}
Once(q)  == \A i, j \in DOMAIN q :
              q[i].meta.sid = q[j].meta.sid /\ q[i].meta.sid # 0 => i = j
Tagged(q) == \A i \in DOMAIN q : q[i].kind = "dereference" => q[i].meta.sid # 0

(* P: proxies, q: messages to the page, d: messages to the browser, r: the *)
(* reply.  Each storeId is in one place only.                              *)
Distinct(P, q, d, r) ==
  /\ \A p1, p2 \in P : p1.sid = p2.sid => p1 = p2
  /\ \A p \in P : p.sid # 0 /\ p.sid # r.sid /\ p.sid \notin Sids(q) \cup Sids(d)
  /\ r.sid \notin Sids(q) \cup Sids(d)
  /\ Sids(q) \cap Sids(d) = {}
  /\ Once(q) /\ Once(d) /\ Tagged(d)

StoredAs(v, m) == m.sid \in DOMAIN store[v] /\ atomId[store[v][m.sid]] = m.id

References(v) ==
  proxies[v] \cup Metas(toView[v]) \cup Metas(toBrowser[v])
             \cup {m \in {reply[v]} : m.sid # 0}

ReferenceInv ==
  \A v \in Views :
    /\ Distinct(proxies[v], toView[v], toBrowser[v], reply[v])
    /\ \A m \in References(v) : StoredAs(v, m)
=============================================================================
