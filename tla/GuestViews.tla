----------------------------- MODULE GuestViews -----------------------------
(***************************************************************************)
(* Guests of <webview> elements.                                           *)
(*                                                                         *)
(*   atom/renderer/lib/web-view/*.coffee        the elements of a page     *)
(*   atom/browser/lib/guest-view-manager.coffee the guests of its embedder *)
(*   atom/browser/web_view_manager.cc           what content asks for      *)
(*                                                                         *)
(* The page asks the browser process for a guest and later attaches or     *)
(* destroys it, by asynchronous messages.  Elements come and go, and the   *)
(* embedder may navigate, crash or be destroyed, at any time.              *)
(***************************************************************************)
EXTENDS Naturals, Sequences, FiniteSets

CONSTANTS
  Elements,     \* the <webview> elements of a page
  MaxGuest,     \* bounds the guests made
  MaxInstance,  \* bounds the plugin instances of a page
  MaxPage       \* bounds the pages the embedder shows

ASSUME GuestAssumption ==
  MaxGuest \in Nat /\ MaxInstance \in Nat /\ MaxPage \in Nat \ {0}

VARIABLES
  page,         \* the page the embedder shows: its view, and its process
  embedder,     \* "alive", "crashed" or "destroyed"
  element,      \* the WebViewImpl of each element
  instances,    \* the plugin instances content has made for the page
  toBrowser,    \* messages of the page to the browser process
  toPage,       \* messages of the browser process to the page
  nextGuest,    \* nextInstanceId
  guests,       \* guestInstances, with the page each was created for
  elementMap,   \* embedderElementsMap: pairs of a key and a guest
  reverseMap,   \* reverseEmbedderElementsMap: pairs of a guest and a key
  contentsMap,  \* web_contents_embdder_map_: its guests
  instanceMap   \* element_instance_id_to_guest_map_: pairs of a key and a guest

manager  == <<nextGuest, guests, elementMap, reverseMap, contentsMap, instanceMap>>
renderer == <<element, instances>>
vars == <<page, embedder, renderer, toBrowser, toPage, manager>>

Guest == 1..MaxGuest
Page  == 1..MaxPage
Key   == Page \X (1..MaxInstance)
NoGuest == 0

(* A WebViewImpl after its constructor.                                    *)
NewElement == [attached |-> FALSE, src |-> FALSE, pending |-> FALSE, fresh |-> TRUE,
               guest |-> NoGuest, instance |-> 0]

ElementType == [attached: BOOLEAN, src: BOOLEAN, pending: BOOLEAN, fresh: BOOLEAN,
                guest: Guest \cup {NoGuest}, instance: 0..MaxInstance]

Init ==
  /\ page = 1 /\ embedder = "alive"
  /\ element = [w \in Elements |-> NewElement]
  /\ instances = 0
  /\ toBrowser = <<>> /\ toPage = <<>>
  /\ nextGuest = 0
  /\ guests = {}
  /\ elementMap = {} /\ reverseMap = {}
  /\ contentsMap = {} /\ instanceMap = {}

-----------------------------------------------------------------------------
(* The page.                                                               *)

Live == embedder = "alive"
Create(w)    == [type |-> "CREATE_GUEST", element |-> w]
Attach(i, g) == [type |-> "ATTACH_GUEST", instance |-> i, guest |-> g]
Destroy(g)   == [type |-> "DESTROY_GUEST", guest |-> g]
Response(w, g) == [element |-> w, guest |-> g]

(* Bounds the guests asked for.                                            *)
MayAsk == nextGuest + Cardinality({i \in 1..Len(toBrowser) :
                                     toBrowser[i].type = "CREATE_GUEST"}) < MaxGuest

(* parse of the src attribute, which asks for a guest once per attachment  *)
(* (fresh is beforeFirstNavigation).  A write to src of an element that    *)
(* has its guest makes the guest load it.                                  *)
Parse(w, e) ==
  LET asks == e.attached /\ e.src /\ e.guest = NoGuest /\ e.fresh IN
  /\ element' = [element EXCEPT ![w] =
       IF asks THEN [e EXCEPT !.fresh = FALSE, !.pending = TRUE] ELSE e]
  /\ toBrowser' = IF asks /\ ~e.pending THEN Append(toBrowser, Create(w)) ELSE toBrowser

AttachElement(w) ==
  /\ Live /\ MayAsk /\ ~element[w].attached
  /\ Parse(w, [element[w] EXCEPT !.attached = TRUE])
  /\ UNCHANGED <<page, embedder, instances, toPage, manager>>

WriteSrc(w) ==
  /\ Live /\ MayAsk
  /\ Parse(w, [element[w] EXCEPT !.src = TRUE])
  /\ UNCHANGED <<page, embedder, instances, toPage, manager>>

(* Mutant: a detached element keeps its guest.                             *)
DetachElementKeeping(w) ==
  /\ Live /\ element[w].attached
  /\ LET g == element[w].guest IN
     /\ element' = [element EXCEPT ![w] = [@ EXCEPT !.attached = FALSE, !.instance = 0]]
     /\ toBrowser' = IF g # NoGuest THEN Append(toBrowser, Destroy(g)) ELSE toBrowser
  /\ UNCHANGED <<page, embedder, instances, toPage, manager>>

(* detachedCallback, with reset: the guest is given up, a guest that is    *)
(* still to come is not.                                                   *)
DetachElement(w) ==
  /\ Live /\ element[w].attached
  /\ LET g == element[w].guest IN
     /\ element' = [element EXCEPT ![w] =
          [@ EXCEPT !.attached = FALSE, !.guest = NoGuest, !.instance = 0,
                    !.fresh = element[w].fresh \/ g # NoGuest]]
     /\ toBrowser' = IF g # NoGuest THEN Append(toBrowser, Destroy(g)) ELSE toBrowser
  /\ UNCHANGED <<page, embedder, instances, toPage, manager>>

(* content makes the plugin of an element that is in the document and sets *)
(* its attribute `internalinstanceid`.                                     *)
PluginInstance(w) ==
  /\ Live /\ element[w].attached /\ element[w].instance = 0 /\ instances < MaxInstance
  /\ instances' = instances + 1
  /\ element' = [element EXCEPT ![w].instance = instances + 1]
  /\ toBrowser' = IF element[w].guest = NoGuest THEN toBrowser
                  ELSE Append(toBrowser, Attach(instances + 1, element[w].guest))
  /\ UNCHANGED <<page, embedder, toPage, manager>>

(* Mutant: a guest that comes too late is left alone.                      *)
GuestCreatedAnyway(w) ==
  /\ Live /\ toPage # <<>> /\ Head(toPage).element = w
  /\ toPage' = Tail(toPage)
  /\ LET g == Head(toPage).guest IN
     IF element[w].attached
     THEN /\ element' = [element EXCEPT ![w] = [@ EXCEPT !.pending = FALSE, !.guest = g]]
          /\ toBrowser' = IF element[w].instance = 0 THEN toBrowser
                          ELSE Append(toBrowser, Attach(element[w].instance, g))
     ELSE /\ element' = [element EXCEPT ![w].pending = FALSE]
          /\ toBrowser' = toBrowser
  /\ UNCHANGED <<page, embedder, instances, manager>>

(* The callback of createGuest, with attachWindow.                         *)
GuestCreated(w) ==
  /\ Live /\ toPage # <<>> /\ Head(toPage).element = w
  /\ toPage' = Tail(toPage)
  /\ LET g == Head(toPage).guest IN
     IF element[w].attached
     THEN /\ element' = [element EXCEPT ![w] = [@ EXCEPT !.pending = FALSE, !.guest = g]]
          /\ toBrowser' = IF element[w].instance = 0 THEN toBrowser
                          ELSE Append(toBrowser, Attach(element[w].instance, g))
     ELSE /\ element' = [element EXCEPT ![w].pending = FALSE]
          /\ toBrowser' = Append(toBrowser, Destroy(g))
  /\ UNCHANGED <<page, embedder, instances, manager>>

-----------------------------------------------------------------------------
(* The browser process.                                                    *)

KeyOf(i) == <<page, i>>
Without(map, gs) == {pair \in map : pair[2] \notin gs}
KeysOf(gs) == {pair[2] : pair \in {q \in reverseMap : q[1] \in gs}}

(* Mutant: one of the two maps of the manager is not cleaned.              *)
DestroyGuestsByKey(gs) ==
  /\ contentsMap' = contentsMap \ gs
  /\ instanceMap' = Without(instanceMap, gs)
  /\ guests' = {g \in guests : g[1] \notin gs}
  /\ reverseMap' = {pair \in reverseMap : pair[1] \notin gs}
  /\ elementMap' = elementMap

(* destroyGuest of each of gs, with RemoveGuest.  (RemoveGuest takes away  *)
(* the first element of a guest: by MapsInverse it has no other.)          *)
DestroyGuests(gs) ==
  /\ contentsMap' = contentsMap \ gs
  /\ instanceMap' = Without(instanceMap, gs)
  /\ guests' = {g \in guests : g[1] \notin gs}
  /\ reverseMap' = {pair \in reverseMap : pair[1] \notin gs}
  /\ elementMap' = {pair \in elementMap : pair[1] \notin KeysOf(gs)}

CreateGuest ==
  /\ Live /\ toBrowser # <<>> /\ Head(toBrowser).type = "CREATE_GUEST"
  /\ toBrowser' = Tail(toBrowser)
  /\ nextGuest' = nextGuest + 1
  /\ guests' = guests \cup {<<nextGuest + 1, page>>}
  /\ toPage' = Append(toPage, Response(Head(toBrowser).element, nextGuest + 1))
  /\ UNCHANGED <<page, embedder, renderer, elementMap, reverseMap, contentsMap, instanceMap>>

Exists(g) == \E p \in Page : <<g, p>> \in guests

(* attachGuest, with AddGuest.  The guest that was attached to the element *)
(* is destroyed; an exception where there is no such guest.                *)
AttachGuest ==
  /\ Live /\ toBrowser # <<>> /\ Head(toBrowser).type = "ATTACH_GUEST"
  /\ toBrowser' = Tail(toBrowser)
  /\ LET g == Head(toBrowser).guest
         key == KeyOf(Head(toBrowser).instance)
         old == {h \in Guest : <<key, h>> \in elementMap} IN
     IF ~Exists(g) \/ g \in old \/ \E h \in old : ~Exists(h)
     THEN UNCHANGED manager
     ELSE /\ guests' = {h \in guests : h[1] \notin old}
          /\ contentsMap' = (contentsMap \ old) \cup {g}
          /\ instanceMap' = Without(instanceMap, old) \cup {<<key, g>>}
          /\ elementMap' = {pair \in elementMap : pair[1] # key} \cup {<<key, g>>}
          /\ reverseMap' = {pair \in reverseMap : pair[1] \notin old \cup {g}} \cup {<<g, key>>}
          /\ UNCHANGED nextGuest
  /\ UNCHANGED <<page, embedder, renderer, toPage>>

(* destroyGuest for a message.  Where there is no such guest, RemoveGuest  *)
(* finds nothing, then there is an exception.                              *)
DestroyGuest ==
  /\ Live /\ toBrowser # <<>> /\ Head(toBrowser).type = "DESTROY_GUEST"
  /\ toBrowser' = Tail(toBrowser)
  /\ LET g == Head(toBrowser).guest IN
     IF Exists(g) THEN DestroyGuests({g}) /\ UNCHANGED nextGuest ELSE UNCHANGED manager
  /\ UNCHANGED <<page, embedder, renderer, toPage>>

(* The page is gone with its elements and what it has sent.                *)
PageGone ==
  /\ element' = [w \in Elements |-> NewElement]
  /\ instances' = 0
  /\ toBrowser' = <<>> /\ toPage' = <<>>

(* Mutant: the guests of a page that is left stay.                         *)
LeavePageOnly == UNCHANGED <<guests, elementMap, reverseMap, contentsMap, instanceMap>>

(* The listeners createGuest put on its embedder.                          *)
LeavePage == DestroyGuests({g[1] : g \in guests})

(* did-navigate-to-different-page, also of the page after a crash.         *)
Navigate ==
  /\ embedder # "destroyed" /\ page < MaxPage
  /\ page' = page + 1 /\ embedder' = "alive"
  /\ PageGone
  /\ LeavePage
  /\ UNCHANGED nextGuest

Crash ==
  /\ Live
  /\ embedder' = "crashed"
  /\ PageGone
  /\ LeavePage
  /\ UNCHANGED <<page, nextGuest>>

EmbedderDestroyed ==
  /\ embedder # "destroyed"
  /\ embedder' = "destroyed"
  /\ PageGone
  /\ LeavePage
  /\ UNCHANGED <<page, nextGuest>>

-----------------------------------------------------------------------------
HandleMessage == CreateGuest \/ AttachGuest \/ DestroyGuest

Next ==
  \/ \E w \in Elements : AttachElement(w)
  \/ \E w \in Elements : WriteSrc(w)
  \/ \E w \in Elements : DetachElement(w)
  \/ \E w \in Elements : PluginInstance(w)
  \/ \E w \in Elements : GuestCreated(w)
  \/ HandleMessage
  \/ Navigate \/ Crash \/ EmbedderDestroyed

(* Messages are delivered in both directions.                              *)
Fairness ==
  /\ WF_vars(HandleMessage)
  /\ WF_vars(\E w \in Elements : GuestCreated(w))

Spec == Init /\ [][Next]_vars
FairSpec == Spec /\ Fairness

-----------------------------------------------------------------------------
Message == {Create(w) : w \in Elements}
             \cup {Attach(i, g) : i \in 1..MaxInstance, g \in Guest}
             \cup {Destroy(g) : g \in Guest}

TypeOK ==
  /\ page \in Page /\ embedder \in {"alive", "crashed", "destroyed"}
  /\ element \in [Elements -> ElementType]
  /\ instances \in 0..MaxInstance
  /\ toBrowser \in Seq(Message)
  /\ toPage \in Seq([element: Elements, guest: Guest])
  /\ nextGuest \in 0..MaxGuest
  /\ guests \subseteq Guest \X Page
  /\ elementMap \subseteq Key \X Guest
  /\ reverseMap \subseteq Guest \X Key
  /\ contentsMap \subseteq Guest
  /\ instanceMap \subseteq Key \X Guest

(* The manager's two maps are inverse to each other, one guest to one      *)
(* element, only for guests that exist, and content's view of them in C++  *)
(* is the same: an element never shows the guest of another one, nor one   *)
(* that was destroyed.                                                     *)
MapsInverse ==
  /\ reverseMap = {<<pair[2], pair[1]>> : pair \in elementMap}
  /\ instanceMap = elementMap
  /\ contentsMap = {pair[2] : pair \in elementMap}
  /\ \A p, q \in elementMap : (p[1] = q[1] \/ p[2] = q[2]) => p = q
  /\ \A pair \in elementMap : Exists(pair[2])

(* Guests never outlive the page they were made for: after its embedder    *)
(* navigated, crashed or was destroyed none of them is left.               *)
GuestsOfPage == \A g \in guests : g[2] = page /\ Live

(* A page never asks to attach or to destroy a guest that is gone, which   *)
(* would be an exception in the browser process, although elements are     *)
(* detached while their guest is made and while requests are on the way.   *)
RequestsFindGuest ==
  \A i \in 1..Len(toBrowser) :
    toBrowser[i].type # "CREATE_GUEST" => Exists(toBrowser[i].guest)

(* No guest is left over: one whose element went away while it was made,   *)
(* or was given up, is destroyed.                                          *)
GuestsOwned ==
  \A g \in Guest :
    Exists(g) ~> (~Exists(g) \/ \E w \in Elements : element[w].guest = g)
=============================================================================
