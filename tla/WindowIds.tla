----------------------------- MODULE WindowIds -----------------------------
(***************************************************************************)
(* The two weak maps of the browser process: BrowserWindow.windows, which  *)
(* finds the open windows, and ObjectsRegistry.objectsWeakMap, which finds *)
(* the objects that pages hold.  Each stores the id it gave to an object   *)
(* in a hidden value of the object, and both use the same name for it.     *)
(*                                                                         *)
(*   atom/common/api/atom_api_id_weak_map.cc                               *)
(*   atom/browser/api/lib/browser-window.coffee                            *)
(*   atom/browser/lib/objects-registry.coffee                              *)
(***************************************************************************)
EXTENDS Naturals

CONSTANTS
  Windows,
  Others,      \* objects of the browser process that are not windows
  Forgetting   \* does the application drop windows that are still open?

Objects == Windows \cup Others

ASSUME DisjointAssumption == Windows \cap Others = {}
ASSUME ForgettingAssumption == Forgetting \in BOOLEAN

VARIABLES
  state,      \* [Objects -> {"none", "open", "closed", "collected"}]
  held,       \* the objects that the application references
  shown,      \* the objects that a page references through its store
  windows,    \* IDWeakMap::map_ of BrowserWindow.windows
  objects,    \* IDWeakMap::map_ of objectsWeakMap
  nextId,     \* IDWeakMap::next_id_ of the two maps
  windowId,   \* the property `id' of a window, 0 while it has none
  atomId,     \* the hidden value `atomId', 0 while there is none
  key         \* the hidden value `IDWeakMapKey'

maps == <<windows, objects, nextId>>
ids  == <<windowId, atomId, key>>
vars == <<state, held, shown, maps, ids>>

Put(f, k, x) == [i \in DOMAIN f \cup {k} |-> IF i = k THEN x ELSE f[i]]
Remove(f, k) == [i \in DOMAIN f \ {k} |-> f[i]]

Init ==
  /\ state = [o \in Objects |-> "none"]
  /\ held = {} /\ shown = {}
  /\ windows = [i \in {} |-> i]
  /\ objects = [i \in {} |-> i]
  /\ nextId = [windows |-> 0, objects |-> 0]
  /\ windowId = [o \in Objects |-> 0]
  /\ atomId = [o \in Objects |-> 0]
  /\ key = [o \in Objects |-> 0]

(* new BrowserWindow: _init adds the window to the map.                    *)
CreateWindow(w) ==
  LET id == nextId.windows + 1 IN
  /\ state[w] = "none"
  /\ state' = [state EXCEPT ![w] = "open"]
  /\ held' = held \cup {w}
  /\ nextId' = [nextId EXCEPT !.windows = id]
  /\ windows' = Put(windows, id, w)
  /\ windowId' = [windowId EXCEPT ![w] = id]
  /\ key' = [key EXCEPT ![w] = id]
  /\ UNCHANGED <<shown, objects, atomId>>

CreateOther(o) ==
  /\ state[o] = "none"
  /\ state' = [state EXCEPT ![o] = "open"]
  /\ held' = held \cup {o}
  /\ UNCHANGED <<shown, maps, ids>>

(* Mutant: an object keeps the hidden value that it has.                   *)
ShowObjectKeepingKey(o) ==
  LET id == nextId.objects + 1 IN
  /\ o \in held /\ o \notin shown
  /\ shown' = shown \cup {o}
  /\ IF atomId[o] = 0
       THEN /\ nextId' = [nextId EXCEPT !.objects = id]
            /\ objects' = Put(objects, id, o)
            /\ atomId' = [atomId EXCEPT ![o] = id]
            /\ key' = [key EXCEPT ![o] = IF @ = 0 THEN id ELSE @]
       ELSE UNCHANGED <<nextId, objects, atomId, key>>
  /\ UNCHANGED <<state, held, windows, windowId>>

(* ObjectsRegistry::add for an object that the application hands to a page *)
(* (remote.getCurrentWindow, or what a call returns).                      *)
ShowObject(o) ==
  LET id == nextId.objects + 1 IN
  /\ o \in held /\ o \notin shown
  /\ shown' = shown \cup {o}
  /\ IF atomId[o] = 0
       THEN /\ nextId' = [nextId EXCEPT !.objects = id]
            /\ objects' = Put(objects, id, o)
            /\ atomId' = [atomId EXCEPT ![o] = id]
            /\ key' = [key EXCEPT ![o] = id]
       ELSE UNCHANGED <<nextId, objects, atomId, key>>
  /\ UNCHANGED <<state, held, windows, windowId>>

(* ObjectsRegistry::remove or clear.                                       *)
UnshowObject(o) ==
  /\ o \in shown
  /\ shown' = shown \ {o}
  /\ UNCHANGED <<state, held, maps, ids>>

(* Mutant: the window is removed under the key of its hidden value.        *)
CloseWindowByKey(w) ==
  /\ state[w] = "open"
  /\ state' = [state EXCEPT ![w] = "closed"]
  /\ windows' = Remove(windows, key[w])
  /\ UNCHANGED <<held, shown, objects, nextId, ids>>

(* "closed": the window leaves the map at once, and its weak handle goes.  *)
CloseWindow(w) ==
  /\ state[w] = "open"
  /\ state' = [state EXCEPT ![w] = "closed"]
  /\ windows' = Remove(windows, windowId[w])
  /\ UNCHANGED <<held, shown, objects, nextId, ids>>

ForgetObject(o) ==
  /\ o \in held /\ (o \in Others \/ state[o] = "closed" \/ Forgetting)
  /\ held' = held \ {o}
  /\ UNCHANGED <<state, shown, maps, ids>>

(* The garbage collector takes the object, and WeakCallback runs for each  *)
(* of its weak handles: it removes what the hidden value names.            *)
CollectObject(o) ==
  /\ state[o] \in {"open", "closed"} /\ o \notin held \cup shown
  /\ state' = [state EXCEPT ![o] = "collected"]
  /\ windows' = IF \E i \in DOMAIN windows : windows[i] = o
                  THEN Remove(windows, key[o]) ELSE windows
  /\ objects' = IF \E i \in DOMAIN objects : objects[i] = o
                  THEN Remove(objects, key[o]) ELSE objects
  /\ UNCHANGED <<held, shown, nextId, ids>>

Next ==
  \/ \E w \in Windows : CreateWindow(w) \/ CloseWindow(w)
  \/ \E o \in Others : CreateOther(o)
  \/ \E o \in Objects :
       ShowObject(o) \/ UnshowObject(o) \/ ForgetObject(o) \/ CollectObject(o)

Spec == Init /\ [][Next]_vars

-----------------------------------------------------------------------------
IsMap(f, S, n) == DOMAIN f \subseteq 1 .. n /\ f \in [DOMAIN f -> S]

TypeOK ==
  /\ state \in [Objects -> {"none", "open", "closed", "collected"}]
  /\ held \subseteq Objects /\ shown \subseteq Objects
  /\ nextId \in [windows : Nat, objects : Nat]
  /\ IsMap(windows, Windows, nextId.windows)
  /\ IsMap(objects, Objects, nextId.objects)
  /\ windowId \in [Objects -> Nat]
  /\ atomId \in [Objects -> Nat]
  /\ key \in [Objects -> Nat]

(* BrowserWindow.getAllWindows finds the open windows and nothing else,    *)
(* and fromId finds each under its id (docs/api/browser-window.md).        *)
AllWindowsFound ==
  /\ \A w \in Windows : state[w] = "open" =>
       windowId[w] \in DOMAIN windows /\ windows[windowId[w]] = w
  /\ \A i \in DOMAIN windows : state[windows[i]] = "open" /\ windowId[windows[i]] = i

(* What a page holds is found under its atomId, and no entry outlives its  *)
(* object, although the hidden value is shared with the other map.         *)
ObjectsFound ==
  /\ \A o \in shown : atomId[o] \in DOMAIN objects /\ objects[atomId[o]] = o
  /\ \A i \in DOMAIN objects : state[objects[i]] # "collected"
=============================================================================
