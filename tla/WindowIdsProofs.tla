-------------------------- MODULE WindowIdsProofs --------------------------
(***************************************************************************)
(* The two weak maps stay correct although they share a hidden value, for  *)
(* any number of windows and objects, provided that the application keeps  *)
(* its open windows.                                                       *)
(***************************************************************************)
EXTENDS WindowIds, TLAPS

(* The types hold initially ...                                            *)
LEMMA TypeInit == Init => TypeOK
  BY DEF Init, TypeOK, IsMap

(* An entry under the next id keeps the type of a map.                     *)
LEMMA PutIsMap ==
  ASSUME NEW f, NEW S, NEW n \in Nat, NEW x \in S, IsMap(f, S, n)
  PROVE  IsMap(Put(f, n + 1, x), S, n + 1)
  BY DEF IsMap, Put

(* So does the removal of one.                                             *)
LEMMA RemoveIsMap ==
  ASSUME NEW f, NEW S, NEW n \in Nat, NEW k, IsMap(f, S, n)
  PROVE  IsMap(Remove(f, k), S, n)
  BY DEF IsMap, Remove

(* ... and every step keeps the types.                                     *)
LEMMA TypeNext == TypeOK /\ [Next]_vars => TypeOK'
<1> SUFFICES ASSUME TypeOK, [Next]_vars PROVE TypeOK'
  OBVIOUS
<1> USE DEF TypeOK
<1>1. ASSUME NEW w \in Windows, CreateWindow(w) PROVE TypeOK'
  <2>1. IsMap(windows, Windows, nextId.windows)' /\ IsMap(objects, Objects, nextId.objects)'
    BY <1>1, PutIsMap DEF CreateWindow
  <2> QED
    BY <1>1, <2>1 DEF CreateWindow, Objects
<1>2. ASSUME NEW w \in Windows, CloseWindow(w) PROVE TypeOK'
  <2>1. IsMap(windows, Windows, nextId.windows)' /\ IsMap(objects, Objects, nextId.objects)'
    BY <1>2, RemoveIsMap DEF CloseWindow
  <2> QED
    BY <1>2, <2>1 DEF CloseWindow, Objects, ids
<1>3. ASSUME NEW o \in Others, CreateOther(o) PROVE TypeOK'
  BY <1>3 DEF CreateOther, Objects, maps, ids
<1>4. ASSUME NEW o \in Objects, ShowObject(o) PROVE TypeOK'
  <2>1. IsMap(windows, Windows, nextId.windows)' /\ IsMap(objects, Objects, nextId.objects)'
    BY <1>4, PutIsMap DEF ShowObject
  <2> QED
    BY <1>4, <2>1 DEF ShowObject
<1>5. ASSUME NEW o \in Objects, UnshowObject(o) PROVE TypeOK'
  BY <1>5 DEF UnshowObject, maps, ids
<1>6. ASSUME NEW o \in Objects, ForgetObject(o) PROVE TypeOK'
  BY <1>6 DEF ForgetObject, maps, ids
<1>7. ASSUME NEW o \in Objects, CollectObject(o) PROVE TypeOK'
  <2>1. IsMap(windows, Windows, nextId.windows)' /\ IsMap(objects, Objects, nextId.objects)'
    BY <1>7, RemoveIsMap DEF CollectObject
  <2> QED
    BY <1>7, <2>1 DEF CollectObject, ids
<1>8. CASE UNCHANGED vars
  BY <1>8 DEF vars, maps, ids
<1> QED
  BY <1>1, <1>2, <1>3, <1>4, <1>5, <1>6, <1>7, <1>8 DEF Next

(* The variables keep their types (IDWeakMap and its two users).           *)
THEOREM TypeCorrect == Spec => []TypeOK
<1> QED
  BY TypeInit, TypeNext, PTL DEF Spec

-----------------------------------------------------------------------------
(* The hidden value of an object that a page has seen belongs to           *)
(* objectsWeakMap: nothing writes it later.                                *)
KeysInv ==
  \A i \in DOMAIN objects :
    /\ state[objects[i]] \in {"open", "closed"}
    /\ atomId[objects[i]] = i
    /\ key[objects[i]] = i

(* An object that has an id is found under it until it is collected.       *)
AtomsInv ==
  \A o \in Objects :
    /\ state[o] = "none" => atomId[o] = 0
    /\ atomId[o] # 0 /\ state[o] \in {"open", "closed"} =>
         atomId[o] \in DOMAIN objects /\ objects[atomId[o]] = o

(* What somebody references is alive, and open windows are referenced.     *)
HeldInv ==
  /\ \A o \in held \cup shown : state[o] \in {"open", "closed"}
  /\ \A o \in shown : atomId[o] # 0
  /\ \A w \in Windows : state[w] = "open" => w \in held

MapsInv == AllWindowsFound /\ KeysInv /\ AtomsInv /\ HeldInv

(* MapsInv holds initially ...                                             *)
LEMMA MapsInit == Init => MapsInv
  BY DEF Init, Objects, MapsInv, AllWindowsFound, KeysInv, AtomsInv, HeldInv

(* ... and every step keeps it.                                            *)
LEMMA MapsNext ==
  ASSUME ~Forgetting, TypeOK, MapsInv, [Next]_vars
  PROVE  MapsInv'
<1> USE DEF MapsInv, TypeOK, IsMap
<1>1. ASSUME NEW w \in Windows, CreateWindow(w) PROVE MapsInv'
  <2> DEFINE id == nextId.windows + 1
  <2>1. id \notin DOMAIN windows /\ id \in Nat
    OBVIOUS
  <2>2. \A i \in DOMAIN objects : objects[i] # w
    BY <1>1 DEF CreateWindow, KeysInv
  <2>3. \A i \in DOMAIN windows : windows[i] # w
    BY <1>1 DEF CreateWindow, AllWindowsFound
  <2>4. AllWindowsFound'
    BY <1>1, <2>1, <2>3 DEF CreateWindow, AllWindowsFound, Put, Objects
  <2>5. KeysInv'
    BY <1>1, <2>2 DEF CreateWindow, KeysInv
  <2>6. AtomsInv'
    BY <1>1 DEF CreateWindow, AtomsInv, Objects
  <2>7. HeldInv'
    BY <1>1 DEF CreateWindow, HeldInv, Objects
  <2> QED
    BY <2>4, <2>5, <2>6, <2>7
<1>2. ASSUME NEW w \in Windows, CloseWindow(w) PROVE MapsInv'
  <2>1. AllWindowsFound'
    BY <1>2 DEF CloseWindow, AllWindowsFound, Remove, Objects, ids
  <2>2. KeysInv' /\ AtomsInv' /\ HeldInv'
    BY <1>2 DEF CloseWindow, KeysInv, AtomsInv, HeldInv, Objects, ids
  <2> QED
    BY <2>1, <2>2
<1>3. ASSUME NEW o \in Others, CreateOther(o) PROVE MapsInv'
  <2>1. \A w \in Windows : w # o
    BY DisjointAssumption
  <2> QED
    BY <1>3, <2>1
    DEF CreateOther, AllWindowsFound, KeysInv, AtomsInv, HeldInv, Objects, maps, ids
<1>4. ASSUME NEW o \in Objects, ShowObject(o) PROVE MapsInv'
  <2> DEFINE id == nextId.objects + 1
  <2>1. id \notin DOMAIN objects /\ id # 0
    OBVIOUS
  <2>2. state[o] \in {"open", "closed"}
    BY <1>4 DEF ShowObject, HeldInv
  <2>3. CASE atomId[o] = 0
    <3>1. \A i \in DOMAIN objects : objects[i] # o
      BY <2>1, <2>3 DEF KeysInv
    <3>2. AllWindowsFound'
      BY <1>4 DEF ShowObject, AllWindowsFound
    <3>3. KeysInv'
      BY <1>4, <2>1, <2>2, <2>3, <3>1 DEF ShowObject, KeysInv, Put
    <3>4. AtomsInv'
      BY <1>4, <2>1, <2>2, <2>3 DEF ShowObject, AtomsInv, Put
    <3>5. HeldInv'
      BY <1>4, <2>1, <2>2, <2>3 DEF ShowObject, HeldInv
    <3> QED
      BY <3>2, <3>3, <3>4, <3>5
  <2>4. CASE atomId[o] # 0
    BY <1>4, <2>2, <2>4 DEF ShowObject, AllWindowsFound, KeysInv, AtomsInv, HeldInv
  <2> QED
    BY <2>3, <2>4
<1>5. ASSUME NEW o \in Objects, UnshowObject(o) PROVE MapsInv'
  BY <1>5 DEF UnshowObject, AllWindowsFound, KeysInv, AtomsInv, HeldInv, maps, ids
<1>6. ASSUME NEW o \in Objects, ForgetObject(o) PROVE MapsInv'
  <2>1. o \in Others \/ state[o] = "closed"
    BY <1>6 DEF ForgetObject
  <2>2. \A w \in Windows : state[w] = "open" => w # o
    BY <2>1, DisjointAssumption
  <2> QED
    BY <1>6, <2>2
    DEF ForgetObject, AllWindowsFound, KeysInv, AtomsInv, HeldInv, maps, ids
<1>7. ASSUME NEW o \in Objects, CollectObject(o) PROVE MapsInv'
  <2>1. o \in Windows => state[o] # "open"
    BY <1>7 DEF CollectObject, HeldInv
  <2>2. \A i \in DOMAIN windows : windows[i] # o
    BY <2>1 DEF AllWindowsFound
  <2>3. windows' = windows
    BY <1>7, <2>2 DEF CollectObject
  <2>4. AllWindowsFound'
    BY <1>7, <2>1, <2>2, <2>3 DEF CollectObject, AllWindowsFound, Objects, ids
  <2>5. \A i \in DOMAIN objects' : i \in DOMAIN objects /\ objects'[i] = objects[i] /\ objects[i] # o
    BY <1>7 DEF CollectObject, KeysInv, Remove
  <2>6. \A i \in DOMAIN objects : objects[i] # o => i \in DOMAIN objects' /\ objects'[i] = objects[i]
    BY <1>7 DEF CollectObject, KeysInv, Remove
  <2>7. KeysInv'
    BY <1>7, <2>5 DEF CollectObject, KeysInv, ids
  <2>8. AtomsInv'
    BY <1>7, <2>6 DEF CollectObject, AtomsInv, ids
  <2>9. HeldInv'
    BY <1>7, <2>1 DEF CollectObject, HeldInv, Objects, ids
  <2> QED
    BY <2>4, <2>7, <2>8, <2>9
<1>8. CASE UNCHANGED vars
  BY <1>8 DEF vars, AllWindowsFound, KeysInv, AtomsInv, HeldInv, maps, ids
<1> QED
  BY <1>1, <1>2, <1>3, <1>4, <1>5, <1>6, <1>7, <1>8 DEF Next

(* In an application that keeps its open windows, the inductive invariant. *)
THEOREM MapsCorrect == ~Forgetting => (Spec => []MapsInv)
<1> SUFFICES ASSUME ~Forgetting PROVE Spec => []MapsInv
  OBVIOUS
<1> QED
  BY MapsInit, MapsNext, TypeCorrect, PTL DEF Spec

(* getAllWindows and fromId find exactly the open windows.                 *)
THEOREM WindowsFound == ~Forgetting => (Spec => []AllWindowsFound)
<1> SUFFICES ASSUME ~Forgetting PROVE Spec => []AllWindowsFound
  OBVIOUS
<1>1. MapsInv => AllWindowsFound
  BY DEF MapsInv
<1> QED
  BY <1>1, MapsCorrect, PTL

(* A page's objects are found under their ids, and no entry is dangling.   *)
THEOREM ShownObjectsFound == ~Forgetting => (Spec => []ObjectsFound)
<1> SUFFICES ASSUME ~Forgetting PROVE Spec => []ObjectsFound
  OBVIOUS
<1>1. TypeOK /\ MapsInv => ObjectsFound
  BY DEF TypeOK, MapsInv, KeysInv, AtomsInv, HeldInv, ObjectsFound
<1> QED
  BY <1>1, MapsCorrect, TypeCorrect, PTL
=============================================================================
