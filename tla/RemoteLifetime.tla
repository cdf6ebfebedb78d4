--------------------------- MODULE RemoteLifetime ---------------------------
(***************************************************************************)
(* What docs/api/remote.md promises about the lifetime of remote objects,  *)
(* without ids, stores, messages or views: a page holds remote objects,    *)
(* and an object some page holds is never released.                        *)
(***************************************************************************)
CONSTANTS Pages, Objects

VARIABLES
  state,   \* "unborn", "live" or "collected"
  kept,    \* the objects the main process itself references
  held     \* the remote objects of each page

vars == <<state, kept, held>>

Live == {o \in Objects : state[o] = "live"}

Init ==
  /\ state = [o \in Objects |-> "unborn"]
  /\ kept = {}
  /\ held = [p \in Pages |-> {}]

(* Code of the main process runs: it makes objects and keeps some.         *)
Run(made, keeps) ==
  /\ \A o \in made : state[o] = "unborn"
  /\ keeps \subseteq Live \cup made
  /\ state' = [o \in Objects |-> IF o \in made THEN "live" ELSE state[o]]
  /\ kept' = kept \cup keeps
  /\ UNCHANGED held

Forget(o) ==
  /\ kept' = kept \ {o}
  /\ UNCHANGED <<state, held>>

(* A page comes to hold a remote object, lets it go, or vanishes.          *)
Grant(p, o) ==
  /\ state[o] = "live"
  /\ held' = [held EXCEPT ![p] = @ \cup {o}]
  /\ UNCHANGED <<state, kept>>

LetGo(p, o) ==
  /\ held' = [held EXCEPT ![p] = @ \ {o}]
  /\ UNCHANGED <<state, kept>>

Vanish(p) ==
  /\ held' = [held EXCEPT ![p] = {}]
  /\ UNCHANGED <<state, kept>>

Reclaim(o) ==
  /\ state[o] = "live" /\ o \notin kept
  /\ \A p \in Pages : o \notin held[p]
  /\ state' = [state EXCEPT ![o] = "collected"]
  /\ UNCHANGED <<kept, held>>

Next ==
  \/ \E made, keeps \in SUBSET Objects : Run(made, keeps)
  \/ \E o \in Objects : Forget(o) \/ Reclaim(o)
  \/ \E p \in Pages, o \in Objects : Grant(p, o) \/ LetGo(p, o)
  \/ \E p \in Pages : Vanish(p)

Spec == Init /\ [][Next]_vars
=============================================================================
