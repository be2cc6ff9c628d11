----------------------------- MODULE LaneQueue -----------------------------
(***************************************************************************)
(* What the send lane pool promises, without indices, flags or a reverse   *)
(* map: the idle lanes form one first-in-first-out queue, a lane taken     *)
(* from it has one holder, and only a lane of the pool that its holder     *)
(* gives back returns to the queue.                                        *)
(***************************************************************************)
EXTENDS Sequences

CONSTANTS
  Lane,       (* every lane there can be *)
  Thread      (* the worker threads      *)

VARIABLES
  members,    (* lanes in the pool                        *)
  idle,       (* the idle ones, longest idle first        *)
  held,       (* held[t]: lanes thread t has taken        *)
  dropped     (* lanes whose holder let go of them unreturned *)

vars == <<members, idle, held, dropped>>

Init ==
  /\ members = {} /\ idle = <<>> /\ dropped = {}
  /\ held = [t \in Thread |-> {}]

Without(lane, queue) == SelectSeq(queue, LAMBDA l : l # lane)

Add(l) ==
  /\ members' = members \cup {l}
  /\ idle' = Append(idle, l)
  /\ UNCHANGED <<held, dropped>>

Take(t) ==
  /\ idle # <<>>
  /\ held' = [held EXCEPT ![t] = @ \cup {Head(idle)}]
  /\ idle' = Tail(idle)
  /\ UNCHANGED <<members, dropped>>

GiveBack(t, l) ==
  /\ l \in held[t]
  /\ held' = [held EXCEPT ![t] = @ \ {l}]
  /\ idle' = IF l \in members THEN Append(idle, l) ELSE idle
  /\ UNCHANGED <<members, dropped>>

LetGo(t, l) ==
  /\ l \in held[t]
  /\ held' = [held EXCEPT ![t] = @ \ {l}]
  /\ dropped' = dropped \cup {l}
  /\ UNCHANGED <<members, idle>>

Remove(l) ==
  /\ l \in members
  /\ members' = members \ {l}
  /\ idle' = Without(l, idle)
  /\ UNCHANGED <<held, dropped>>

Clear ==
  /\ members' = {} /\ idle' = <<>>
  /\ UNCHANGED <<held, dropped>>

Next ==
  \/ \E l \in Lane : Add(l) \/ Remove(l)
  \/ \E t \in Thread : Take(t)
  \/ \E t \in Thread, l \in Lane : GiveBack(t, l) \/ LetGo(t, l)
  \/ Clear

Spec == Init /\ [][Next]_vars
=============================================================================
