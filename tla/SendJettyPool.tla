--------------------------- MODULE SendJettyPool ---------------------------
(***************************************************************************)
(* The pool of send lanes (src/urma/urma_send_lane.h) that the worker      *)
(* threads share.  Every operation holds mutex_ from beginning to end, so  *)
(* each is one step.  Indices count from 1 here and from 0 in the code.    *)
(*                                                                         *)
(* A worker that takes a lane gives it back (ReleaseSendLane) or lets go   *)
(* of its pointer without doing so, to keep a lane with work requests of   *)
(* unknown fate out of circulation.                                        *)
(***************************************************************************)
EXTENDS Integers, Sequences, FiniteSets, FiniteSetsExt

CONSTANTS
  Jetty,      (* the lanes, UrmaJetty objects *)
  Thread      (* the worker threads           *)

VARIABLES
  jettys,        (* jettys_                                         *)
  idleIndices,   (* idleIndices_, a queue of indices into jettys    *)
  isIdle,        (* isIdle_                                         *)
  jettyIndices,  (* jettyIndices_, from a lane to its index         *)
  held,          (* held[t]: lanes thread t has a pointer to        *)
  dropped,       (* lanes let go of without a release               *)
  created        (* lanes constructed so far                        *)

poolVars == <<jettys, idleIndices, isIdle, jettyIndices>>
vars == <<poolVars, held, dropped, created>>

NoIndices == [j \in {} |-> 0]

Init ==
  /\ jettys = <<>> /\ idleIndices = <<>> /\ isIdle = <<>>
  /\ jettyIndices = NoIndices
  /\ held = [t \in Thread |-> {}]
  /\ dropped = {} /\ created = {}

Clear ==
  /\ jettys' = <<>> /\ idleIndices' = <<>> /\ isIdle' = <<>>
  /\ jettyIndices' = NoIndices
  /\ UNCHANGED <<held, dropped, created>>

\* Add(jetty), for a lane that was just constructed.
Add(j) ==
  LET index == Len(jettys) + 1 IN
  /\ j \notin created
  /\ created' = created \cup {j}
  /\ jettyIndices' = [l \in DOMAIN jettyIndices \cup {j} |->
                        IF l = j THEN index ELSE jettyIndices[l]]
  /\ idleIndices' = Append(idleIndices, index)
  /\ isIdle' = Append(isIdle, TRUE)
  /\ jettys' = Append(jettys, j)
  /\ UNCHANGED <<held, dropped>>

\* The positions of idleIndices the loop of PopIdle does not skip.
Usable ==
  {n \in DOMAIN idleIndices :
     idleIndices[n] <= Len(jettys) /\ isIdle[idleIndices[n]]}

\* Mutant: PopIdle leaves the flag of the lane it hands out set.
PopIdleKeepsFlag(t) ==
  /\ Usable # {}
  /\ LET n == Min(Usable)
     IN  /\ idleIndices' = SubSeq(idleIndices, n + 1, Len(idleIndices))
         /\ held' = [held EXCEPT ![t] = @ \cup {jettys[idleIndices[n]]}]
  /\ UNCHANGED <<isIdle, jettys, jettyIndices, dropped, created>>

\* PopIdle: drop indices up to the first usable one and take that lane.
PopIdle(t) ==
  /\ Usable # {}
  /\ LET n == Min(Usable)
         index == idleIndices[n]
     IN  /\ idleIndices' = SubSeq(idleIndices, n + 1, Len(idleIndices))
         /\ isIdle' = [isIdle EXCEPT ![index] = FALSE]
         /\ held' = [held EXCEPT ![t] = @ \cup {jettys[index]}]
  /\ UNCHANGED <<jettys, jettyIndices, dropped, created>>

\* PopIdle returns false: the pool is exhausted.
PopIdleFails ==
  /\ Usable = {}
  /\ idleIndices' = <<>>
  /\ UNCHANGED <<jettys, isIdle, jettyIndices, held, dropped, created>>

\* Mutant: Release puts the lane at the front.
ReleaseToFront(t, j) ==
  /\ j \in held[t]
  /\ held' = [held EXCEPT ![t] = @ \ {j}]
  /\ IF j \notin DOMAIN jettyIndices \/ isIdle[jettyIndices[j]]
     THEN UNCHANGED <<isIdle, idleIndices>>
     ELSE /\ isIdle' = [isIdle EXCEPT ![jettyIndices[j]] = TRUE]
          /\ idleIndices' = <<jettyIndices[j]>> \o idleIndices
  /\ UNCHANGED <<jettys, jettyIndices, dropped, created>>

\* Release(jetty): the lane may have left the pool while it was held.
Release(t, j) ==
  /\ j \in held[t]
  /\ held' = [held EXCEPT ![t] = @ \ {j}]
  /\ IF j \notin DOMAIN jettyIndices \/ isIdle[jettyIndices[j]]
     THEN UNCHANGED <<isIdle, idleIndices>>
     ELSE /\ isIdle' = [isIdle EXCEPT ![jettyIndices[j]] = TRUE]
          /\ idleIndices' = Append(idleIndices, jettyIndices[j])
  /\ UNCHANGED <<jettys, jettyIndices, dropped, created>>

\* The holder resets its pointer and does not release the lane.
LetGo(t, j) ==
  /\ j \in held[t]
  /\ held' = [held EXCEPT ![t] = @ \ {j}]
  /\ dropped' = dropped \cup {j}
  /\ UNCHANGED <<poolVars, created>>

\* Mutant: the moved lane keeps its old index in the queue.
RemoveForgetsRename(j) ==
  /\ j \in DOMAIN jettyIndices
  /\ LET index == jettyIndices[j]
         last == Len(jettys)
         moved(s) == [n \in 1 .. last - 1 |-> IF n = index THEN s[last] ELSE s[n]]
     IN  /\ jettys' = moved(jettys)
         /\ isIdle' = moved(isIdle)
         /\ idleIndices' = SelectSeq(idleIndices, LAMBDA n : n # index)
         /\ jettyIndices' = [l \in DOMAIN jettyIndices \ {j} |->
                               IF l = jettys[last] THEN index ELSE jettyIndices[l]]
  /\ UNCHANGED <<held, dropped, created>>

\* Remove(jetty): the last lane moves into the gap and its index is renamed.
Remove(j) ==
  /\ j \in DOMAIN jettyIndices
  /\ LET index == jettyIndices[j]
         last == Len(jettys)
         rest == SelectSeq(idleIndices, LAMBDA n : n # index)
         moved(s) == [n \in 1 .. last - 1 |-> IF n = index THEN s[last] ELSE s[n]]
     IN  /\ jettys' = moved(jettys)
         /\ isIdle' = moved(isIdle)
         /\ idleIndices' = [n \in DOMAIN rest |->
                              IF rest[n] = last THEN index ELSE rest[n]]
         /\ jettyIndices' = [l \in DOMAIN jettyIndices \ {j} |->
                               IF l = jettys[last] THEN index ELSE jettyIndices[l]]
  /\ UNCHANGED <<held, dropped, created>>

\* GetStats, as a record of its three counts.
GetStats ==
  LET pool == Len(jettys)
      idle == Len(idleIndices)
  IN  [poolSize |-> pool, idleCount |-> idle,
       inUseCount |-> IF pool > idle THEN pool - idle ELSE 0]

Next ==
  \/ \E j \in Jetty : Add(j) \/ Remove(j)
  \/ \E t \in Thread : PopIdle(t)
  \/ PopIdleFails
  \/ \E t \in Thread, j \in Jetty : Release(t, j) \/ LetGo(t, j)
  \/ Clear

Spec == Init /\ [][Next]_vars
-----------------------------------------------------------------------------
Members == {jettys[n] : n \in DOMAIN jettys}

TypeOK ==
  /\ jettys \in Seq(Jetty)
  /\ idleIndices \in Seq(Nat \ {0})
  /\ isIdle \in Seq(BOOLEAN)
  /\ DOMAIN jettyIndices \subseteq Jetty
  /\ held \in [Thread -> SUBSET Jetty]
  /\ dropped \subseteq created /\ created \subseteq Jetty

\* The state is well typed, and the four containers describe one pool: the map inverts the vector, the
\* flags are as long as the vector, and the queue holds every idle index once
\* and nothing else (so PopIdle never has to skip one).
ContainersAgree ==
  /\ TypeOK
  /\ Len(isIdle) = Len(jettys)
  /\ DOMAIN jettyIndices = Members
  /\ \A n \in DOMAIN jettys : jettyIndices[jettys[n]] = n
  /\ \A m, n \in DOMAIN idleIndices : idleIndices[m] = idleIndices[n] => m = n
  /\ {idleIndices[n] : n \in DOMAIN idleIndices} =
       {n \in DOMAIN isIdle : isIdle[n]}

\* A lane of the pool is idle, or dropped, or in the hands of exactly one
\* thread: no lane is lost and no two workers ever post on the same one.  The
\* statistics, computed from two container sizes (urma_send_lane.h:112-120),
\* count the lanes that are not idle.
OneOwner ==
  /\ \A t, u \in Thread : t # u => held[t] \cap held[u] = {}
  /\ \A n \in DOMAIN jettys :
       isIdle[n] <=> jettys[n] \notin dropped \cup UNION {held[t] : t \in Thread}
  /\ GetStats.inUseCount =
       Cardinality(Members \cap (dropped \cup UNION {held[t] : t \in Thread}))

Idle == [n \in DOMAIN idleIndices |-> jettys[idleIndices[n]]]

Queue == INSTANCE LaneQueue WITH
  Lane <- Jetty, members <- Members, idle <- Idle

\* The pool is a first-in-first-out queue of lanes: PopIdle always takes the
\* lane returned longest ago (urma_send_lane.h:56), also after Remove has
\* moved lanes to other indices.
ImplementsQueue == Queue!Spec
=============================================================================
