-------------------------- MODULE RoundsInvariant ---------------------------
(***************************************************************************)
(* The inductive invariant of module Rounds; that every step but a refused *)
(* post and the settling of a lane preserves it; and what a lane that      *)
(* leaves its round leaves behind, which those two steps need.             *)
(***************************************************************************)
EXTENDS Rounds, TLAPS

(***************************************************************************)
(* The inductive invariant.                                                *)
(***************************************************************************)

\* Where worker w stands in its round.
Position(w) ==
  /\ pc[w] \in {"lane", "post"} =>
       wr[w] <= WrCount(kind[w]) /\ posted[w] = wr[w] - 1 /\ good[w] = {}
  /\ pc[w] = "lane" => \A m \in 1 .. posted[w] : PortOf(kind[w], m) # ThisPort(w)
  /\ pc[w] \in {"wait", "settle"} =>
       posted[w] <= WrCount(kind[w]) /\ wr[w] <= posted[w] + 1
  /\ pc[w] = "settle" =>
       /\ wr[w] <= posted[w]
       /\ wr[w] < posted[w] => PortOf(kind[w], wr[w] + 1) # ThisPort(w)
  /\ pc[w] \notin {"loop", "done"} => round[w] >= 1

\* The WRs of the round whose lanes w still has.
Carried(w) ==
  CASE pc[w] = "lane" -> 1 .. posted[w]
    [] pc[w] = "post" -> 1 .. wr[w]
    [] pc[w] \in {"wait", "settle"} -> wr[w] .. posted[w]
    [] OTHER -> {}

Holds(w) ==
  \A q \in Port : jetty[w][q] # NoLane <=> \E m \in Carried(w) : PortOf(kind[w], m) = q

\* A quarantined lane is not held as well, and its round is bound to fail or
\* was the last one.
Lost(w) ==
  \A q \in Port : lost[w][q] # NoLane =>
    /\ jetty[w][q] = NoLane
    /\ \/ pc[w] = "done"
       \/ pc[w] \in {"wait", "settle"} /\ \E n \in 1 .. wr[w] - 1 : n \notin good[w]

\* The event slots w has.
Slots(w) ==
  /\ \A n \in 1 .. MaxWr : event[w][n] # "none" =>
       \/ pc[w] = "lane" /\ n < wr[w]
       \/ /\ pc[w] = "post" /\ n <= WrCount(kind[w])
          /\ n <= wr[w] \/ PortOf(kind[w], n) = ThisPort(w)
       \/ pc[w] = "wait" /\ n \in wr[w] .. posted[w]
       \/ pc[w] = "settle" /\ n \in wr[w] + 1 .. posted[w]
  /\ pc[w] = "post" =>
       \A n \in wr[w] .. WrCount(kind[w]) :
         PortOf(kind[w], n) = ThisPort(w) => event[w][n] = "pending"

\* Where the lane of an outstanding WR is: quarantined, or with the round that
\* posted the WR and has not seen it succeed.
OnWire(r) ==
  /\ r.round <= round[r.worker]
  /\ r.round = round[r.worker] =>
       r.wr <= posted[r.worker] /\ event[r.worker][r.wr] \in {"none", "pending"}
  /\ \/ lost[r.worker][r.port] = r.lane
     \/ /\ jetty[r.worker][r.port] = r.lane
        /\ r.round = round[r.worker] /\ r.wr \notin good[r.worker]
        /\ r.wr <= WrCount(kind[r.worker]) /\ PortOf(kind[r.worker], r.wr) = r.port

Single ==
  \A r, s \in wire : r.worker = s.worker /\ r.round = s.round /\ r.wr = s.wr => r = s

Owns(w, q, l) == jetty[w][q] = l \/ lost[w][q] = l

\* A lane is in its pool or has one owner.
OneOwner ==
  \A q \in Port, l \in Lane :
    /\ l \in idle[q] <=> \A w \in Worker : ~Owns(w, q, l)
    /\ \A v, w \in Worker : Owns(v, q, l) /\ Owns(w, q, l) => v = w

RoundsInv ==
  /\ TypeOK
  /\ \A w \in Worker : Position(w) /\ Holds(w) /\ Lost(w) /\ Slots(w)
  /\ \A r \in wire : OnWire(r)
  /\ Single /\ OneOwner
-----------------------------------------------------------------------------
(***************************************************************************)
(* The shape of a round, and what a step of another worker leaves alone.   *)
(***************************************************************************)

\* A round has at least one WR and at most MaxWr, on ports of its own in
\* ascending order, so that the WRs of one lane are posted one after the other.
LEMMA Shape ==
  ASSUME NEW k \in Kind
  PROVE  /\ WrCount(k) \in 1 .. MaxWr
         /\ \A n \in 1 .. WrCount(k) : PortOf(k, n) \in Port
         /\ \A m, n \in 1 .. WrCount(k) : m <= n => PortOf(k, m) <= PortOf(k, n)
<1>1. CASE k = "write"
  BY <1>1, CountAssumption DEF WrCount, PortOf, PortsOf, WritePorts, Port, MaxWr
<1>2. CASE k = "get"
  BY <1>2, CountAssumption DEF WrCount, PortOf, PortsOf, GetPorts, Port, MaxWr
<1>3. CASE k = "dual"
  <2>1. DualPorts \in Seq(Port) /\ Len(DualPorts) = DUAL_PORTS
    BY CountAssumption DEF DualPorts, Port
  <2>2. PortsOf(k) = DualPorts  BY Zenon, <1>3 DEF PortsOf
  <2>. QED
    BY <2>1, <2>2, CountAssumption DEF WrCount, PortOf, DualPorts, Port, MaxWr
<1>. QED  BY Zenon, <1>1, <1>2, <1>3 DEF Kind

\* MaxWr is positive.
LEMMA MaxWrNat == MaxWr \in Nat /\ MaxWr >= 1
BY CountAssumption DEF MaxWr

\* Everything that belongs to worker v is as it was.
Same(v) ==
  /\ pc'[v] = pc[v] /\ kind'[v] = kind[v] /\ round'[v] = round[v] /\ wr'[v] = wr[v]
  /\ posted'[v] = posted[v] /\ good'[v] = good[v] /\ jetty'[v] = jetty[v]
  /\ event'[v] = event[v] /\ lost'[v] = lost[v]

\* A step that leaves v alone leaves what the invariant says of v.
LEMMA OthersKeep ==
  ASSUME NEW v \in Worker, Same(v), Position(v), Holds(v), Lost(v), Slots(v)
  PROVE  (Position(v) /\ Holds(v) /\ Lost(v) /\ Slots(v))'
<1>1. Position(v)'  BY Zenon DEF Position, Same, ThisPort
<1>2. Holds(v)'
  <2>1. Carried(v)' = Carried(v)  BY Zenon DEF Carried, Same
  <2>. QED  BY Zenon, <2>1 DEF Holds, Same
<1>3. Lost(v)'  BY Zenon DEF Lost, Same
<1>4. Slots(v)'  BY Zenon DEF Slots, Same, ThisPort
<1>. QED  BY Zenon, <1>1, <1>2, <1>3, <1>4

\* The same for a WR of v that is on the wire.
LEMMA OthersWireKeeps ==
  ASSUME NEW r, Same(r.worker), OnWire(r)
  PROVE  OnWire(r)'
BY Zenon DEF Same, OnWire
-----------------------------------------------------------------------------
(***************************************************************************)
(* Each step preserves the invariant.                                      *)
(***************************************************************************)

\* A new round begins with nothing held.
LEMMA BeginRoundKeeps ==
  ASSUME RoundsInv, NEW w \in Worker, BeginRound(w)
  PROVE  RoundsInv'
<1>. USE DEF RoundsInv
<1>1. TypeOK'
  <2>1. kind' \in [Worker -> Kind]  BY Zenon DEF BeginRound, TypeOK, Kind
  <2>2. round' \in [Worker -> 0 .. MaxRounds]
    BY CountAssumption DEF BeginRound, TypeOK
  <2>. QED  BY SMTT(30), <2>1, <2>2, MaxWrNat DEF BeginRound, TypeOK, Goto, stats
<1>2. kind'[w] \in Kind  BY Zenon, <1>1 DEF TypeOK
<1>3. /\ pc'[w] = "lane" /\ wr'[w] = 1 /\ posted'[w] = 0 /\ good'[w] = {}
      /\ round'[w] = round[w] + 1 /\ UNCHANGED <<jetty, event, lost, idle, wire>>
      /\ pc[w] = "loop"
  BY Zenon DEF BeginRound, TypeOK, Goto
<1>4. \A v \in Worker : (Position(v) /\ Holds(v) /\ Lost(v) /\ Slots(v))'
  <2>1. ASSUME NEW v \in Worker, v # w
        PROVE  (Position(v) /\ Holds(v) /\ Lost(v) /\ Slots(v))'
    <3>1. Same(v)  BY Zenon, <2>1 DEF Same, BeginRound, TypeOK, Goto
    <3>. QED  BY Zenon, <3>1, OthersKeep
  <2>2. Position(w)'  BY <1>2, <1>3, Shape DEF Position, TypeOK
  <2>3. Holds(w)'  BY <1>3 DEF Holds, Carried
  <2>4. Lost(w)'  BY Zenon, <1>3 DEF Lost
  <2>5. Slots(w)'  BY Zenon, <1>3 DEF Slots
  <2>. QED  BY Zenon, <2>1, <2>2, <2>3, <2>4, <2>5
<1>5. \A r \in wire' : OnWire(r)'
  <2>1. ASSUME NEW r \in wire  PROVE OnWire(r)'
    <3>1. CASE r.worker # w
      <4>1. Same(r.worker)
        BY Zenon, <3>1 DEF Same, BeginRound, TypeOK, Goto, WrRecord
      <4>. QED  BY Zenon, <4>1, OthersWireKeeps
    <3>2. CASE r.worker = w
      <4>1. r.lane \in Lane /\ r.port \in Port /\ r.round \in Nat /\ round[w] \in Nat
        BY SMTT(30), <3>2 DEF TypeOK, WrRecord
      <4>2. jetty[w][r.port] = NoLane  BY Zenon, <4>1, <1>3 DEF Holds, Carried
      <4>. QED  BY <3>2, <1>3, <4>1, <4>2, PoolAssumption DEF OnWire
    <3>. QED  BY Zenon, <3>1, <3>2
  <2>. QED  BY Zenon, <2>1, <1>3
<1>6. Single' /\ OneOwner'  BY <1>3 DEF Single, OneOwner, Owns
<1>. QED  BY Zenon, <1>1, <1>4, <1>5, <1>6

\* A worker that leaves its loop has nothing.
LEMMA LeaveLoopKeeps ==
  ASSUME RoundsInv, NEW w \in Worker, LeaveLoop(w)
  PROVE  RoundsInv'
<1>. USE DEF RoundsInv
<1>1. TypeOK'
  BY Zenon DEF LeaveLoop, TypeOK, Goto, stats
<1>2. /\ pc'[w] = "done" /\ pc[w] = "loop"
      /\ UNCHANGED <<kind, round, wr, posted, good, jetty, event, lost, idle, wire>>
  BY Zenon DEF LeaveLoop, TypeOK, Goto
<1>3. \A v \in Worker : (Position(v) /\ Holds(v) /\ Lost(v) /\ Slots(v))'
  <2>1. ASSUME NEW v \in Worker, v # w
        PROVE  (Position(v) /\ Holds(v) /\ Lost(v) /\ Slots(v))'
    <3>1. Same(v)  BY Zenon, <1>2, <2>1 DEF Same, LeaveLoop, TypeOK, Goto
    <3>. QED  BY Zenon, <3>1, OthersKeep
  <2>2. Position(w)'  BY Zenon, <1>2 DEF Position
  <2>3. Holds(w)'  BY Zenon, <1>2 DEF Holds, Carried
  <2>4. Lost(w)'  BY Zenon, <1>2 DEF Lost
  <2>5. Slots(w)'  BY Zenon, <1>2 DEF Slots
  <2>. QED  BY Zenon, <2>1, <2>2, <2>3, <2>4, <2>5
<1>4. \A r \in wire' : OnWire(r)'  BY Zenon, <1>2 DEF OnWire
<1>5. Single' /\ OneOwner'  BY <1>2 DEF Single, OneOwner, Owns
<1>. QED  BY Zenon, <1>1, <1>3, <1>4, <1>5

\* The end of a round, successful or not: every lane has been settled and, if
\* the round was successful, none was lost.
LEMMA RoundEndKeeps ==
  ASSUME RoundsInv, NEW w \in Worker, RoundDone(w) \/ RoundFailed(w)
  PROVE  RoundsInv'
<1>. USE DEF RoundsInv
<1>1. TypeOK'
  <2>1. CASE RoundDone(w)
    <3>1. off' \in [Worker -> 0 .. threads - 1]
      <4>1. off[w] \in Nat /\ (off[w] + 1) % threads \in 0 .. threads - 1
        BY CountAssumption DEF TypeOK
      <4>. QED  BY Zenon, <2>1, <4>1 DEF RoundDone, TypeOK
    <3>2. ops' \in [Worker -> Nat]  BY <2>1 DEF RoundDone, TypeOK
    <3>. QED  BY Zenon, <2>1, <3>1, <3>2 DEF RoundDone, TypeOK, Goto
  <2>2. CASE RoundFailed(w)
    <3>1. errors' \in [Worker -> Nat]  BY <2>2 DEF RoundFailed, TypeOK
    <3>. QED  BY Zenon, <2>2, <3>1 DEF RoundFailed, TypeOK, Goto
  <2>. QED  BY Zenon, <2>1, <2>2
<1>2. /\ pc[w] = "wait" /\ wr[w] > posted[w]
      /\ \/ pc'[w] = "loop" /\ good[w] = 1 .. WrCount(kind[w])
         \/ pc'[w] = "done"
      /\ UNCHANGED <<kind, round, wr, posted, good, jetty, event, lost, idle, wire>>
  BY Zenon DEF RoundDone, RoundFailed, TypeOK, Goto
<1>3. wr[w] \in Nat /\ posted[w] \in Nat  BY MaxWrNat DEF TypeOK
<1>4. \A v \in Worker : (Position(v) /\ Holds(v) /\ Lost(v) /\ Slots(v))'
  <2>1. ASSUME NEW v \in Worker, v # w
        PROVE  (Position(v) /\ Holds(v) /\ Lost(v) /\ Slots(v))'
    <3>1. Same(v)  BY Zenon, <1>2, <2>1 DEF Same, RoundDone, RoundFailed, TypeOK, Goto
    <3>. QED  BY Zenon, <3>1, OthersKeep
  <2>2. Position(w)'  BY Zenon, <1>2 DEF Position
  <2>3. Holds(w)'  BY <1>2, <1>3 DEF Holds, Carried
  <2>4. Lost(w)'
    <3>1. wr[w] - 1 <= WrCount(kind[w]) /\ WrCount(kind[w]) \in Nat
      BY <1>2, <1>3, Shape, MaxWrNat DEF Position, TypeOK
    <3>. QED  BY <1>2, <1>3, <3>1 DEF Lost
  <2>5. Slots(w)'  BY SMTT(30), <1>2, <1>3, MaxWrNat DEF Slots
  <2>. QED  BY Zenon, <2>1, <2>2, <2>3, <2>4, <2>5
<1>5. \A r \in wire' : OnWire(r)'  BY Zenon, <1>2 DEF OnWire
<1>6. Single' /\ OneOwner'  BY <1>2 DEF Single, OneOwner, Owns
<1>. QED  BY Zenon, <1>1, <1>4, <1>5, <1>6

\* A completion touches the event of its own WR only.
LEMMA CompleteKeeps ==
  ASSUME RoundsInv, NEW r \in wire, NEW status \in {"ok", "fail"}, Complete(r, status)
  PROVE  RoundsInv'
<1>. USE DEF RoundsInv
<1>. DEFINE w == r.worker
<1>1. w \in Worker /\ r.wr \in 1 .. MaxWr  BY Zenon DEF TypeOK, WrRecord
<1>. DEFINE Hit == [event EXCEPT ![w] = [event[w] EXCEPT ![r.wr] = status]]
<1>2. /\ event' = event \/ (event' = Hit /\ r.round = round[w] /\ event[w][r.wr] = "pending")
      /\ wire' = wire \ {r}
      /\ UNCHANGED <<mode, pc, kind, round, wr, posted, good, jetty, lost, idle, fatal, stats>>
  BY Zenon DEF Complete
<1>3. /\ wire' = wire \ {r}
      /\ UNCHANGED <<pc, kind, round, wr, posted, good, jetty, lost, idle>>
      /\ \A v \in Worker : v # w => event'[v] = event[v]
      /\ \A n \in 1 .. MaxWr : n # r.wr => event'[w][n] = event[w][n]
      /\ event'[w][r.wr] = "none" <=> event[w][r.wr] = "none"
      /\ r.round # round[w] => event' = event
  <2>1. /\ event \in [Worker -> [1 .. MaxWr -> {"none", "pending", "ok", "fail"}]]
        /\ event[w] \in [1 .. MaxWr -> {"none", "pending", "ok", "fail"}]
    BY Zenon, <1>1 DEF TypeOK
  <2>. HIDE DEF RoundsInv
  <2>. QED  BY Zenon, <1>1, <1>2, <2>1
<1>7. TypeOK'
  <2>1. event' \in [Worker -> [1 .. MaxWr -> {"none", "pending", "ok", "fail"}]]
    <3>1. event \in [Worker -> [1 .. MaxWr -> {"none", "pending", "ok", "fail"}]]
      BY Zenon DEF TypeOK
    <3>. HIDE DEF RoundsInv
    <3>2. [event[w] EXCEPT ![r.wr] = status]
            \in [1 .. MaxWr -> {"none", "pending", "ok", "fail"}]
      BY Zenon, <1>1, <3>1
    <3>. QED  BY Zenon, <1>1, <1>2, <3>1, <3>2
  <2>2. TypeOK  OBVIOUS
  <2>. HIDE DEF RoundsInv
  <2>. QED  BY Zenon, <1>2, <2>1, <2>2 DEF TypeOK, stats
<1>4. \A v \in Worker : (Position(v) /\ Holds(v) /\ Lost(v) /\ Slots(v))'
  <2>1. ASSUME NEW v \in Worker, v # w
        PROVE  (Position(v) /\ Holds(v) /\ Lost(v) /\ Slots(v))'
    <3>1. Same(v)  BY Zenon, <1>3, <2>1 DEF Same
    <3>. QED  BY Zenon, <3>1, OthersKeep
  <2>2. Position(w)'  BY Zenon, <1>1, <1>3 DEF Position, ThisPort
  <2>3. Holds(w)'  BY <1>1, <1>3 DEF Holds, Carried
  <2>4. Lost(w)'  BY Zenon, <1>1, <1>3 DEF Lost
  <2>5. Slots(w)'
    <3>1. ASSUME NEW n \in 1 .. MaxWr
          PROVE  event'[w][n] = "none" <=> event[w][n] = "none"
      BY Zenon, <1>3
    <3>2. ASSUME pc[w] = "post", NEW n \in wr[w] .. WrCount(kind[w]),
                 PortOf(kind[w], n) = ThisPort(w)
          PROVE  event'[w][n] = "pending"
      <4>1. event[w][n] = "pending"  BY Zenon, <1>1, <3>2 DEF Slots
      <4>2. CASE r.round # round[w]  BY Zenon, <4>1, <4>2, <1>3
      <4>3. CASE r.round = round[w]
        <5>1. r.wr <= posted[w]  BY Zenon, <4>3 DEF OnWire
        <5>2. posted[w] = wr[w] - 1 /\ wr[w] \in 1 .. MaxWr + 1 /\ kind[w] \in Kind
          BY Zenon, <1>1, <3>2 DEF Position, TypeOK
        <5>3. n \in 1 .. MaxWr /\ n # r.wr
          BY <5>1, <5>2, <1>1, MaxWrNat, Shape
        <5>. QED  BY Zenon, <5>3, <4>1, <1>3
      <4>. QED  BY Zenon, <4>2, <4>3
    <3>. QED  BY ZenonT(30), <3>1, <3>2, <1>1, <1>3 DEF Slots, ThisPort
  <2>. QED  BY Zenon, <2>1, <2>2, <2>3, <2>4, <2>5
<1>5. \A s \in wire' : OnWire(s)'
  <2>1. ASSUME NEW s \in wire, s # r  PROVE OnWire(s)'
    <3>1. CASE s.worker # w
      <4>1. Same(s.worker)  BY Zenon, <1>3, <3>1 DEF Same, TypeOK, WrRecord
      <4>. QED  BY Zenon, <4>1, OthersWireKeeps
    <3>2. CASE s.worker = w
      <4>1. s.wr \in 1 .. MaxWr  BY Zenon DEF TypeOK, WrRecord
      <4>2. s.round = round[w] => event'[w][s.wr] = event[w][s.wr]
        BY Zenon, <2>1, <3>2, <4>1, <1>3 DEF Single
      <4>. QED  BY Zenon, <3>2, <4>2, <1>3 DEF OnWire
    <3>. QED  BY Zenon, <3>1, <3>2
  <2>. QED  BY Zenon, <2>1, <1>3
<1>6. Single' /\ OneOwner'  BY <1>3 DEF Single, OneOwner, Owns
<1>. QED  BY Zenon, <1>4, <1>5, <1>6, <1>7

\* A wait ends: its event is gone, and a success that was seen belongs to a WR
\* that is no longer on the wire.
LEMMA WaitEventKeeps ==
  ASSUME RoundsInv, NEW w \in Worker, WaitEvent(w)
  PROVE  RoundsInv'
<1>. DEFINE k == kind[w]
<1>0. /\ TypeOK /\ Single /\ OneOwner /\ \A r \in wire : OnWire(r)
      /\ \A v \in Worker : Position(v) /\ Holds(v) /\ Lost(v) /\ Slots(v)
  BY Zenon DEF RoundsInv
<1>1. /\ pc[w] = "wait" /\ k \in Kind /\ wr[w] \in 1 .. posted[w] /\ posted[w] \in Nat
      /\ posted[w] <= WrCount(k) /\ WrCount(k) \in 1 .. MaxWr /\ wr[w] \in Nat
      /\ round[w] >= 1 /\ wr[w] \in 1 .. MaxWr
  <2>1. /\ pc[w] = "wait" /\ k \in Kind /\ wr[w] \in 1 .. MaxWr + 1 /\ wr[w] <= posted[w]
        /\ posted[w] \in 0 .. MaxWr
    BY Zenon, <1>0 DEF WaitEvent, TypeOK
  <2>. QED  BY <1>0, <2>1, Shape, MaxWrNat DEF Position
<1>2. /\ event' = [event EXCEPT ![w][wr[w]] = "none"]
      /\ \/ event[w][wr[w]] = "ok" /\ good' = [good EXCEPT ![w] = @ \cup {wr[w]}]
         \/ good' = good
      /\ \/ /\ wr[w] < posted[w] /\ PortOf(k, wr[w] + 1) = ThisPort(w)
            /\ wr' = [wr EXCEPT ![w] = wr[w] + 1] /\ pc' = pc
         \/ /\ ~(wr[w] < posted[w] /\ PortOf(k, wr[w] + 1) = ThisPort(w))
            /\ wr' = wr /\ pc' = [pc EXCEPT ![w] = "settle"]
      /\ UNCHANGED <<mode, kind, round, posted, jetty, idle, lost, wire, fatal, stats>>
  BY Zenon DEF WaitEvent, Goto
<1>3. /\ \A v \in Worker : v # w => Same(v)
      /\ \A n \in 1 .. MaxWr : event'[w][n] = IF n = wr[w] THEN "none" ELSE event[w][n]
      /\ \/ event[w][wr[w]] = "ok" /\ good'[w] = good[w] \cup {wr[w]}
         \/ good'[w] = good[w]
      /\ \/ /\ wr[w] < posted[w] /\ PortOf(k, wr[w] + 1) = ThisPort(w)
            /\ wr'[w] = wr[w] + 1 /\ pc'[w] = "wait"
         \/ /\ wr[w] < posted[w] => PortOf(k, wr[w] + 1) # ThisPort(w)
            /\ wr'[w] = wr[w] /\ pc'[w] = "settle"
  <2>1. /\ event \in [Worker -> [1 .. MaxWr -> {"none", "pending", "ok", "fail"}]]
        /\ good \in [Worker -> SUBSET (1 .. MaxWr)]
        /\ wr \in [Worker -> 1 .. MaxWr + 1]
        /\ pc \in [Worker -> {"loop", "lane", "post", "wait", "settle", "done"}]
    BY Zenon, <1>0 DEF TypeOK
  <2>2. \A v \in Worker : v # w => Same(v)  BY Zenon, <1>2, <2>1 DEF Same
  <2>3. \A n \in 1 .. MaxWr : event'[w][n] = IF n = wr[w] THEN "none" ELSE event[w][n]
    BY Zenon, <1>1, <1>2, <2>1
  <2>4. \/ event[w][wr[w]] = "ok" /\ good'[w] = good[w] \cup {wr[w]}
        \/ good'[w] = good[w]
    BY Zenon, <1>2, <2>1
  <2>. QED  BY Zenon, <2>1, <2>2, <2>3, <2>4, <1>1, <1>2
<1>4. TypeOK'
  <2>1. event' \in [Worker -> [1 .. MaxWr -> {"none", "pending", "ok", "fail"}]]
    <3>1. event \in [Worker -> [1 .. MaxWr -> {"none", "pending", "ok", "fail"}]]
      BY Zenon, <1>0 DEF TypeOK
    <3>2. [event[w] EXCEPT ![wr[w]] = "none"] \in [1 .. MaxWr -> {"none", "pending", "ok", "fail"}]
      BY Zenon, <3>1
    <3>. QED  BY Zenon, <3>1, <3>2, <1>2
  <2>2. good' \in [Worker -> SUBSET (1 .. MaxWr)]
    <3>1. good \in [Worker -> SUBSET (1 .. MaxWr)]  BY Zenon, <1>0 DEF TypeOK
    <3>2. good[w] \cup {wr[w]} \in SUBSET (1 .. MaxWr)  BY Zenon, <3>1, <1>1
    <3>. QED  BY Zenon, <3>1, <3>2, <1>2
  <2>3. wr' \in [Worker -> 1 .. MaxWr + 1]
    <3>1. wr[w] + 1 \in 1 .. MaxWr + 1  BY <1>1, MaxWrNat
    <3>. QED  BY ZenonT(30), <3>1, <1>0, <1>2 DEF TypeOK
  <2>4. pc' \in [Worker -> {"loop", "lane", "post", "wait", "settle", "done"}]
    BY Zenon, <1>0, <1>2 DEF TypeOK
  <2>. QED  BY Zenon, <2>1, <2>2, <2>3, <2>4, <1>0, <1>2 DEF TypeOK, stats
<1>5. \A v \in Worker : (Position(v) /\ Holds(v) /\ Lost(v) /\ Slots(v))'
  <2>1. \A v \in Worker : v # w => (Position(v) /\ Holds(v) /\ Lost(v) /\ Slots(v))'
    BY Zenon, <1>0, <1>3, OthersKeep
  <2>2. Position(w)'  BY <1>1, <1>2, <1>3 DEF Position, ThisPort
  <2>3. Holds(w)'
    <3>1. Carried(w) = wr[w] .. posted[w] /\ Carried(w)' = wr'[w] .. posted[w]
      BY Zenon, <1>1, <1>2, <1>3 DEF Carried
    <3>2. ASSUME NEW p \in Port
          PROVE  (\E m \in wr'[w] .. posted[w] : PortOf(k, m) = p)
                   <=> (\E m \in wr[w] .. posted[w] : PortOf(k, m) = p)
      BY <1>1, <1>3 DEF ThisPort
    <3>. QED  BY ZenonT(30), <3>1, <3>2, <1>0, <1>2 DEF Holds
  <2>4. Lost(w)'
    <3>1. ASSUME NEW n \in 1 .. wr[w] - 1, n \notin good[w]
          PROVE  n \in 1 .. wr'[w] - 1 /\ n \notin good'[w]
      BY SMTT(30), <3>1, <1>1, <1>3
    <3>. QED  BY Zenon, <3>1, <1>0, <1>1, <1>2, <1>3 DEF Lost
  <2>5. Slots(w)'
    <3>1. ASSUME NEW n \in 1 .. MaxWr, event'[w][n] # "none"
          PROVE  n \in wr[w] + 1 .. posted[w]
      BY SMTT(30), <3>1, <1>0, <1>1, <1>3 DEF Slots
    <3>. QED  BY Zenon, <3>1, <1>1, <1>2, <1>3 DEF Slots
  <2>. QED  BY Zenon, <2>1, <2>2, <2>3, <2>4, <2>5
<1>6. \A r \in wire' : OnWire(r)'
  <2>1. ASSUME NEW r \in wire  PROVE OnWire(r)'
    <3>1. r.worker \in Worker /\ r.wr \in 1 .. MaxWr /\ OnWire(r)
      BY Zenon, <1>0 DEF TypeOK, WrRecord
    <3>2. CASE r.worker # w  BY Zenon, <3>1, <3>2, <1>3, OthersWireKeeps
    <3>3. CASE r.worker = w
      <4>1. event'[w][r.wr] \in {event[w][r.wr], "none"}  BY Zenon, <3>1, <1>3
      <4>2. r.round = round[w] /\ r.wr \notin good[w] => r.wr \notin good'[w]
        BY Zenon, <3>1, <3>3, <1>3 DEF OnWire
      <4>. QED  BY Zenon, <3>1, <3>3, <4>1, <4>2, <1>2 DEF OnWire
    <3>. QED  BY Zenon, <3>2, <3>3
  <2>. QED  BY Zenon, <2>1, <1>2
<1>7. Single' /\ OneOwner'  BY <1>0, <1>2 DEF Single, OneOwner, Owns
<1>. QED  BY Zenon, <1>4, <1>5, <1>6, <1>7 DEF RoundsInv

\* A lane that is taken from its pool gets its first owner.
LEMMA AcquireKeeps ==
  ASSUME RoundsInv, NEW w \in Worker, Acquire(w)
  PROVE  RoundsInv'
<1>. USE DEF RoundsInv
<1>. DEFINE q == ThisPort(w)
<1>1. /\ pc[w] = "lane" /\ kind[w] \in Kind /\ wr[w] \in 1 .. WrCount(kind[w])
      /\ posted[w] = wr[w] - 1 /\ q \in Port /\ WrCount(kind[w]) \in 1 .. MaxWr
      /\ \A m \in 1 .. posted[w] : PortOf(kind[w], m) # q
  <2>1. pc[w] = "lane" /\ kind[w] \in Kind /\ wr[w] \in 1 .. MaxWr + 1
    BY Zenon DEF Acquire, TypeOK
  <2>. QED  BY <2>1, Shape, MaxWrNat DEF Position, ThisPort
<1>2. PICK l \in idle[q] : jetty' = [jetty EXCEPT ![w][q] = l]
                          /\ idle' = [idle EXCEPT ![q] = @ \ {l}]
  BY Zenon DEF Acquire
<1>3. l \in Lane /\ l # NoLane  BY Zenon, <1>1, <1>2, PoolAssumption DEF TypeOK
<1>4. /\ pc' = [pc EXCEPT ![w] = "post"]
      /\ UNCHANGED <<kind, round, wr, posted, good, lost, wire>>
      /\ event' = [event EXCEPT ![w] =
           [n \in 1 .. MaxWr |-> IF n \in OnPort(kind[w], q) THEN "pending" ELSE @[n]]]
  BY Zenon DEF Acquire, Goto
<1>5. /\ \A v \in Worker : v # w => event'[v] = event[v]
      /\ \A n \in 1 .. MaxWr :
           event'[w][n] = IF n \in OnPort(kind[w], q) THEN "pending" ELSE event[w][n]
  BY Zenon, <1>4 DEF TypeOK
<1>6. /\ \A v \in Worker, p \in Port :
           jetty'[v][p] = IF v = w /\ p = q THEN l ELSE jetty[v][p]
      /\ \A v \in Worker : v # w => jetty'[v] = jetty[v]
  BY Zenon, <1>1, <1>2 DEF TypeOK
<1>7. TypeOK'
  <2>1. jetty' \in [Worker -> [Port -> Lane \cup {NoLane}]]
    BY Zenon, <1>1, <1>2, <1>3 DEF TypeOK
  <2>2. event' \in [Worker -> [1 .. MaxWr -> {"none", "pending", "ok", "fail"}]]
    BY Zenon, <1>4 DEF TypeOK
  <2>3. idle' \in [Port -> SUBSET Lane]  BY Zenon, <1>1, <1>2 DEF TypeOK
  <2>. QED  BY Zenon, <2>1, <2>2, <2>3, <1>4 DEF Acquire, TypeOK, stats
<1>8. jetty[w][q] = NoLane /\ \A p \in Port : lost[w][p] = NoLane
  <2>1. jetty[w][q] = NoLane  BY Zenon, <1>1 DEF Holds, Carried
  <2>. QED  BY Zenon, <2>1, <1>1 DEF Lost
<1>9. \A v \in Worker : (Position(v) /\ Holds(v) /\ Lost(v) /\ Slots(v))'
  <2>1. ASSUME NEW v \in Worker, v # w
        PROVE  (Position(v) /\ Holds(v) /\ Lost(v) /\ Slots(v))'
    <3>1. Same(v)  BY Zenon, <1>4, <1>5, <1>6, <2>1 DEF Same, TypeOK
    <3>. QED  BY Zenon, <3>1, OthersKeep
  <2>2. pc'[w] = "post"  BY Zenon, <1>4 DEF TypeOK
  <2>3. Position(w)'  BY Zenon, <1>1, <1>4, <2>2 DEF Position
  <2>4. Holds(w)'
    <3>1. ASSUME NEW p \in Port
          PROVE  jetty'[w][p] # NoLane <=> \E m \in 1 .. wr[w] : PortOf(kind[w], m) = p
      <4>1. jetty[w][p] # NoLane <=> \E m \in 1 .. wr[w] - 1 : PortOf(kind[w], m) = p
        BY <1>1 DEF Holds, Carried
      <4>2. (\E m \in 1 .. wr[w] : PortOf(kind[w], m) = p)
              <=> (\E m \in 1 .. wr[w] - 1 : PortOf(kind[w], m) = p) \/ p = q
        BY <1>1 DEF ThisPort
      <4>. QED  BY Zenon, <4>1, <4>2, <1>3, <1>6
    <3>. QED  BY Zenon, <3>1, <2>2, <1>4 DEF Holds, Carried
  <2>5. Lost(w)'  BY Zenon, <1>4, <1>8 DEF Lost
  <2>6. Slots(w)'
    <3>1. ASSUME NEW n \in 1 .. MaxWr, event'[w][n] # "none"
          PROVE  n <= WrCount(kind[w]) /\ (n <= wr[w] \/ PortOf(kind[w], n) = q)
      <4>1. CASE n \in OnPort(kind[w], q)  BY <4>1, <1>1 DEF OnPort
      <4>2. CASE n \notin OnPort(kind[w], q)
        BY <3>1, <4>2, <1>1, <1>5 DEF Slots
      <4>. QED  BY Zenon, <4>1, <4>2
    <3>2. ASSUME NEW n \in wr[w] .. WrCount(kind[w]), PortOf(kind[w], n) = q
          PROVE  event'[w][n] = "pending"
      <4>1. n \in 1 .. MaxWr /\ n \in OnPort(kind[w], q)
        BY <3>2, <1>1, MaxWrNat DEF OnPort
      <4>. QED  BY Zenon, <4>1, <1>5
    <3>. QED  BY Zenon, <3>1, <3>2, <2>2, <1>4 DEF Slots, ThisPort
  <2>. QED  BY Zenon, <2>1, <2>3, <2>4, <2>5, <2>6
<1>10. \A r \in wire' : OnWire(r)'
  <2>1. ASSUME NEW r \in wire  PROVE OnWire(r)'
    <3>1. r.worker \in Worker /\ r.port \in Port /\ r.lane \in Lane /\ r.wr \in 1 .. MaxWr
      BY Zenon DEF TypeOK, WrRecord
    <3>2. jetty'[r.worker][r.port] = jetty[r.worker][r.port] \/ jetty[r.worker][r.port] = NoLane
      BY Zenon, <3>1, <1>6, <1>8
    <3>3. event'[r.worker][r.wr] \in {event[r.worker][r.wr], "pending"}
      BY Zenon, <3>1, <1>5
    <3>. QED  BY Zenon, <3>1, <3>2, <3>3, <1>4, PoolAssumption DEF OnWire
  <2>. QED  BY Zenon, <2>1, <1>4
<1>11. Single'  BY Zenon, <1>4 DEF Single
<1>12. OneOwner'
  <2>1. ASSUME NEW p \in Port, NEW k \in Lane, NEW v \in Worker
        PROVE  Owns(v, p, k)' <=> Owns(v, p, k) \/ (v = w /\ p = q /\ k = l)
    BY Zenon, <1>3, <1>4, <1>6, <1>8, PoolAssumption DEF Owns
  <2>2. \A v \in Worker : ~Owns(v, q, l)
    BY Zenon, <1>1, <1>2, <1>3 DEF OneOwner
  <2>3. \A p \in Port : idle'[p] = IF p = q THEN idle[p] \ {l} ELSE idle[p]
    BY Zenon, <1>1, <1>2 DEF TypeOK
  <2>4. ASSUME NEW p \in Port, NEW k \in Lane
        PROVE  k \in idle'[p] <=> \A v \in Worker : ~Owns(v, p, k)'
    <3>1. k \in idle[p] <=> \A v \in Worker : ~Owns(v, p, k)  BY Zenon DEF OneOwner
    <3>2. CASE p = q /\ k = l  BY Zenon, <3>2, <2>1, <2>3
    <3>3. CASE ~(p = q /\ k = l)
      <4>1. \A v \in Worker : Owns(v, p, k)' <=> Owns(v, p, k)  BY Zenon, <3>3, <2>1
      <4>2. k \in idle'[p] <=> k \in idle[p]  BY Zenon, <3>3, <2>3
      <4>. QED  BY Zenon, <3>1, <4>1, <4>2
    <3>. QED  BY Zenon, <3>2, <3>3
  <2>5. ASSUME NEW p \in Port, NEW k \in Lane, NEW u \in Worker, NEW v \in Worker,
               Owns(u, p, k)', Owns(v, p, k)'
        PROVE  u = v
    BY <2>1, <2>2, <2>5 DEF OneOwner
  <2>. QED  BY Zenon, <2>4, <2>5 DEF OneOwner
<1>. QED  BY Zenon, <1>7, <1>9, <1>10, <1>11, <1>12

\* A WR that was accepted is on the wire, on the lane of its round.
LEMMA PostKeeps ==
  ASSUME RoundsInv, NEW w \in Worker, Post(w)
  PROVE  RoundsInv'
<1>. DEFINE q == ThisPort(w)
            k == kind[w]
<1>0. /\ TypeOK /\ Single /\ OneOwner /\ \A r \in wire : OnWire(r)
      /\ \A v \in Worker : Position(v) /\ Holds(v) /\ Lost(v) /\ Slots(v)
  BY Zenon DEF RoundsInv
<1>1. /\ pc[w] = "post" /\ k \in Kind /\ wr[w] \in 1 .. WrCount(k) /\ wr[w] \in Nat
      /\ posted[w] = wr[w] - 1 /\ q \in Port /\ WrCount(k) \in 1 .. MaxWr
      /\ round[w] \in 1 .. MaxRounds /\ good[w] = {}
  <2>1. pc[w] = "post" /\ k \in Kind /\ wr[w] \in 1 .. MaxWr + 1 /\ round[w] \in 0 .. MaxRounds
    BY Zenon, <1>0 DEF Post, TypeOK
  <2>. QED
    BY <1>0, <2>1, Shape, MaxWrNat, CountAssumption DEF Position, ThisPort, Port
<1>2. /\ \A m, n \in 1 .. WrCount(k) : m <= n => PortOf(k, m) <= PortOf(k, n)
      /\ \A n \in 1 .. WrCount(k) : PortOf(k, n) \in Nat
  BY <1>1, Shape, CountAssumption DEF Port
<1>3. jetty[w][q] \in Lane
  <2>1. jetty[w][q] # NoLane  BY <1>0, <1>1 DEF Holds, Carried, ThisPort
  <2>. QED  BY <1>0, <1>1, <2>1 DEF TypeOK
<1>4. event[w][wr[w]] = "pending"  BY <1>0, <1>1 DEF Slots, ThisPort
<1>5. PICK new : new = [worker |-> w, round |-> round[w], wr |-> wr[w], port |-> q,
                        lane |-> jetty[w][q]]
  BY Zenon
<1>6. /\ new.worker = w /\ new.round = round[w] /\ new.wr = wr[w] /\ new.port = q
      /\ new.lane = jetty[w][q]
  BY Zenon, <1>5
<1>7. /\ wire' = wire \cup {new} /\ posted' = [posted EXCEPT ![w] = wr[w]]
      /\ UNCHANGED <<mode, kind, round, good, jetty, event, idle, lost, fatal, stats>>
  <2>1. posted[w] + 1 = wr[w]  BY <1>1
  <2>. QED  BY Zenon, <2>1, <1>5 DEF Post
<1>8. \/ /\ wr[w] < WrCount(k) /\ wr' = [wr EXCEPT ![w] = wr[w] + 1]
         /\ PortOf(k, wr[w] + 1) = q /\ pc' = [pc EXCEPT ![w] = "post"]
      \/ /\ wr[w] < WrCount(k) /\ wr' = [wr EXCEPT ![w] = wr[w] + 1]
         /\ PortOf(k, wr[w] + 1) # q /\ pc' = [pc EXCEPT ![w] = "lane"]
      \/ /\ wr[w] = WrCount(k) /\ wr' = [wr EXCEPT ![w] = 1]
         /\ pc' = [pc EXCEPT ![w] = "wait"]
  <2>1. CASE wr[w] < WrCount(k)  BY Zenon, <2>1, <1>1 DEF Post, Goto
  <2>2. CASE ~(wr[w] < WrCount(k))  BY <2>2, <1>1 DEF Post, Goto
  <2>. QED  BY Zenon, <2>1, <2>2
<1>9. TypeOK'
  <2>1. new \in WrRecord
    <3>1. wr[w] \in 1 .. MaxWr  BY <1>1, MaxWrNat
    <3>. QED  BY Zenon, <3>1, <1>1, <1>3, <1>5 DEF WrRecord
  <2>2. wr' \in [Worker -> 1 .. MaxWr + 1] /\ posted' \in [Worker -> 0 .. MaxWr]
    <3>1. wr[w] + 1 \in 1 .. MaxWr + 1 /\ wr[w] \in 0 .. MaxWr /\ 1 \in 1 .. MaxWr + 1
      BY <1>1, MaxWrNat
    <3>2. wr \in [Worker -> 1 .. MaxWr + 1] /\ posted \in [Worker -> 0 .. MaxWr]
      BY Zenon, <1>0 DEF TypeOK
    <3>. QED  BY Zenon, <3>1, <3>2, <1>7, <1>8
  <2>3. pc' \in [Worker -> {"loop", "lane", "post", "wait", "settle", "done"}]
    BY Zenon, <1>0, <1>8 DEF TypeOK
  <2>. QED  BY Zenon, <2>1, <2>2, <2>3, <1>0, <1>7 DEF TypeOK, stats
<1>10. \A v \in Worker : v # w => Same(v)
  BY ZenonT(30), <1>0, <1>7, <1>8 DEF TypeOK, Same
<1>11. /\ posted'[w] = wr[w]
       /\ \/ wr[w] < WrCount(k) /\ wr'[w] = wr[w] + 1 /\ PortOf(k, wr[w] + 1) = q /\ pc'[w] = "post"
          \/ wr[w] < WrCount(k) /\ wr'[w] = wr[w] + 1 /\ PortOf(k, wr[w] + 1) # q /\ pc'[w] = "lane"
          \/ wr[w] = WrCount(k) /\ wr'[w] = 1 /\ pc'[w] = "wait"
  BY Zenon, <1>0, <1>1, <1>7, <1>8 DEF TypeOK
\* A WR after this one is on another lane as soon as the next one is.
<1>12. ASSUME wr[w] < WrCount(k), PortOf(k, wr[w] + 1) # q
       PROVE  \A n \in 1 .. WrCount(k) : PortOf(k, n) = q => n <= wr[w]
  <2>1. q <= PortOf(k, wr[w] + 1) /\ q \in Nat /\ PortOf(k, wr[w] + 1) \in Nat
    BY <1>1, <1>2, <1>12 DEF ThisPort
  <2>2. ASSUME NEW n \in 1 .. WrCount(k), n > wr[w]  PROVE PortOf(k, n) # q
    BY <1>1, <1>2, <1>12, <2>1, <2>2
  <2>. QED  BY <2>2, <1>1
<1>13. \A v \in Worker : (Position(v) /\ Holds(v) /\ Lost(v) /\ Slots(v))'
  <2>1. \A v \in Worker : v # w => (Position(v) /\ Holds(v) /\ Lost(v) /\ Slots(v))'
    BY Zenon, <1>0, <1>10, OthersKeep
  <2>2. Position(w)'
    <3>1. ASSUME pc'[w] = "lane", NEW m \in 1 .. wr[w]
          PROVE  PortOf(k, m) # PortOf(k, wr[w] + 1)
      <4>1. wr[w] < WrCount(k) /\ PortOf(k, wr[w] + 1) # q  BY ZenonT(30), <3>1, <1>11
      <4>2. PortOf(k, m) <= q /\ q <= PortOf(k, wr[w] + 1)
        BY <4>1, <1>1, <1>2 DEF ThisPort
      <4>3. {PortOf(k, m), q, PortOf(k, wr[w] + 1)} \subseteq Nat
        BY <4>1, <1>1, <1>2 DEF ThisPort
      <4>. QED  BY <4>1, <4>2, <4>3
    <3>. QED  BY SMTT(30), <3>1, <1>1, <1>7, <1>11 DEF Position, ThisPort
  <2>3. Holds(w)'
    <3>1. Carried(w) = 1 .. wr[w]  BY Zenon, <1>1 DEF Carried
    <3>2. pc'[w] # "post" => Carried(w)' = 1 .. wr[w]  BY Zenon, <1>1, <1>11 DEF Carried
    <3>3. pc'[w] = "post" => Carried(w)' = 1 .. wr[w] + 1  BY Zenon, <1>11 DEF Carried
    <3>4. ASSUME pc'[w] = "post", NEW p \in Port
          PROVE  (\E m \in 1 .. wr[w] + 1 : PortOf(k, m) = p)
                   <=> (\E m \in 1 .. wr[w] : PortOf(k, m) = p)
      BY <1>1, <1>11, <3>4 DEF ThisPort
    <3>. QED  BY ZenonT(30), <3>1, <3>2, <3>3, <3>4, <1>0, <1>7 DEF Holds
  <2>4. Lost(w)'  BY Zenon, <1>0, <1>1, <1>7 DEF Lost
  <2>5. Slots(w)'
    <3>1. ASSUME NEW n \in 1 .. MaxWr, event[w][n] # "none"
          PROVE  n <= WrCount(k) /\ (n <= wr[w] \/ PortOf(k, n) = q)
      BY Zenon, <3>1, <1>0, <1>1 DEF Slots
    <3>2. ASSUME NEW n \in 1 .. MaxWr, event[w][n] # "none", pc'[w] = "lane"
          PROVE  n < wr'[w]
      <4>1. wr[w] < WrCount(k) /\ PortOf(k, wr[w] + 1) # q /\ wr'[w] = wr[w] + 1
        BY ZenonT(30), <3>2, <1>11
      <4>2. n <= wr[w]  BY SMTT(30), <3>1, <3>2, <4>1, <1>1, <1>12
      <4>. QED  BY <4>1, <4>2, <1>1
    <3>3. ASSUME pc'[w] = "post", NEW n \in wr'[w] .. WrCount(k),
                 PortOf(k, n) = PortOf(k, wr'[w])
          PROVE  event[w][n] = "pending"
      BY <3>3, <1>0, <1>1, <1>11 DEF Slots, ThisPort
    <3>. QED  BY <3>1, <3>2, <3>3, <1>1, <1>7, <1>11 DEF Slots, ThisPort
  <2>. QED  BY Zenon, <2>1, <2>2, <2>3, <2>4, <2>5
<1>14. \A r \in wire' : OnWire(r)'
  <2>1. OnWire(new)'
    BY SMTT(30), <1>6, <1>1, <1>4, <1>7, <1>11 DEF OnWire, ThisPort
  <2>2. ASSUME NEW r \in wire  PROVE OnWire(r)'
    <3>1. r.worker \in Worker /\ r.wr \in 1 .. MaxWr  BY Zenon, <1>0 DEF TypeOK, WrRecord
    <3>2. OnWire(r)  BY ZenonT(30), <1>0
    <3>3. r.worker = w /\ r.round = round[w] => r.wr <= posted'[w]
      BY <3>1, <3>2, <1>1, <1>11 DEF OnWire
    <3>4. r.worker # w => posted'[r.worker] = posted[r.worker]
      BY ZenonT(30), <3>1, <1>10 DEF Same
    <3>. QED  BY Zenon, <3>1, <3>2, <3>3, <3>4, <1>7 DEF OnWire
  <2>. QED  BY ZenonT(30), <2>1, <2>2, <1>7
<1>15. Single'
  <2>1. ASSUME NEW r \in wire  PROVE ~(r.worker = w /\ r.round = round[w] /\ r.wr = wr[w])
    <3>1. r.worker = w /\ r.round = round[w] => r.wr <= posted[w]  BY ZenonT(30), <1>0 DEF OnWire
    <3>. QED  BY <3>1, <1>1
  <2>2. ASSUME NEW r \in wire', NEW s \in wire',
               r.worker = s.worker, r.round = s.round, r.wr = s.wr
        PROVE  r = s
    <3>1. (r \in wire \/ r = new) /\ (s \in wire \/ s = new)  BY Zenon, <1>7
    <3>2. r \in wire => s # new  BY Zenon, <2>1, <2>2, <1>6
    <3>3. s \in wire => r # new  BY Zenon, <2>1, <2>2, <1>6
    <3>4. r \in wire /\ s \in wire => r = s  BY Zenon, <2>2, <1>0 DEF Single
    <3>. QED  BY Zenon, <3>1, <3>2, <3>3, <3>4
  <2>. QED  BY Zenon, <2>2 DEF Single
<1>16. OneOwner'
  <2>1. OneOwner /\ jetty' = jetty /\ idle' = idle /\ lost' = lost  BY Zenon, <1>0, <1>7
  <2>2. \A v \in Worker, p \in Port, l \in Lane : Owns(v, p, l)' <=> Owns(v, p, l)
    BY Zenon, <2>1 DEF Owns
  <2>. QED  BY Zenon, <2>1, <2>2 DEF OneOwner
<1>. QED  BY ZenonT(30), <1>9, <1>13, <1>14, <1>15, <1>16 DEF RoundsInv

\* A lane given back has no owner; a quarantined one keeps its owner.
LEMMA LaneLeaves ==
  ASSUME TypeOK, OneOwner, NEW w \in Worker, NEW q \in Port,
         jetty[w][q] \in Lane, lost[w][q] = NoLane,
         ReleaseSendLane(w, q) \/ Quarantine(w, q)
  PROVE  /\ OneOwner'
         /\ jetty' \in [Worker -> [Port -> Lane \cup {NoLane}]]
         /\ lost' \in [Worker -> [Port -> Lane \cup {NoLane}]]
         /\ idle' \in [Port -> SUBSET Lane]
         /\ \A v \in Worker : v # w => jetty'[v] = jetty[v] /\ lost'[v] = lost[v]
         /\ \A p \in Port : jetty'[w][p] = IF p = q THEN NoLane ELSE jetty[w][p]
         /\ \A p \in Port \ {q} : lost'[w][p] = lost[w][p]
<1>. DEFINE l == jetty[w][q]
<1>1. /\ jetty' = [jetty EXCEPT ![w][q] = NoLane]
      /\ \/ idle' = [idle EXCEPT ![q] = @ \cup {l}] /\ lost' = lost
         \/ idle' = idle /\ lost' = [lost EXCEPT ![w][q] = l]
  BY Zenon DEF ReleaseSendLane, Quarantine
<1>2. /\ jetty \in [Worker -> [Port -> Lane \cup {NoLane}]]
      /\ lost \in [Worker -> [Port -> Lane \cup {NoLane}]]
      /\ idle \in [Port -> SUBSET Lane]
  BY Zenon DEF TypeOK
<1>3. \A v \in Worker, p \in Port : jetty'[v][p] = IF v = w /\ p = q THEN NoLane ELSE jetty[v][p]
  BY Zenon, <1>1, <1>2
<1>4. /\ jetty' \in [Worker -> [Port -> Lane \cup {NoLane}]]
      /\ lost' \in [Worker -> [Port -> Lane \cup {NoLane}]]
      /\ idle' \in [Port -> SUBSET Lane]
      /\ \A v \in Worker : v # w => jetty'[v] = jetty[v] /\ lost'[v] = lost[v]
      /\ \A p \in Port \ {q} : lost'[w][p] = lost[w][p]
  <2>1. jetty' \in [Worker -> [Port -> Lane \cup {NoLane}]]
    <3>1. [jetty[w] EXCEPT ![q] = NoLane] \in [Port -> Lane \cup {NoLane}]  BY Zenon, <1>2
    <3>. QED  BY Zenon, <3>1, <1>1, <1>2
  <2>2. lost' \in [Worker -> [Port -> Lane \cup {NoLane}]]
    <3>1. [lost[w] EXCEPT ![q] = l] \in [Port -> Lane \cup {NoLane}]  BY Zenon, <1>2
    <3>. QED  BY Zenon, <3>1, <1>1, <1>2
  <2>3. idle' \in [Port -> SUBSET Lane]  BY <1>1, <1>2
  <2>4. \A v \in Worker : v # w => jetty'[v] = jetty[v] /\ lost'[v] = lost[v]
    BY Zenon, <1>1, <1>2
  <2>5. \A p \in Port \ {q} : lost'[w][p] = lost[w][p]  BY <1>1, <1>2
  <2>. QED  BY Zenon, <2>1, <2>2, <2>3, <2>4, <2>5
<1>5. OneOwner'
  <2>1. CASE idle' = [idle EXCEPT ![q] = @ \cup {l}] /\ lost' = lost
    <3>1. ASSUME NEW p \in Port, NEW k \in Lane, NEW v \in Worker
          PROVE  Owns(v, p, k)' <=> Owns(v, p, k) /\ ~(p = q /\ k = l)
      <4>1. p = q /\ k = l /\ v # w => ~Owns(v, p, k)  BY DEF OneOwner, Owns
      <4>. QED  BY Zenon, <2>1, <4>1, <1>3, PoolAssumption DEF Owns
    <3>2. \A p \in Port : idle'[p] = IF p = q THEN idle[p] \cup {l} ELSE idle[p]
      BY Zenon, <2>1, <1>2
    <3>3. ASSUME NEW p \in Port, NEW k \in Lane
          PROVE  k \in idle'[p] <=> \A v \in Worker : ~Owns(v, p, k)'
      <4>1. k \in idle[p] <=> \A v \in Worker : ~Owns(v, p, k)  BY Zenon DEF OneOwner
      <4>2. CASE p = q /\ k = l  BY Zenon, <4>2, <3>1, <3>2
      <4>3. CASE ~(p = q /\ k = l)
        <5>1. \A v \in Worker : Owns(v, p, k)' <=> Owns(v, p, k)  BY Zenon, <4>3, <3>1
        <5>2. k \in idle'[p] <=> k \in idle[p]  BY Zenon, <4>3, <3>2
        <5>. QED  BY Zenon, <4>1, <5>1, <5>2
      <4>. QED  BY Zenon, <4>2, <4>3
    <3>. QED  BY Zenon, <3>1, <3>3 DEF OneOwner
  <2>2. CASE idle' = idle /\ lost' = [lost EXCEPT ![w][q] = l]
    <3>1. \A v \in Worker, p \in Port : lost'[v][p] = IF v = w /\ p = q THEN l ELSE lost[v][p]
      BY Zenon, <2>2, <1>2
    <3>2. ASSUME NEW p \in Port, NEW k \in Lane, NEW v \in Worker
          PROVE  Owns(v, p, k)' <=> Owns(v, p, k)
      BY Zenon, <3>1, <1>3, PoolAssumption DEF Owns
    <3>. QED  BY Zenon, <2>2, <3>2 DEF OneOwner
  <2>. QED  BY Zenon, <1>1, <2>1, <2>2
<1>. QED  BY Zenon, <1>3, <1>4, <1>5
==============================================================================
