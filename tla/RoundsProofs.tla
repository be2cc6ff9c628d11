---------------------------- MODULE RoundsProofs ----------------------------
(***************************************************************************)
(* Proofs about module Rounds: for every number of threads, ports, lanes   *)
(* and rounds, a lane in a pool is quiet, no pool runs dry, and a round    *)
(* leaves nothing behind.                                                  *)
(***************************************************************************)
EXTENDS RoundsInvariant, FiniteSetTheorems

\* A refused WR gives up its own event and the later ones of its lane, and its
\* lane if no WR of the round is on it.
LEMMA PostRejectedKeeps ==
  ASSUME RoundsInv, NEW w \in Worker, PostRejected(w)
  PROVE  RoundsInv'
<1>. DEFINE q == ThisPort(w)
            k == kind[w]
<1>0. /\ TypeOK /\ Single /\ OneOwner /\ \A r \in wire : OnWire(r)
      /\ \A v \in Worker : Position(v) /\ Holds(v) /\ Lost(v) /\ Slots(v)
  BY Zenon DEF RoundsInv
<1>1. /\ pc[w] = "post" /\ k \in Kind /\ wr[w] \in 1 .. WrCount(k) /\ wr[w] \in Nat
      /\ posted[w] = wr[w] - 1 /\ q \in Port /\ WrCount(k) \in 1 .. MaxWr
      /\ round[w] >= 1
      /\ \A m, n \in 1 .. WrCount(k) : m <= n => PortOf(k, m) <= PortOf(k, n)
      /\ \A n \in 1 .. WrCount(k) : PortOf(k, n) \in Nat
  <2>1. pc[w] = "post" /\ k \in Kind /\ wr[w] \in 1 .. MaxWr + 1
    BY Zenon, <1>0 DEF PostRejected, TypeOK
  <2>. QED  BY <1>0, <2>1, Shape, MaxWrNat DEF Position, ThisPort, Port
<1>2. jetty[w][q] \in Lane /\ \A p \in Port : lost[w][p] = NoLane
  <2>1. jetty[w][q] # NoLane  BY <1>0, <1>1 DEF Holds, Carried, ThisPort
  <2>2. jetty[w][q] \in Lane  BY <1>0, <1>1, <2>1 DEF TypeOK
  <2>. QED  BY Zenon, <1>0, <1>1, <2>2 DEF Lost
<1>3. /\ wr' = [wr EXCEPT ![w] = 1] /\ pc' = [pc EXCEPT ![w] = "wait"]
      /\ UNCHANGED <<mode, kind, round, posted, good, wire, fatal, stats>>
      /\ event' = [event EXCEPT ![w] =
                     [n \in 1 .. MaxWr |-> IF n >= wr[w] THEN "none" ELSE @[n]]]
      /\ \/ posted[w] \in OnPort(k, q) /\ UNCHANGED <<jetty, idle, lost>>
         \/ posted[w] \notin OnPort(k, q) /\ ReleaseSendLane(w, q)
  BY Zenon DEF PostRejected, Goto
\* Whether the lane is kept: it carries the last WR posted if it carries any.
<1>4. /\ OneOwner' /\ jetty' \in [Worker -> [Port -> Lane \cup {NoLane}]]
      /\ idle' \in [Port -> SUBSET Lane] /\ lost' = lost
      /\ \A v \in Worker : v # w => jetty'[v] = jetty[v]
      /\ \A p \in Port : jetty'[w][p] =
           IF p = q /\ posted[w] \notin OnPort(k, q) THEN NoLane ELSE jetty[w][p]
  <2>1. CASE posted[w] \in OnPort(k, q) /\ UNCHANGED <<jetty, idle, lost>>
    BY SMTT(30), <1>0, <2>1 DEF OneOwner, Owns, TypeOK
  <2>2. CASE posted[w] \notin OnPort(k, q) /\ ReleaseSendLane(w, q)
    <3>1. lost' = lost  BY Zenon, <2>2 DEF ReleaseSendLane
    <3>. QED  BY <2>2, <3>1, <1>0, <1>1, <1>2, LaneLeaves
  <2>. QED  BY Zenon, <1>3, <2>1, <2>2
<1>5. (\E m \in 1 .. posted[w] : PortOf(k, m) = q) <=> posted[w] \in OnPort(k, q)
  <2>1. ASSUME NEW m \in 1 .. posted[w], PortOf(k, m) = q
        PROVE  posted[w] \in OnPort(k, q)
    <3>1. /\ PortOf(k, m) <= PortOf(k, posted[w])
          /\ PortOf(k, posted[w]) <= PortOf(k, wr[w])
          /\ posted[w] \in 1 .. WrCount(k)
      BY <1>1
    <3>. QED  BY <1>1, <2>1, <3>1 DEF OnPort, ThisPort
  <2>. QED  BY <2>1, <1>1 DEF OnPort
<1>6. /\ pc'[w] = "wait" /\ wr'[w] = 1
      /\ \A v \in Worker : v # w => event'[v] = event[v] /\ pc'[v] = pc[v] /\ wr'[v] = wr[v]
      /\ \A n \in 1 .. MaxWr : event'[w][n] = IF n >= wr[w] THEN "none" ELSE event[w][n]
  BY Zenon, <1>0, <1>3 DEF TypeOK
<1>7. TypeOK'
  <2>1. event' \in [Worker -> [1 .. MaxWr -> {"none", "pending", "ok", "fail"}]]
    BY Zenon, <1>0, <1>3 DEF TypeOK
  <2>2. wr' \in [Worker -> 1 .. MaxWr + 1]  BY <1>0, <1>3, MaxWrNat DEF TypeOK
  <2>. QED  BY Zenon, <2>1, <2>2, <1>0, <1>3, <1>4 DEF TypeOK, stats
<1>8. \A v \in Worker : (Position(v) /\ Holds(v) /\ Lost(v) /\ Slots(v))'
  <2>1. \A v \in Worker : v # w => Same(v)  BY Zenon, <1>3, <1>4, <1>6 DEF Same
  <2>2. \A v \in Worker : v # w => (Position(v) /\ Holds(v) /\ Lost(v) /\ Slots(v))'
    BY Zenon, <2>1, <1>0, OthersKeep
  <2>3. Position(w)'  BY <1>1, <1>3, <1>6 DEF Position
  <2>4. Holds(w)'
    <3>1. Carried(w) = 1 .. wr[w] /\ Carried(w)' = 1 .. posted[w]
      BY Zenon, <1>1, <1>3, <1>6 DEF Carried
    <3>2. ASSUME NEW p \in Port
          PROVE  jetty'[w][p] # NoLane <=> \E m \in 1 .. posted[w] : PortOf(k, m) = p
      <4>1. jetty[w][p] # NoLane <=> \E m \in 1 .. wr[w] : PortOf(k, m) = p
        BY Zenon, <1>0, <3>1 DEF Holds
      <4>2. CASE p = q  BY Zenon, <4>2, <1>2, <1>4, <1>5, PoolAssumption
      <4>3. CASE p # q
        <5>1. (\E m \in 1 .. wr[w] : PortOf(k, m) = p)
                <=> (\E m \in 1 .. posted[w] : PortOf(k, m) = p)
          BY <4>3, <1>1 DEF ThisPort
        <5>. QED  BY Zenon, <4>1, <4>3, <5>1, <1>4
      <4>. QED  BY Zenon, <4>2, <4>3
    <3>. QED  BY Zenon, <3>1, <3>2, <1>3 DEF Holds
  <2>5. Lost(w)'  BY Zenon, <1>2, <1>4 DEF Lost
  <2>6. Slots(w)'
    <3>1. ASSUME NEW n \in 1 .. MaxWr, event'[w][n] # "none"
          PROVE  n \in 1 .. posted[w]
      BY <3>1, <1>1, <1>6
    <3>. QED  BY Zenon, <3>1, <1>3, <1>6 DEF Slots
  <2>. QED  BY Zenon, <2>2, <2>3, <2>4, <2>5, <2>6
<1>9. \A r \in wire' : OnWire(r)'
  <2>1. ASSUME NEW r \in wire  PROVE OnWire(r)'
    <3>1. /\ r.worker \in Worker /\ r.port \in Port /\ r.wr \in 1 .. MaxWr /\ r.lane \in Lane
          /\ OnWire(r)
      BY Zenon, <1>0 DEF TypeOK, WrRecord
    <3>2. event'[r.worker][r.wr] \in {event[r.worker][r.wr], "none"}
      BY Zenon, <3>1, <1>6
    <3>3. jetty[r.worker][r.port] = r.lane /\ r.round = round[r.worker]
            /\ r.wr <= WrCount(kind[r.worker]) /\ PortOf(kind[r.worker], r.wr) = r.port
            => jetty'[r.worker][r.port] = r.lane
      <4>1. CASE r.worker = w /\ r.port = q
        BY <4>1, <3>1, <1>4, <1>5 DEF OnWire
      <4>2. CASE ~(r.worker = w /\ r.port = q)  BY Zenon, <4>2, <3>1, <1>4
      <4>. QED  BY Zenon, <4>1, <4>2
    <3>. QED  BY Zenon, <3>1, <3>2, <3>3, <1>3, <1>4 DEF OnWire
  <2>. QED  BY Zenon, <2>1, <1>3
<1>10. Single'  BY Zenon, <1>0, <1>3 DEF Single
<1>. QED  BY Zenon, <1>4, <1>7, <1>8, <1>9, <1>10 DEF RoundsInv


\* A settled lane goes back only if all WRs it carried were seen to succeed;
\* otherwise the round cannot succeed any more.
LEMMA SettleKeeps ==
  ASSUME RoundsInv, NEW w \in Worker, Settle(w)
  PROVE  RoundsInv'
<1>. DEFINE q == ThisPort(w)
            k == kind[w]
<1>0. /\ TypeOK /\ Single /\ OneOwner /\ \A r \in wire : OnWire(r)
      /\ \A v \in Worker : Position(v) /\ Holds(v) /\ Lost(v) /\ Slots(v)
  BY Zenon DEF RoundsInv
<1>1. /\ pc[w] = "settle" /\ k \in Kind /\ wr[w] \in 1 .. posted[w] /\ posted[w] \in Nat
      /\ posted[w] <= WrCount(k) /\ WrCount(k) \in 1 .. MaxWr /\ wr[w] \in Nat
      /\ wr[w] < posted[w] => PortOf(k, wr[w] + 1) # q
      /\ round[w] >= 1 /\ wr[w] \in 1 .. MaxWr /\ q \in Port
      /\ \A m, n \in 1 .. WrCount(k) : m <= n => PortOf(k, m) <= PortOf(k, n)
      /\ \A n \in 1 .. WrCount(k) : PortOf(k, n) \in Nat
  <2>1. /\ pc[w] = "settle" /\ k \in Kind /\ wr[w] \in 1 .. MaxWr + 1
        /\ posted[w] \in 0 .. MaxWr
    BY Zenon, <1>0 DEF Settle, TypeOK
  <2>. QED  BY <1>0, <2>1, Shape, MaxWrNat DEF Position, ThisPort, Port
<1>2. jetty[w][q] \in Lane /\ lost[w][q] = NoLane
  <2>1. jetty[w][q] # NoLane  BY <1>0, <1>1 DEF Holds, Carried, ThisPort
  <2>. QED  BY <1>0, <1>1, <2>1 DEF TypeOK, Lost
<1>3. /\ wr' = [wr EXCEPT ![w] = wr[w] + 1] /\ pc' = [pc EXCEPT ![w] = "wait"]
      /\ UNCHANGED <<mode, kind, round, posted, good, event, wire, fatal, stats>>
      /\ \/ ToSettle(w) \subseteq good[w] /\ ReleaseSendLane(w, q)
         \/ ~(ToSettle(w) \subseteq good[w]) /\ Quarantine(w, q)
  BY Zenon DEF Settle, Goto
<1>4. /\ OneOwner'
      /\ jetty' \in [Worker -> [Port -> Lane \cup {NoLane}]]
      /\ lost' \in [Worker -> [Port -> Lane \cup {NoLane}]]
      /\ idle' \in [Port -> SUBSET Lane]
      /\ \A v \in Worker : v # w => jetty'[v] = jetty[v] /\ lost'[v] = lost[v]
      /\ \A p \in Port : jetty'[w][p] = IF p = q THEN NoLane ELSE jetty[w][p]
      /\ \A p \in Port \ {q} : lost'[w][p] = lost[w][p]
  BY ZenonT(30), <1>0, <1>1, <1>2, <1>3, LaneLeaves
<1>5. \/ ToSettle(w) \subseteq good[w] /\ lost' = lost
      \/ ~(ToSettle(w) \subseteq good[w]) /\ lost'[w][q] = jetty[w][q]
  BY <1>0, <1>1, <1>3 DEF ReleaseSendLane, Quarantine, TypeOK
<1>6. /\ pc'[w] = "wait" /\ wr'[w] = wr[w] + 1
      /\ \A v \in Worker : v # w => Same(v)
  BY ZenonT(30), <1>0, <1>3, <1>4 DEF TypeOK, Same
\* The lane carries no WR after the one just waited for.
<1>7. \A n \in 1 .. posted[w] : PortOf(k, n) = q => n <= wr[w]
  <2>1. ASSUME NEW n \in 1 .. posted[w], n > wr[w]  PROVE PortOf(k, n) # q
    <3>1. /\ q <= PortOf(k, wr[w] + 1) /\ PortOf(k, wr[w] + 1) <= PortOf(k, n)
          /\ PortOf(k, wr[w] + 1) # q
      BY <1>1, <2>1 DEF ThisPort
    <3>2. {q, PortOf(k, wr[w] + 1), PortOf(k, n)} \subseteq Nat
      BY <1>1, <2>1 DEF ThisPort
    <3>. QED  BY <3>1, <3>2
  <2>. QED  BY <2>1, <1>1
<1>8. TypeOK'
  <2>1. wr' \in [Worker -> 1 .. MaxWr + 1]
    <3>1. wr[w] + 1 \in 1 .. MaxWr + 1  BY <1>1, MaxWrNat
    <3>. QED  BY Zenon, <3>1, <1>0, <1>3 DEF TypeOK
  <2>2. pc' \in [Worker -> {"loop", "lane", "post", "wait", "settle", "done"}]
    BY SMTT(30), <1>0, <1>3 DEF TypeOK
  <2>. QED  BY Zenon, <2>1, <2>2, <1>0, <1>3, <1>4 DEF TypeOK, stats
<1>9. \A v \in Worker : (Position(v) /\ Holds(v) /\ Lost(v) /\ Slots(v))'
  <2>1. \A v \in Worker : v # w => (Position(v) /\ Holds(v) /\ Lost(v) /\ Slots(v))'
    BY ZenonT(30), <1>0, <1>6, OthersKeep
  <2>2. Position(w)'  BY SMTT(30), <1>1, <1>3, <1>6 DEF Position
  <2>3. Holds(w)'
    <3>1. Carried(w) = wr[w] .. posted[w] /\ Carried(w)' = wr[w] + 1 .. posted[w]
      BY Zenon, <1>1, <1>3, <1>6 DEF Carried
    <3>2. ASSUME NEW p \in Port
          PROVE  jetty'[w][p] # NoLane <=> \E m \in wr[w] + 1 .. posted[w] : PortOf(k, m) = p
      <4>1. jetty[w][p] # NoLane <=> \E m \in wr[w] .. posted[w] : PortOf(k, m) = p
        BY Zenon, <1>0, <3>1 DEF Holds
      <4>2. CASE p = q  BY <4>2, <1>1, <1>4, <1>7
      <4>3. CASE p # q
        <5>1. (\E m \in wr[w] .. posted[w] : PortOf(k, m) = p)
                <=> (\E m \in wr[w] + 1 .. posted[w] : PortOf(k, m) = p)
          BY SMTT(30), <4>3, <1>1 DEF ThisPort
        <5>. QED  BY ZenonT(30), <4>1, <4>3, <5>1, <1>4
      <4>. QED  BY Zenon, <4>2, <4>3
    <3>. QED  BY Zenon, <3>1, <3>2, <1>3 DEF Holds
  <2>4. Lost(w)'
    <3>1. ASSUME NEW p \in Port, lost'[w][p] # NoLane
          PROVE  jetty'[w][p] = NoLane /\ \E n \in 1 .. wr[w] : n \notin good[w]
      <4>1. CASE p = q
        <5>1. PICK n \in ToSettle(w) : n \notin good[w]
          BY ZenonT(30), <3>1, <4>1, <1>2, <1>5
        <5>2. n \in 1 .. posted[w] /\ PortOf(k, n) = q
          BY SMTT(30), <5>1, <1>1 DEF ToSettle, OnPort
        <5>. QED  BY <4>1, <5>1, <5>2, <1>1, <1>4, <1>7
      <4>2. CASE p # q
        <5>1. lost[w][p] # NoLane  BY Zenon, <3>1, <4>2, <1>4
        <5>2. jetty[w][p] = NoLane /\ \E n \in 1 .. wr[w] - 1 : n \notin good[w]
          BY Zenon, <5>1, <1>0, <1>1 DEF Lost
        <5>. QED  BY SMTT(30), <4>2, <5>2, <1>1, <1>4
      <4>. QED  BY ZenonT(30), <4>1, <4>2
    <3>. QED  BY <3>1, <1>1, <1>3, <1>6 DEF Lost
  <2>5. Slots(w)'
    <3>1. ASSUME NEW n \in 1 .. MaxWr, event[w][n] # "none"
          PROVE  n \in wr[w] + 1 .. posted[w]
      BY Zenon, <3>1, <1>0, <1>1 DEF Slots
    <3>. QED  BY Zenon, <3>1, <1>3, <1>6 DEF Slots
  <2>. QED  BY Zenon, <2>1, <2>2, <2>3, <2>4, <2>5
<1>10. \A r \in wire' : OnWire(r)'
  <2>1. ASSUME NEW r \in wire  PROVE OnWire(r)'
    <3>1. /\ r.worker \in Worker /\ r.port \in Port /\ r.wr \in 1 .. MaxWr /\ r.lane \in Lane
          /\ OnWire(r)
      BY Zenon, <1>0 DEF TypeOK, WrRecord
    <3>2. CASE r.worker # w  BY Zenon, <3>1, <3>2, <1>6, OthersWireKeeps
    <3>3. CASE r.worker = w /\ r.port # q
      BY Zenon, <3>1, <3>3, <1>3, <1>4 DEF OnWire
    <3>4. CASE r.worker = w /\ r.port = q
      <4>1. /\ jetty[w][q] = r.lane /\ r.round = round[w] /\ r.wr \notin good[w]
            /\ r.wr \in ToSettle(w)
        BY <3>1, <3>4, <1>1, <1>2, PoolAssumption DEF OnWire, ToSettle, OnPort
      <4>2. lost'[w][q] = r.lane  BY Zenon, <4>1, <1>5
      <4>. QED  BY ZenonT(30), <3>1, <3>4, <4>2, <1>3 DEF OnWire
    <3>. QED  BY Zenon, <3>2, <3>3, <3>4
  <2>. QED  BY Zenon, <2>1, <1>3
<1>11. Single'  BY Zenon, <1>0, <1>3 DEF Single
<1>. QED  BY ZenonT(30), <1>4, <1>8, <1>9, <1>10, <1>11 DEF RoundsInv
-----------------------------------------------------------------------------
(***************************************************************************)
(* The theorems.                                                           *)
(***************************************************************************)

\* The invariant holds at the start: every lane is in its pool.
LEMMA InitHolds == Init => RoundsInv
<1>. SUFFICES ASSUME Init  PROVE RoundsInv  OBVIOUS
<1>1. TypeOK
  <2>1. off \in [Worker -> 0 .. threads - 1]  BY Zenon DEF Init, Worker
  <2>2. 1 \in 1 .. MaxWr + 1 /\ 0 \in 0 .. MaxWr /\ 0 \in 0 .. MaxRounds
    BY MaxWrNat, CountAssumption
  <2>3. /\ jetty \in [Worker -> [Port -> Lane \cup {NoLane}]]
        /\ lost \in [Worker -> [Port -> Lane \cup {NoLane}]]
        /\ event \in [Worker -> [1 .. MaxWr -> {"none", "pending", "ok", "fail"}]]
    BY Zenon DEF Init
  <2>. QED  BY Zenon, <2>1, <2>2, <2>3 DEF Init, TypeOK, Kind
<1>2. \A w \in Worker : Position(w) /\ Holds(w) /\ Lost(w) /\ Slots(w)
  BY ZenonT(30) DEF Init, Position, Holds, Carried, Lost, Slots
<1>3. Single /\ \A r \in wire : OnWire(r)  BY Zenon DEF Init, Single
<1>4. OneOwner  BY Zenon, PoolAssumption DEF Init, OneOwner, Owns
<1>. QED  BY Zenon, <1>1, <1>2, <1>3, <1>4 DEF RoundsInv

\* The invariant holds in every behaviour of the rounds.
THEOREM Invariance == Spec => []RoundsInv
<1>1. RoundsInv /\ [Next]_vars => RoundsInv'
  <2>. SUFFICES ASSUME RoundsInv, [Next]_vars  PROVE RoundsInv'  OBVIOUS
  <2>1. ASSUME NEW w \in Worker, Step(w)  PROVE RoundsInv'
    BY ZenonT(30), <2>1, BeginRoundKeeps, LeaveLoopKeeps, AcquireKeeps, PostKeeps, PostRejectedKeeps,
       WaitEventKeeps, SettleKeeps, RoundEndKeeps DEF Step
  <2>2. ASSUME NEW r \in wire, NEW status \in {"ok", "fail"}, Complete(r, status)
        PROVE  RoundsInv'
    BY ZenonT(30), <2>2, CompleteKeeps
  <2>3. CASE UNCHANGED vars
    BY <2>3 DEF vars, stats, RoundsInv, TypeOK, Position, Holds, Carried, Lost, Slots, OnWire,
                Single, OneOwner, Owns, ThisPort
  <2>. QED  BY Zenon, <2>1, <2>2, <2>3 DEF Next, AllDone
<1>. QED  BY <1>1, InitHolds, PTL DEF Spec

\* Whatever the timeouts, refusals and late completions, an idle lane carries
\* no WR: the lane of an outstanding WR has an owner.
THEOREM IdleLanesAreQuiet == Spec => []IdleLaneQuiet
<1>1. RoundsInv => IdleLaneQuiet
  <2>. SUFFICES ASSUME RoundsInv, NEW r \in wire  PROVE r.lane \notin idle[r.port]
    BY Zenon DEF IdleLaneQuiet
  <2>1. r.worker \in Worker /\ r.port \in Port /\ r.lane \in Lane
    BY Zenon DEF RoundsInv, TypeOK, WrRecord
  <2>2. Owns(r.worker, r.port, r.lane)  BY Zenon DEF RoundsInv, OnWire, Owns
  <2>. QED  BY Zenon, <2>1, <2>2 DEF RoundsInv, OneOwner
<1>. QED  BY <1>1, Invariance, PTL

\* A pool as large as the number of threads never runs dry: the other workers
\* have at most one of its lanes each, held or lost, and the one that asks has
\* none.
THEOREM PoolsSuffice == Spec => []LanesSuffice
<1>1. RoundsInv => LanesSuffice
  <2>. SUFFICES ASSUME RoundsInv, NEW w \in Worker, pc[w] = "lane", idle[ThisPort(w)] = {}
                PROVE  FALSE
    BY Zenon DEF LanesSuffice, RoundsInv
  <2>. DEFINE q == ThisPort(w)
              of(v) == IF jetty[v][q] # NoLane THEN jetty[v][q] ELSE lost[v][q]
              Others == Worker \ {w}
  <2>1. /\ TypeOK /\ OneOwner /\ Position(w) /\ Holds(w) /\ Lost(w)
        /\ \A v \in Worker : Lost(v)
    BY Zenon DEF RoundsInv
  <2>2. q \in Port
    <3>1. kind[w] \in Kind /\ wr[w] \in 1 .. WrCount(kind[w])
      <4>1. kind[w] \in Kind /\ wr[w] \in 1 .. MaxWr + 1  BY Zenon, <2>1 DEF TypeOK
      <4>. QED  BY <4>1, <2>1, MaxWrNat, Shape DEF Position
    <3>. QED  BY Zenon, <3>1, Shape DEF ThisPort
  <2>3. jetty[w][q] = NoLane /\ lost[w][q] = NoLane
    BY Zenon, <2>1, <2>2 DEF Position, Holds, Carried, Lost
  <2>4. \A l \in Lane : \E v \in Others : of(v) = l
    <3>1. ASSUME NEW l \in Lane  PROVE \E v \in Others : of(v) = l
      <4>1. PICK v \in Worker : Owns(v, q, l)  BY Zenon, <2>1, <2>2 DEF OneOwner
      <4>2. v # w  BY Zenon, <4>1, <2>3, PoolAssumption DEF Owns
      <4>3. of(v) = l  BY Zenon, <4>1, <2>1, <2>2, PoolAssumption DEF Owns, Lost
      <4>. QED  BY Zenon, <4>2, <4>3
    <3>. QED  BY Zenon, <3>1
  <2>5. IsFiniteSet(Worker) /\ Cardinality(Worker) = threads
    BY CountAssumption, FS_Interval DEF Worker
  <2>6. IsFiniteSet(Others) /\ Cardinality(Others) = threads - 1
    BY Zenon, <2>5, FS_RemoveElement
  <2>. DEFINE Owners == {v \in Others : of(v) \in Lane}
              f == [v \in Owners |-> of(v)]
  <2>7. f \in Surjection(Owners, Lane)  BY Zenon, <2>4 DEF Surjection
  <2>8. IsFiniteSet(Owners) /\ Cardinality(Owners) <= threads - 1
    BY Zenon, <2>6, FS_Subset
  <2>. HIDE DEF f, Owners
  <2>9. Cardinality(Lane) <= Cardinality(Owners)  BY Zenon, <2>7, <2>8, FS_Surjection
  <2>10. Cardinality(Owners) \in Nat /\ Cardinality(Lane) \in Nat
    BY Zenon, <2>8, PoolAssumption, FS_CardinalityType
  <2>. QED  BY <2>8, <2>9, <2>10, PoolAssumption, CountAssumption
<1>. QED  BY <1>1, Invariance, PTL

\* No path through a round leaks an event slot or a lane.
THEOREM NothingLeaks == Spec => []RoundLeavesNothing
<1>1. RoundsInv => RoundLeavesNothing
  BY Zenon DEF RoundsInv, RoundLeavesNothing, Slots, Holds, Carried
<1>. QED  BY <1>1, Invariance, PTL
=============================================================================
