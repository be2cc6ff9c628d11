------------------------------- MODULE Rounds -------------------------------
(***************************************************************************)
(* The synchronous rounds of mixed mode (the loop of client_worker_main,   *)
(* client_do_write and client_do_get of src/kv_bench.cpp) and of           *)
(* dual-device mode (dual_worker_main).  A round posts its WRs one after   *)
(* the other and then waits for each of them with a timeout.               *)
(*                                                                         *)
(* A write round of mixed mode posts two WRs on one lane of the one pool,  *)
(* a get round one; a dual round posts one WR on every port, each port     *)
(* having a manager, a pool and events of its own.  A lane with a WR whose *)
(* outcome is unknown is not given back ("quarantined"), and the first     *)
(* round that fails stops every worker.                                    *)
(***************************************************************************)
EXTENDS Integers, Sequences, FiniteSets

CONSTANTS
  Modes,         (* the modes that are tried                           *)
  threads, DUAL_PORTS,
  Lane, NoLane,  (* the lanes of a pool                                *)
  MaxRounds      (* bound: a worker begins no more rounds than this    *)

ASSUME ModeAssumption == Modes \subseteq {"mixed", "dual"}
ASSUME CountAssumption ==
  threads \in Nat \ {0} /\ DUAL_PORTS \in Nat \ {0} /\ MaxRounds \in Nat
\* run_client and run_dual_client make a pool at least as large as the number
\* of threads.
ASSUME PoolAssumption ==
  IsFiniteSet(Lane) /\ NoLane \notin Lane /\ Cardinality(Lane) >= threads

Worker == 0 .. threads - 1
Port == 1 .. DUAL_PORTS
Kind == {"write", "get", "dual"}

\* The ports the WRs of a round go to, in the order they are posted.
WritePorts == <<1, 1>>
GetPorts == <<1>>
DualPorts == [n \in 1 .. DUAL_PORTS |-> n]

PortsOf(k) ==
  CASE k = "write" -> WritePorts [] k = "get" -> GetPorts [] k = "dual" -> DualPorts
WrCount(k) == Len(PortsOf(k))
PortOf(k, n) == PortsOf(k)[n]
MaxWr == DUAL_PORTS + 1
OnPort(k, q) == {n \in 1 .. WrCount(k) : PortOf(k, n) = q}

VARIABLES
  mode,
  pc, kind,      (* per worker: position, and kind of the current round   *)
  round,         (* per worker: rounds begun                              *)
  wr,            (* per worker: the WR that is posted or waited for       *)
  posted,        (* per worker: WRs the post calls of the round accepted  *)
  good,          (* per worker: WRs whose WaitEvent returned true         *)
  jetty,         (* per worker and port: the lane of the round            *)
  event,         (* per worker and WR: "none", "pending", "ok" or "fail"  *)
  off,           (* per worker: in dual mode, the slice of the buffer     *)
  idle,          (* per port: the pool's idle lanes                       *)
  lost,          (* per worker and port: history, the quarantined lane    *)
  wire,          (* posted WRs that are not completed yet                 *)
  fatal,
  ops, errors    (* per worker: the counters                              *)

stats == <<off, ops, errors>>
vars == <<mode, pc, kind, round, wr, posted, good, jetty, event, idle, lost, wire, fatal,
          stats>>

Init ==
  /\ mode \in Modes
  /\ pc = [w \in Worker |-> "loop"]
  /\ kind = [w \in Worker |-> "get"]
  /\ round = [w \in Worker |-> 0]
  /\ wr = [w \in Worker |-> 1]
  /\ posted = [w \in Worker |-> 0]
  /\ good = [w \in Worker |-> {}]
  /\ jetty = [w \in Worker |-> [q \in Port |-> NoLane]]
  /\ event = [w \in Worker |-> [n \in 1 .. MaxWr |-> "none"]]
  /\ off = [w \in Worker |-> w]
  /\ idle = [q \in Port |-> Lane]
  /\ lost = [w \in Worker |-> [q \in Port |-> NoLane]]
  /\ wire = {}
  /\ fatal = FALSE
  /\ ops = [w \in Worker |-> 0] /\ errors = [w \in Worker |-> 0]

Goto(w, label) == pc' = [pc EXCEPT ![w] = label]
ThisPort(w) == PortOf(kind[w], wr[w])
-----------------------------------------------------------------------------
\* The head of the loop; in mixed mode mixed_ratio decides what follows.
BeginRound(w) ==
  /\ pc[w] = "loop" /\ ~fatal /\ round[w] < MaxRounds
  /\ \E k \in IF mode = "dual" THEN {"dual"} ELSE {"write", "get"} :
       kind' = [kind EXCEPT ![w] = k]
  /\ round' = [round EXCEPT ![w] = @ + 1]
  /\ wr' = [wr EXCEPT ![w] = 1]
  /\ posted' = [posted EXCEPT ![w] = 0]
  /\ good' = [good EXCEPT ![w] = {}]
  /\ Goto(w, "lane")
  /\ UNCHANGED <<mode, jetty, event, idle, lost, wire, fatal, stats>>

\* fatal is set or the deadline has passed.
LeaveLoop(w) ==
  /\ pc[w] = "loop"
  /\ Goto(w, "done")
  /\ UNCHANGED <<mode, kind, round, wr, posted, good, jetty, event, idle, lost, wire, fatal,
                 stats>>

\* AcquireSendLane, and PostEvent for every WR of this lane.  The branches for
\* an exhausted pool and for exhausted events are dead: LanesSuffice, and
\* RoundLeavesNothing with 256 events to a worker.
Acquire(w) ==
  LET q == ThisPort(w) IN
  /\ pc[w] = "lane"
  /\ \E l \in idle[q] :
       /\ idle' = [idle EXCEPT ![q] = @ \ {l}]
       /\ jetty' = [jetty EXCEPT ![w][q] = l]
  /\ event' = [event EXCEPT ![w] =
       [n \in 1 .. MaxWr |-> IF n \in OnPort(kind[w], q) THEN "pending" ELSE @[n]]]
  /\ Goto(w, "post")
  /\ UNCHANGED <<mode, kind, round, wr, posted, good, lost, wire, fatal, stats>>

\* PostWrite or PostRead accepts the WR.
Post(w) ==
  /\ pc[w] = "post"
  /\ wire' = wire \cup {[worker |-> w, round |-> round[w], wr |-> wr[w],
                         port |-> ThisPort(w), lane |-> jetty[w][ThisPort(w)]]}
  /\ posted' = [posted EXCEPT ![w] = @ + 1]
  /\ IF wr[w] < WrCount(kind[w])
     THEN /\ wr' = [wr EXCEPT ![w] = @ + 1]
          /\ Goto(w, IF PortOf(kind[w], wr[w] + 1) = ThisPort(w) THEN "post" ELSE "lane")
     ELSE wr' = [wr EXCEPT ![w] = 1] /\ Goto(w, "wait")
  /\ UNCHANGED <<mode, kind, round, good, jetty, event, idle, lost, fatal, stats>>

\* The lane goes back to the pool, or stays out of it for good.
ReleaseSendLane(w, q) ==
  /\ idle' = [idle EXCEPT ![q] = @ \cup {jetty[w][q]}]
  /\ jetty' = [jetty EXCEPT ![w][q] = NoLane]
  /\ UNCHANGED lost

Quarantine(w, q) ==
  /\ lost' = [lost EXCEPT ![w][q] = jetty[w][q]]
  /\ jetty' = [jetty EXCEPT ![w][q] = NoLane]
  /\ UNCHANGED idle

\* Mutant: the event of the rejected WR is not aborted.
PostRejectedKeepsEvent(w) ==
  LET q == ThisPort(w) IN
  /\ pc[w] = "post"
  /\ IF posted[w] \in OnPort(kind[w], q) THEN UNCHANGED <<jetty, idle, lost>>
                                         ELSE ReleaseSendLane(w, q)
  /\ wr' = [wr EXCEPT ![w] = 1]
  /\ Goto(w, "wait")
  /\ UNCHANGED <<mode, kind, round, posted, good, event, wire, fatal, stats>>

\* The WR is rejected: its event and those of WRs to come are aborted, the
\* lane is given back unless it carries a WR of this round already, and what
\* was posted is waited for.
PostRejected(w) ==
  LET q == ThisPort(w) IN
  /\ pc[w] = "post"
  /\ event' = [event EXCEPT ![w] = [n \in 1 .. MaxWr |-> IF n >= wr[w] THEN "none" ELSE @[n]]]
  /\ IF posted[w] \in OnPort(kind[w], q) THEN UNCHANGED <<jetty, idle, lost>>
                                         ELSE ReleaseSendLane(w, q)
  /\ wr' = [wr EXCEPT ![w] = 1]
  /\ Goto(w, "wait")
  /\ UNCHANGED <<mode, kind, round, posted, good, wire, fatal, stats>>

\* WaitEvent takes a verdict, or gives up when the time is over and aborts the
\* event, also one that completed just before the abort.  Either way the event
\* is gone; only a success that was seen returns true.  After the last posted
\* WR of a lane the lane is settled.
WaitEvent(w) ==
  /\ pc[w] = "wait" /\ wr[w] <= posted[w]
  /\ event' = [event EXCEPT ![w][wr[w]] = "none"]
  /\ \/ event[w][wr[w]] = "ok" /\ good' = [good EXCEPT ![w] = @ \cup {wr[w]}]
     \/ UNCHANGED good
  /\ IF wr[w] < posted[w] /\ PortOf(kind[w], wr[w] + 1) = ThisPort(w)
     THEN wr' = [wr EXCEPT ![w] = @ + 1] /\ UNCHANGED pc
     ELSE Goto(w, "settle") /\ UNCHANGED wr
  /\ UNCHANGED <<mode, kind, round, posted, jetty, idle, lost, wire, fatal, stats>>

\* The posted WRs of the lane w is about to settle.
ToSettle(w) == {n \in OnPort(kind[w], ThisPort(w)) : n <= posted[w]}

\* Mutant: the last wait alone decides.
SettleLastOnly(w) ==
  /\ pc[w] = "settle"
  /\ IF wr[w] \in good[w] THEN ReleaseSendLane(w, ThisPort(w))
                          ELSE Quarantine(w, ThisPort(w))
  /\ wr' = [wr EXCEPT ![w] = @ + 1]
  /\ Goto(w, "wait")
  /\ UNCHANGED <<mode, kind, round, posted, good, event, wire, fatal, stats>>

\* The lane is given back when every wait for it succeeded.
Settle(w) ==
  /\ pc[w] = "settle"
  /\ IF ToSettle(w) \subseteq good[w] THEN ReleaseSendLane(w, ThisPort(w))
                                      ELSE Quarantine(w, ThisPort(w))
  /\ wr' = [wr EXCEPT ![w] = @ + 1]
  /\ Goto(w, "wait")
  /\ UNCHANGED <<mode, kind, round, posted, good, event, wire, fatal, stats>>

\* Every WR was posted and waited for with success: the round
\* counts, and with it its round_bytes.
RoundDone(w) ==
  /\ pc[w] = "wait" /\ wr[w] > posted[w] /\ good[w] = 1 .. WrCount(kind[w])
  /\ ops' = [ops EXCEPT ![w] = @ + 1]
  /\ off' = IF mode = "dual" THEN [off EXCEPT ![w] = (@ + 1) % threads] ELSE off
  /\ Goto(w, "loop")
  /\ UNCHANGED <<mode, kind, round, wr, posted, good, jetty, event, idle, lost, wire, fatal,
                 errors>>

\* Mutant: the worker goes on after a failed round.
RoundFailedGoesOn(w) ==
  /\ pc[w] = "wait" /\ wr[w] > posted[w] /\ good[w] # 1 .. WrCount(kind[w])
  /\ errors' = [errors EXCEPT ![w] = @ + 1]
  /\ Goto(w, "loop")
  /\ UNCHANGED <<mode, kind, round, wr, posted, good, jetty, event, idle, lost, wire, fatal,
                 off, ops>>

\* Otherwise the error is counted, everyone is stopped, the loop is left.
RoundFailed(w) ==
  /\ pc[w] = "wait" /\ wr[w] > posted[w] /\ good[w] # 1 .. WrCount(kind[w])
  /\ errors' = [errors EXCEPT ![w] = @ + 1]
  /\ fatal' = TRUE
  /\ Goto(w, "done")
  /\ UNCHANGED <<mode, kind, round, wr, posted, good, jetty, event, idle, lost, wire,
                 off, ops>>

\* The poll thread of a port reports a WR, late or not; the token of a former
\* round hits no event.
Complete(r, status) ==
  /\ wire' = wire \ {r}
  /\ IF r.round = round[r.worker] /\ event[r.worker][r.wr] = "pending"
     THEN event' = [event EXCEPT ![r.worker][r.wr] = status]
     ELSE UNCHANGED event
  /\ UNCHANGED <<mode, pc, kind, round, wr, posted, good, jetty, idle, lost, fatal, stats>>

Step(w) ==
  \/ BeginRound(w) \/ LeaveLoop(w) \/ Acquire(w) \/ Post(w) \/ PostRejected(w)
  \/ WaitEvent(w) \/ Settle(w) \/ RoundDone(w) \/ RoundFailed(w)

AllDone == (\A w \in Worker : pc[w] = "done") /\ UNCHANGED vars

Next ==
  \/ \E w \in Worker : Step(w)
  \/ \E r \in wire, status \in {"ok", "fail"} : Complete(r, status)
  \/ AllDone

Spec == Init /\ [][Next]_vars
-----------------------------------------------------------------------------
WrRecord ==
  [worker : Worker, round : 1 .. MaxRounds, wr : 1 .. MaxWr, port : Port, lane : Lane]

\* The shape of the state; off is a slice of the registered buffer.
TypeOK ==
  /\ mode \in Modes
  /\ pc \in [Worker -> {"loop", "lane", "post", "wait", "settle", "done"}]
  /\ kind \in [Worker -> Kind]
  /\ round \in [Worker -> 0 .. MaxRounds]
  /\ wr \in [Worker -> 1 .. MaxWr + 1] /\ posted \in [Worker -> 0 .. MaxWr]
  /\ good \in [Worker -> SUBSET (1 .. MaxWr)]
  /\ jetty \in [Worker -> [Port -> Lane \cup {NoLane}]]
  /\ event \in [Worker -> [1 .. MaxWr -> {"none", "pending", "ok", "fail"}]]
  /\ off \in [Worker -> 0 .. threads - 1]
  /\ idle \in [Port -> SUBSET Lane]
  /\ lost \in [Worker -> [Port -> Lane \cup {NoLane}]]
  /\ wire \in SUBSET WrRecord
  /\ fatal \in BOOLEAN
  /\ ops \in [Worker -> Nat] /\ errors \in [Worker -> Nat]

\* A lane in a pool carries no WR: whoever takes it next shares it with
\* nobody, also after a timeout that a late completion follows, and when one
\* of two WRs on the lane is rejected or lost.
IdleLaneQuiet == \A r \in wire : r.lane \notin idle[r.port]

\* A pool is never empty when a round asks it for a lane, although lanes get
\* lost: a worker that lost one begins no further round.  The state is well
\* typed.
LanesSuffice ==
  TypeOK /\ \A w \in Worker : pc[w] = "lane" => idle[ThisPort(w)] # {}

\* Between two rounds, and at the end, a worker holds no event slot and no lane
\* on any port, whichever call of the round failed.
RoundLeavesNothing ==
  \A w \in Worker : pc[w] \in {"loop", "done"} =>
    /\ \A n \in 1 .. MaxWr : event[w][n] = "none"
    /\ \A q \in Port : jetty[w][q] = NoLane
=============================================================================
