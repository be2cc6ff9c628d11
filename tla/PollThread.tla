----------------------------- MODULE PollThread -----------------------------
(***************************************************************************)
(* The poll threads of a process, one for each UrmaManager                 *)
(* (UrmaManager::PollThreadMain of src/urma/urma_manager.cpp), in polling  *)
(* mode and in event mode.  What CompleteEvent does with a completion is   *)
(* the subject of EventSlotPool; here a completion is only counted.        *)
(*                                                                         *)
(* The completion queue is external.  It raises one event when a           *)
(* completion arrives while it is armed, and is disarmed by that.  What    *)
(* urma_rearm_jfc does when completions are waiting already depends on the *)
(* device: a level-triggered queue raises the next event at once, an       *)
(* edge-triggered one only with the next arrival.                          *)
(***************************************************************************)
EXTENDS Integers

CONSTANTS
  ports,         (* managers in dual-device mode *)
  kMaxPollCr,
  MaxArrivals,   (* bound: completions that arrive in a run *)
  MaxFaults      (* bound: calls of urma_poll_jfc that fail in a run *)

ASSUME PollAssumption ==
  /\ ports \in Nat \ {0} /\ kMaxPollCr \in Nat \ {0}
  /\ MaxArrivals \in Nat /\ MaxFaults \in Nat

Port == 1 .. ports

VARIABLES
  eventMode,  (* eventMode_, the same for all managers                     *)
  level,      (* the device's queues are level-triggered                   *)
  poll,       (* per port: "off", a place in PollThreadMain, or "done"     *)
  stop,       (* per port: stop_                                           *)
  cq,         (* per port: completions in the queue                        *)
  armed,      (* per port: the next arrival raises an event                *)
  notice,     (* per port: an event waits in the JFCE                      *)
  arrivals, faults

queue == <<cq, armed, notice, arrivals>>
pollVars == <<eventMode, level, poll, stop, queue, faults>>

PollInit ==
  /\ eventMode \in BOOLEAN /\ level \in BOOLEAN
  /\ poll = [p \in Port |-> "off"] /\ stop = [p \in Port |-> FALSE]
  /\ cq = [p \in Port |-> 0]
  /\ armed = [p \in Port |-> FALSE] /\ notice = [p \in Port |-> FALSE]
  /\ arrivals = 0 /\ faults = 0

\* The threads that may still call into the library.
Alive == {p \in Port : poll[p] \notin {"off", "done"}}

PollGoto(p, label) == poll' = [poll EXCEPT ![p] = label]

\* The device reports a WR.
Arrive(p) ==
  /\ arrivals < MaxArrivals
  /\ arrivals' = arrivals + 1
  /\ cq' = [cq EXCEPT ![p] = @ + 1]
  /\ notice' = [notice EXCEPT ![p] = @ \/ armed[p]]
  /\ armed' = [armed EXCEPT ![p] = FALSE]
  /\ UNCHANGED <<eventMode, level, poll, stop, faults>>

\* while (!stop_)
TestStop(p) ==
  /\ poll[p] = "test"
  /\ PollGoto(p, IF stop[p] THEN "done" ELSE IF eventMode THEN "wait" ELSE "poll")
  /\ UNCHANGED <<eventMode, level, stop, queue, faults>>

\* urma_wait_jfc returns the event of the queue.
WaitJfc(p) ==
  /\ poll[p] = "wait" /\ notice[p]
  /\ notice' = [notice EXCEPT ![p] = FALSE]
  /\ PollGoto(p, "poll")
  /\ UNCHANGED <<eventMode, level, stop, cq, armed, arrivals, faults>>

\* Mutant: urma_wait_jfc waits for ever.
WaitForever(p) ==
  /\ poll[p] = "wait" /\ ~notice[p] /\ FALSE
  /\ UNCHANGED pollVars

\* It returns after 100 ms without an event.
WaitTimeout(p) ==
  /\ poll[p] = "wait" /\ ~notice[p]
  /\ PollGoto(p, "test")
  /\ UNCHANGED <<eventMode, level, stop, queue, faults>>

\* urma_poll_jfc takes a batch; without one the loop starts again.
PollJfc(p) ==
  LET cnt == IF cq[p] < kMaxPollCr THEN cq[p] ELSE kMaxPollCr IN
  /\ poll[p] = "poll"
  /\ cq' = [cq EXCEPT ![p] = @ - cnt]
  /\ PollGoto(p, IF cnt > 0 /\ eventMode THEN "rearm" ELSE "test")
  /\ UNCHANGED <<eventMode, level, stop, armed, notice, arrivals, faults>>

\* It fails: after a pause the loop starts again, in event mode without the
\* event and without urma_rearm_jfc.
PollFails(p) ==
  /\ poll[p] = "poll" /\ faults < MaxFaults
  /\ faults' = faults + 1
  /\ PollGoto(p, "test")
  /\ UNCHANGED <<eventMode, level, stop, queue>>

\* Mutant: the queue is acknowledged and not armed again.
AckOnly(p) ==
  /\ poll[p] = "rearm"
  /\ PollGoto(p, "test")
  /\ UNCHANGED <<eventMode, level, stop, queue, faults>>

\* urma_ack_jfc and urma_rearm_jfc; the batch is completed after them.
Rearm(p) ==
  /\ poll[p] = "rearm"
  /\ notice' = [notice EXCEPT ![p] = @ \/ (level /\ cq[p] > 0)]
  /\ armed' = [armed EXCEPT ![p] = ~(level /\ cq[p] > 0)]
  /\ PollGoto(p, "test")
  /\ UNCHANGED <<eventMode, level, stop, cq, arrivals, faults>>

PollStep(p) ==
  TestStop(p) \/ WaitJfc(p) \/ WaitTimeout(p) \/ PollJfc(p) \/ PollFails(p) \/ Rearm(p)
-----------------------------------------------------------------------------
\* The shape of the state.
PollTypeOK ==
  /\ eventMode \in BOOLEAN /\ level \in BOOLEAN
  /\ poll \in [Port -> {"off", "test", "wait", "poll", "rearm", "done"}]
  /\ stop \in [Port -> BOOLEAN]
  /\ cq \in [Port -> 0 .. MaxArrivals]
  /\ armed \in [Port -> BOOLEAN] /\ notice \in [Port -> BOOLEAN]
  /\ arrivals \in 0 .. MaxArrivals /\ faults \in 0 .. MaxFaults

\* A failed poll in event mode, or an edge-triggered queue, leaves completions
\* without an event.
MayStrand == eventMode /\ (~level \/ faults > 0)
=============================================================================
