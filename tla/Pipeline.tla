------------------------------ MODULE Pipeline ------------------------------
(***************************************************************************)
(* The request pipeline of a client worker (src/kv_bench.cpp): collect     *)
(* completions, post new requests, roll back a request that could not be   *)
(* posted, and drain at the end.  client_write_pipeline and                *)
(* client_get_pipeline are the same up to the drain, where op decides.     *)
(*                                                                         *)
(* A request is KV_SENDS_PER_REQ sends; a send is KV_WR_PER_SEND work      *)
(* requests (WRs) on one lane.  The workers share the lane pool and the    *)
(* flag fatal; a step is one access to either, one WaitEvent, or local.    *)
(* The event layer is that of module Events, the lane pool that of module  *)
(* LaneQueue without its order: any idle lane may come next.               *)
(***************************************************************************)
EXTENDS Integers, Sequences, FiniteSets

CONSTANTS
  Ops,               (* the values of --op that are tried                 *)
  Worker,            (* worker threads                                    *)
  Lane,              (* lanes of the pool                                 *)
  NoLane,            (* an empty lane pointer                             *)
  concurrency,       (* --concurrency: request slots per worker           *)
  KV_SENDS_PER_REQ,
  KV_WR_PER_SEND,
  EventSlots,        (* kEventSlotsPerWorker                              *)
  PostMayFail,       (* whether urma_post may be refused                  *)
  MaxRequests        (* bound: a worker that has begun so many requests   *)
                     (* starts no further one                             *)

ASSUME SizeAssumption ==
  /\ concurrency \in Nat \ {0} /\ KV_SENDS_PER_REQ \in Nat \ {0}
  /\ KV_WR_PER_SEND \in Nat \ {0} /\ MaxRequests \in Nat /\ EventSlots \in Nat
ASSUME LaneAssumption == NoLane \notin Lane
ASSUME OpAssumption == Ops \subseteq {"write", "get"}

VARIABLES
  op,          (* "write" or "get": which pipeline                        *)
  pc,          (* where each worker is                                    *)
  k,           (* collect: position in active                             *)
  wr,          (* post, rollback, release, drain: the WR or send at hand  *)
  limit,       (* rollback: posted_wr_count                               *)
  cur,         (* the slot being posted or released; 0 when none          *)
  bad,         (* rollback, drain: the sends of the request at hand with  *)
               (* a failed wait (send_completed, request_completed)       *)
  active,      (* active_slots                                            *)
  free,        (* free_slots, a stack                                     *)
  reqActive,   (* req_active                                              *)
  jetty,       (* wr_slots[s].jetty[i]                                    *)
  ev,          (* the event of wr_slots[s].event_token[n]                 *)
  done,        (* the WRs n with wr_slots[s].done[n]                      *)
  doneCnt,     (* wr_slots[s].done_cnt                                    *)
  ops, errors, failures,  (* counters; failures is drain_failures         *)
  idle,        (* lanes idle in the pool                                  *)
  orphans,     (* per lane: WRs in the hardware whose event was aborted   *)
  fatal,       (* ctx->fatal                                              *)
  timeUp,      (* the workers with now_ns() >= deadline                   *)
  begun,       (* requests each worker began to post                      *)
  late,        (* those begun after fatal was set                         *)
  landed,      (* WRs of each worker that completed without error         *)
  trouble,     (* a WR failed, was refused, or a wait for it timed out    *)
  exhausted    (* a worker found no idle lane                             *)

ctlVars == <<pc, k, wr, limit, cur, bad>>
slotVars == <<active, free, reqActive>>
wrVars == <<ev, done, doneCnt>>
laneVars == <<idle, jetty, orphans>>
statVars == <<ops, errors, failures>>
histVars == <<begun, late, landed, trouble, exhausted>>
vars == <<op, ctlVars, slotVars, wrVars, laneVars, statVars, fatal, timeUp, histVars>>

Slot == 1 .. concurrency
Send == 1 .. KV_SENDS_PER_REQ
KV_WR_PER_REQ == KV_SENDS_PER_REQ * KV_WR_PER_SEND
Wr == 1 .. KV_WR_PER_REQ

\* wr / KV_WR_PER_SEND, the send a WR belongs to.
SendOf(n) == ((n - 1) \div KV_WR_PER_SEND) + 1

\* The first and the last WR of a send.
First(n) == (n - 1) % KV_WR_PER_SEND = 0
Last(n) == n % KV_WR_PER_SEND = 0

Init ==
  /\ op \in Ops
  /\ pc = [w \in Worker |-> "loop"]
  /\ k = [w \in Worker |-> 1] /\ wr = [w \in Worker |-> 1]
  /\ limit = [w \in Worker |-> 0] /\ cur = [w \in Worker |-> 0]
  /\ bad = [w \in Worker |-> {}]
  /\ active = [w \in Worker |-> <<>>]
  /\ free = [w \in Worker |-> [s \in Slot |-> s]]
  /\ reqActive = [w \in Worker |-> 0]
  /\ jetty = [w \in Worker |-> [s \in Slot |-> [i \in Send |-> NoLane]]]
  /\ ev = [w \in Worker |-> [s \in Slot |-> [n \in Wr |-> "none"]]]
  /\ done = [w \in Worker |-> [s \in Slot |-> {}]]
  /\ doneCnt = [w \in Worker |-> [s \in Slot |-> 0]]
  /\ ops = [w \in Worker |-> 0] /\ errors = [w \in Worker |-> 0]
  /\ failures = [w \in Worker |-> 0]
  /\ idle = Lane /\ orphans = [l \in Lane |-> 0]
  /\ fatal = FALSE /\ timeUp = {}
  /\ begun = [w \in Worker |-> 0] /\ late = [w \in Worker |-> 0]
  /\ landed = [w \in Worker |-> 0]
  /\ trouble = FALSE /\ exhausted = FALSE

Goto(w, label) == pc' = [pc EXCEPT ![w] = label]

\* Mutant of LoopCheck: the loop goes on until nothing is in flight.
LoopCheckUntilIdle(w) ==
  /\ pc[w] = "loop"
  /\ IF (fatal \/ w \in timeUp) /\ active[w] = <<>>
     THEN /\ Goto(w, "drain")
          /\ wr' = [wr EXCEPT ![w] = 1]
          /\ bad' = [bad EXCEPT ![w] = {}]
          /\ UNCHANGED k
     ELSE /\ Goto(w, "collect")
          /\ k' = [k EXCEPT ![w] = 1]
          /\ UNCHANGED <<wr, bad>>
  /\ UNCHANGED <<limit, cur, slotVars, wrVars, laneVars, statVars, fatal, timeUp,
                 histVars>>

\* The head of the main loop.
LoopCheck(w) ==
  /\ pc[w] = "loop"
  /\ \/ /\ fatal \/ w \in timeUp
        /\ Goto(w, "drain")
        /\ wr' = [wr EXCEPT ![w] = 1]
        /\ bad' = [bad EXCEPT ![w] = {}]
        /\ UNCHANGED k
     \/ /\ ~fatal /\ w \notin timeUp
        /\ Goto(w, "collect")
        /\ k' = [k EXCEPT ![w] = 1]
        /\ UNCHANGED <<wr, bad>>
  /\ UNCHANGED <<limit, cur, slotVars, wrVars, laneVars, statVars, fatal, timeUp,
                 histVars>>

\* Mutant of CollectSlot: off by one in the test for the last completion.
CollectOneShort(w) ==
  /\ pc[w] = "collect"
  /\ k[w] <= Len(active[w])
  /\ LET s == active[w][k[w]]
         failed == {n \in Wr \ done[w][s] : ev[w][s][n] = "fail"}
         first == {f \in failed : \A g \in failed : f <= g}
         probed == {n \in Wr \ done[w][s] :
                      ev[w][s][n] = "ok" /\ \A f \in first : n < f}
         count == doneCnt[w][s] + Cardinality(probed)
     IN  /\ ev' = [ev EXCEPT ![w][s] =
                     [n \in Wr |-> IF n \in probed \cup first THEN "none" ELSE @[n]]]
         /\ done' = [done EXCEPT ![w][s] = @ \cup probed]
         /\ doneCnt' = [doneCnt EXCEPT ![w][s] = count]
         /\ \/ /\ failed # {}
               /\ Goto(w, "failed")
               /\ UNCHANGED <<k, wr, cur>>
            \/ /\ failed = {} /\ count < KV_WR_PER_REQ - 1
               /\ k' = [k EXCEPT ![w] = @ + 1]
               /\ UNCHANGED <<pc, wr, cur>>
            \/ /\ failed = {} /\ count >= KV_WR_PER_REQ - 1
               /\ Goto(w, "release")
               /\ cur' = [cur EXCEPT ![w] = s]
               /\ wr' = [wr EXCEPT ![w] = 1]
               /\ UNCHANGED k
  /\ UNCHANGED <<limit, bad, slotVars, laneVars, statVars, fatal, timeUp, histVars>>

\* Collect: probe the WRs of active slot k that are not done.  The probes of
\* one slot commute with everything other threads do, so they are one step.
\* A failed WR ends the pipeline (return -1) with the later ones unprobed.
CollectSlot(w) ==
  /\ pc[w] = "collect"
  /\ k[w] <= Len(active[w])
  /\ LET s == active[w][k[w]]
         failed == {n \in Wr \ done[w][s] : ev[w][s][n] = "fail"}
         first == {f \in failed : \A g \in failed : f <= g}
         probed == {n \in Wr \ done[w][s] :
                      ev[w][s][n] = "ok" /\ \A f \in first : n < f}
         count == doneCnt[w][s] + Cardinality(probed)
     IN  /\ ev' = [ev EXCEPT ![w][s] =
                     [n \in Wr |-> IF n \in probed \cup first THEN "none" ELSE @[n]]]
         /\ done' = [done EXCEPT ![w][s] = @ \cup probed]
         /\ doneCnt' = [doneCnt EXCEPT ![w][s] = count]
         /\ \/ /\ failed # {}
               /\ Goto(w, "failed")
               /\ UNCHANGED <<k, wr, cur>>
            \/ /\ failed = {} /\ count < KV_WR_PER_REQ
               /\ k' = [k EXCEPT ![w] = @ + 1]
               /\ UNCHANGED <<pc, wr, cur>>
            \/ /\ failed = {} /\ count >= KV_WR_PER_REQ
               /\ Goto(w, "release")
               /\ cur' = [cur EXCEPT ![w] = s]
               /\ wr' = [wr EXCEPT ![w] = 1]
               /\ UNCHANGED k
  /\ UNCHANGED <<limit, bad, slotVars, laneVars, statVars, fatal, timeUp, histVars>>

\* active_slots[i] = active_slots[--active_count]
SwapRemove(q, i) ==
  [n \in 1 .. Len(q) - 1 |-> IF n = i THEN q[Len(q)] ELSE q[n]]

\* Mutant of GiveBack: the pointer is kept.
GiveBackKeepsPointer(w, s, i) ==
  /\ idle' = IF jetty[w][s][i] = NoLane THEN idle ELSE idle \cup {jetty[w][s][i]}
  /\ UNCHANGED jetty

\* ReleaseSendLane(jetty) and jetty.reset(), for send i of slot s.
GiveBack(w, s, i) ==
  /\ idle' = IF jetty[w][s][i] = NoLane THEN idle ELSE idle \cup {jetty[w][s][i]}
  /\ jetty' = [jetty EXCEPT ![w][s][i] = NoLane]

\* A finished request gives its lanes back one by one; with the last one it
\* is counted and its slot becomes free.
ReleaseLane(w) ==
  /\ pc[w] = "release"
  /\ wr[w] < KV_SENDS_PER_REQ
  /\ GiveBack(w, cur[w], wr[w])
  /\ wr' = [wr EXCEPT ![w] = @ + 1]
  /\ UNCHANGED <<pc, k, limit, cur, bad, slotVars, wrVars, orphans, statVars, fatal,
                 timeUp, histVars>>

ReleaseLast(w) ==
  /\ pc[w] = "release"
  /\ wr[w] >= KV_SENDS_PER_REQ
  /\ GiveBack(w, cur[w], wr[w])
  /\ ops' = [ops EXCEPT ![w] = @ + 1]
  /\ reqActive' = [reqActive EXCEPT ![w] = IF @ > 0 THEN @ - 1 ELSE @]
  /\ free' = [free EXCEPT ![w] = Append(@, cur[w])]
  /\ active' = [active EXCEPT ![w] = SwapRemove(@, k[w])]
  /\ cur' = [cur EXCEPT ![w] = 0]
  /\ Goto(w, "collect")
  /\ UNCHANGED <<k, wr, limit, bad, wrVars, orphans, errors, failures, fatal, timeUp,
                 histVars>>

CollectEnd(w) ==
  /\ pc[w] = "collect"
  /\ k[w] > Len(active[w])
  /\ Goto(w, "send")
  /\ UNCHANGED <<k, wr, limit, cur, bad, slotVars, wrVars, laneVars, statVars,
                 fatal, timeUp, histVars>>

\* Mutant of SendCheck: fatal is not looked at.
SendCheckIgnoresFatal(w) ==
  /\ pc[w] = "send"
  /\ Goto(w, IF w \in timeUp \/ reqActive[w] >= concurrency
                \/ begun[w] >= MaxRequests
             THEN "loop" ELSE "start")
  /\ UNCHANGED <<k, wr, limit, cur, bad, slotVars, wrVars, laneVars, statVars,
                 fatal, timeUp, histVars>>

\* The head of the send loop.
SendCheck(w) ==
  /\ pc[w] = "send"
  /\ Goto(w, IF w \in timeUp \/ fatal \/ reqActive[w] >= concurrency
                \/ begun[w] >= MaxRequests
             THEN "loop" ELSE "start")
  /\ UNCHANGED <<k, wr, limit, cur, bad, slotVars, wrVars, laneVars, statVars,
                 fatal, timeUp, histVars>>

\* After the rate limiter's sleep: take a free slot and enter post_one_req.
StartRequest(w) ==
  /\ pc[w] = "start"
  /\ IF free[w] = <<>>
     THEN /\ Goto(w, "loop")
          /\ UNCHANGED <<wr, cur, free, doneCnt, begun, late>>
     ELSE LET s == free[w][Len(free[w])] IN
          /\ Goto(w, "lane")
          /\ cur' = [cur EXCEPT ![w] = s]
          /\ wr' = [wr EXCEPT ![w] = 1]
          /\ free' = [free EXCEPT ![w] = SubSeq(@, 1, Len(@) - 1)]
          /\ doneCnt' = [doneCnt EXCEPT ![w][s] = 0]
          /\ begun' = [begun EXCEPT ![w] = @ + 1]
          /\ late' = [late EXCEPT ![w] = IF fatal THEN @ + 1 ELSE @]
  /\ UNCHANGED <<k, limit, bad, active, reqActive, ev, done, laneVars, statVars,
                 fatal, timeUp, landed, trouble, exhausted>>
-----------------------------------------------------------------------------
(***************************************************************************)
(* post_one_req, and drain_posted_wrs when it fails.                       *)
(***************************************************************************)

\* Roll back the first n WRs of the slot at hand.
Rollback(w, n) ==
  /\ Goto(w, "rollback")
  /\ wr' = [wr EXCEPT ![w] = 1]
  /\ limit' = [limit EXCEPT ![w] = n]
  /\ bad' = [bad EXCEPT ![w] = {}]

\* The first WR of a send takes a lane.
AcquireLane(w) ==
  /\ pc[w] = "lane"
  /\ \E l \in idle :
       /\ idle' = idle \ {l}
       /\ jetty' = [jetty EXCEPT ![w][cur[w]][SendOf(wr[w])] = l]
  /\ Goto(w, "post")
  /\ UNCHANGED <<k, wr, limit, cur, bad, slotVars, wrVars, orphans, statVars,
                 fatal, timeUp, histVars>>

LanesExhausted(w) ==
  /\ pc[w] = "lane"
  /\ idle = {}
  /\ exhausted' = TRUE
  /\ Rollback(w, wr[w] - 1)
  /\ UNCHANGED <<k, cur, slotVars, wrVars, laneVars, statVars, fatal, timeUp,
                 begun, late, landed, trouble>>

\* Events the worker holds: acquired and neither consumed nor aborted.
LiveEvents(w) == {a \in Slot \X Wr : ev[w][a[1]][a[2]] # "none"}

\* PostEvent and PostWrite succeed for the WR at hand.
Posted(w) ==
  /\ pc[w] = "post"
  /\ Cardinality(LiveEvents(w)) < EventSlots
  /\ ev' = [ev EXCEPT ![w][cur[w]][wr[w]] = "pending"]
  /\ done' = [done EXCEPT ![w][cur[w]] = @ \ {wr[w]}]
  /\ UNCHANGED <<k, limit, bad, free, doneCnt, laneVars, statVars, fatal, timeUp,
                 histVars>>

PostWr(w) ==
  /\ Posted(w)
  /\ wr[w] < KV_WR_PER_REQ
  /\ wr' = [wr EXCEPT ![w] = @ + 1]
  /\ Goto(w, IF First(wr[w] + 1) THEN "lane" ELSE "post")
  /\ UNCHANGED <<cur, active, reqActive>>

\* The last WR makes the request active.
PostLast(w) ==
  /\ Posted(w)
  /\ wr[w] = KV_WR_PER_REQ
  /\ active' = [active EXCEPT ![w] = Append(@, cur[w])]
  /\ reqActive' = [reqActive EXCEPT ![w] = @ + 1]
  /\ cur' = [cur EXCEPT ![w] = 0]
  /\ Goto(w, "send")
  /\ UNCHANGED wr

\* No event slot is left, or the post is refused and its event aborted.  A
\* lane without a WR goes straight back to the pool.
PostRejected(w) ==
  /\ pc[w] = "post"
  /\ PostMayFail \/ Cardinality(LiveEvents(w)) >= EventSlots
  /\ \/ First(wr[w]) /\ GiveBack(w, cur[w], SendOf(wr[w]))
     \/ ~First(wr[w]) /\ UNCHANGED <<idle, jetty>>
  /\ Rollback(w, wr[w] - 1)
  /\ trouble' = TRUE
  /\ UNCHANGED <<k, cur, slotVars, wrVars, orphans, statVars, fatal, timeUp,
                 begun, late, landed, exhausted>>

\* WaitEvent returns the verdict it finds, or "fail" when its time is over.
\* It then aborts the event: a pending WR stays in the hardware, and a
\* verdict that came after the last probe is thrown away.  For an event
\* consumed before there is nothing left to find or to abort.
WaitEvent(w, s, n, verdict) ==
  /\ ev' = [ev EXCEPT ![w][s][n] = "none"]
  /\ \/ /\ ev[w][s][n] \in {"ok", "fail"}
        /\ verdict = ev[w][s][n]
        /\ UNCHANGED <<orphans, trouble>>
     \/ /\ ev[w][s][n] \in {"ok", "fail", "pending"}
        /\ verdict = "fail"
        /\ trouble' = TRUE
        /\ orphans' = IF ev[w][s][n] # "pending" THEN orphans
                      ELSE [orphans EXCEPT ![jetty[w][s][SendOf(n)]] = @ + 1]
     \/ /\ ev[w][s][n] = "none"
        /\ verdict = "fail"
        /\ UNCHANGED <<orphans, trouble>>

\* The sends of the request at hand with a failed wait, after waiting for n.
BadAfter(w, n, verdict) ==
  IF verdict = "ok" THEN bad[w] ELSE bad[w] \cup {SendOf(n)}

\* Mutants of EndOfSend: no quarantine; every rolled back send is quarantined.
EndOfSendAlwaysReturns(w, s, i, incomplete) == GiveBack(w, s, i)
EndOfSendAlwaysDrops(w, s, i, incomplete) ==
  jetty' = [jetty EXCEPT ![w][s][i] = NoLane] /\ UNCHANGED idle

\* After the last WR of a send, its lane goes back if all of them completed;
\* otherwise the pointer is dropped and the lane is out of circulation.
EndOfSend(w, s, i, incomplete) ==
  \/ /\ i \in incomplete
     /\ jetty' = [jetty EXCEPT ![w][s][i] = NoLane]
     /\ UNCHANGED idle
  \/ i \notin incomplete /\ GiveBack(w, s, i)

\* drain_posted_wrs: wait for the WRs that were posted, one by one.
RollbackWait(w) ==
  /\ pc[w] = "rollback"
  /\ wr[w] <= limit[w]
  /\ \E verdict \in {"ok", "fail"} :
       LET after == BadAfter(w, wr[w], verdict) IN
       /\ WaitEvent(w, cur[w], wr[w], verdict)
       /\ bad' = [bad EXCEPT ![w] = after]
       /\ \/ /\ Last(wr[w]) \/ wr[w] = limit[w]
             /\ EndOfSend(w, cur[w], SendOf(wr[w]), after)
          \/ /\ ~Last(wr[w]) /\ wr[w] # limit[w]
             /\ UNCHANGED <<idle, jetty>>
  /\ wr' = [wr EXCEPT ![w] = @ + 1]
  /\ UNCHANGED <<pc, k, limit, cur, slotVars, done, doneCnt, statVars, fatal,
                 timeUp, begun, late, landed, exhausted>>

\* Mutant of RollbackEnd: the slot is not pushed on the free stack.
RollbackEndLosesSlot(w) ==
  /\ pc[w] = "rollback"
  /\ wr[w] > limit[w]
  /\ cur' = [cur EXCEPT ![w] = 0]
  /\ Goto(w, "failed")
  /\ UNCHANGED <<k, wr, limit, bad, slotVars, wrVars, laneVars, statVars,
                 fatal, timeUp, histVars>>

\* The slot goes back and the pipeline returns -1.
RollbackEnd(w) ==
  /\ pc[w] = "rollback"
  /\ wr[w] > limit[w]
  /\ free' = [free EXCEPT ![w] = Append(@, cur[w])]
  /\ cur' = [cur EXCEPT ![w] = 0]
  /\ Goto(w, "failed")
  /\ UNCHANGED <<k, wr, limit, bad, active, reqActive, wrVars, laneVars, statVars,
                 fatal, timeUp, histVars>>

\* client_worker_main after the pipeline returned -1.
Fail(w) ==
  /\ pc[w] = "failed"
  /\ errors' = [errors EXCEPT ![w] = @ + 1]
  /\ fatal' = TRUE
  /\ Goto(w, "done")
  /\ UNCHANGED <<k, wr, limit, cur, bad, slotVars, wrVars, laneVars, ops, failures,
                 timeUp, histVars>>
-----------------------------------------------------------------------------
(***************************************************************************)
(* The drain: the requests still active when the main loop ends.           *)
(***************************************************************************)

\* The first active request is over.
Retire(w) ==
  /\ free' = [free EXCEPT ![w] = Append(@, Head(active[w]))]
  /\ active' = [active EXCEPT ![w] = SwapRemove(@, 1)]
  /\ UNCHANGED reqActive

\* Mutant of DrainWr: it waits for consumed completions too.
DrainWrWaitsForAll(w, s, n, verdict) == WaitEvent(w, s, n, verdict)

\* write: a WR that collect has seen is not waited for.
DrainWr(w, s, n, verdict) ==
  \/ /\ n \in done[w][s] /\ verdict = "ok"
     /\ UNCHANGED <<ev, orphans, trouble>>
  \/ n \notin done[w][s] /\ WaitEvent(w, s, n, verdict)

\* write: wait for WR n of the first active request; its verdict counts, and
\* the last WR of a send settles the send.
DrainOne(w, s, n, verdict) ==
  /\ op = "write" /\ pc[w] = "drain" /\ active[w] # <<>>
  /\ DrainWr(w, s, n, verdict)
  /\ failures' = [failures EXCEPT ![w] = IF verdict = "ok" THEN @ ELSE @ + 1]
  /\ \/ Last(n) /\ EndOfSend(w, s, SendOf(n), BadAfter(w, n, verdict))
     \/ ~Last(n) /\ UNCHANGED <<idle, jetty>>
  /\ UNCHANGED <<pc, k, limit, cur, done, doneCnt, errors, fatal, timeUp, begun,
                 late, landed, exhausted>>

WriteDrain(w) ==
  \E verdict \in {"ok", "fail"} :
    /\ DrainOne(w, Head(active[w]), wr[w], verdict)
    /\ wr[w] < KV_WR_PER_REQ
    /\ wr' = [wr EXCEPT ![w] = @ + 1]
    /\ bad' = [bad EXCEPT ![w] = BadAfter(w, wr[w], verdict)]
    /\ UNCHANGED <<ops, slotVars>>

WriteDrainLast(w) ==
  \E verdict \in {"ok", "fail"} :
    /\ DrainOne(w, Head(active[w]), wr[w], verdict)
    /\ wr[w] = KV_WR_PER_REQ
    /\ wr' = [wr EXCEPT ![w] = 1]
    /\ bad' = [bad EXCEPT ![w] = {}]
    /\ ops' = [ops EXCEPT ![w] = IF BadAfter(w, wr[w], verdict) = {} THEN @ + 1 ELSE @]
    /\ Retire(w)

\* get: wait for every WR of the request, those collect has seen included.
GetDrainWait(w) ==
  /\ op = "get" /\ pc[w] = "drain" /\ active[w] # <<>>
  /\ wr[w] <= KV_WR_PER_REQ
  /\ \E verdict \in {"ok", "fail"} :
       /\ WaitEvent(w, Head(active[w]), wr[w], verdict)
       /\ bad' = [bad EXCEPT ![w] = BadAfter(w, wr[w], verdict)]
  /\ wr' = [wr EXCEPT ![w] = @ + 1]
  /\ UNCHANGED <<pc, k, limit, cur, slotVars, done, doneCnt, idle, jetty, statVars,
                 fatal, timeUp, begun, late, landed, exhausted>>

\* get: a request without a failed wait counts and gives its lanes back one by
\* one; one failed wait drops every lane of the request.
GetDrainCount(w) ==
  /\ op = "get" /\ pc[w] = "drain" /\ active[w] # <<>>
  /\ wr[w] > KV_WR_PER_REQ /\ bad[w] = {}
  /\ ops' = [ops EXCEPT ![w] = @ + 1]
  /\ wr' = [wr EXCEPT ![w] = 1]
  /\ Goto(w, "drainRelease")
  /\ UNCHANGED <<k, limit, cur, bad, slotVars, wrVars, laneVars, errors, failures,
                 fatal, timeUp, histVars>>

GetDrainDrop(w) ==
  /\ op = "get" /\ pc[w] = "drain" /\ active[w] # <<>>
  /\ wr[w] > KV_WR_PER_REQ /\ bad[w] # {}
  /\ failures' = [failures EXCEPT ![w] = @ + 1]
  /\ jetty' = [jetty EXCEPT ![w][Head(active[w])] = [i \in Send |-> NoLane]]
  /\ wr' = [wr EXCEPT ![w] = 1]
  /\ bad' = [bad EXCEPT ![w] = {}]
  /\ Retire(w)
  /\ UNCHANGED <<pc, k, limit, cur, wrVars, idle, orphans, ops, errors, fatal, timeUp,
                 histVars>>

\* get: ReleaseSendLane for one send after the other; the slot keeps the
\* pointers, to lanes that another worker may take meanwhile.
GetDrainRelease(w) ==
  /\ pc[w] = "drainRelease"
  /\ wr[w] <= KV_SENDS_PER_REQ
  /\ LET l == jetty[w][Head(active[w])][wr[w]] IN
       idle' = IF l = NoLane THEN idle ELSE idle \cup {l}
  /\ wr' = [wr EXCEPT ![w] = @ + 1]
  /\ UNCHANGED <<pc, k, limit, cur, bad, slotVars, wrVars, jetty, orphans, statVars,
                 fatal, timeUp, histVars>>

\* get: with every lane released, all pointers are reset and the request is over.
GetDrainReset(w) ==
  /\ pc[w] = "drainRelease"
  /\ wr[w] > KV_SENDS_PER_REQ
  /\ jetty' = [jetty EXCEPT ![w][Head(active[w])] = [i \in Send |-> NoLane]]
  /\ wr' = [wr EXCEPT ![w] = 1]
  /\ Goto(w, "drain")
  /\ Retire(w)
  /\ UNCHANGED <<k, limit, cur, bad, wrVars, idle, orphans, statVars, fatal, timeUp,
                 histVars>>

\* The pipeline returns 0.
DrainEnd(w) ==
  /\ pc[w] = "drain" /\ active[w] = <<>>
  /\ errors' = [errors EXCEPT ![w] = @ + failures[w]]
  /\ Goto(w, "done")
  /\ UNCHANGED <<k, wr, limit, cur, bad, slotVars, wrVars, laneVars, ops, failures,
                 fatal, timeUp, histVars>>
-----------------------------------------------------------------------------
(***************************************************************************)
(* The rest of the world.                                                  *)
(***************************************************************************)

\* The poll thread completes the event of a WR.
Deliver(w, s, n, status) ==
  /\ ev[w][s][n] = "pending"
  /\ ev' = [ev EXCEPT ![w][s][n] = status]
  /\ trouble' = (trouble \/ status = "fail")
  /\ landed' = [landed EXCEPT ![w] = IF status = "ok" THEN @ + 1 ELSE @]
  /\ UNCHANGED <<ctlVars, slotVars, done, doneCnt, laneVars, statVars, fatal, timeUp,
                 begun, late, exhausted>>

\* A WR whose event was aborted completes; the event layer ignores it.
LateComplete(l) ==
  /\ orphans[l] > 0
  /\ orphans' = [orphans EXCEPT ![l] = @ - 1]
  /\ UNCHANGED <<ctlVars, slotVars, wrVars, idle, jetty, statVars, fatal, timeUp,
                 histVars>>

\* The deadline of a worker passes.
Deadline(w) ==
  /\ w \notin timeUp
  /\ timeUp' = timeUp \cup {w}
  /\ UNCHANGED <<ctlVars, slotVars, wrVars, laneVars, statVars, fatal, histVars>>

Step(w) ==
  /\ \/ LoopCheck(w) \/ CollectSlot(w) \/ ReleaseLane(w) \/ ReleaseLast(w)
     \/ CollectEnd(w) \/ SendCheck(w) \/ StartRequest(w)
     \/ AcquireLane(w) \/ LanesExhausted(w) \/ PostWr(w) \/ PostLast(w)
     \/ PostRejected(w) \/ RollbackWait(w) \/ RollbackEnd(w) \/ Fail(w)
     \/ WriteDrain(w) \/ WriteDrainLast(w) \/ GetDrainWait(w) \/ GetDrainCount(w)
     \/ GetDrainDrop(w) \/ GetDrainRelease(w) \/ GetDrainReset(w) \/ DrainEnd(w)
  /\ UNCHANGED op

\* The clock, the poll thread and the hardware.
Environment ==
  /\ \/ \E w \in Worker : Deadline(w)
     \/ \E w \in Worker, s \in Slot, n \in Wr, status \in {"ok", "fail"} :
          Deliver(w, s, n, status)
     \/ \E l \in Lane : LateComplete(l)
  /\ UNCHANGED op

\* pthread_join of every worker: nothing more to do.
Joined == (\A w \in Worker : pc[w] = "done") /\ UNCHANGED vars

Next == (\E w \in Worker : Step(w)) \/ Environment \/ Joined

Spec == Init /\ [][Next]_vars

\* A worker thread that can step does so in the end.  Nothing is assumed of
\* the hardware: a WR may never complete.
FairSpec == Spec /\ \A w \in Worker : WF_vars(Step(w))
-----------------------------------------------------------------------------
(***************************************************************************)
(* Properties                                                              *)
(***************************************************************************)

Label == {"loop", "collect", "release", "send", "start", "lane", "post", "rollback",
          "drain", "drainRelease", "failed", "done"}

\* The shape of the state (worker_t, wr_slot_t), group by group: indices stay
\* in the arrays.
CtlOK ==
  /\ pc \in [Worker -> Label]
  /\ k \in [Worker -> 1 .. concurrency + 1]
  /\ wr \in [Worker -> 1 .. KV_WR_PER_REQ + 1]
  /\ limit \in [Worker -> 0 .. KV_WR_PER_REQ]
  /\ cur \in [Worker -> 0 .. concurrency]
  /\ bad \in [Worker -> SUBSET Send]
SlotOK ==
  /\ active \in [Worker -> Seq(Slot)] /\ free \in [Worker -> Seq(Slot)]
  /\ reqActive \in [Worker -> 0 .. concurrency]
WrOK ==
  /\ ev \in [Worker -> [Slot -> [Wr -> {"none", "pending", "ok", "fail"}]]]
  /\ done \in [Worker -> [Slot -> SUBSET Wr]]
  /\ doneCnt \in [Worker -> [Slot -> 0 .. KV_WR_PER_REQ]]
LaneOK ==
  /\ idle \in SUBSET Lane /\ orphans \in [Lane -> Nat]
  /\ jetty \in [Worker -> [Slot -> [Send -> Lane \cup {NoLane}]]]
CountOK ==
  /\ ops \in [Worker -> Nat] /\ errors \in [Worker -> Nat]
  /\ failures \in [Worker -> Nat] /\ begun \in [Worker -> Nat]
  /\ late \in [Worker -> Nat] /\ landed \in [Worker -> Nat]
FlagOK ==
  /\ op \in Ops /\ timeUp \in SUBSET Worker
  /\ fatal \in BOOLEAN /\ trouble \in BOOLEAN /\ exhausted \in BOOLEAN
TypeOK == CtlOK /\ SlotOK /\ WrOK /\ LaneOK /\ CountOK /\ FlagOK

\* Send i of slot s has lane l.  A pointer the drain of get has released but
\* not yet reset no longer counts; nothing is posted through it.
Holds(w, s, i, l) ==
  /\ jetty[w][s][i] = l
  /\ ~(pc[w] = "drainRelease" /\ s = Head(active[w]) /\ i < wr[w])

\* No two sends, of whichever workers and slots, hold the same lane, and no
\* held lane is idle in the pool: every path that gives a lane back or drops
\* it also lets go of the slot's pointer (collect, drain_posted_wrs, the
\* drains), before or after another worker takes the lane.
LaneExclusive ==
  \A l \in Lane, v \in Worker, s \in Slot, i \in Send : Holds(v, s, i, l) =>
    /\ l \notin idle
    /\ \A w \in Worker, t \in Slot, j \in Send :
         Holds(w, t, j, l) => <<w, t, j>> = <<v, s, i>>

\* An empty pool is contention, never loss: until a WR failed, was refused or
\* timed out, each lane is idle or held by a send, also after post_one_req
\* found no lane and drain_posted_wrs undid half a request.  The drain of get
\* is left out: it drops lanes of requests that collect has half seen.
LanesKept ==
  (~trouble /\ \A w \in Worker : op = "write" \/ pc[w] \notin {"drain", "drainRelease", "done"})
    => \A l \in Lane : l \in idle \/
         \E w \in Worker, s \in Slot, i \in Send : Holds(w, s, i, l)

\* A lane in the pool has no WR in the hardware: every WR whose event is
\* pending is on a lane its slot still holds, and a lane with a WR that was
\* given up on never comes back (the quarantine).
IdleLaneQuiet ==
  /\ \A w \in Worker, s \in Slot, n \in Wr :
       ev[w][s][n] = "pending" => jetty[w][s][SendOf(n)] \in Lane
  /\ \A l \in idle : orphans[l] = 0

\* Each request slot of a worker is in exactly one place: on the free stack,
\* in the active list or being posted; req_active counts the active ones until
\* the drain.  A free slot holds no lane and no event.  (TypeOK says that the
\* state is well typed.)
SlotsAccounted ==
  TypeOK /\ \A w \in Worker :
    LET posting == IF pc[w] \in {"lane", "post", "rollback"} THEN <<cur[w]>> ELSE <<>>
        all == free[w] \o active[w] \o posting
    IN  /\ Len(all) = concurrency
        /\ \A s \in Slot : \E i \in 1 .. concurrency : all[i] = s
        /\ pc[w] \notin {"drain", "drainRelease", "done"} =>
             reqActive[w] = Len(active[w])
        /\ \A i \in DOMAIN free[w] :
             /\ \A n \in Wr : ev[w][free[w][i]][n] = "none"
             /\ \A j \in Send : jetty[w][free[w][i]][j] = NoLane

\* kEventSlotsPerWorker slots are enough for concurrency requests (the
\* static_assert of kv_bench.cpp): PostEvent never finds the pool empty, since
\* no path through collect, rollback or drain leaves an event behind.
EventsSuffice ==
  concurrency * KV_WR_PER_REQ <= EventSlots =>
    \A w \in Worker : pc[w] = "post" => Cardinality(LiveEvents(w)) < EventSlots

\* A request is counted only if all of its WRs completed without error, and
\* no completion is counted for two requests.
OpsEarned == \A w \in Worker : KV_WR_PER_REQ * ops[w] <= landed[w]

\* When nothing failed, was refused or timed out and no worker found the pool
\* empty, every request begun is counted, no error is, and all lanes are idle.
CleanRunCountsAll ==
  (\A w \in Worker : pc[w] = "done") /\ ~trouble /\ ~exhausted =>
    /\ \A w \in Worker : ops[w] = begun[w] /\ errors[w] = 0
    /\ idle = Lane

\* Of write, whose drain skips the WRs that were collected, this is true.
CleanWriteCountsAll == op = "write" => CleanRunCountsAll

\* After fatal is set a worker begins at most one more request: the one whose
\* rate-limiter sleep was under way.
OneLateRequest == \A w \in Worker : late[w] <= 1

\* A worker whose deadline has passed, and every worker once fatal is set,
\* finishes, whatever the hardware does: each wait is bounded and the drain
\* makes progress.
StopsWhenTold ==
  \A w \in Worker : (w \in timeUp \/ fatal) ~> pc[w] = "done"
=============================================================================
