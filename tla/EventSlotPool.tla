--------------------------- MODULE EventSlotPool ---------------------------
(***************************************************************************)
(* The completion-event pool of one worker: class EventSlotPool            *)
(* (src/urma/event_slot_pool.h), together with the UrmaManager functions   *)
(* that call it (PostEvent, WaitEvent, ProbeEvent, AbortEvent,             *)
(* CompleteEvent in src/urma/urma_manager.cpp).                            *)
(*                                                                         *)
(* Two threads touch a pool.  The worker acquires, probes and aborts; the  *)
(* poll thread completes.  They share only the atomic words states_[i], so *)
(* the grain of atomicity is one access to one of those words: Acquire and *)
(* Complete are one step each, Probe and Abort are a load followed by a    *)
(* compare-and-swap.                                                       *)
(*                                                                         *)
(* A token is  generation * kSlotCount + index  and a state word is        *)
(* token * 4 + tag  (the shifts of the C++ code, written as arithmetic).   *)
(***************************************************************************)
EXTENDS Integers, FiniteSets

CONSTANTS
  kSlotCount,   (* slots of a pool (256 in the code)                       *)
  GenLimit,     (* generations_ wraps at this value (2^32: it is uint32_t) *)
  MaxAcquire,   (* bound: how often one slot is acquired                   *)
  MaxEvents     (* bound: how often all slots are acquired together        *)

ASSUME SlotAssumption == kSlotCount \in Nat \ {0}
ASSUME GenAssumption == GenLimit \in Nat /\ GenLimit > 1
ASSUME BoundAssumption == MaxAcquire \in Nat /\ MaxEvents \in Nat

VARIABLES
  states,       (* states_: the atomic word of every slot                  *)
  generations,  (* generations_: worker private                            *)
  freeSlots,    (* freeSlots_: array used as a stack; worker private       *)
  freeCount,    (* freeCount_: its height                                  *)
  pc,           (* where the worker is inside Probe, Abort or WaitEvent    *)
  wait,         (* which Probe of WaitEvent is running, "no" outside of it *)
  arg,          (* the event the running call is about                     *)
  value,        (* the local variable `value' of Probe and Abort           *)
  acquired,     (* history: how often each slot has been acquired          *)
  issued,       (* history: every event handed to the worker               *)
  ended,        (* history: events whose slot has been given back          *)
  fresh,        (* events acquired and not yet posted to the hardware      *)
  outstanding,  (* work requests the hardware has not reported yet         *)
  delivered,    (* history: completions the poll thread has processed      *)
  results       (* history: verdicts the worker has been given             *)

poolVars == <<states, generations, freeSlots, freeCount>>
callVars == <<pc, wait, arg, value>>
histVars == <<acquired, issued, ended, fresh, outstanding, delivered, results>>
vars == <<poolVars, callVars, histVars>>

Slot == 0 .. kSlotCount - 1

(***************************************************************************)
(* Tokens and state words.                                                 *)
(***************************************************************************)
Token(generation, index) == generation * kSlotCount + index

Index(token) == token % kSlotCount

Pending(token) == token * 4

Status == {"ok", "fail"}

Done(token, status) == token * 4 + (IF status = "ok" THEN 1 ELSE 2)

\* value >> 2
TokenIn(word) == word \div 4

\* What Probe returns for a word it consumed: 1 or -1.
Verdict(word, token) == IF word = Done(token, "ok") THEN "ok" ELSE "fail"

(***************************************************************************)
(* An event is one acquisition of one slot.  The field k, the ordinal of   *)
(* that acquisition, is history: the program only has the token.           *)
(***************************************************************************)
Event ==
  [token : 0 .. GenLimit * kSlotCount - 1, slot : Slot, k : 0 .. MaxAcquire]

NoEvent == [token |-> 0, slot |-> 0, k |-> 0]

Init ==
  /\ states = [i \in Slot |-> 0]
  /\ generations = [i \in Slot |-> 0]
  /\ freeSlots = [i \in Slot |-> kSlotCount - 1 - i]
  /\ freeCount = kSlotCount
  /\ pc = "idle" /\ wait = "no" /\ arg = NoEvent /\ value = 0
  /\ acquired = [i \in Slot |-> 0]
  /\ issued = {} /\ ended = {} /\ fresh = {}
  /\ outstanding = {} /\ delivered = {} /\ results = {}

(***************************************************************************)
(* The worker.                                                             *)
(***************************************************************************)

\* Mutants: the generation never advances; generation 0 is not skipped.
StuckGeneration(g) == 1

NextGenerationWithZero(g) == (g + 1) % GenLimit

\* ++generations_[index], and once more when the uint32_t wrapped to zero.
NextGeneration(g) ==
  IF (g + 1) % GenLimit = 0 THEN 1 ELSE (g + 1) % GenLimit

\* Acquire, as called by PostEvent.  The compare-and-swap is the only shared
\* access.  On failure the index is pushed back and the generation stays
\* advanced.
Acquire ==
  /\ pc = "idle"
  /\ freeCount > 0
  /\ LET index == freeSlots[freeCount - 1]
         generation == NextGeneration(generations[index])
         token == Token(generation, index)
         event == [token |-> token, slot |-> index, k |-> acquired[index] + 1]
     IN  /\ acquired[index] < MaxAcquire /\ Cardinality(issued) < MaxEvents
         /\ generations' = [generations EXCEPT ![index] = generation]
         /\ IF states[index] = 0
            THEN /\ states' = [states EXCEPT ![index] = Pending(token)]
                 /\ freeCount' = freeCount - 1
                 /\ acquired' = [acquired EXCEPT ![index] = @ + 1]
                 /\ issued' = issued \cup {event}
                 /\ fresh' = fresh \cup {event}
            ELSE UNCHANGED <<states, freeCount, acquired, issued, fresh>>
  /\ UNCHANGED <<freeSlots, callVars, ended, outstanding, delivered, results>>

\* The worker hands a work request carrying the token to the hardware.
Post(e) ==
  /\ pc = "idle"
  /\ e \in fresh
  /\ fresh' = fresh \ {e}
  /\ outstanding' = outstanding \cup {e}
  /\ UNCHANGED <<poolVars, callVars, acquired, issued, ended, delivered, results>>

\* The post failed: the caller cancels the event (AbortEvent).
PostFails(e) ==
  /\ pc = "idle"
  /\ e \in fresh
  /\ fresh' = fresh \ {e}
  /\ pc' = "abort" /\ arg' = e
  /\ UNCHANGED <<poolVars, wait, value, acquired, issued, ended, outstanding,
                 delivered, results>>

\* ProbeEvent(workerId, token).
CallProbe(e) ==
  /\ pc = "idle"
  /\ e \in issued \ fresh
  /\ pc' = "probe" /\ arg' = e
  /\ UNCHANGED <<poolVars, wait, value, histVars>>

\* WaitEvent(workerId, token, timeoutMs).
CallWait(e) ==
  /\ pc = "idle"
  /\ e \in issued \ fresh
  /\ pc' = "probe" /\ wait' = "loop" /\ arg' = e
  /\ UNCHANGED <<poolVars, value, histVars>>

\* The call returns to the worker.
Return == pc' = "idle" /\ wait' = "no" /\ arg' = NoEvent /\ value' = 0

\* Probe returned 0.  ProbeEvent hands that to its caller.  WaitEvent probes
\* again until the deadline, once more after it, and then aborts.
ProbeReturnsZero ==
  \/ /\ wait = "no"
     /\ Return
  \/ /\ wait = "loop"
     /\ pc' = "probe" /\ wait' \in {"loop", "last"}
     /\ value' = 0 /\ UNCHANGED arg
  \/ /\ wait = "last"
     /\ pc' = "abort"
     /\ value' = 0 /\ UNCHANGED <<wait, arg>>

\* Release(index): push the slot back on the free stack.
Release(index) ==
  /\ freeSlots' = [freeSlots EXCEPT ![freeCount] = index]
  /\ freeCount' = freeCount + 1
  /\ ended' = ended \cup {arg}

\* Mutant: Probe looks at the tag of the word only.
ProbeLoadTagOnly ==
  /\ pc = "probe"
  /\ LET word == states[Index(arg.token)]
     IN  IF word % 4 # 0
         THEN pc' = "probeCas" /\ value' = word /\ UNCHANGED <<wait, arg>>
         ELSE ProbeReturnsZero
  /\ UNCHANGED <<poolVars, histVars>>

\* Probe, first shared access: the load of states_[index].
ProbeLoad ==
  /\ pc = "probe"
  /\ LET word == states[Index(arg.token)]
     IN  IF word \in {Done(arg.token, "ok"), Done(arg.token, "fail")}
         THEN pc' = "probeCas" /\ value' = word /\ UNCHANGED <<wait, arg>>
         ELSE ProbeReturnsZero
  /\ UNCHANGED <<poolVars, histVars>>

\* Probe, second shared access: compare_exchange_strong(value, 0).
ProbeCas ==
  /\ pc = "probeCas"
  /\ IF states[Index(arg.token)] = value
     THEN /\ states' = [states EXCEPT ![Index(arg.token)] = 0]
          /\ Release(Index(arg.token))
          /\ results' = results \cup
               {[event |-> arg, status |-> Verdict(value, arg.token)]}
          /\ Return
     ELSE /\ ProbeReturnsZero
          /\ UNCHANGED <<states, freeSlots, freeCount, ended, results>>
  /\ UNCHANGED <<generations, acquired, issued, fresh, outstanding, delivered>>

\* Abort, first shared access: the load, and the first test of the loop.
AbortLoad ==
  /\ pc = "abort"
  /\ LET word == states[Index(arg.token)]
     IN  IF TokenIn(word) = arg.token
         THEN pc' = "abortCas" /\ value' = word /\ UNCHANGED <<wait, arg>>
         ELSE Return
  /\ UNCHANGED <<poolVars, histVars>>

\* Abort, the compare_exchange_weak succeeds.
AbortCas ==
  /\ pc = "abortCas"
  /\ states[Index(arg.token)] = value
  /\ states' = [states EXCEPT ![Index(arg.token)] = 0]
  /\ Release(Index(arg.token))
  /\ Return
  /\ UNCHANGED <<generations, acquired, issued, fresh, outstanding, delivered,
                 results>>

\* Mutant: the failed exchange does not reload the word.
AbortRetryStale ==
  /\ pc = "abortCas"
  /\ states[Index(arg.token)] # value
  /\ UNCHANGED vars

\* Abort, the compare_exchange_weak fails: it reloads the word and the loop
\* tests it again.  A spurious failure reloads the same word and changes
\* nothing.
AbortRetry ==
  /\ pc = "abortCas"
  /\ LET word == states[Index(arg.token)]
     IN  /\ word # value
         /\ IF TokenIn(word) = arg.token
            THEN value' = word /\ UNCHANGED <<pc, wait, arg>>
            ELSE Return
  /\ UNCHANGED <<poolVars, histVars>>

(***************************************************************************)
(* The poll thread.                                                        *)
(***************************************************************************)

\* Mutant: Complete does not compare the generation.
CompleteAnyGeneration(e, status) ==
  /\ e \in outstanding
  /\ outstanding' = outstanding \ {e}
  /\ delivered' = delivered \cup {[event |-> e, status |-> status]}
  /\ LET word == states[Index(e.token)]
     IN  states' = IF word = Pending(TokenIn(word)) /\ word # 0
                   THEN [states EXCEPT ![Index(e.token)] = Done(TokenIn(word), status)]
                   ELSE states
  /\ UNCHANGED <<generations, freeSlots, freeCount, callVars, acquired, issued,
                 ended, fresh, results>>

\* A completion for e arrives, at any time after the post and in any order,
\* and CompleteEvent calls Complete(token, ok): one compare-and-swap.
Complete(e, status) ==
  /\ e \in outstanding
  /\ outstanding' = outstanding \ {e}
  /\ delivered' = delivered \cup {[event |-> e, status |-> status]}
  /\ states' = IF states[Index(e.token)] = Pending(e.token)
               THEN [states EXCEPT ![Index(e.token)] = Done(e.token, status)]
               ELSE states
  /\ UNCHANGED <<generations, freeSlots, freeCount, callVars, acquired, issued,
                 ended, fresh, results>>

WorkerCall ==
  \/ Acquire
  \/ \E e \in fresh : Post(e) \/ PostFails(e)
  \/ \E e \in issued : CallProbe(e) \/ CallWait(e)

WorkerStep == ProbeLoad \/ ProbeCas \/ AbortLoad \/ AbortCas \/ AbortRetry

PollThread == \E e \in outstanding, status \in Status : Complete(e, status)

Next == WorkerCall \/ WorkerStep \/ PollThread

Spec == Init /\ [][Next]_vars
-----------------------------------------------------------------------------
(***************************************************************************)
(* Properties.                                                             *)
(***************************************************************************)

\* Types of the state of the pool, of the worker's call and of the history.
TypeOK ==
  /\ states \in [Slot -> Nat]
  /\ generations \in [Slot -> 0 .. GenLimit - 1]
  /\ freeSlots \in [Slot -> Slot]
  /\ freeCount \in 0 .. kSlotCount
  /\ pc \in {"idle", "probe", "probeCas", "abort", "abortCas"}
  /\ wait \in {"no", "loop", "last"}
  /\ arg \in Event
  /\ value \in Nat
  /\ acquired \in [Slot -> 0 .. MaxAcquire]
  /\ issued \subseteq Event /\ ended \subseteq issued /\ fresh \subseteq issued
  /\ outstanding \subseteq issued
  /\ delivered \subseteq [event : issued, status : Status]
  /\ results \subseteq [event : issued, status : Status]

FreeStack == {freeSlots[n] : n \in 0 .. freeCount - 1}

\* The free stack holds every slot whose word is 0, once, and no other: no
\* slot leaks, none is handed out twice, and Acquire's compare-and-swap on a
\* popped slot cannot fail (event_slot_pool.h:39-46 is a defensive branch).
FreeStackExact ==
  /\ \A m, n \in 0 .. freeCount - 1 : freeSlots[m] = freeSlots[n] => m = n
  /\ FreeStack = {i \in Slot : states[i] = 0}

LiveEvents == issued \ ended

\* No slot has gone through all its generations yet.
NoWrap == \A i \in Slot : acquired[i] < GenLimit

\* As long as no slot has gone through all its generations, every slot in use
\* carries the token of exactly one event that was acquired and not given
\* back, and a free slot belongs to none.
OneLiveEventPerSlot ==
  NoWrap =>
    \A i \in Slot :
      IF states[i] = 0
      THEN \A e \in LiveEvents : e.slot # i
      ELSE \E e \in LiveEvents :
             /\ e.slot = i
             /\ e.token = TokenIn(states[i])
             /\ \A f \in LiveEvents : f.slot = i => f = e

\* As long as no slot has gone through all its generations, a verdict the worker
\* gets for an event is the one the hardware reported for that event: no late
\* completion is taken for another event (event_slot_pool.h:10-11).
ResultsAreFaithful ==
  NoWrap => results \subseteq delivered

\* With no bound on the acquisitions, a verdict comes from a completion of
\* the same slot whose acquisition lies a whole number of generation cycles
\* (GenLimit - 1, since generation 0 is skipped) away.
AliasOnlyAfterFullCycle ==
  \A r \in results : \E d \in delivered :
    /\ d.status = r.status
    /\ d.event.slot = r.event.slot
    /\ (d.event.k - r.event.k) % (GenLimit - 1) = 0

\* Nothing that is about an event already given back changes a state word: not
\* a late completion, not a Probe, WaitEvent or Abort with its stale token
\* (event_slot_pool.h:81).
EndedEventsAreInert ==
  [][ NoWrap =>
        /\ \A e \in outstanding \ outstanding' : e \in ended => states' = states
        /\ (pc # "idle" /\ arg \in ended /\ outstanding' = outstanding)
             => states' = states ]_vars

\* Every call of Probe, Abort or WaitEvent returns: the retry loop of Abort
\* (event_slot_pool.h:88-94) is not a livelock and WaitEvent ends after its
\* deadline, whatever the poll thread does.
CallsReturn == pc # "idle" ~> pc = "idle"

\* The worker thread keeps running inside a call, and its clock passes the
\* deadline of WaitEvent.  Nothing is assumed of the hardware.
FairSpec == Spec /\ WF_vars(WorkerStep)

(***************************************************************************)
(* The pool implements the event layer of module Events.                   *)
(***************************************************************************)
LivePending ==
  {e \in LiveEvents : states[e.slot] = Pending(e.token)}

LiveVerdicts ==
  {v \in [event : LiveEvents, status : Status] :
     states[v.event.slot] = Done(v.event.token, v.status)}

EventLayer == INSTANCE Events WITH
  EventId <- Event, Capacity <- kSlotCount,
  pending <- LivePending, verdict <- LiveVerdicts

\* Until a slot has gone through all its generations the pool behaves to its
\* callers as a set of independent events: every step of the two threads is a
\* step of module Events or changes nothing there.
ImplementsEvents ==
  EventLayer!Init /\ [][NoWrap' => [EventLayer!Next]_(EventLayer!vars)]_vars
-----------------------------------------------------------------------------
(***************************************************************************)
(* The inductive invariant behind the safety properties.                   *)
(***************************************************************************)

\* The generation the k-th acquisition of a slot gets: 1 .. GenLimit - 1 in a
\* cycle.
GenOf(k) == ((k - 1) % (GenLimit - 1)) + 1

CurToken(i) == Token(generations[i], i)

\* A slot's generation, and the token of every event, follow from the ordinal
\* of the acquisition; the latest acquisition of a slot is an issued event.
GenerationsInv ==
  /\ \A i \in Slot :
       generations[i] = IF acquired[i] = 0 THEN 0 ELSE GenOf(acquired[i])
  /\ \A e \in issued :
       e.k \in 1 .. acquired[e.slot] /\ e.token = Token(GenOf(e.k), e.slot)
  /\ \A i \in Slot : acquired[i] > 0 =>
       \E e \in issued : e.slot = i /\ e.k = acquired[i]

\* A word is 0 or carries the latest token of its slot, and a verdict in it
\* was delivered for that token.
WordsInv ==
  \A i \in Slot :
    /\ states[i] \in {0, Pending(CurToken(i)),
                      Done(CurToken(i), "ok"), Done(CurToken(i), "fail")}
    /\ states[i] # 0 => acquired[i] > 0
    /\ \A status \in Status : states[i] = Done(CurToken(i), status) =>
         \E d \in delivered : d.event.token = CurToken(i) /\ d.status = status

\* What the worker knows between its two accesses to a word.
CallInv ==
  /\ pc # "idle" => arg \in issued \ fresh
  /\ pc = "probeCas" =>
       value \in {Done(arg.token, "ok"), Done(arg.token, "fail")}
  /\ pc = "abortCas" => TokenIn(value) = arg.token

\* Every verdict handed out was delivered for an event with the same token.
ResultsInv ==
  \A r \in results : \E d \in delivered :
    d.event.token = r.event.token /\ d.status = r.status

\* While no slot has gone through all its generations, an event is live
\* exactly when it is the latest of its slot and the slot is in use.
LiveInv ==
  NoWrap =>
    \A e \in issued :
      e \notin ended <=> (e.k = acquired[e.slot] /\ states[e.slot] # 0)

PoolInv ==
  /\ TypeOK /\ FreeStackExact /\ GenerationsInv /\ WordsInv /\ CallInv
  /\ ResultsInv /\ LiveInv
=============================================================================
