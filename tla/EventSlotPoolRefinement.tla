---------------------- MODULE EventSlotPoolRefinement ----------------------
(***************************************************************************)
(* The slot pool implements the event layer of module Events, for every    *)
(* slot count, as long as no slot goes through all its generations.        *)
(***************************************************************************)
EXTENDS EventSlotPoolProofs

\* What a live event's word says: pending, or one of the two verdicts.
LEMMA LiveWord ==
  ASSUME PoolInv, NoWrap, NEW e \in LiveEvents
  PROVE  /\ states[e.slot] \in {Pending(e.token), Done(e.token, "ok"),
                                Done(e.token, "fail")}
         /\ Pending(e.token) # Done(e.token, "ok")
         /\ Pending(e.token) # Done(e.token, "fail")
         /\ Done(e.token, "ok") # Done(e.token, "fail")
<1>1. /\ e.slot \in Slot /\ e.token = CurToken(e.slot) /\ e.token \in Nat
      /\ states[e.slot] # 0
  BY LiveFacts
<1>2. states[e.slot] \in {Pending(e.token), Done(e.token, "ok"), Done(e.token, "fail")}
  BY <1>1 DEF PoolInv, WordsInv
<1>3. QED BY <1>1, <1>2, WordFacts

\* The abstract live events are the issued ones not given back.
LEMMA LiveLayer ==
  ASSUME PoolInv, NoWrap
  PROVE  EventLayer!Live = LiveEvents
<1>1. ASSUME NEW e \in LiveEvents PROVE e \in EventLayer!Live
  <2>1. CASE states[e.slot] = Pending(e.token)
    BY <2>1 DEF EventLayer!Live, LivePending
  <2>2. ASSUME NEW status \in Status, states[e.slot] = Done(e.token, status)
        PROVE  e \in EventLayer!Live
    <3>1. [event |-> e, status |-> status] \in LiveVerdicts
      BY <2>2 DEF LiveVerdicts
    <3>2. [event |-> e, status |-> status].event = e
      OBVIOUS
    <3>3. QED BY <3>1, <3>2 DEF EventLayer!Live
  <2>3. QED BY <2>1, <2>2, LiveWord DEF Status
<1>2. ASSUME NEW e \in EventLayer!Live PROVE e \in LiveEvents
  BY DEF EventLayer!Live, LivePending, LiveVerdicts
<1>3. QED BY <1>1, <1>2

\* A free slot leaves room for an event: there are fewer live events than
\* slots.
LEMMA RoomForEvent ==
  ASSUME PoolInv, NoWrap, NEW i \in Slot, states[i] = 0
  PROVE  Cardinality(LiveEvents) < kSlotCount
<1>1. IsFiniteSet(Slot) /\ Cardinality(Slot) = kSlotCount
  <2>1. 0 \in Int /\ kSlotCount - 1 \in Int /\ ~(0 > kSlotCount - 1)
        /\ (kSlotCount - 1) - 0 + 1 = kSlotCount
    BY SlotAssumption
  <2>2. IsFiniteSet(0 .. kSlotCount - 1) /\ Cardinality(0 .. kSlotCount - 1) = kSlotCount
    BY <2>1, FS_Interval
  <2>3. QED BY <2>2 DEF Slot
<1> DEFINE f == [e \in LiveEvents |-> e.slot]
<1>2. f \in [LiveEvents -> Slot \ {i}]
  BY LiveFacts
<1>3. \A d, e \in LiveEvents : f[d] = f[e] => d = e
  BY LiveFacts
<1>4. f \in Injection(LiveEvents, Slot \ {i})
  BY <1>2, <1>3 DEF Injection, IsInjective
<1>5. IsFiniteSet(Slot \ {i}) /\ Cardinality(Slot \ {i}) = kSlotCount - 1
  BY <1>1, FS_RemoveElement
<1>6. IsFiniteSet(LiveEvents) /\ Cardinality(LiveEvents) <= kSlotCount - 1
  BY <1>4, <1>5, FS_Injection
<1>7. Cardinality(LiveEvents) \in Nat
  BY <1>6, FS_CardinalityType
<1>8. QED BY <1>6, <1>7, SlotAssumption

\* The constructor establishes the initial state of the event layer.
LEMMA InitRefines == Init => EventLayer!Init
<1> SUFFICES ASSUME Init PROVE EventLayer!Init
  OBVIOUS
<1>1. LiveEvents = {}
  BY DEF Init, LiveEvents
<1>2. LivePending = {} /\ LiveVerdicts = {}
  BY <1>1 DEF LivePending, LiveVerdicts
<1>3. QED BY <1>2 DEF Init, EventLayer!Init

\* Acquire opens a new pending event; the others keep their state.
LEMMA AcquireRefines ==
  ASSUME PoolInv, PoolInv', NoWrap, Acquire
  PROVE  EventLayer!Next
<1>1. PICK i \in Slot, e \in Event :
           /\ states[i] = 0 /\ e.slot = i /\ e.k = acquired[i] + 1
           /\ states' = [states EXCEPT ![i] = Pending(e.token)]
           /\ issued' = issued \cup {e} /\ fresh' = fresh \cup {e}
           /\ UNCHANGED <<ended, outstanding, results>>
           /\ e.token > 0
  BY AcquireStep
<1>2. e \notin issued
  <2>1. acquired[i] \in Nat
    BY BoundAssumption DEF PoolInv, TypeOK
  <2>2. QED BY <1>1, <2>1, IssuedFacts DEF PoolInv
<1>3. LiveEvents' = LiveEvents \cup {e}
  BY <1>1, <1>2 DEF LiveEvents, PoolInv, TypeOK
<1>4. \A f \in LiveEvents : f.slot \in Slot /\ states'[f.slot] = states[f.slot]
  BY <1>1, LiveFacts DEF PoolInv, TypeOK
<1>5. states'[e.slot] = Pending(e.token)
  BY <1>1 DEF PoolInv, TypeOK
<1>6. Pending(e.token) # Done(e.token, "ok") /\ Pending(e.token) # Done(e.token, "fail")
  BY <1>1, WordFacts DEF Event
<1>7. LivePending' = LivePending \cup {e}
  BY <1>3, <1>4, <1>5 DEF LivePending
<1>8. LiveVerdicts' = LiveVerdicts
  BY <1>3, <1>4, <1>5, <1>6 DEF LiveVerdicts, Status
<1>9. EventLayer!Cardinality(EventLayer!Live) < kSlotCount
  <2>1. Cardinality(EventLayer!Live) < kSlotCount
    BY <1>1, LiveLayer, RoomForEvent
  <2>2. EventLayer!Cardinality(EventLayer!Live) = Cardinality(EventLayer!Live)
    BY DEF EventLayer!Cardinality, Cardinality, EventLayer!IsFiniteSet, IsFiniteSet
  <2>3. QED BY <2>1, <2>2
<1>10. EventLayer!Acquire(e)
  BY <1>1, <1>2, <1>7, <1>8, <1>9 DEF EventLayer!Acquire
<1>11. QED BY <1>10 DEF EventLayer!Next

\* Giving a slot back ends one event: with its verdict (Probe) or by
\* cancelling it (Abort).
LEMMA ReleaseRefines ==
  ASSUME PoolInv, NoWrap, Releases
  PROVE  EventLayer!Next
<1>1. /\ arg \in issued /\ arg.slot \in Slot /\ arg.token = CurToken(arg.slot)
      /\ states[arg.slot] = value /\ value # 0
      /\ states' = [states EXCEPT ![arg.slot] = 0]
      /\ ended' = ended \cup {arg}
      /\ UNCHANGED <<issued, fresh, outstanding>>
      /\ \/ results' = results
         \/ /\ value = Done(arg.token, "ok") \/ value = Done(arg.token, "fail")
            /\ results' = results \cup
                 {[event |-> arg, status |-> Verdict(value, arg.token)]}
  BY ReleaseStep
<1>2. arg \notin fresh
  BY DEF PoolInv, CallInv, Releases, ProbeCas, AbortCas
<1>3. arg \in LiveEvents
  <2>1. arg.k = acquired[arg.slot]
    BY <1>1, SameToken DEF PoolInv
  <2>2. QED BY <1>1, <2>1 DEF PoolInv, LiveInv, LiveEvents
<1>4. LiveEvents' = LiveEvents \ {arg}
  BY <1>1, <1>3 DEF LiveEvents
<1>5. \A f \in LiveEvents \ {arg} : f.slot \in Slot /\ states'[f.slot] = states[f.slot]
  <2> TAKE f \in LiveEvents \ {arg}
  <2>1. f.slot \in Slot /\ f.slot # arg.slot
    BY <1>3, LiveFacts
  <2>2. QED BY <1>1, <2>1 DEF PoolInv, TypeOK
<1>6. LivePending' = LivePending \ {arg}
  BY <1>4, <1>5 DEF LivePending
<1>7. LiveVerdicts' = {v \in LiveVerdicts : v.event # arg}
  BY <1>4, <1>5 DEF LiveVerdicts
<1>8. CASE results' = results
  <2>1. arg \in EventLayer!Live
    BY <1>3, LiveLayer
  <2>2. EventLayer!Cancel(arg)
    BY <1>1, <1>2, <1>6, <1>7, <1>8, <2>1 DEF EventLayer!Cancel
  <2>3. QED BY <2>1, <2>2 DEF EventLayer!Next
<1>9. CASE results' # results
  <2> DEFINE v == [event |-> arg, status |-> Verdict(value, arg.token)]
  <2>1. /\ Pending(arg.token) # Done(arg.token, "ok")
        /\ Pending(arg.token) # Done(arg.token, "fail")
        /\ Done(arg.token, "ok") # Done(arg.token, "fail")
    BY <1>3, LiveWord
  <2>2. /\ value = Done(arg.token, "ok") \/ value = Done(arg.token, "fail")
        /\ results' = results \cup {v}
    BY <1>1, <1>9
  <2>3. v \in LiveVerdicts
    BY <1>1, <1>3, <2>2 DEF LiveVerdicts, Verdict, Status
  <2>4. \A u \in LiveVerdicts : u.event = arg => u = v
    <3> SUFFICES ASSUME NEW u \in LiveVerdicts, u.event = arg PROVE u = v
      OBVIOUS
    <3>1. /\ u \in [event : LiveEvents, status : Status]
          /\ states[arg.slot] = Done(arg.token, u.status)
      BY DEF LiveVerdicts
    <3>2. u.status = Verdict(value, arg.token)
      BY <1>1, <2>1, <3>1 DEF Verdict, Status
    <3>3. QED BY <3>1, <3>2
  <2>5. v.event = arg
    OBVIOUS
  <2> HIDE DEF v
  <2>6. LiveVerdicts' = LiveVerdicts \ {v}
    BY <1>7, <2>3, <2>4, <2>5
  <2>7. arg \notin LivePending
    BY <1>1, <2>1, <2>2 DEF LivePending
  <2>8. EventLayer!Consume(v)
    BY <1>1, <1>6, <2>2, <2>3, <2>6, <2>7, SMTT(30) DEF EventLayer!Consume
  <2>9. QED BY <2>3, <2>8 DEF EventLayer!Next
<1>10. QED BY <1>8, <1>9

\* Steps inside a call are invisible; posting is the layer's own step.
LEMMA QuietRefines ==
  ASSUME PoolInv, Quiet
  PROVE  EventLayer!Next \/ UNCHANGED EventLayer!vars
<1>1. UNCHANGED <<states, issued, ended, results>>
  BY QuietStep
<1>2. UNCHANGED <<LivePending, LiveVerdicts>>
  BY <1>1 DEF LivePending, LiveVerdicts, LiveEvents
<1>3. CASE UNCHANGED <<fresh, outstanding>>
  BY <1>1, <1>2, <1>3 DEF EventLayer!vars
<1>4. ASSUME NEW e \in fresh, Post(e) \/ PostFails(e)
      PROVE  EventLayer!Next
  <2>1. EventLayer!Post(e) \/ EventLayer!PostFails(e)
    BY <1>1, <1>2, <1>4 DEF Post, PostFails, EventLayer!Post, EventLayer!PostFails
  <2>2. QED BY <2>1 DEF EventLayer!Next
<1>5. QED BY <1>3, <1>4 DEF Quiet, CallProbe, CallWait, ProbeLoad, AbortLoad,
             AbortRetry, ProbeCas, histVars

\* A completion reaches its own event if that is still pending, and no other.
LEMMA CompleteRefines ==
  ASSUME PoolInv, NoWrap,
         NEW e \in outstanding, NEW verdict \in Status, Complete(e, verdict)
  PROVE  EventLayer!Complete(e, verdict)
<1>1. /\ e \in issued /\ e.slot \in Slot
      /\ \/ states' = states
         \/ /\ e.token = CurToken(e.slot)
            /\ states[e.slot] = Pending(e.token) /\ states[e.slot] # 0
            /\ states' = [states EXCEPT ![e.slot] = Done(e.token, verdict)]
      /\ outstanding' = outstanding \ {e}
      /\ UNCHANGED <<issued, ended, fresh, results>>
  BY CompleteStep
<1>2. LiveEvents' = LiveEvents
  BY <1>1 DEF LiveEvents
<1>3. CASE e \in LivePending
  <2>1. e \in LiveEvents /\ states[e.slot] = Pending(e.token)
    BY <1>3 DEF LivePending
  <2>2. /\ Pending(e.token) # Done(e.token, "ok")
        /\ Pending(e.token) # Done(e.token, "fail")
        /\ Done(e.token, "ok") # Done(e.token, "fail")
    BY <2>1, LiveWord
  <2>3. Index(e.token) = e.slot
    BY <1>1, IssuedFacts DEF PoolInv
  <2>4. states' = [states EXCEPT ![e.slot] = Done(e.token, verdict)]
    BY <2>1, <2>3 DEF Complete
  <2>5. states'[e.slot] = Done(e.token, verdict)
    BY <1>1, <2>4 DEF PoolInv, TypeOK
  <2>6. \A f \in LiveEvents \ {e} : states'[f.slot] = states[f.slot]
    <3> TAKE f \in LiveEvents \ {e}
    <3>1. f.slot \in Slot /\ f.slot # e.slot
      BY <2>1, LiveFacts
    <3>2. QED BY <2>4, <3>1, SMTT(30) DEF PoolInv, TypeOK
  <2>7. LivePending' = LivePending \ {e}
    BY <1>2, <2>2, <2>5, <2>6 DEF LivePending, Status
  <2>8. LiveVerdicts' = LiveVerdicts \cup {[event |-> e, status |-> verdict]}
    <3> DEFINE w == [event |-> e, status |-> verdict]
    <3>1. w \in [event : LiveEvents, status : Status] /\ w.event = e /\ w.status = verdict
      BY <2>1
    <3>2. \A v \in [event : LiveEvents, status : Status] :
            v.event = e /\ v.status = verdict => v = w
      OBVIOUS
    <3>3. \A v \in [event : LiveEvents, status : Status] :
            (states'[v.event.slot] = Done(v.event.token, v.status))
              <=> (states[v.event.slot] = Done(v.event.token, v.status) \/ v = w)
      <4> TAKE v \in [event : LiveEvents, status : Status]
      <4>1. CASE v.event = e
        BY <2>1, <2>2, <2>5, <3>1, <3>2, <4>1, SMTT(30) DEF Status
      <4>2. CASE v.event # e
        BY <2>6, <3>1, <4>2
      <4>3. QED BY <4>1, <4>2
    <3> HIDE DEF w
    <3>4. LiveVerdicts' = LiveVerdicts \cup {w}
      BY <1>2, <3>1, <3>3 DEF LiveVerdicts
    <3>5. QED BY <3>4 DEF w
  <2>9. QED BY <1>1, <1>3, <2>7, <2>8 DEF EventLayer!Complete
<1>4. CASE e \notin LivePending
  <2>1. states' = states
    <3> SUFFICES ASSUME states' # states PROVE FALSE
      OBVIOUS
    <3>1. e.k = acquired[e.slot]
      BY <1>1, SameToken DEF PoolInv
    <3>2. e \in LiveEvents
      BY <1>1, <3>1 DEF PoolInv, LiveInv, LiveEvents
    <3>3. QED BY <1>1, <1>4, <3>2 DEF LivePending
  <2>2. UNCHANGED <<LivePending, LiveVerdicts>>
    BY <1>2, <2>1 DEF LivePending, LiveVerdicts
  <2>3. QED BY <1>1, <1>4, <2>2 DEF EventLayer!Complete
<1>5. QED BY <1>3, <1>4

\* Every behaviour of the pool is a behaviour of the event layer, as long as no
\* slot goes through all its generations: callers may reason about events as
\* independent objects, without slots, generations, late completions or retries.
THEOREM PoolImplementsEvents == Spec => ImplementsEvents
<1>1. PoolInv /\ PoolInv' /\ [Next]_vars
        => [NoWrap' => [EventLayer!Next]_(EventLayer!vars)]_vars
  <2> SUFFICES ASSUME PoolInv, PoolInv', Next, NoWrap'
      PROVE  EventLayer!Next \/ UNCHANGED EventLayer!vars
    OBVIOUS
  <2>0. NoWrap
    BY NoWrapBefore
  <2>1. CASE Acquire
    BY <2>0, <2>1, AcquireRefines
  <2>2. CASE Releases
    BY <2>0, <2>2, ReleaseRefines
  <2>3. CASE Quiet
    BY <2>3, QuietRefines
  <2>4. CASE PollThread
    <3>1. PICK e \in outstanding, status \in Status : Complete(e, status)
      BY <2>4 DEF PollThread
    <3>2. EventLayer!Complete(e, status)
      BY <2>0, <3>1, CompleteRefines
    <3>3. QED BY <3>2 DEF EventLayer!Next, EventLayer!Status, Status
  <2>5. QED BY <2>1, <2>2, <2>3, <2>4, StepKinds
<1>2. QED BY <1>1, InitRefines, PoolInvariant, PTL DEF Spec, ImplementsEvents

\* In a run in which no slot is acquired as often as there are generations, the
\* pool implements the event layer outright.
THEOREM BoundedPoolImplementsEvents ==
  ASSUME MaxAcquire < GenLimit
  PROVE  Spec => EventLayer!Spec
<1>1. PoolInv => NoWrap
  BY BoundAssumption, GenAssumption, SMTT(30) DEF PoolInv, TypeOK, NoWrap
<1>2. /\ NoWrap'
      /\ [NoWrap' => [EventLayer!Next]_(EventLayer!vars)]_vars
      => [EventLayer!Next]_(EventLayer!vars)
  BY DEF vars, poolVars, callVars, histVars, EventLayer!vars, LivePending, LiveVerdicts,
         LiveEvents
<1>3. QED BY <1>1, <1>2, PoolInvariant, PoolImplementsEvents, PTL
          DEF ImplementsEvents, EventLayer!Spec
=============================================================================
