----------------------- MODULE EventSlotPoolInvariant -----------------------
(***************************************************************************)
(* PoolInv is an inductive invariant of EventSlotPool, for every slot      *)
(* count, generation width and number of acquisitions.                     *)
(***************************************************************************)
EXTENDS EventSlotPoolLemmas

(***************************************************************************)
(* The invariant is inductive, part by part.                               *)
(***************************************************************************)

\* The constructor establishes the invariant.
LEMMA InitInv == Init => PoolInv
<1> SUFFICES ASSUME Init PROVE PoolInv
  OBVIOUS
<1> USE SlotAssumption, GenAssumption, BoundAssumption
<1>1. TypeOK
  BY NoEventType DEF Init, TypeOK, Slot
<1>2. FreeStackExact
  <2>1. \A n \in 0 .. freeCount - 1 : freeSlots[n] = freeCount - 1 - n
    BY DEF Init, Slot
  <2>2. FreeStack = Slot
    <3>1. ASSUME NEW i \in Slot PROVE i \in FreeStack
      <4>1. kSlotCount - 1 - i \in 0 .. freeCount - 1
        BY DEF Init, Slot
      <4>2. freeSlots[kSlotCount - 1 - i] = i
        BY <2>1, <4>1 DEF Init, Slot
      <4>3. QED BY <4>1, <4>2 DEF FreeStack
    <3>2. ASSUME NEW n \in 0 .. freeCount - 1 PROVE freeSlots[n] \in Slot
      <4>1. freeCount = kSlotCount
        BY DEF Init
      <4>2. freeSlots[n] = kSlotCount - 1 - n
        BY <2>1, <4>1
      <4>3. QED BY <4>1, <4>2 DEF Slot
    <3>3. FreeStack \subseteq Slot
      BY <3>2 DEF FreeStack
    <3>4. Slot \subseteq FreeStack
      BY <3>1
    <3>5. QED BY <3>3, <3>4
  <2>3. QED BY <2>1, <2>2 DEF Init, FreeStackExact, Slot
<1>3. GenerationsInv /\ CallInv /\ ResultsInv /\ LiveInv
  BY DEF Init, GenerationsInv, CallInv, ResultsInv, LiveInv
<1>4. WordsInv
  <2>1. ASSUME NEW i \in Slot PROVE Done(CurToken(i), "ok") # 0 /\ Done(CurToken(i), "fail") # 0
    <3>1. CurToken(i) \in Nat
      BY <1>1, <1>3, CurTokenFacts
    <3>2. QED BY <3>1, WordFacts
  <2>2. QED BY <2>1 DEF Init, WordsInv, Status
<1>5. QED BY <1>1, <1>2, <1>3, <1>4 DEF PoolInv

\* No step leaves the types.
LEMMA TypeStep ==
  ASSUME PoolInv, Next
  PROVE  TypeOK'
<1> USE DEF TypeOK
<1>0. TypeOK
  BY DEF PoolInv
<1>1. CASE Acquire
  <2>1. PICK i \in Slot, e \in Event :
           /\ freeCount > 0 /\ acquired[i] < MaxAcquire /\ e.token > 0
           /\ GenOf(e.k) \in 1 .. GenLimit - 1
           /\ generations' = [generations EXCEPT ![i] = GenOf(e.k)]
           /\ states' = [states EXCEPT ![i] = Pending(e.token)]
           /\ freeCount' = freeCount - 1
           /\ acquired' = [acquired EXCEPT ![i] = @ + 1]
           /\ issued' = issued \cup {e} /\ fresh' = fresh \cup {e}
           /\ UNCHANGED <<freeSlots, pc, wait, arg, value, ended, outstanding,
                          delivered, results>>
    BY <1>1, AcquireStep
  <2>2. Pending(e.token) \in Nat
    BY WordFacts DEF Event
  <2>3. /\ states' \in [Slot -> Nat]
        /\ generations' \in [Slot -> 0 .. GenLimit - 1]
        /\ acquired' \in [Slot -> 0 .. MaxAcquire]
        /\ freeCount' \in 0 .. kSlotCount
    BY <1>0, <2>1, <2>2, BoundAssumption, GenAssumption, SlotAssumption
  <2>4. /\ delivered' \subseteq [event : issued', status : Status]
        /\ results' \subseteq [event : issued', status : Status]
    BY <1>0, <2>1
  <2>5. QED BY <1>0, <2>1, <2>3, <2>4
<1>2. CASE Releases
  <2>1. Verdict(value, arg.token) \in Status
    BY DEF Verdict, Status
  <2>2. /\ arg \in issued /\ arg.slot \in Slot /\ freeCount < kSlotCount
        /\ states' = [states EXCEPT ![arg.slot] = 0]
        /\ freeSlots' = [freeSlots EXCEPT ![freeCount] = arg.slot]
        /\ freeCount' = freeCount + 1
        /\ ended' = ended \cup {arg}
        /\ pc' = "idle" /\ wait' = "no" /\ arg' = NoEvent /\ value' = 0
        /\ UNCHANGED <<generations, acquired, issued, fresh, outstanding, delivered>>
    BY <1>2, ReleaseStep
  <2>3. /\ states' \in [Slot -> Nat]
        /\ freeSlots' \in [Slot -> Slot]
        /\ freeCount' \in 0 .. kSlotCount
    <3>1. freeCount' \in 0 .. kSlotCount /\ 0 \in Nat
      BY <1>0, <2>2, SlotAssumption
    <3>2. QED BY <1>0, <2>2, <3>1, Zenon
  <2>4. results' \subseteq [event : issued, status : Status]
    <3>1. \/ results' = results
          \/ results' = results \cup
               {[event |-> arg, status |-> Verdict(value, arg.token)]}
      BY <1>2, ReleaseStep
    <3>2. QED BY <1>0, <2>1, <2>2, <3>1
  <2>5. QED BY <1>0, <2>2, <2>3, <2>4, NoEventType
<1>3. CASE Quiet
  BY <1>0, <1>3, QuietStep
<1>4. CASE PollThread
  <2>1. PICK e \in outstanding, status \in Status : Complete(e, status)
    BY <1>4 DEF PollThread
  <2>2. Done(e.token, status) \in Nat
    <3>1. e.token \in Nat
      BY <1>0, IssuedFacts DEF PoolInv
    <3>2. QED BY <3>1, WordFacts DEF Status
  <2>3. QED BY <1>0, <2>1, <2>2, CompleteStep
<1>5. QED BY <1>1, <1>2, <1>3, <1>4, StepKinds

\* No step leaks a slot or pushes one twice.
LEMMA FreeStackStep ==
  ASSUME PoolInv, Next
  PROVE  FreeStackExact'
<1>0. TypeOK /\ FreeStackExact
  BY DEF PoolInv
<1>1. CASE Acquire
  <2>1. PICK i \in Slot, e \in Event :
           /\ freeCount > 0 /\ i = freeSlots[freeCount - 1] /\ e.token > 0
           /\ states' = [states EXCEPT ![i] = Pending(e.token)]
           /\ freeCount' = freeCount - 1 /\ freeSlots' = freeSlots
    BY <1>1, AcquireStep
  <2>2. Pending(e.token) # 0
    BY <2>1, WordFacts DEF Event
  <2>3. \A n \in 0 .. freeCount - 2 : freeSlots[n] # i
    BY <1>0, <2>1 DEF TypeOK, FreeStackExact
  <2>4. FreeStack' = FreeStack \ {i}
    <3>1. FreeStack' = {freeSlots[n] : n \in 0 .. freeCount - 2}
      BY <1>0, <2>1 DEF FreeStack, TypeOK
    <3>2. 0 .. freeCount - 1 = (0 .. freeCount - 2) \cup {freeCount - 1}
      BY <1>0, <2>1 DEF TypeOK
    <3>3. QED BY <2>1, <2>3, <3>1, <3>2 DEF FreeStack
  <2>5. {j \in Slot : states'[j] = 0} = {j \in Slot : states[j] = 0} \ {i}
    BY <1>0, <2>1, <2>2 DEF TypeOK
  <2>6. \A m, n \in 0 .. freeCount' - 1 : freeSlots'[m] = freeSlots'[n] => m = n
    BY <1>0, <2>1 DEF TypeOK, FreeStackExact
  <2>7. QED BY <1>0, <2>4, <2>5, <2>6 DEF FreeStackExact
<1>2. CASE Releases
  <2>1. /\ arg.slot \in Slot /\ states[arg.slot] # 0 /\ freeCount < kSlotCount
        /\ states' = [states EXCEPT ![arg.slot] = 0]
        /\ freeSlots' = [freeSlots EXCEPT ![freeCount] = arg.slot]
        /\ freeCount' = freeCount + 1
    BY <1>2, ReleaseStep
  <2>2. /\ freeCount \in Slot /\ freeCount \in Nat
        /\ freeSlots'[freeCount] = arg.slot
        /\ \A n \in 0 .. freeCount - 1 : n \in Slot /\ freeSlots'[n] = freeSlots[n]
    BY <1>0, <2>1, SlotAssumption DEF TypeOK, Slot
  <2>3. \A n \in 0 .. freeCount - 1 : freeSlots[n] # arg.slot
    BY <1>0, <2>1 DEF FreeStackExact, FreeStack
  <2>4. 0 .. freeCount' - 1 = (0 .. freeCount - 1) \cup {freeCount}
    BY <2>1, <2>2
  <2>5. FreeStack' = FreeStack \cup {arg.slot}
    BY <2>2, <2>4 DEF FreeStack
  <2>6. {j \in Slot : states'[j] = 0} = {j \in Slot : states[j] = 0} \cup {arg.slot}
    BY <1>0, <2>1 DEF TypeOK
  <2>7. \A m, n \in 0 .. freeCount' - 1 : freeSlots'[m] = freeSlots'[n] => m = n
    BY <1>0, <2>2, <2>3, <2>4 DEF FreeStackExact
  <2>8. QED BY <1>0, <2>5, <2>6, <2>7 DEF FreeStackExact
<1>3. CASE Quiet
  BY <1>0, <1>3, QuietStep DEF FreeStackExact, FreeStack
<1>4. CASE PollThread
  <2>1. PICK e \in outstanding, status \in Status : Complete(e, status)
    BY <1>4 DEF PollThread
  <2>2. Done(e.token, status) # 0
    <3>1. e.token \in Nat
      BY IssuedFacts DEF PoolInv, TypeOK
    <3>2. QED BY <3>1, WordFacts DEF Status
  <2>3. UNCHANGED <<freeSlots, freeCount>>
    BY <2>1, CompleteStep
  <2>4. {j \in Slot : states'[j] = 0} = {j \in Slot : states[j] = 0}
    BY <1>0, <2>1, <2>2, CompleteStep, SMTT(30) DEF TypeOK
  <2>5. QED BY <1>0, <2>3, <2>4 DEF FreeStackExact, FreeStack
<1>5. QED BY <1>1, <1>2, <1>3, <1>4, StepKinds

\* Generations and tokens keep following the acquisitions.
LEMMA GenerationsStep ==
  ASSUME PoolInv, Next
  PROVE  GenerationsInv'
<1>0. TypeOK /\ GenerationsInv
  BY DEF PoolInv
<1>1. CASE Acquire
  <2>1. PICK i \in Slot, e \in Event :
           /\ acquired[i] < MaxAcquire
           /\ e.slot = i /\ e.k = acquired[i] + 1
           /\ e.token = Token(GenOf(e.k), i)
           /\ generations' = [generations EXCEPT ![i] = GenOf(e.k)]
           /\ acquired' = [acquired EXCEPT ![i] = @ + 1]
           /\ issued' = issued \cup {e}
    BY <1>1, AcquireStep
  <2>2. \A j \in Slot : acquired[j] \in Nat
    BY <1>0, BoundAssumption DEF TypeOK
  <2>3. /\ acquired'[i] = acquired[i] + 1 /\ generations'[i] = GenOf(acquired[i] + 1)
        /\ \A j \in Slot \ {i} :
             acquired'[j] = acquired[j] /\ generations'[j] = generations[j]
    BY <1>0, <2>1 DEF TypeOK
  <2>4. \A j \in Slot :
          generations'[j] = IF acquired'[j] = 0 THEN 0 ELSE GenOf(acquired'[j])
    BY <1>0, <2>2, <2>3 DEF GenerationsInv
  <2>5. \A f \in issued' :
          f.k \in 1 .. acquired'[f.slot] /\ f.token = Token(GenOf(f.k), f.slot)
    <3>1. ASSUME NEW f \in issued
          PROVE  f.k \in 1 .. acquired'[f.slot] /\ f.token = Token(GenOf(f.k), f.slot)
      <4>1. f.slot \in Slot /\ f.k \in 1 .. acquired[f.slot]
            /\ f.token = Token(GenOf(f.k), f.slot)
        BY <1>0 DEF GenerationsInv, TypeOK, Event
      <4>2. QED BY <2>2, <2>3, <4>1
    <3>2. e.k \in 1 .. acquired'[e.slot] /\ e.token = Token(GenOf(e.k), e.slot)
      BY <2>1, <2>2, <2>3
    <3>3. QED BY <2>1, <3>1, <3>2
  <2>6. \A j \in Slot : acquired'[j] > 0 =>
          \E f \in issued' : f.slot = j /\ f.k = acquired'[j]
    <3>1. e \in issued' /\ e.slot = i /\ e.k = acquired'[i]
      BY <2>1, <2>3
    <3>2. QED BY <1>0, <2>1, <2>3, <3>1 DEF GenerationsInv
  <2>7. QED BY <2>4, <2>5, <2>6 DEF GenerationsInv
<1>2. CASE Releases
  BY <1>0, <1>2, ReleaseStep, SMTT(30) DEF GenerationsInv
<1>3. CASE Quiet
  BY <1>0, <1>3, QuietStep DEF GenerationsInv
<1>4. CASE PollThread
  <2>1. UNCHANGED <<generations, acquired, issued>>
    BY <1>4, CompleteStep, SMTT(30) DEF PollThread
  <2>2. QED BY <1>0, <2>1 DEF GenerationsInv
<1>5. QED BY <1>1, <1>2, <1>3, <1>4, StepKinds

\* Words keep carrying the latest token of their slot.
LEMMA WordsStep ==
  ASSUME PoolInv, Next
  PROVE  WordsInv'
<1> DEFINE WordOK(i) ==
      /\ states[i] \in {0, Pending(CurToken(i)),
                        Done(CurToken(i), "ok"), Done(CurToken(i), "fail")}
      /\ states[i] # 0 => acquired[i] > 0
      /\ \A status \in Status : states[i] = Done(CurToken(i), status) =>
           \E d \in delivered : d.event.token = CurToken(i) /\ d.status = status
<1>0. TypeOK /\ GenerationsInv /\ \A i \in Slot : WordOK(i) /\ CurToken(i) \in Nat
  BY CurTokenFacts DEF PoolInv, WordsInv
<1>1. SUFFICES ASSUME NEW j \in Slot PROVE WordOK(j)'
  BY DEF WordsInv
<1>2. CASE Acquire
  <2>1. PICK i \in Slot, e \in Event :
           /\ states[i] = 0 /\ acquired[i] < MaxAcquire
           /\ e.token = Token(GenOf(e.k), i) /\ e.token > 0
           /\ generations' = [generations EXCEPT ![i] = GenOf(e.k)]
           /\ states' = [states EXCEPT ![i] = Pending(e.token)]
           /\ acquired' = [acquired EXCEPT ![i] = @ + 1]
           /\ delivered' = delivered
    BY <1>2, AcquireStep
  <2>2. CASE j = i
    <3>1. CurToken(j)' = e.token /\ states'[j] = Pending(e.token)
          /\ acquired'[j] = acquired[j] + 1 /\ acquired[j] \in Nat
      BY <1>0, <2>1, <2>2, BoundAssumption DEF TypeOK, CurToken
    <3>2. Pending(e.token) # Done(e.token, "ok") /\ Pending(e.token) # Done(e.token, "fail")
      BY WordFacts DEF Event
    <3>3. QED BY <3>1, <3>2 DEF Status
  <2>3. CASE j # i
    <3>1. CurToken(j)' = CurToken(j) /\ states'[j] = states[j]
          /\ acquired'[j] = acquired[j]
      BY <1>0, <2>1, <2>3 DEF TypeOK, CurToken
    <3>2. QED BY <1>0, <2>1, <3>1
  <2>4. QED BY <2>2, <2>3
<1>3. CASE Releases
  <2>1. /\ arg.slot \in Slot /\ states' = [states EXCEPT ![arg.slot] = 0]
        /\ UNCHANGED <<generations, acquired, delivered>>
    BY <1>3, ReleaseStep
  <2>2. CurToken(j)' = CurToken(j)
    BY <2>1 DEF CurToken
  <2>3. Done(CurToken(j), "ok") # 0 /\ Done(CurToken(j), "fail") # 0
    BY <1>0, WordFacts
  <2>4. CASE j = arg.slot
    <3>1. states'[j] = 0
      BY <1>0, <2>1, <2>4 DEF TypeOK
    <3>2. QED BY <2>2, <2>3, <3>1 DEF Status
  <2>5. CASE j # arg.slot
    <3>1. states'[j] = states[j]
      BY <1>0, <2>1, <2>5 DEF TypeOK
    <3>2. QED BY <1>0, <2>1, <2>2, <3>1
  <2>6. QED BY <2>4, <2>5
<1>4. CASE Quiet
  <2>1. UNCHANGED <<states, generations, acquired, delivered>>
    BY <1>4, QuietStep
  <2>2. CurToken(j)' = CurToken(j)
    BY <2>1 DEF CurToken
  <2>3. QED BY <1>0, <2>1, <2>2
<1>5. CASE PollThread
  <2>1. PICK e \in outstanding, verdict \in Status : Complete(e, verdict)
    BY <1>5 DEF PollThread
  <2>2. /\ e.slot \in Slot /\ UNCHANGED <<generations, acquired>>
        /\ delivered' = delivered \cup {[event |-> e, status |-> verdict]}
        /\ \/ states' = states
           \/ /\ e.token = CurToken(e.slot) /\ states[e.slot] # 0
              /\ states' = [states EXCEPT ![e.slot] = Done(e.token, verdict)]
    BY <2>1, CompleteStep, SMTT(30)
  <2>3. CurToken(j)' = CurToken(j)
    BY <2>2 DEF CurToken
  <2>4. CASE states'[j] = states[j]
    BY <1>0, <2>2, <2>3, <2>4, SMTT(30)
  <2>5. CASE states'[j] # states[j]
    <3>1. /\ j = e.slot /\ e.token = CurToken(j) /\ states[j] # 0
          /\ states'[j] = Done(CurToken(j), verdict)
      BY <1>0, <2>2, <2>5 DEF TypeOK
    <3>2. \A status \in Status : Done(CurToken(j), verdict) = Done(CurToken(j), status)
            => status = verdict
      BY <1>0, WordFacts DEF Status
    <3>3. \A status \in Status : states'[j] = Done(CurToken(j), status) =>
            \E d \in delivered' : d.event.token = CurToken(j) /\ d.status = status
      <4>1. [event |-> e, status |-> verdict] \in delivered'
        BY <2>2
      <4>2. QED BY <3>1, <3>2, <4>1
    <3>4. QED BY <1>0, <2>2, <2>3, <3>1, <3>3, SMTT(30) DEF Status
  <2>6. QED BY <2>4, <2>5
<1>6. QED BY <1>2, <1>3, <1>4, <1>5, StepKinds

\* The worker keeps what it knows of its own call: no other thread acts on it.
LEMMA CallStep ==
  ASSUME PoolInv, Next
  PROVE  CallInv'
<1>0. CallInv
  BY DEF PoolInv
<1>1. CASE Acquire
  <2>1. pc' = "idle"
    BY <1>1, AcquireStep, Zenon DEF Acquire
  <2>2. QED BY <2>1, SMTT(30) DEF CallInv
<1>2. CASE Releases
  <2>1. pc' = "idle"
    BY <1>2, ReleaseStep
  <2>2. QED BY <2>1 DEF CallInv
<1>3. CASE Quiet
  BY <1>3, QuietStep
<1>4. CASE PollThread
  <2>1. UNCHANGED <<pc, arg, value, issued, fresh>>
    BY <1>4, CompleteStep DEF PollThread
  <2>2. QED BY <1>0, <2>1 DEF CallInv
<1>5. QED BY <1>1, <1>2, <1>3, <1>4, StepKinds

\* A verdict that is consumed had been delivered for the same token.
LEMMA ResultsStep ==
  ASSUME PoolInv, Next
  PROVE  ResultsInv'
<1>0. TypeOK /\ GenerationsInv /\ ResultsInv
  BY DEF PoolInv
<1>1. CASE Acquire
  BY <1>0, <1>1, AcquireStep DEF ResultsInv
<1>2. CASE Releases
  <2>1. delivered' = delivered
    BY <1>2, ReleaseStep
  <2>2. CASE results' = results
    BY <1>0, <2>1, <2>2 DEF ResultsInv
  <2>3. CASE results' # results
    <3> DEFINE verdict == Verdict(value, arg.token)
    <3>1. /\ arg.slot \in Slot /\ arg.token = CurToken(arg.slot)
          /\ states[arg.slot] = value
          /\ value = Done(arg.token, "ok") \/ value = Done(arg.token, "fail")
          /\ results' = results \cup {[event |-> arg, status |-> verdict]}
      BY <1>2, <2>3, ReleaseStep
    <3>2. verdict \in Status /\ value = Done(arg.token, verdict)
      <4>1. CurToken(arg.slot) \in Nat
        BY <1>0, <3>1, CurTokenFacts
      <4>2. QED BY <3>1, <4>1, WordFacts DEF Verdict, Status
    <3>3. \E d \in delivered : d.event.token = arg.token /\ d.status = verdict
      BY <3>1, <3>2 DEF PoolInv, WordsInv
    <3> HIDE DEF verdict
    <3>4. QED BY <1>0, <2>1, <3>1, <3>3 DEF ResultsInv
  <2>4. QED BY <2>2, <2>3
<1>3. CASE Quiet
  BY <1>0, <1>3, QuietStep DEF ResultsInv
<1>4. CASE PollThread
  <2>1. results' = results /\ delivered \subseteq delivered'
    BY <1>4, CompleteStep DEF PollThread
  <2>2. QED BY <1>0, <2>1 DEF ResultsInv
<1>5. QED BY <1>1, <1>2, <1>3, <1>4, StepKinds

\* Slots never forget acquisitions: if none has wrapped after a step, none had
\* before it.
LEMMA NoWrapBefore ==
  ASSUME PoolInv, Next, NoWrap'
  PROVE  NoWrap
<1>1. acquired \in [Slot -> Nat] /\ GenLimit \in Nat
  BY BoundAssumption, GenAssumption DEF PoolInv, TypeOK
<1>2. CASE Acquire
  <2>1. PICK i \in Slot : acquired' = [acquired EXCEPT ![i] = @ + 1]
    BY <1>2, AcquireStep
  <2>2. QED BY <1>1, <2>1 DEF NoWrap
<1>3. CASE acquired' = acquired
  BY <1>3 DEF NoWrap
<1>4. CASE Releases
  BY <1>3, <1>4, ReleaseStep
<1>5. CASE Quiet
  BY <1>3, <1>5, QuietStep
<1>6. CASE PollThread
  BY <1>3, <1>6, CompleteStep DEF PollThread
<1>7. QED BY <1>2, <1>4, <1>5, <1>6, StepKinds

\* Within one generation cycle the live events stay the latest ones of the
\* slots in use.
LEMMA LiveStep ==
  ASSUME PoolInv, Next
  PROVE  LiveInv'
<1>0. /\ TypeOK /\ GenerationsInv
      /\ \A e \in issued : e \in Event /\ e.slot \in Slot /\ e.k \in Nat
                             /\ e.k <= acquired[e.slot]
      /\ \A i \in Slot : acquired[i] \in Nat
      /\ ended \subseteq issued
  BY IssuedFacts, BoundAssumption DEF PoolInv, TypeOK
<1>1. SUFFICES ASSUME NoWrap, NEW f \in issued'
               PROVE  f \notin ended' <=> (f.k = acquired'[f.slot] /\ states'[f.slot] # 0)
  BY NoWrapBefore DEF LiveInv
<1>2. \A e \in issued :
        e \notin ended <=> (e.k = acquired[e.slot] /\ states[e.slot] # 0)
  BY <1>1 DEF PoolInv, LiveInv
<1>3. CASE Acquire
  <2>1. PICK i \in Slot, e \in Event :
           /\ states[i] = 0 /\ e.slot = i /\ e.k = acquired[i] + 1 /\ e.token > 0
           /\ states' = [states EXCEPT ![i] = Pending(e.token)]
           /\ acquired' = [acquired EXCEPT ![i] = @ + 1]
           /\ issued' = issued \cup {e} /\ ended' = ended
    BY <1>3, AcquireStep, Zenon
  <2>2. Pending(e.token) # 0
    BY <2>1, WordFacts DEF Event
  <2>3. /\ acquired'[i] = acquired[i] + 1 /\ states'[i] # 0
        /\ \A j \in Slot \ {i} : acquired'[j] = acquired[j] /\ states'[j] = states[j]
    BY <1>0, <2>1, <2>2 DEF TypeOK
  <2>4. CASE f = e
    <3>1. e \notin issued
      BY <1>0, <2>1
    <3>2. QED BY <1>0, <2>1, <2>3, <2>4, <3>1
  <2>5. CASE f \in issued
    BY <1>0, <1>2, <2>1, <2>3, <2>5
  <2>6. QED BY <2>1, <2>4, <2>5, SMTT(30)
<1>4. CASE Releases
  <2>1. /\ arg \in issued /\ arg.slot \in Slot /\ arg.token = CurToken(arg.slot)
        /\ states[arg.slot] # 0
        /\ states' = [states EXCEPT ![arg.slot] = 0]
        /\ ended' = ended \cup {arg}
        /\ UNCHANGED <<acquired, issued>>
    BY <1>4, ReleaseStep
  <2>2. arg.k = acquired[arg.slot]
    BY <1>0, <1>1, <2>1, SameToken
  <2>3. ASSUME f.slot = arg.slot, f.k = arg.k PROVE f = arg
    BY <1>0, <2>1, <2>3, EventUnique
  <2>4. \A j \in Slot : states'[j] = IF j = arg.slot THEN 0 ELSE states[j]
    BY <1>0, <2>1 DEF TypeOK
  <2>5. QED BY <1>0, <1>2, <2>1, <2>2, <2>3, <2>4
<1>5. CASE Quiet
  BY <1>2, <1>5, QuietStep
<1>6. CASE PollThread
  <2>1. PICK e \in outstanding, verdict \in Status : Complete(e, verdict)
    BY <1>6 DEF PollThread
  <2>2. Done(e.token, verdict) # 0
    <3>1. e.token \in Nat
      BY IssuedFacts DEF PoolInv, TypeOK
    <3>2. QED BY <3>1, WordFacts DEF Status
  <2>3. /\ UNCHANGED <<acquired, issued, ended>> /\ e.slot \in Slot
        /\ \/ states' = states
           \/ /\ states[e.slot] # 0
              /\ states' = [states EXCEPT ![e.slot] = Done(e.token, verdict)]
    BY <2>1, CompleteStep
  <2>4. \A j \in Slot : states'[j] # 0 <=> states[j] # 0
    BY <1>0, <2>2, <2>3 DEF TypeOK
  <2>5. QED BY <1>0, <1>2, <2>3, <2>4
<1>7. QED BY <1>3, <1>4, <1>5, <1>6, StepKinds

\* PoolInv is an inductive invariant of the pool.
LEMMA PoolInvStep == PoolInv /\ [Next]_vars => PoolInv'
<1> SUFFICES ASSUME PoolInv, [Next]_vars PROVE PoolInv'
  OBVIOUS
<1>1. CASE Next
  BY <1>1, TypeStep, FreeStackStep, GenerationsStep, WordsStep, CallStep,
     ResultsStep, LiveStep DEF PoolInv
<1>2. CASE UNCHANGED vars
  <2>1. UNCHANGED <<poolVars, callVars, histVars>>
    BY <1>2 DEF vars
  <2>2. /\ UNCHANGED <<states, generations, freeSlots, freeCount>>
        /\ UNCHANGED <<pc, wait, arg, value>>
        /\ UNCHANGED <<acquired, issued, ended, fresh, outstanding, delivered, results>>
    BY <2>1 DEF poolVars, callVars, histVars
  <2>3. TypeOK'
    BY <2>2 DEF PoolInv, TypeOK
  <2>4. FreeStackExact'
    BY <2>2 DEF PoolInv, FreeStackExact, FreeStack
  <2>5. GenerationsInv'
    BY <2>2 DEF PoolInv, GenerationsInv
  <2>6. WordsInv'
    BY <2>2 DEF PoolInv, WordsInv, CurToken
  <2>7. CallInv'
    BY <2>2 DEF PoolInv, CallInv, CurToken
  <2>8. ResultsInv'
    BY <2>2 DEF PoolInv, ResultsInv
  <2>9. LiveInv'
    BY <2>2 DEF PoolInv, LiveInv, NoWrap
  <2>10. QED BY <2>3, <2>4, <2>5, <2>6, <2>7, <2>8, <2>9 DEF PoolInv
<1>3. QED BY <1>1, <1>2

\* PoolInv holds in every reachable state.
THEOREM PoolInvariant == Spec => []PoolInv
BY InitInv, PoolInvStep, PTL DEF Spec

\* Every reachable state is of the declared types: in particular no token,
\* generation or stack index leaves its range.
THEOREM TypeCorrect == Spec => []TypeOK
<1>1. PoolInv => TypeOK
  BY DEF PoolInv
<1>2. QED BY <1>1, PoolInvariant, PTL

\* Acquire and Release never leak a slot, never hand one out twice, and the
\* compare-and-swap of Acquire never fails.
THEOREM FreeStackIsExact == Spec => []FreeStackExact
<1>1. PoolInv => FreeStackExact
  BY DEF PoolInv
<1>2. QED BY <1>1, PoolInvariant, PTL
=============================================================================
