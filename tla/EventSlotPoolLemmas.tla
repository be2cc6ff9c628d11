------------------------ MODULE EventSlotPoolLemmas -------------------------
(***************************************************************************)
(* Lemmas about EventSlotPool: the arithmetic of tokens and words, what the *)
(* invariant says about one event or slot, and the four kinds of step.     *)
(***************************************************************************)
EXTENDS EventSlotPool, FiniteSetTheorems, TLAPS

(***************************************************************************)
(* Arithmetic of tokens and state words.                                   *)
(***************************************************************************)

\* Packing a generation and an index into a token loses nothing.
LEMMA TokenPacking ==
  ASSUME NEW g \in Nat, NEW i \in Slot
  PROVE  /\ Token(g, i) \in Nat
         /\ Index(Token(g, i)) = i
         /\ g < GenLimit => Token(g, i) \in 0 .. GenLimit * kSlotCount - 1
         /\ g > 0 => Token(g, i) > 0
<1> USE SlotAssumption, GenAssumption DEF Slot, Token, Index
<1>1. Token(g, i) \in Nat /\ Index(Token(g, i)) = i
  OBVIOUS
<1>2. ASSUME g < GenLimit PROVE Token(g, i) \in 0 .. GenLimit * kSlotCount - 1
  <2>1. (g + 1) * kSlotCount <= GenLimit * kSlotCount
    BY <1>2
  <2>2. QED BY <2>1
<1>3. ASSUME g > 0 PROVE Token(g, i) > 0
  BY <1>3
<1>4. QED BY <1>1, <1>2, <1>3

\* Two equal tokens have the same generation and the same index.
LEMMA TokenInjective ==
  ASSUME NEW g \in Nat, NEW h \in Nat, NEW i \in Slot, NEW j \in Slot,
         Token(g, i) = Token(h, j)
  PROVE  g = h /\ i = j
BY SlotAssumption DEF Slot, Token

\* A state word determines its token and its tag.
LEMMA WordFacts ==
  ASSUME NEW t \in Nat
  PROVE  /\ Pending(t) \in Nat /\ Done(t, "ok") \in Nat /\ Done(t, "fail") \in Nat
         /\ TokenIn(Pending(t)) = t
         /\ TokenIn(Done(t, "ok")) = t /\ TokenIn(Done(t, "fail")) = t
         /\ Pending(t) # Done(t, "ok") /\ Pending(t) # Done(t, "fail")
         /\ Done(t, "ok") # Done(t, "fail")
         /\ Done(t, "ok") # 0 /\ Done(t, "fail") # 0
         /\ t > 0 => Pending(t) # 0
BY DEF Pending, Done, TokenIn

\* The empty word carries token 0, which no event has.
LEMMA EmptyWord == TokenIn(0) = 0
BY DEF TokenIn

\* Generations run through 1 .. GenLimit - 1 in a cycle.
LEMMA GenOfType ==
  ASSUME NEW k \in Nat, k > 0
  PROVE  GenOf(k) \in 1 .. GenLimit - 1
BY GenAssumption DEF GenOf

\* The remainder of a successor.
LEMMA ModSuccessor ==
  ASSUME NEW k \in Nat, NEW m \in Nat, m > 0
  PROVE  (k + 1) % m = IF k % m = m - 1 THEN 0 ELSE (k % m) + 1
<1> DEFINE q == k \div m
           r == k % m
<1>1. q \in Nat /\ r \in 0 .. m - 1 /\ k = q * m + r
  OBVIOUS
<1>2. \A p \in Nat, s \in 0 .. m - 1 : (p * m + s) % m = s
  OBVIOUS
<1> HIDE DEF q, r
<1>3. CASE r = m - 1
  <2>1. k + 1 = (q + 1) * m + 0
    BY <1>1, <1>3
  <2>2. (k + 1) % m = 0
    BY <1>1, <1>2, <2>1
  <2>3. QED BY <1>3, <2>2 DEF r
<1>4. CASE r # m - 1
  <2>1. k + 1 = q * m + (r + 1) /\ r + 1 \in 0 .. m - 1
    BY <1>1, <1>4
  <2>2. (k + 1) % m = r + 1
    BY <1>1, <1>2, <2>1
  <2>3. QED BY <1>4, <2>2 DEF r
<1>5. QED BY <1>3, <1>4

\* Acquire moves a slot to the generation of its next acquisition.
LEMMA GenerationStep ==
  ASSUME NEW k \in Nat
  PROVE  NextGeneration(IF k = 0 THEN 0 ELSE GenOf(k)) = GenOf(k + 1)
<1> USE GenAssumption DEF NextGeneration, GenOf
<1>1. CASE k = 0
  <2>1. 0 % (GenLimit - 1) = 0
    OBVIOUS
  <2>2. 1 % GenLimit = 1
    OBVIOUS
  <2>3. QED BY <1>1, <2>1, <2>2
<1>2. CASE k # 0
  <2> DEFINE j == k - 1
             m == GenLimit - 1
  <2>1. j \in Nat /\ m \in Nat /\ m > 0 /\ j % m \in 0 .. m - 1
    BY <1>2
  <2>2. (j + 1) % m = IF j % m = m - 1 THEN 0 ELSE (j % m) + 1
    BY <2>1, ModSuccessor, SMTT(30)
  <2>3. GenOf(k) = (j % m) + 1 /\ GenOf(k + 1) = ((j + 1) % m) + 1
    BY <1>2
  <2>4. GenOf(k) + 1 \in 2 .. GenLimit
    BY <2>1, <2>3
  <2>5. (GenOf(k) + 1) % GenLimit =
          IF GenOf(k) = GenLimit - 1 THEN 0 ELSE GenOf(k) + 1
    BY <2>4
  <2> HIDE DEF j, GenOf
  <2>6. QED BY <1>2, <2>1, <2>2, <2>3, <2>4, <2>5
<1>3. QED BY <1>1, <1>2

\* Within one cycle the generation is the ordinal itself.
LEMMA GenOfWindow ==
  ASSUME NEW k \in Nat, k > 0, k < GenLimit
  PROVE  GenOf(k) = k
BY GenAssumption DEF GenOf

(***************************************************************************)
(* What the invariant says about events and slots.                         *)
(***************************************************************************)

\* The token of an issued event leads back to its slot.
LEMMA IssuedFacts ==
  ASSUME TypeOK, GenerationsInv, NEW e \in issued
  PROVE  /\ e \in Event /\ e.slot \in Slot /\ e.k \in Nat /\ e.k > 0
         /\ e.k <= acquired[e.slot]
         /\ e.token = Token(GenOf(e.k), e.slot)
         /\ e.token \in Nat /\ e.token > 0
         /\ Index(e.token) = e.slot
<1>1. e \in Event
  BY DEF TypeOK
<1>2. e.slot \in Slot /\ acquired[e.slot] \in Nat
  BY <1>1, BoundAssumption DEF Event, TypeOK
<1>3. e.k \in 1 .. acquired[e.slot] /\ e.token = Token(GenOf(e.k), e.slot)
  BY DEF GenerationsInv
<1>4. GenOf(e.k) \in 1 .. GenLimit - 1
  BY <1>2, <1>3, GenOfType
<1>5. e.token \in Nat /\ e.token > 0 /\ Index(e.token) = e.slot
  BY <1>2, <1>3, <1>4, TokenPacking, GenAssumption
<1>6. QED BY <1>1, <1>2, <1>3, <1>5

\* The latest token of a slot.
LEMMA CurTokenFacts ==
  ASSUME TypeOK, GenerationsInv, NEW i \in Slot
  PROVE  /\ CurToken(i) \in Nat
         /\ Index(CurToken(i)) = i
         /\ acquired[i] > 0 => CurToken(i) > 0
<1>1. generations[i] \in 0 .. GenLimit - 1 /\ acquired[i] \in Nat
  BY BoundAssumption DEF TypeOK
<1>2. acquired[i] > 0 => generations[i] > 0
  BY <1>1, GenOfType, GenAssumption DEF GenerationsInv
<1>3. QED BY <1>1, <1>2, TokenPacking, GenAssumption DEF CurToken

\* An event that carries the latest token of a slot belongs to that slot, and
\* within one generation cycle it is the latest event of the slot.
LEMMA SameToken ==
  ASSUME TypeOK, GenerationsInv, NEW e \in issued, NEW i \in Slot,
         e.token = CurToken(i)
  PROVE  /\ e.slot = i
         /\ NoWrap => e.k = acquired[i]
<1>1. /\ e.slot \in Slot /\ e.k \in Nat /\ e.k > 0 /\ e.k <= acquired[e.slot]
      /\ e.token = Token(GenOf(e.k), e.slot)
  BY IssuedFacts
<1>2. generations[i] \in Nat /\ acquired[i] \in 0 .. MaxAcquire
  BY GenAssumption DEF TypeOK
<1>3. GenOf(e.k) \in Nat
  BY <1>1, GenOfType, GenAssumption
<1>4. e.slot = i /\ GenOf(e.k) = generations[i]
  <2>1. Token(GenOf(e.k), e.slot) = Token(generations[i], i)
    BY <1>1 DEF CurToken
  <2>2. QED BY <1>1, <1>2, <1>3, <2>1, TokenInjective
<1>5. ASSUME NoWrap PROVE e.k = acquired[i]
  <2>1. acquired[i] > 0 /\ acquired[i] < GenLimit /\ e.k < GenLimit
    BY <1>1, <1>2, <1>4, <1>5, BoundAssumption, GenAssumption DEF NoWrap
  <2>2. GenOf(e.k) = e.k /\ GenOf(acquired[i]) = acquired[i]
    BY <1>1, <1>2, <2>1, GenOfWindow, BoundAssumption
  <2>3. generations[i] = GenOf(acquired[i])
    BY <2>1, <1>2, BoundAssumption DEF GenerationsInv
  <2>4. QED BY <1>4, <2>2, <2>3, Zenon
<1>6. QED BY <1>4, <1>5

\* Two issued events with the same slot and ordinal are the same event.
LEMMA EventUnique ==
  ASSUME TypeOK, GenerationsInv, NEW e \in issued, NEW f \in issued,
         e.slot = f.slot, e.k = f.k
  PROVE  e = f
BY DEF TypeOK, GenerationsInv, Event

\* A slot that is not on the free stack leaves room for it: the store in
\* Release stays inside the array.
LEMMA RoomOnStack ==
  ASSUME TypeOK, FreeStackExact, NEW i \in Slot, states[i] # 0
  PROVE  freeCount < kSlotCount
<1> SUFFICES ASSUME freeCount = kSlotCount PROVE FALSE
  BY SlotAssumption DEF TypeOK
<1> DEFINE f == [n \in Slot |-> freeSlots[n]]
<1>1. \A n \in Slot : f[n] \in Slot \ {i}
  <2> TAKE n \in Slot
  <2>1. freeSlots[n] \in FreeStack
    BY DEF FreeStack, Slot
  <2>2. QED BY <2>1 DEF FreeStackExact
<1>2. f \in [Slot -> Slot \ {i}]
  BY <1>1
<1>3. IsFiniteSet(Slot) /\ Cardinality(Slot) = kSlotCount
  BY FS_Interval, SlotAssumption, SMTT(30) DEF Slot
<1>4. IsFiniteSet(Slot \ {i}) /\ Cardinality(Slot \ {i}) = kSlotCount - 1
  BY <1>3, FS_RemoveElement
<1>5. \E x, y \in Slot : x # y /\ f[x] = f[y]
  <2> HIDE DEF f
  <2>1. Cardinality(Slot \ {i}) < Cardinality(Slot)
    BY <1>3, <1>4, SlotAssumption
  <2>2. QED BY <1>2, <1>3, <1>4, <2>1, FS_PigeonHole
<1>6. QED BY <1>5 DEF FreeStackExact, Slot

\* Between the two accesses of a call the worker's event is issued, and the
\* word it will compare with carries that event's token.
LEMMA ArgFacts ==
  ASSUME PoolInv, pc # "idle"
  PROVE  /\ arg \in issued /\ arg.slot \in Slot
         /\ Index(arg.token) = arg.slot /\ arg.token \in Nat /\ arg.token > 0
         /\ (pc \in {"probeCas", "abortCas"}) => value # 0
         /\ (pc \in {"probeCas", "abortCas"} /\ states[arg.slot] = value) =>
              arg.token = CurToken(arg.slot)
<1>1. arg \in issued
  BY DEF PoolInv, CallInv
<1>2. /\ arg.slot \in Slot /\ Index(arg.token) = arg.slot
      /\ arg.token \in Nat /\ arg.token > 0
  BY <1>1, IssuedFacts DEF PoolInv
<1>3. (pc \in {"probeCas", "abortCas"}) => TokenIn(value) = arg.token /\ value # 0
  <2>1. /\ TokenIn(Done(arg.token, "ok")) = arg.token
        /\ TokenIn(Done(arg.token, "fail")) = arg.token
    BY <1>2, WordFacts
  <2>2. /\ pc = "probeCas" =>
             value = Done(arg.token, "ok") \/ value = Done(arg.token, "fail")
        /\ pc = "abortCas" => TokenIn(value) = arg.token
    BY DEF PoolInv, CallInv
  <2>3. (pc \in {"probeCas", "abortCas"}) => TokenIn(value) = arg.token
    BY <2>1, <2>2
  <2>4. QED BY <2>3, <1>2, EmptyWord
<1>4. (pc \in {"probeCas", "abortCas"} /\ states[arg.slot] = value) =>
        arg.token = CurToken(arg.slot)
  <2>1. CurToken(arg.slot) \in Nat
    BY <1>2, CurTokenFacts DEF PoolInv
  <2>2. states[arg.slot] \in {0, Pending(CurToken(arg.slot)),
            Done(CurToken(arg.slot), "ok"), Done(CurToken(arg.slot), "fail")}
    BY <1>2 DEF PoolInv, WordsInv
  <2>3. states[arg.slot] # 0 => TokenIn(states[arg.slot]) = CurToken(arg.slot)
    BY <2>1, <2>2, WordFacts, SMTT(30)
  <2>4. QED BY <1>3, <2>3
<1>5. QED BY <1>1, <1>2, <1>3, <1>4

(***************************************************************************)
(* The four kinds of step.  Acquire takes a slot; a successful compare-and *)
(* -swap of Probe or Abort gives one back; Complete writes a verdict; all  *)
(* other steps leave the pool alone.                                       *)
(***************************************************************************)

\* Acquire pops a free slot whose word is 0, so its compare-and-swap succeeds.
LEMMA AcquireStep ==
  ASSUME PoolInv, Acquire
  PROVE  \E i \in Slot, e \in Event :
           /\ freeCount > 0 /\ i = freeSlots[freeCount - 1] /\ states[i] = 0
           /\ acquired[i] < MaxAcquire
           /\ e.slot = i /\ e.k = acquired[i] + 1
           /\ GenOf(e.k) \in 1 .. GenLimit - 1
           /\ e.token = Token(GenOf(e.k), i) /\ e.token > 0
           /\ generations' = [generations EXCEPT ![i] = GenOf(e.k)]
           /\ states' = [states EXCEPT ![i] = Pending(e.token)]
           /\ freeCount' = freeCount - 1
           /\ acquired' = [acquired EXCEPT ![i] = @ + 1]
           /\ issued' = issued \cup {e} /\ fresh' = fresh \cup {e}
           /\ UNCHANGED <<freeSlots, pc, wait, arg, value, ended, outstanding,
                          delivered, results>>
<1> DEFINE i == freeSlots[freeCount - 1]
           g == NextGeneration(generations[i])
           e == [token |-> Token(g, i), slot |-> i, k |-> acquired[i] + 1]
<1>1. freeCount > 0 /\ freeCount - 1 \in 0 .. freeCount - 1 /\ freeCount - 1 \in Slot
  BY SlotAssumption DEF Acquire, PoolInv, TypeOK, Slot
<1>2. i \in Slot /\ states[i] = 0
  <2>1. i \in FreeStack
    BY <1>1 DEF FreeStack
  <2>2. QED BY <2>1 DEF PoolInv, FreeStackExact
<1>3. acquired[i] \in Nat /\ acquired[i] < MaxAcquire
  BY <1>2, BoundAssumption DEF Acquire, PoolInv, TypeOK
<1>4. g = GenOf(acquired[i] + 1) /\ GenOf(acquired[i] + 1) \in 1 .. GenLimit - 1
  <2>1. generations[i] = IF acquired[i] = 0 THEN 0 ELSE GenOf(acquired[i])
    BY <1>2 DEF PoolInv, GenerationsInv
  <2>2. NextGeneration(IF acquired[i] = 0 THEN 0 ELSE GenOf(acquired[i]))
          = GenOf(acquired[i] + 1)
    BY <1>3, GenerationStep
  <2>3. QED BY <1>3, <2>1, <2>2, GenOfType
<1>5. /\ Token(g, i) \in 0 .. GenLimit * kSlotCount - 1
      /\ Token(g, i) > 0
  BY <1>2, <1>4, TokenPacking, GenAssumption
<1>6. e \in Event
  BY <1>2, <1>3, <1>5, BoundAssumption, SMTT(30) DEF Event
<1>7. /\ generations' = [generations EXCEPT ![i] = g]
      /\ states' = [states EXCEPT ![i] = Pending(Token(g, i))]
      /\ freeCount' = freeCount - 1
      /\ acquired' = [acquired EXCEPT ![i] = @ + 1]
      /\ issued' = issued \cup {e} /\ fresh' = fresh \cup {e}
      /\ UNCHANGED <<freeSlots, pc, wait, arg, value, ended, outstanding,
                     delivered, results>>
  BY <1>2 DEF Acquire, callVars
<1>8. e.slot = i /\ e.k = acquired[i] + 1 /\ e.token = Token(g, i)
  OBVIOUS
<1> HIDE DEF i, g, e
<1>9. QED BY <1>1, <1>2, <1>3, <1>4, <1>5, <1>6, <1>7, <1>8, Zenon DEF i

\* The event a worker outside any call holds is of the right shape.
LEMMA NoEventType == NoEvent \in Event
BY SlotAssumption, GenAssumption, BoundAssumption DEF NoEvent, Event, Slot

\* The word the worker takes back carries its event's token; the slot returns
\* to the free stack.
Releases ==
  /\ ProbeCas \/ AbortCas
  /\ states[Index(arg.token)] = value

LEMMA ReleaseStep ==
  ASSUME PoolInv, Releases
  PROVE  /\ arg \in issued /\ arg.slot \in Slot
         /\ arg.token = CurToken(arg.slot)
         /\ states[arg.slot] = value /\ value # 0
         /\ freeCount < kSlotCount
         /\ states' = [states EXCEPT ![arg.slot] = 0]
         /\ freeSlots' = [freeSlots EXCEPT ![freeCount] = arg.slot]
         /\ freeCount' = freeCount + 1
         /\ ended' = ended \cup {arg}
         /\ pc' = "idle" /\ wait' = "no" /\ arg' = NoEvent /\ value' = 0
         /\ UNCHANGED <<generations, acquired, issued, fresh, outstanding,
                        delivered>>
         /\ \/ results' = results
            \/ /\ value = Done(arg.token, "ok") \/ value = Done(arg.token, "fail")
               /\ results' = results \cup
                    {[event |-> arg, status |-> Verdict(value, arg.token)]}
<1>1. pc \in {"probeCas", "abortCas"} /\ pc # "idle"
  BY DEF Releases, ProbeCas, AbortCas
<1>2. /\ arg \in issued /\ arg.slot \in Slot /\ Index(arg.token) = arg.slot
      /\ value # 0 /\ states[arg.slot] = value /\ arg.token = CurToken(arg.slot)
  BY <1>1, ArgFacts DEF Releases
<1>3. freeCount < kSlotCount
  BY <1>2, RoomOnStack DEF PoolInv
<1>4. /\ states' = [states EXCEPT ![arg.slot] = 0]
      /\ freeSlots' = [freeSlots EXCEPT ![freeCount] = arg.slot]
      /\ freeCount' = freeCount + 1
      /\ ended' = ended \cup {arg}
      /\ pc' = "idle" /\ wait' = "no" /\ arg' = NoEvent /\ value' = 0
      /\ UNCHANGED <<generations, acquired, issued, fresh, outstanding,
                     delivered>>
  BY <1>2 DEF Releases, ProbeCas, AbortCas, Release, Return
<1>5. \/ results' = results
      \/ /\ value = Done(arg.token, "ok") \/ value = Done(arg.token, "fail")
         /\ results' = results \cup
              {[event |-> arg, status |-> Verdict(value, arg.token)]}
  <2>1. CASE AbortCas
    BY <2>1 DEF AbortCas
  <2>2. CASE ProbeCas
    BY <2>2, <1>2 DEF ProbeCas, PoolInv, CallInv
  <2>3. QED BY <2>1, <2>2 DEF Releases
<1>6. QED BY <1>2, <1>3, <1>4, <1>5

\* Steps that touch neither a word nor the free stack.
Quiet ==
  \/ \E e \in fresh : Post(e) \/ PostFails(e)
  \/ \E e \in issued : CallProbe(e) \/ CallWait(e)
  \/ ProbeLoad \/ AbortLoad \/ AbortRetry
  \/ ProbeCas /\ states[Index(arg.token)] # value

LEMMA QuietStep ==
  ASSUME PoolInv, Quiet
  PROVE  /\ UNCHANGED <<states, generations, freeSlots, freeCount, acquired,
                        issued, ended, delivered, results>>
         /\ fresh' \subseteq fresh
         /\ outstanding' \subseteq outstanding \cup fresh
         /\ pc' \in {"idle", "probe", "probeCas", "abort", "abortCas"}
         /\ wait' \in {"no", "loop", "last"}
         /\ arg' \in Event
         /\ value' \in Nat
         /\ CallInv'
<1>1. /\ pc \in {"idle", "probe", "probeCas", "abort", "abortCas"}
      /\ wait \in {"no", "loop", "last"} /\ value \in Nat
      /\ fresh \subseteq issued /\ issued \subseteq Event /\ arg \in Event
      /\ NoEvent \in Event /\ CallInv
  BY NoEventType DEF PoolInv, TypeOK
<1>2. ASSUME NEW e \in issued,
             \/ e \in fresh /\ (Post(e) \/ PostFails(e))
             \/ CallProbe(e) \/ CallWait(e)
      PROVE  /\ UNCHANGED <<states, generations, freeSlots, freeCount, acquired,
                            issued, ended, delivered, results, value>>
             /\ fresh' \subseteq fresh
             /\ outstanding' \subseteq outstanding \cup fresh
             /\ wait' \in {"no", "loop", "last"}
             /\ \/ pc = "idle" /\ UNCHANGED <<pc, arg>>
                \/ pc' \in {"probe", "abort"} /\ arg' = e /\ e \notin fresh'
  BY <1>1, <1>2 DEF Post, PostFails, CallProbe, CallWait, poolVars, callVars, histVars
<1>3. ASSUME pc # "idle" PROVE arg \in issued \ fresh /\ states[Index(arg.token)] \in Nat
  BY <1>3, ArgFacts DEF PoolInv, TypeOK, CallInv
<1>4. ASSUME ProbeLoad \/ AbortLoad \/ AbortRetry
               \/ (ProbeCas /\ states[Index(arg.token)] # value)
      PROVE  /\ pc # "idle" /\ arg \in issued \ fresh
             /\ UNCHANGED <<poolVars, histVars>>
             /\ wait' \in {"no", "loop", "last"} /\ value' \in Nat
             /\ \/ pc' = "idle" /\ arg' = NoEvent
                \/ pc' \in {"probe", "abort"} /\ arg' = arg
                \/ /\ pc' = "probeCas" /\ arg' = arg
                   /\ value' = Done(arg.token, "ok") \/ value' = Done(arg.token, "fail")
                \/ pc' = "abortCas" /\ arg' = arg /\ TokenIn(value') = arg.token
  <2>1. CASE ProbeLoad
    BY <1>3, <1>1, <2>1 DEF ProbeLoad, ProbeReturnsZero, Return
  <2>2. CASE AbortLoad
    BY <1>3, <1>1, <2>2 DEF AbortLoad, Return
  <2>3. CASE AbortRetry
    BY <1>3, <1>1, <2>3 DEF AbortRetry, Return
  <2>4. CASE ProbeCas /\ states[Index(arg.token)] # value
    BY <1>3, <1>1, <2>4 DEF ProbeCas, ProbeReturnsZero, Return, poolVars, histVars
  <2>5. QED BY <1>4, <2>1, <2>2, <2>3, <2>4
<1>5. ASSUME ProbeLoad \/ AbortLoad \/ AbortRetry
               \/ (ProbeCas /\ states[Index(arg.token)] # value)
      PROVE  CallInv'
  <2>1. issued' = issued /\ fresh' = fresh
    BY <1>4, <1>5 DEF histVars
  <2>2. QED BY <1>4, <1>5, <2>1, Zenon DEF CallInv
<1>6. ASSUME ProbeLoad \/ AbortLoad \/ AbortRetry
               \/ (ProbeCas /\ states[Index(arg.token)] # value)
      PROVE  /\ UNCHANGED <<states, generations, freeSlots, freeCount, acquired,
                            issued, ended, delivered, results, fresh, outstanding>>
             /\ pc' \in {"idle", "probe", "probeCas", "abort", "abortCas"}
             /\ wait' \in {"no", "loop", "last"}
             /\ arg' \in Event
             /\ value' \in Nat
  BY <1>1, <1>4, <1>6 DEF poolVars, histVars
<1>7. CASE \E e \in issued : \/ e \in fresh /\ (Post(e) \/ PostFails(e))
                            \/ CallProbe(e) \/ CallWait(e)
  <2>1. PICK e \in issued : \/ e \in fresh /\ (Post(e) \/ PostFails(e))
                            \/ CallProbe(e) \/ CallWait(e)
    BY <1>7
  <2>2. \/ pc = "idle" /\ UNCHANGED <<pc, arg>>
        \/ pc' \in {"probe", "abort"} /\ arg' = e /\ e \notin fresh'
    BY <1>2, <2>1
  <2>3. /\ UNCHANGED <<states, generations, freeSlots, freeCount, acquired,
                       issued, ended, delivered, results, value>>
        /\ fresh' \subseteq fresh
        /\ outstanding' \subseteq outstanding \cup fresh
        /\ wait' \in {"no", "loop", "last"}
    BY <1>2, <2>1
  <2>4. arg' \in Event /\ CallInv'
    BY <1>1, <2>2, <2>3 DEF CallInv
  <2>5. pc' \in {"idle", "probe", "probeCas", "abort", "abortCas"} /\ value' \in Nat
    BY <1>1, <2>2, <2>3
  <2>6. QED BY <2>3, <2>4, <2>5
<1>8. QED BY <1>1, <1>5, <1>6, <1>7 DEF Quiet

\* Every step is of one of the four kinds.
LEMMA StepKinds ==
  Next => Acquire \/ Releases \/ Quiet \/ PollThread
BY DEF Next, WorkerCall, WorkerStep, Releases, Quiet, AbortCas

\* A completion that finds its own pending word writes its verdict there; any
\* other changes no word.
LEMMA CompleteStep ==
  ASSUME PoolInv, NEW e \in outstanding, NEW status \in Status,
         Complete(e, status)
  PROVE  /\ e \in issued /\ e.slot \in Slot
         /\ \/ states' = states
            \/ /\ e.token = CurToken(e.slot)
               /\ states[e.slot] = Pending(e.token) /\ states[e.slot] # 0
               /\ states' = [states EXCEPT ![e.slot] = Done(e.token, status)]
         /\ outstanding' = outstanding \ {e}
         /\ delivered' = delivered \cup {[event |-> e, status |-> status]}
         /\ UNCHANGED <<generations, freeSlots, freeCount, pc, wait, arg, value,
                        acquired, issued, ended, fresh, results>>
<1>1. e \in issued
  BY DEF PoolInv, TypeOK
<1>2. /\ e.slot \in Slot /\ Index(e.token) = e.slot
      /\ e.token \in Nat /\ e.token > 0
  BY <1>1, IssuedFacts DEF PoolInv
<1>3. ASSUME states[e.slot] = Pending(e.token)
      PROVE  e.token = CurToken(e.slot) /\ states[e.slot] # 0
  <2>1. Pending(e.token) # 0 /\ TokenIn(Pending(e.token)) = e.token
    BY <1>2, WordFacts
  <2>2. TokenIn(states[e.slot]) = CurToken(e.slot)
    <3>1. CurToken(e.slot) \in Nat
      BY <1>2, CurTokenFacts DEF PoolInv
    <3>2. states[e.slot] \in {Pending(CurToken(e.slot)),
             Done(CurToken(e.slot), "ok"), Done(CurToken(e.slot), "fail")}
      BY <1>2, <1>3, <2>1 DEF PoolInv, WordsInv
    <3>3. QED BY <3>1, <3>2, WordFacts
  <2>3. QED BY <1>3, <2>1, <2>2
<1>4. QED BY <1>1, <1>2, <1>3 DEF Complete, callVars
=============================================================================
