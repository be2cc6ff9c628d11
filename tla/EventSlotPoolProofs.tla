------------------------ MODULE EventSlotPoolProofs -------------------------
(***************************************************************************)
(* The properties of EventSlotPool that follow from its invariant.         *)
(***************************************************************************)
EXTENDS EventSlotPoolInvariant

(***************************************************************************)
(* Within one generation cycle tokens identify events.                     *)
(***************************************************************************)

\* Two issued events with the same token are the same event.
LEMMA TokenIdentifies ==
  ASSUME TypeOK, GenerationsInv, NoWrap,
         NEW e \in issued, NEW f \in issued, e.token = f.token
  PROVE  e = f
<1>1. /\ e.slot \in Slot /\ e.k \in Nat /\ e.k > 0 /\ e.k <= acquired[e.slot]
      /\ e.token = Token(GenOf(e.k), e.slot)
      /\ f.slot \in Slot /\ f.k \in Nat /\ f.k > 0 /\ f.k <= acquired[f.slot]
      /\ f.token = Token(GenOf(f.k), f.slot)
  BY IssuedFacts
<1>2. e.k < GenLimit /\ f.k < GenLimit
  BY <1>1, BoundAssumption, GenAssumption DEF TypeOK, NoWrap
<1>3. GenOf(e.k) = e.k /\ GenOf(f.k) = f.k
  BY <1>1, <1>2, GenOfWindow
<1>4. Token(e.k, e.slot) = Token(f.k, f.slot)
  BY <1>1, <1>3, Zenon
<1>5. e.k = f.k /\ e.slot = f.slot
  BY <1>1, <1>4, TokenInjective
<1>6. QED BY <1>5, EventUnique

\* A live event is the one whose token its slot's word carries.
LEMMA LiveFacts ==
  ASSUME PoolInv, NoWrap, NEW e \in LiveEvents
  PROVE  /\ e \in issued /\ e.slot \in Slot /\ e.token = CurToken(e.slot)
         /\ e.token \in Nat /\ e.token > 0 /\ states[e.slot] # 0
         /\ \A f \in LiveEvents : f.slot = e.slot => f = e
<1>1. e \in issued /\ e.k = acquired[e.slot] /\ states[e.slot] # 0
  BY DEF PoolInv, LiveInv, LiveEvents
<1>2. /\ e.slot \in Slot /\ e.k \in Nat /\ e.k > 0
      /\ e.token = Token(GenOf(e.k), e.slot)
      /\ e.token \in Nat /\ e.token > 0
  BY <1>1, IssuedFacts DEF PoolInv
<1>3. generations[e.slot] = GenOf(e.k)
  BY <1>1, <1>2 DEF PoolInv, GenerationsInv
<1>4. e.token = CurToken(e.slot)
  BY <1>2, <1>3 DEF CurToken
<1>5. ASSUME NEW f \in LiveEvents, f.slot = e.slot PROVE f = e
  <2>1. f \in issued /\ f.k = acquired[f.slot]
    BY DEF PoolInv, LiveInv, LiveEvents
  <2>2. QED BY <1>1, <1>5, <2>1, EventUnique DEF PoolInv
<1>6. QED BY <1>1, <1>2, <1>4, <1>5

\* The word of a slot in use carries the slot's latest token.
LEMMA WordToken ==
  ASSUME PoolInv, NEW i \in Slot, states[i] # 0
  PROVE  TokenIn(states[i]) = CurToken(i)
<1>1. CurToken(i) \in Nat
  BY CurTokenFacts DEF PoolInv
<1>2. states[i] \in {Pending(CurToken(i)), Done(CurToken(i), "ok"),
                     Done(CurToken(i), "fail")}
  BY DEF PoolInv, WordsInv
<1>3. QED BY <1>1, <1>2, WordFacts

\* A slot in use belongs to exactly one live event and a free slot to none,
\* for every slot count and every number of acquisitions within one cycle of
\* generations.
THEOREM OneLiveEvent == Spec => []OneLiveEventPerSlot
<1>1. PoolInv => OneLiveEventPerSlot
  <2> SUFFICES ASSUME PoolInv, NoWrap, NEW i \in Slot
      PROVE  IF states[i] = 0
             THEN \A e \in LiveEvents : e.slot # i
             ELSE \E e \in LiveEvents :
                    /\ e.slot = i
                    /\ e.token = TokenIn(states[i])
                    /\ \A f \in LiveEvents : f.slot = i => f = e
    BY DEF OneLiveEventPerSlot
  <2>1. CASE states[i] = 0
    BY <2>1, LiveFacts
  <2>2. CASE states[i] # 0
    <3>1. PICK e \in issued : e.slot = i /\ e.k = acquired[i]
      BY <2>2 DEF PoolInv, WordsInv, GenerationsInv
    <3>2. e \in LiveEvents
      BY <2>2, <3>1 DEF PoolInv, LiveInv, LiveEvents
    <3>3. e.token = CurToken(i) /\ \A f \in LiveEvents : f.slot = i => f = e
      BY <3>1, <3>2, LiveFacts
    <3>4. e.token = TokenIn(states[i])
      BY <2>2, <3>3, WordToken
    <3>5. QED BY <2>2, <3>1, <3>2, <3>3, <3>4
  <2>3. QED BY <2>1, <2>2
<1>2. QED BY <1>1, PoolInvariant, PTL

\* A late completion is never taken for another event within one cycle of
\* generations: every verdict handed out was reported for that very event.
THEOREM ResultsFaithful == Spec => []ResultsAreFaithful
<1>1. PoolInv => ResultsAreFaithful
  <2> SUFFICES ASSUME PoolInv, NoWrap, NEW r \in results
      PROVE  r \in delivered
    BY DEF ResultsAreFaithful
  <2>1. PICK d \in delivered : d.event.token = r.event.token /\ d.status = r.status
    BY DEF PoolInv, ResultsInv
  <2>2. /\ d \in [event : issued, status : Status]
        /\ r \in [event : issued, status : Status]
    BY DEF PoolInv, TypeOK
  <2>3. d.event = r.event
    BY <2>1, <2>2, TokenIdentifies DEF PoolInv
  <2>4. d = r
    BY <2>1, <2>2, <2>3
  <2>5. QED BY <2>4
<1>2. QED BY <1>1, PoolInvariant, PTL

\* Numbers with the same remainder differ by a multiple.
LEMMA SameRemainder ==
  ASSUME NEW a \in Nat, NEW b \in Nat, NEW n \in Nat, n > 0, a % n = b % n
  PROVE  (a - b) % n = 0
<1> DEFINE p == a \div n
           q == b \div n
           r == a % n
<1>1. p \in Nat /\ r \in 0 .. n - 1 /\ a = p * n + r
  OBVIOUS
<1>2. q \in Nat /\ b % n = r /\ b = q * n + (b % n)
  OBVIOUS
<1>3. \A m \in Int : (m * n) % n = 0
  OBVIOUS
<1> HIDE DEF p, q, r
<1>4. b = q * n + r
  BY <1>2
<1>5. a - b = (p - q) * n /\ p - q \in Int
  BY <1>1, <1>2, <1>4
<1>6. QED BY <1>3, <1>5

\* With no bound on the acquisitions, a verdict can reach another event only
\* when its acquisition lies a whole number of cycles of GenLimit - 1
\* generations away in the same slot.
THEOREM AliasWindow == Spec => []AliasOnlyAfterFullCycle
<1>1. PoolInv => AliasOnlyAfterFullCycle
  <2> SUFFICES ASSUME PoolInv, NEW r \in results
      PROVE  \E d \in delivered :
               /\ d.status = r.status
               /\ d.event.slot = r.event.slot
               /\ (d.event.k - r.event.k) % (GenLimit - 1) = 0
    BY DEF AliasOnlyAfterFullCycle
  <2>1. PICK d \in delivered : d.event.token = r.event.token /\ d.status = r.status
    BY DEF PoolInv, ResultsInv
  <2> DEFINE e == d.event
             f == r.event
  <2>2. e \in issued /\ f \in issued
    BY DEF PoolInv, TypeOK
  <2>3. e.token = f.token
    BY <2>1
  <2> HIDE DEF e, f
  <2>4. /\ e.slot \in Slot /\ e.k \in Nat /\ e.k > 0
        /\ e.token = Token(GenOf(e.k), e.slot)
        /\ f.slot \in Slot /\ f.k \in Nat /\ f.k > 0
        /\ f.token = Token(GenOf(f.k), f.slot)
    BY <2>2, IssuedFacts DEF PoolInv
  <2>5. GenOf(e.k) \in Nat /\ GenOf(f.k) \in Nat
    BY <2>4, GenOfType, GenAssumption
  <2>6. Token(GenOf(e.k), e.slot) = Token(GenOf(f.k), f.slot)
    BY <2>3, <2>4, Zenon
  <2>7. GenOf(e.k) = GenOf(f.k) /\ e.slot = f.slot
    BY <2>4, <2>5, <2>6, TokenInjective
  <2>8. ((e.k - 1) - (f.k - 1)) % (GenLimit - 1) = 0
    <3>1. (e.k - 1) % (GenLimit - 1) = (f.k - 1) % (GenLimit - 1)
      BY <2>4, <2>7, GenAssumption DEF GenOf
    <3>2. e.k - 1 \in Nat /\ f.k - 1 \in Nat /\ GenLimit - 1 \in Nat /\ GenLimit - 1 > 0
      BY <2>4, GenAssumption
    <3>3. QED BY <3>1, <3>2, SameRemainder, Zenon
  <2>9. (e.k - 1) - (f.k - 1) = e.k - f.k
    BY <2>4
  <2>10. QED BY <2>1, <2>7, <2>8, <2>9 DEF e, f
<1>2. QED BY <1>1, PoolInvariant, PTL

\* What is about an event already given back changes no state word, within one
\* cycle of generations: the theorem behind the comment on Abort.
THEOREM EndedInert == Spec => EndedEventsAreInert
<1> DEFINE Inert ==
      NoWrap =>
        /\ \A e \in outstanding \ outstanding' : e \in ended => states' = states
        /\ (pc # "idle" /\ arg \in ended /\ outstanding' = outstanding)
             => states' = states
<1>1. PoolInv /\ [Next]_vars => [Inert]_vars
  <2> SUFFICES ASSUME PoolInv, Next, NoWrap
      PROVE  /\ \A e \in outstanding \ outstanding' : e \in ended => states' = states
             /\ (pc # "idle" /\ arg \in ended /\ outstanding' = outstanding)
                  => states' = states
    OBVIOUS
  <2>0. \A e \in issued : e.token = CurToken(e.slot) /\ states[e.slot] # 0 => e \notin ended
    <3> SUFFICES ASSUME NEW e \in issued, e.token = CurToken(e.slot), states[e.slot] # 0
        PROVE  e \notin ended
      OBVIOUS
    <3>1. e.slot \in Slot
      BY IssuedFacts DEF PoolInv
    <3>2. e.k = acquired[e.slot]
      BY <3>1, SameToken DEF PoolInv
    <3>3. QED BY <3>2 DEF PoolInv, LiveInv
  <2>1. CASE Acquire
    <3>1. pc = "idle"
      BY <2>1 DEF Acquire
    <3>2. outstanding' = outstanding
      BY <2>1, AcquireStep
    <3>3. QED BY <3>1, <3>2
  <2>2. CASE Releases
    <3>1. arg \in issued /\ arg.token = CurToken(arg.slot) /\ states[arg.slot] # 0
          /\ outstanding' = outstanding
      BY <2>2, ReleaseStep
    <3>2. QED BY <2>0, <3>1
  <2>3. CASE Quiet
    BY <2>3, QuietStep
  <2>4. CASE PollThread
    <3>1. PICK e \in outstanding, status \in Status : Complete(e, status)
      BY <2>4 DEF PollThread
    <3>2. /\ e \in issued /\ outstanding' = outstanding \ {e}
          /\ \/ states' = states
             \/ e.token = CurToken(e.slot) /\ states[e.slot] # 0
      BY <3>1, CompleteStep
    <3>3. outstanding' # outstanding
      BY <3>2
    <3>4. QED BY <2>0, <3>2, <3>3
  <2>5. QED BY <2>1, <2>2, <2>3, <2>4, StepKinds
<1>2. QED BY <1>1, PoolInvariant, PTL DEF Spec, EndedEventsAreInert
=============================================================================
