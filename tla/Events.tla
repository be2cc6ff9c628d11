------------------------------- MODULE Events -------------------------------
(***************************************************************************)
(* What the event layer promises its callers, with no slots, generations   *)
(* or state words: every acquired event is an object of its own.  It is    *)
(* pending until its own completion arrives, then keeps that verdict until *)
(* the worker consumes it, and it may be cancelled at any time before.  A  *)
(* completion that arrives for an event that is gone has no effect.        *)
(***************************************************************************)
EXTENDS Naturals, FiniteSets

CONSTANTS
  EventId,    (* every event there can be            *)
  Capacity    (* how many may be live at a time      *)

VARIABLES
  issued,       (* events acquired so far                           *)
  fresh,        (* acquired, not yet posted                         *)
  outstanding,  (* posted, not yet reported by the hardware         *)
  pending,      (* live events without a verdict                    *)
  verdict,      (* live events with one, as records [event, status]     *)
  results       (* verdicts handed to the worker                    *)

vars == <<issued, fresh, outstanding, pending, verdict, results>>

Status == {"ok", "fail"}

Live == pending \cup {v.event : v \in verdict}

Init ==
  /\ issued = {} /\ fresh = {} /\ outstanding = {}
  /\ pending = {} /\ verdict = {} /\ results = {}

Acquire(e) ==
  /\ e \notin issued
  /\ Cardinality(Live) < Capacity
  /\ issued' = issued \cup {e}
  /\ fresh' = fresh \cup {e}
  /\ pending' = pending \cup {e}
  /\ UNCHANGED <<outstanding, verdict, results>>

Post(e) ==
  /\ e \in fresh
  /\ fresh' = fresh \ {e}
  /\ outstanding' = outstanding \cup {e}
  /\ UNCHANGED <<issued, pending, verdict, results>>

\* The post failed; the event stays pending until it is cancelled.
PostFails(e) ==
  /\ e \in fresh
  /\ fresh' = fresh \ {e}
  /\ UNCHANGED <<issued, outstanding, pending, verdict, results>>

Complete(e, status) ==
  /\ e \in outstanding
  /\ outstanding' = outstanding \ {e}
  /\ IF e \in pending
     THEN /\ pending' = pending \ {e}
          /\ verdict' = verdict \cup {[event |-> e, status |-> status]}
     ELSE UNCHANGED <<pending, verdict>>
  /\ UNCHANGED <<issued, fresh, results>>

\* The worker takes the verdict; the event is gone.
Consume(v) ==
  /\ v \in verdict
  /\ verdict' = verdict \ {v}
  /\ results' = results \cup {v}
  /\ UNCHANGED <<issued, fresh, outstanding, pending>>

\* The worker gives the event up, with or without a verdict.
Cancel(e) ==
  /\ e \in Live \ fresh
  /\ pending' = pending \ {e}
  /\ verdict' = {v \in verdict : v.event # e}
  /\ UNCHANGED <<issued, fresh, outstanding, results>>

Next ==
  \/ \E e \in EventId : Acquire(e)
  \/ \E e \in fresh : Post(e) \/ PostFails(e)
  \/ \E e \in outstanding, status \in Status : Complete(e, status)
  \/ \E v \in verdict : Consume(v)
  \/ \E e \in Live : Cancel(e)

Spec == Init /\ [][Next]_vars
=============================================================================
