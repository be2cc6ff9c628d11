----------------------------- MODULE CycleClock -----------------------------
(***************************************************************************)
(* The clock of the benchmark (clock.cpp) and a wait on it (WaitEvent).    *)
(* kv_clock_init turns the frequency of the cycle counter into a           *)
(* multiplier and a shift; kv_now_ns multiplies the counter, which runs    *)
(* since the machine was switched on, and keeps the low Width bits of the  *)
(* product (64 in the code).  Every width is a constant, so that small     *)
(* instances wrap the way the real one does; they keep kMaxSec * frequency *)
(* below 2^(2 * kMultBits), as every real counter does.                    *)
(***************************************************************************)
EXTENDS Naturals, FiniteSetsExt

CONSTANTS
  Width,        (* bits of uint64_t                                    *)
  kMultBits, kMaxSec, kNsPerSec,
  CntFreq,      (* what CNTFRQ_EL0 may hold; 0 where there is none     *)
  Regression,   (* what the calibration may find; 0 when it fails      *)
  Period,       (* counter ticks between two looks at the clock        *)
  timeout       (* timeoutMs, in the unit of kv_now_ns                 *)

VARIABLES
  cycles,       (* CNTVCT_EL0 or rdtsc                                 *)
  g_mult, g_shift,
  pc,           (* of the worker: "start", "idle", "wait", "last"     *)
  deadline,
  completed     (* the slot of the awaited event has its verdict       *)

vars == <<cycles, g_mult, g_shift, pc, deadline, completed>>

\* The most bits a multiplier may have: kMultBits less the bits by which the
\* count of kMaxSec seconds is too long.
sftacc(freq) ==
  LET tmp == (kMaxSec * freq) \div 2^kMultBits
  IN  kMultBits - Min({b \in 0..kMultBits : tmp < 2^b})

Scaled(freq, sft) == (kNsPerSec * 2^sft + freq \div 2) \div freq

\* The loop ends at the first shift whose multiplier is short enough, or runs
\* out at shift 0 with the multiplier of shift 1.
CalcMultShift(freq) ==
  LET fit == {s \in 1..kMultBits : Scaled(freq, s) < 2^sftacc(freq)}
  IN  IF fit = {} THEN [mult |-> Scaled(freq, 1), shift |-> 0]
                  ELSE [mult |-> Scaled(freq, Max(fit)), shift |-> Max(fit)]

kv_now_ns(c) == ((c * g_mult) % 2^Width) \div 2^g_shift

Init ==
  /\ cycles \in {Period * i : i \in 0..((2^Width - 1) \div Period)}
  /\ g_mult = 0 /\ g_shift = 0
  /\ pc = "start" /\ deadline = 0 /\ completed = FALSE

\* The architecture's frequency, or the one found by regression.
kv_clock_init(cntfrq, found) ==
  LET freq == IF cntfrq # 0 THEN cntfrq ELSE found
  IN  /\ pc = "start"
      /\ pc' = "idle"
      /\ IF freq = 0
         THEN UNCHANGED <<g_mult, g_shift>>
         ELSE /\ g_mult' = CalcMultShift(freq).mult
              /\ g_shift' = CalcMultShift(freq).shift
      /\ UNCHANGED <<cycles, deadline, completed>>

\* WaitEvent fixes its deadline.  With no multiplier the clock is the kernel's
\* and nothing of this module is used.
BeginWait ==
  /\ pc = "idle" /\ g_mult # 0
  /\ deadline' = kv_now_ns(cycles) + timeout
  /\ completed' = FALSE
  /\ pc' = "wait"
  /\ UNCHANGED <<cycles, g_mult, g_shift>>

\* Probe finds the verdict, inside the loop or after it.
ProbeDone ==
  /\ pc \in {"wait", "last"} /\ completed
  /\ pc' = "idle"
  /\ UNCHANGED <<cycles, g_mult, g_shift, deadline, completed>>

\* No verdict, and the deadline has passed: break.  Otherwise the loop sleeps
\* and looks again, which changes nothing.
DeadlinePassed ==
  /\ pc = "wait" /\ ~completed
  /\ kv_now_ns(cycles) >= deadline
  /\ pc' = "last"
  /\ UNCHANGED <<cycles, g_mult, g_shift, deadline, completed>>

\* The second Probe finds nothing either: Abort, and the wait has failed.
GiveUp ==
  /\ pc = "last" /\ ~completed
  /\ pc' = "idle"
  /\ UNCHANGED <<cycles, g_mult, g_shift, deadline, completed>>

\* The poll thread settles the slot.  The WR may also never complete.
CompleteEvent ==
  /\ pc \in {"wait", "last"} /\ ~completed
  /\ completed' = TRUE
  /\ UNCHANGED <<cycles, g_mult, g_shift, pc, deadline>>

\* The counter is Width bits wide as well.
Tick ==
  /\ cycles' = (cycles + Period) % 2^Width
  /\ UNCHANGED <<g_mult, g_shift, pc, deadline, completed>>

Worker == BeginWait \/ ProbeDone \/ DeadlinePassed \/ GiveUp

Next ==
  \/ \E c \in CntFreq, r \in Regression : kv_clock_init(c, r)
  \/ Worker \/ CompleteEvent \/ Tick

\* Time passes, and the worker gets to run whenever it can take a step again
\* and again: it may not miss the deadline for ever.
Spec ==
  /\ Init /\ [][Next]_vars
  /\ WF_vars(Tick)
  /\ SF_vars(DeadlinePassed) /\ SF_vars(ProbeDone) /\ SF_vars(GiveUp)

(***************************************************************************)
(* A wait ends, with its event or by its timeout: WaitEvent with           *)
(* --timeout-ms.  It does not when the deadline, a sum that is not reduced,*)
(* lies past the largest value kv_now_ns can return: the product wraps     *)
(* first, time starts again from 0, and no reading ever reaches it.        *)
(***************************************************************************)
WaitEnds == pc = "wait" ~> pc = "idle"
=============================================================================
