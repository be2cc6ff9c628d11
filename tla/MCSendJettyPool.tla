-------------------------- MODULE MCSendJettyPool --------------------------
(* SendJettyPool for TLC: four lanes and two worker threads. *)
EXTENDS SendJettyPool

CONSTANTS j1, j2, j3, j4, t1, t2

MCJetty == {j1, j2, j3, j4}
MCThread == {t1, t2}
=============================================================================
