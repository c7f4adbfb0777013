----------------------------- MODULE MCSession -----------------------------
(* Session for TLC: a peer that does more than is needed is the only one,  *)
(* and its answers are short: each oddity is explored, not their product.  *)
EXTENDS Session

OneOddity == extra' < MaxExtra => conns' = 1 /\ more' = MaxMore

MCSpec == /\ SessionInit /\ [][SessionNext /\ OneOddity]_sessionVars
          /\ WF_sessionVars(Arrives) /\ WF_sessionVars(HostTask) /\ WF_sessionVars(TimerTask)
=============================================================================
