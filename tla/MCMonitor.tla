----------------------------- MODULE MCMonitor -----------------------------
(* Constants for TLC: a restored and a fresh trade in one pool. *)
EXTENDS Monitor, TLC

CONSTANTS t1, t2, p1, base

TwoTrades == {t1, t2}
OneFresh == {t2}
OnePool == {p1}
OneVault == {base}
SharedPool == t1 :> p1 @@ t2 :> p1
OneLoaded == {{t1}}
Twice == p1 :> 2
=============================================================================
