----------------------------- MODULE MCScanCache -----------------------------
(* Two partitions that read different windows of the outer coordinate and    *)
(* share everything else.                                                    *)
EXTENDS ScanCache, TLC

CONSTANTS p1, p2, time, lat, w1, w2

MCWindowOf == (p1 :> w1) @@ (p2 :> w2)
=============================================================================
