---------------------------- MODULE MC_TycheDriver ----------------------------
(* Instantiation of TycheDriver for TLC: two files racing for two domain   *)
(* slots, two threads that may issue requests on the same file at once.    *)
EXTENDS TycheDriver, TLC

CONSTANTS f1, f2, t1, t2, d1, d2, r1, r2

MCFiles   == {f1, f2}
MCThreads == {t1, t2}
MCDomains == {d1, d2}
MCRegions == {r1, r2}
\* The liveness run needs no choice of region: one keeps its graph small.
MCOneRegion == {r1}

\* Files, threads and domain slots are interchangeable model values.
MCSymmetry == Permutations(MCFiles) \cup Permutations(MCThreads)
                \cup Permutations(MCDomains)
=============================================================================
