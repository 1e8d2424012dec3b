----------------------------- MODULE MCListCache -----------------------------
(***************************************************************************)
(* Instances of ListCache for TLC.                                         *)
(***************************************************************************)
EXTENDS ListCache, TLC

CONSTANTS u1, u2, c1, c2

ListFaults == {"answer", "fetch", "cancel", "open", "write", "crash", "configure", "clock"}
Symmetry == Permutations(Clients) \cup Permutations(URLs)
=============================================================================
