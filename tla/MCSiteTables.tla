---------------------------- MODULE MCSiteTables ----------------------------
(* Two calls at a time on one table, one path and one provider.  The callers  *)
(* are alike: no definition tells them apart.                                 *)
EXTENDS SiteTables, TLC

AlikeCallers == Permutations(Callers)
=============================================================================
