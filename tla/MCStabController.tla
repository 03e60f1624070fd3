---- MODULE MCStabController ----
(* One project, with its two tags: two commands that work on them side by side *)
(* share images.json as commands on two projects would.  Three commands allow *)
(* one before an upgrade and two that interleave after it.                   *)
EXTENDS StabController, TLC

MCSymmetry == Permutations(Process)
====
