---- MODULE MCTunnel ----
(* Three ssh processes: the old tunnel, one per kind, or one replaced twice. *)
EXTENDS Tunnel, TLC

MCPids == Permutations(Pid)
====
