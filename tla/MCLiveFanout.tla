---------------------------- MODULE MCLiveFanout ----------------------------
(* LiveFanout with two replicas and two sockets in the same room; the other  *)
(* replica's room stays empty, but its requests publish, and fall back.      *)
EXTENDS LiveFanout

CONSTANTS ra, rb, s1, s2

MCReplicas == {ra, rb}
MCSockets == {s1, s2}
MCHome == [s \in MCSockets |-> ra]

============================================================================
