---------------------------- MODULE MCContainerFile ----------------------------
(* ContainerFile with a few calls on one file and one link to it. *)
EXTENDS ContainerFile

CONSTANTS u1, u2, u3, r1, w1, w2, p1, p2

(* u1 and u2 run in one process, everyone else in another. *)
MCPid == [c \in Calls |-> IF c \in {u1, u2} THEN p1 ELSE p2]
===============================================================================
