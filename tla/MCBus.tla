------------------------------- MODULE MCBus -------------------------------
(* Instances of Bus for TLC. *)
EXTENDS Bus

CONSTANTS c1, c2, a1, w1, w2, pay, log, t1, t2, t3

\* C001's children have a reply type of their own, the threads of a
\* communication server share one.
PrivateTypes == [c \in Callers |-> CASE c = c1 -> t1 [] c = c2 -> t2 [] OTHER -> t3]

OneEach == [w \in Workers |-> IF w = w1 THEN pay ELSE log]
AllPay == [w \in Workers |-> pay]
=============================================================================
