------------------------------ MODULE MCSystem ------------------------------
(* The System V objects, the service table and the two gateways for TLC.      *)
(* They share no state: a behaviour is one of them at work, the others idle.  *)
EXTENDS TLC, Lifecycle, Services, ShortConn, LongConn

VARIABLE part      \* which of them works

Service == [w1 |-> "a", w2 |-> "a", w3 |-> "b", w4 |-> "a"]
Address == [w1 |-> 1, w2 |-> 1, w3 |-> 2, w4 |-> 3]
Row     == [a |-> 1, b |-> 2]

vars == <<lifeVars, svcVars, shortVars, longVars, part>>

Init == LifeInit /\ SvcInit /\ ShortInit /\ LongInit /\ part \in {"life", "services", "short", "long"}

Next == /\ UNCHANGED part
        /\ \/ part = "life"     /\ LifeNext  /\ UNCHANGED <<svcVars, shortVars, longVars>>
           \/ part = "services" /\ SvcNext   /\ UNCHANGED <<lifeVars, shortVars, longVars>>
           \/ part = "short"    /\ ShortNext /\ UNCHANGED <<lifeVars, svcVars, longVars>>
           \/ part = "long"     /\ LongNext  /\ UNCHANGED <<lifeVars, svcVars, shortVars>>

Spec == Init /\ [][Next]_vars

\* What is claimed is claimed of starts, removals and updates that do not overlap, and
\* of a stream that one child at a time reads.
Apart == "overlap" \notin marred /\ ~rushed /\ ~skewed

\* C002's replies keep no order and are taken one at a time: one queued is enough.
OneReply == replies <= 1

\* Bound: at most one of its children is stopped at a time.
OneStopped == Cardinality({k \in Sons : son[k].stopped}) <= 1

\* Which of the Governors is started makes no difference.
Alike == Permutations(Govs)
=============================================================================
