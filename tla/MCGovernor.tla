----------------------------- MODULE MCGovernor -----------------------------
(* Instances of Governor for TLC. *)
EXTENDS Governor, TLC

CONSTANTS p1, p2, p3, p4, p5

Line(name, id, num) == [name |-> name, id |-> id, num |-> num, parse |-> "ok"]

\* Two servers whose ids are not their row numbers.
CfgPair  == <<Line("pay", 7, 1), Line("log", 1, 1)>>
\* The same with another SRVNUM and a third server appended.
CfgGrown == <<Line("pay", 7, 2), Line("log", 1, 1), Line("aux", 5, 1)>>

CleanCfgs == {CfgPair, CfgGrown}

\* A line is inserted before the others, which ask for more workers than there are
\* pid rows, and a line's executable is missing, or its SRVPARM is malformed.
Broken(l, how) == [l EXCEPT !.parse = how]
FaultCfgs == {CfgPair,
              <<Line("aux", 5, 1), Line("pay", 7, 4), Broken(Line("log", 1, 1), "noexec")>>,
              <<Line("pay", 7, 1), Broken(Line("log", 1, 1), "badparm")>>}

\* The only difference from CfgPair: a SRVID of 4, the number of TUX_DEAD.
FourCfgs   == {<<Line("pay", 7, 1), Line("log", 4, 1)>>}
PairCfgs   == {CfgPair}
\* More workers than servers, so that pid rows and server rows differ.
WidePairCfgs == {<<Line("pay", 7, 2), Line("log", 1, 1)>>}

PidSymmetry == Permutations(Pids)
=============================================================================
