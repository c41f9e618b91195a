----------------------------- MODULE MCElection -----------------------------
EXTENDS Election

Complete == [n \in Node |-> Node \ {n}]
Undecided == {<<50, 50>>, <<40, 60>>}
=============================================================================
