---------------------------- MODULE MCMonetization ----------------------------
\* Two plans in the proportions of plans.py: basic is the smaller one, and has
\* no connector access.
EXTENDS Monetization, TLC

SmallLimits == [p \in {"basic", "pro"} |-> IF p = "basic" THEN 2 ELSE 3]
SmallRates  == [p \in {"basic", "pro"} |-> IF p = "basic" THEN 1 ELSE 2]

Symmetry == Permutations(Threads) \cup Permutations(Clients)
=============================================================================
