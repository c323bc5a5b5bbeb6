---------------------------- MODULE MCPriceLadder ----------------------------
EXTENDS PriceLadder, TLC

MCStorages == {PriceLevelStorage_1, PriceLevelStorage_2}

\* Nothing tells one place, or one id, from another.
MCSymmetry == Permutations(Memory) \cup Permutations(OrderIds)
=============================================================================
