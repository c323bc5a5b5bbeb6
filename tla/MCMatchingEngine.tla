--------------------------- MODULE MCMatchingEngine ---------------------------
EXTENDS MatchingEngine

MCEngines == {UnitTests, MatchingEngineEx, ListEngine, OrderAsPtr,
              OrderAsPtrAlloc, PriceLvLPtr}
MCLevelEngines == {UnitTests, MatchingEngineEx}
=============================================================================
