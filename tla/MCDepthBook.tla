----------------------------- MODULE MCDepthBook -----------------------------
EXTENDS DepthBook

MCKinds == {MarketDepthBook, StaticSortedFlatMap_WithDeletion,
            StaticSortedFlatMap, SortedArray}
MCBooks == {MarketDepthBook}
=============================================================================
