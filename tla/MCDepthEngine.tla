---------------------------- MODULE MCDepthEngine ----------------------------
EXTENDS DepthEngine

\* The first book has a level to remove and lacks a level to add.
MCFirstBooks == {[level \in {CHOOSE l \in Levels : TRUE} |-> 1]}

=============================================================================
