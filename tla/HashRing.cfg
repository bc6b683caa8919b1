\* Two nodes of weight 1 or 2 in placement and lookup tables, with a target
\* of two virtual nodes, and every collision-free order of the ids of
\* the names involved.
CONSTANTS
  A = A  B = B  Other = Other
  Nodes <- MCNodes
  MaxWeight = 2
  ZeroWeights = FALSE
  TargetNodeCount = 2
  IdMax = 6
  DistinctIds = TRUE
SPECIFICATION Spec
INVARIANTS TypeOK LookupSuccessor IterateCoversAll
