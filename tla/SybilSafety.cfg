SPECIFICATION Spec
CONSTANTS
  n1 = n1
  an = an
  re = re
  ft = ft
  None = None
  InBuffer = InBuffer
  Crawl = Crawl
  Tid = Tid
  Box = Box
  Packets = {an, re, ft}
  Nodes = {n1}
  Workers = {w1, w2}
  TypeOf <- TypeOfPackets
  SourceOf <- SourceOfPackets
  NodesOf <- NodesOfPackets
  Stimulated = TRUE
  MaxTarget = 2
SYMMETRY Symmetry
INVARIANT TargetIsFresh
