SPECIFICATION SpiderSpec
CONSTANTS
  n1 = n1
  an = an
  a2 = a2
  fa = fa
  None = None
  InBuffer = InBuffer
  Crawl = Crawl
  Tid = Tid
  Box = Box
  Packets = {an, a2, fa}
  Nodes = {n1}
  Workers = {w1}
  TypeOf <- TypeOfPackets
  SourceOf <- SourceOfPackets
  NodesOf <- NodesOfPackets
  Stimulated = FALSE
  MaxTarget = 0
  HasAnswers = {TRUE, FALSE}
  BufSize = 1
PROPERTIES CrawlReturns NothingLeftRunning EveryAnnounceIsReported FetchedIsShown
\* After the cancellation Run returns, and main waits for more; a panic ends
\* the process.
CHECK_DEADLOCK FALSE
