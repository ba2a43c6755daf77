SPECIFICATION FairSpec
CONSTANTS
  j1 = j1
  j2 = j2
  Jobs <- MCJobs
  MaxInflight = 2
  MaxEpoch = 3
  Requests <- MCRequests
  Rounds <- MCRounds
  RequestOf <- MCRequestOf
  PriceOf <- MCPriceOf
  Chain <- EndedChain
INVARIANT DrainedIsClosed
PROPERTIES ImplementsSubmissions UndisturbedTrigger QuietOnceOff DrainEnds
