SPECIFICATION Spec
CONSTANTS
  Requests <- MCRequests
  Rounds <- MCRounds
  RequestOf <- MCRequestOf
  Chain <- MCChain
INVARIANTS LifeTypeOK NeverRevived DisputeBlocks NewestProposalCounts
