SPECIFICATION Spec
CONSTANTS
  Requests <- MCRequests
  Rounds <- MCRounds
  RequestOf <- MCRequestOf
  Chain <- MCChain
INVARIANT EndedStaysEnded
