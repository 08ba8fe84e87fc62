\* Up to five calls and samples, two of them given up, and a lossy stream.
CONSTANTS
  Routines = {"aead_decrypt", "aead_encrypt"}
  Samples = 2
  MaxCalls = 5
  MaxTimeouts = 2
  Lossy = TRUE
SPECIFICATION FairSpec
INVARIANTS WritesWhileParked RunsOnce PairsBracketOneRun
PROPERTIES AnswersInStep CallsReturn
\* The tools may stop calling.
CHECK_DEADLOCK FALSE
