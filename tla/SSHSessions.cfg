SPECIFICATION FairRun
CONSTANTS MaxCalls = 3
          MaxConns = 2
          Calls <- SharedCalls
          MaxOutput = 3
          MaxUses = 4
INVARIANTS ConnectionSound OutputKept
PROPERTY CallsEnd
CHECK_DEADLOCK FALSE
