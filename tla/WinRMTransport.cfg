SPECIFICATION Spec
\* Three calls, so that a run meets the pool that an earlier one and a close
\* have left, on each leg.  A runspace lasts, so its scripts differ in what they
\* leave there; the relay is told its status by a line of the output, so one of
\* its scripts prints such a line.
CONSTANTS Legs = {"native", "pywinrm", "psrp"}
          LocalScripts = {"ok", "forges"}
          ShellScripts = {"ok"}
          PoolScripts = {"native", "pure"}
          MaxCalls = 3
          MaxSends = 2
INVARIANTS HonestRuns PoolsOwned
PROPERTY CallsEnd
CHECK_DEADLOCK FALSE
