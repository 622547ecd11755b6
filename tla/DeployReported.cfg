SPECIFICATION Spec
CONSTANTS Modes = {"pyz"}
          Digests = {1, 2}
          MaxDeploys = 3
          MaxOutside = 0
INVARIANT ReportedHolds
CHECK_DEADLOCK FALSE
