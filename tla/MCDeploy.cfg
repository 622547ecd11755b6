SPECIFICATION RunApart
CONSTANTS Modes = {"pyz", "dir"}
          Digests = {1, 2}
          MaxDeploys = 3
          MaxOutside = 1
          Dists = {"a", "b", "c", "pip"}
          Extras = {"x"}
          Plain = "plain"
          Root = "a"
          Never = {"pip"}
          Graphs <- AllGraphs
          Heres = {{"a", "b", "c", "pip"}, {"a", "b"}}
          Haves = {{}, {"b"}}
          Hosts = {1, 2, 3}
          Parallel = 2
          Statuses = {0, 130, 200}
          Failures = {1, 126}
          MaxAsks = 1
          MaxCuts = 1
INVARIANTS HeldGood ShipsNeeded FannedOut
PROPERTY Answers
CHECK_DEADLOCK FALSE
