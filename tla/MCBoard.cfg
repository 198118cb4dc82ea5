SPECIFICATION BoardSpec
CONSTANTS Tasks = {worker_task, network_task, ui_task}
          NoTask = NoTask
          MaxNesting = 4
          FifoMax = 2
          MaxId = 2
          MaxFlaps = 1
          Modes = {"Off", "On"}
          ScanFaults = FALSE
          Attempts = 1
          Profiles = 2
INVARIANTS LeaseExcludesUpdate OwnerIsHolder TrialIsSafe RadioKept
