SPECIFICATION Spec
CONSTANTS FifoMax = 2
          MaxId = 2
          MaxFlaps = 1
          Probes <- NoProbes
          Modes = {"Off", "On"}
          ScanFaults = TRUE
INVARIANTS RadioQuiet
