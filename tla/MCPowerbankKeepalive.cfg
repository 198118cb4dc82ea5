SPECIFICATION FairSpec
CONSTANTS Period = 2
          Duration = 1
          Lease = 2
          Fresh = 2
          MaxLag = 0
INVARIANTS OffWins
PROPERTIES NoBurst PulsesGoOn
