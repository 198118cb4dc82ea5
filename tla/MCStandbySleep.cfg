SPECIFICATION StandbyFairSpec
CONSTANT MaxEvents = 6
INVARIANTS SleepIsSafe ViewIsWhole
PROPERTIES SleepReturns GesturesAreHonest
