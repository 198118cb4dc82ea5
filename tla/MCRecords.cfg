SPECIFICATION RecordsSpec
CONSTANTS
  Values = {v1, v2}
  NoValue = none
  MaxGeneration = 3
  MaxBoots = 3
  MaxGen = 5
  MaxResets = 2
  MaxSaves = 6
  Names = {"a", "b"}
  Capacity = 1
  Configs = {1, 2}
  MaxAsks = 3
  CriticalDepth = 2
  NormalDepth = 1
  Reserve = 0
  Tries = 2
  Controls = {"stick", "press"}
INVARIANTS StoreInv GaugeIsOwned ScaleIsOwned SettingsKept NothingStuck
PROPERTIES RecordNeverLost GenerationNeverFalls ImplementsRecord
