SPECIFICATION NandSpec
CONSTANTS
  Values = {v1, v2}
  NoValue = NoValue
  DataPages = 4
  MaxSequence = 6
  Tears = {"header"}
  Rows = 4
  Anchors = {"edv"}
  Lives = 2
  Samples = 5
INVARIANTS WindowReadable ReportedNeverLost TraceKept
PROPERTIES ImplementsLog
