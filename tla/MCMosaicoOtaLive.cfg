SPECIFICATION FairSpec
CONSTANTS
  Images = {i1}
  Shipped = {factory}
  NoImage = none
  Chunks = 1
  Preferences = {TRUE, FALSE}
PROPERTIES InstallNeedsConsent BusyEnds
