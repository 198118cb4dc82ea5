SPECIFICATION FairSpec
CONSTANTS MaxConnections = 2
          Courses = {"switched"}
PROPERTIES LockedIsSilent
