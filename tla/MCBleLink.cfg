SPECIFICATION PollSpec
CONSTANTS MaxConnections = 2
          Courses = {"returning", "failing"}
INVARIANTS ReadyIsAnswered
PROPERTIES HalfOpenEnds
