----------------------------- MODULE MCSystemLog -----------------------------
(* TLC's instances of SystemLog and of the diagnostic console, which reads *)
(* it among much else: the lines of the console's transports, and what its *)
(* commands do.  `part' says which of them runs; the log stays as it began *)
(* if it does not, and the console's parts are not there.                  *)
EXTENDS SystemLog

CONSTANTS LineCapacity, RxCapacity, UartEventCapacity, ChunkCapacity, TxCapacity, TxBudget, MaxBytes

(* A line holds something, and what is queued for the UART is written.     *)
ASSUME LinesConstants ==
  /\ LineCapacity \in Nat \ {0} /\ TxCapacity \in Nat \ {0} /\ TxBudget \in Nat
  /\ RxCapacity \in Nat /\ UartEventCapacity \in Nat /\ ChunkCapacity \in Nat

VARIABLES part, line, driver, poll, ring, ran, left, test, reply, capture, deed, late

linesVars == <<line, driver, poll, ring, ran, left>>
commandsVars == <<test, reply, capture, deed, late>>

None == "none"
Lines == INSTANCE SerialLines
Console == INSTANCE SerialCommands

NoLines == /\ line = None /\ driver = None /\ poll = None
           /\ ring = None /\ ran = None /\ left = None
NoConsole == test = None /\ reply = None /\ capture = None /\ deed = None /\ late = None

ConsoleInit ==
  /\ Init
  /\ \/ part = "log" /\ NoLines /\ NoConsole
     \/ part = "lines" /\ Lines!Init /\ NoConsole
     \/ part = "commands" /\ NoLines /\ Console!Init

ConsoleNext ==
  /\ UNCHANGED part
  /\ \/ part = "log" /\ Next /\ UNCHANGED <<linesVars, commandsVars>>
     \/ part = "lines" /\ Lines!Next /\ UNCHANGED <<vars, commandsVars>>
     \/ part = "commands" /\ Console!Next /\ UNCHANGED <<vars, linesVars>>

ConsoleSpec == ConsoleInit /\ [][ConsoleNext]_<<part, vars, linesVars, commandsVars>>

(* The worker loops for ever, the clock runs, a page write ends, and a try *)
(* of queueLock, held for a few instructions, succeeds now and then: where *)
(* the log runs.  What stays as it began owes nothing.                     *)
Runs(A) == part = "log" /\ A
LogFairness == /\ WF_vars(Runs(Worker)) /\ SF_vars(Runs(Copy))
               /\ WF_vars(Runs(PageWritten)) /\ WF_vars(Runs(Elapse))

ConsoleFairSpec == ConsoleSpec /\ LogFairness

(* The console runs whole lines only, asks for nothing out of turn, and    *)
(* sends late answers to who is waiting for them.                          *)
ConsoleIsHonest ==
  /\ part = "lines" => Lines!LinesAreWhole
  /\ part = "commands" => Console!CommandsInTurn
=============================================================================
