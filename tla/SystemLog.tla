----------------------------- MODULE SystemLog ------------------------------
(***************************************************************************)
(* The system log (main/host/mosaico_system_log.cpp): any task puts        *)
(* records into a RAM queue, one worker copies a prefix of it into a page, *)
(* appends the page to the log on the NAND (AppendLog) and consumes the    *)
(* prefix afterwards, and the serial console reads pages back through a    *)
(* cache that the worker fills.                                            *)
(*                                                                         *)
(* Records are numbered in the order the queue accepts them, so the queue  *)
(* is an interval of numbers and so is a page.  queueLock and readLock are *)
(* only ever tried, around a few instructions: each section is one step,   *)
(* and a try that is lost is a choice.  Of the clocks only two facts       *)
(* matter: the worker rests (now < nextAttempt), a flush is due (60 s).    *)
(***************************************************************************)
EXTENDS Integers

CONSTANTS Capacity,        \* records in the queue
          RecordsPerPage,
          GroupSize,       \* records that are pushed together, at most
          MaxPages,        \* pages the log retains
          MaxSequence,     \* stands for UINT64_MAX
          MaxRecords,      \* bound: records ever accepted
          NoPage

ASSUME SystemLogAssumption ==
  /\ {Capacity, RecordsPerPage, GroupSize, MaxPages, MaxSequence, MaxRecords} \subseteq Nat \ {0}

(* A page holds records first .. last of the boot that began after the     *)
(* first `boot` records (bootId is new on every boot).                     *)
Pages   == [boot : 0 .. MaxRecords, first : 1 .. MaxRecords, last : 1 .. MaxRecords]
Readers == {"Idle", "Pending", "Ready", "Failed"}

ASSUME NoPageAssumption == NoPage \notin Pages

VARIABLES log, request, sequence, reported, \* the log on the NAND (AppendLog)
          accepted,       \* records the queue has accepted, over all boots
          head,           \* records before the queue's first
          boot,           \* records accepted before this boot
          pendingConsume,
          urgent, flushRequested,
          due,            \* lastFlush is a minute old
          resting,        \* nextAttempt is in the future
          reader, readSeq,
          cache,          \* the page logRead puts into readPage, or 0
          pc, page,       \* where the worker stands; its page
          healthy         \* leases, gates and NAND are in order

nand   == <<log, request, sequence, reported>>
queue  == <<accepted, head, boot>>
wishes == <<urgent, flushRequested, due, resting>>
serial == <<reader, readSeq, cache>>
vars   == <<nand, queue, pendingConsume, wishes, serial, pc, page, healthy>>

Log    == INSTANCE AppendLog WITH Values <- Pages, NoValue <- NoPage
Latest == Log!Latest(log)
Queued == accepted - head

Init ==
  /\ Log!Init
  /\ accepted = 0 /\ head = 0 /\ boot = 0 /\ pendingConsume = 0
  /\ urgent = FALSE /\ flushRequested = FALSE /\ due = FALSE /\ resting = FALSE
  /\ reader = "Idle" /\ readSeq = 0 /\ cache = 0
  /\ pc = "wait" /\ page = NoPage /\ healthy = TRUE

-----------------------------------------------------------------------------
(* The tasks that log, the serial console.                                 *)

(* All n records or none; refused when the queue is full.                  *)
Enqueue(n) ==
  /\ Queued + n <= Capacity /\ accepted + n <= MaxRecords
  /\ accepted' = accepted + n
  /\ UNCHANGED <<nand, head, boot, pendingConsume, wishes, serial, pc, page, healthy>>

(* A critical record is announced after the lock is returned, also when    *)
(* the queue was too full for it.                                          *)
Urge ==
  /\ urgent' = TRUE
  /\ UNCHANGED <<nand, queue, pendingConsume, flushRequested, due, resting, serial,
                 pc, page, healthy>>

RequestFlush ==
  /\ flushRequested' = TRUE /\ resting' = FALSE
  /\ UNCHANGED <<nand, queue, pendingConsume, urgent, due, serial, pc, page, healthy>>

(* A slip: another page may be asked for while one is being read.          *)
RequestReadAnyway(seq) ==
  /\ ~(reader \in {"Pending", "Ready"} /\ readSeq = seq)
  /\ readSeq' = seq /\ reader' = "Pending" /\ resting' = FALSE
  /\ UNCHANGED <<nand, queue, pendingConsume, urgent, flushRequested, due, cache,
                 pc, page, healthy>>

(* The call that is accepted and is not a repetition.                      *)
RequestRead(seq) == reader # "Pending" /\ RequestReadAnyway(seq)

-----------------------------------------------------------------------------
(* The worker, one action from one interleaving point to the next.         *)

WorkerAt(p, q) == pc = p /\ pc' = q /\ UNCHANGED healthy

(* What a refused lease, a closed gate or an error leaves behind.          *)
Rest == resting' = TRUE /\ UNCHANGED <<urgent, flushRequested, due>>

(* consumeDurable, when it gets the lock.                                  *)
Consumed == head' = head + pendingConsume /\ pendingConsume' = 0

(* The worker is woken, and at the end of a flush: without the lock it     *)
(* goes back to waiting.                                                   *)
Consume(from, to) ==
  /\ WorkerAt(from, to) /\ Consumed
  /\ UNCHANGED <<nand, accepted, boot, wishes, serial, page>>

LosesLock ==
  /\ \/ WorkerAt("wait", "wait") /\ pendingConsume # 0
     \/ WorkerAt("copy", "wait")
     \/ WorkerAt("consume", "wait") /\ pendingConsume # 0
  /\ UNCHANGED <<nand, queue, pendingConsume, wishes, serial, page>>

(* processRead.                                                            *)
BeginRead ==
  /\ WorkerAt("read", "reading") /\ reader = "Pending" /\ ~resting
  /\ cache' = readSeq
  /\ UNCHANGED <<nand, queue, pendingConsume, wishes, reader, readSeq, page>>

ReadRefused ==
  /\ WorkerAt("read", "flush") /\ reader = "Pending" /\ ~resting /\ ~healthy
  /\ Rest
  /\ UNCHANGED <<nand, queue, pendingConsume, serial, page>>

NoRead ==
  /\ WorkerAt("read", "flush") /\ (reader # "Pending" \/ resting)
  /\ UNCHANGED <<nand, queue, pendingConsume, wishes, serial, page>>

ReadDone ==
  /\ WorkerAt("reading", "flush") /\ cache \in DOMAIN log
  /\ reader' = "Ready"
  /\ UNCHANGED <<nand, queue, pendingConsume, wishes, readSeq, cache, page>>

ReadFails ==
  /\ WorkerAt("reading", "flush") /\ (cache \notin DOMAIN log \/ ~healthy)
  /\ reader' = "Failed" /\ cache' = 0 /\ Rest
  /\ UNCHANGED <<nand, queue, pendingConsume, readSeq, page>>

(* flush: the wait, logLoad, the copy, logAppend.                          *)

(* A slip: records that are not urgent wait for one that is.               *)
WantedUrgent == Queued > 0 /\ ~resting /\ (urgent \/ flushRequested)

Wanted == Queued > 0 /\ ~resting /\ (urgent \/ flushRequested \/ due)

NoFlush ==
  /\ WorkerAt("flush", "wait") /\ ~Wanted
  /\ UNCHANGED <<nand, queue, pendingConsume, wishes, serial, page>>

Load ==
  /\ WorkerAt("flush", "copy") /\ Wanted
  /\ UNCHANGED <<nand, queue, pendingConsume, wishes, serial, page>>

(* A lease or a gate refuses, or the NAND fails, before a page is begun.   *)
FlushFails ==
  /\ \/ WorkerAt("flush", "wait") /\ Wanted /\ ~healthy
     \/ WorkerAt("append", "wait") /\ (~healthy \/ Latest = MaxSequence)
  /\ Rest /\ page' = NoPage
  /\ UNCHANGED <<nand, queue, pendingConsume, serial>>

Lesser(m, n) == IF m < n THEN m ELSE n
Prefix == [boot |-> boot, first |-> head + 1, last |-> head + Lesser(Queued, RecordsPerPage)]

Copy ==
  /\ WorkerAt("copy", "append") /\ page' = Prefix
  /\ UNCHANGED <<nand, queue, pendingConsume, wishes, serial>>

AppendBegins ==
  /\ WorkerAt("append", "appending") /\ Latest < MaxSequence
  /\ Log!Begin(page)
  /\ UNCHANGED <<queue, pendingConsume, wishes, serial, page>>

(* A slip: what the queue holds now, not what the page does.               *)
CountNow == Lesser(Queued, RecordsPerPage)
(* count, as logAppend was given it.                                       *)
Count == page.last - page.first + 1

AppendDone ==
  /\ WorkerAt("appending", "consume") /\ Log!Done
  /\ pendingConsume' = Count /\ page' = NoPage
  /\ urgent' = FALSE /\ flushRequested' = FALSE /\ due' = FALSE /\ resting' = FALSE
  /\ UNCHANGED <<queue, serial>>

(* It also fails when the log's only page was lost under it.               *)
AppendFails ==
  /\ WorkerAt("appending", "wait") /\ Log!Undone
  /\ ~healthy \/ Latest + 1 < sequence
  /\ Rest /\ page' = NoPage
  /\ UNCHANGED <<queue, pendingConsume, serial>>

Worker ==
  \/ Consume("wait", "read") \/ Consume("consume", "wait")
  \/ BeginRead \/ ReadRefused \/ NoRead \/ ReadDone \/ ReadFails
  \/ NoFlush \/ Load \/ FlushFails \/ Copy \/ AppendBegins \/ AppendDone \/ AppendFails

-----------------------------------------------------------------------------
(* The NAND under a page that is being appended.                           *)
PageWritten ==
  /\ Log!Commit
  /\ UNCHANGED <<queue, pendingConsume, wishes, serial, pc, page, healthy>>

PageLost ==
  /\ ~healthy /\ Log!Lose
  /\ UNCHANGED <<queue, pendingConsume, wishes, serial, pc, page, healthy>>

Elapse ==
  /\ \/ resting' = FALSE /\ UNCHANGED due
     \/ due' = TRUE /\ UNCHANGED resting
  /\ UNCHANGED <<nand, queue, pendingConsume, urgent, flushRequested, serial, pc,
                 page, healthy>>

Environment ==
  /\ healthy' = ~healthy
  /\ UNCHANGED <<nand, queue, pendingConsume, wishes, serial, pc, page>>

(* The queue is RAM: what it held is gone.                                 *)
PowerCut ==
  /\ ~healthy /\ healthy' = healthy
  /\ IF request = NoPage THEN UNCHANGED nand ELSE Log!Undone
  /\ head' = accepted /\ boot' = accepted /\ pendingConsume' = 0
  /\ urgent' = FALSE /\ flushRequested' = FALSE /\ due' = FALSE /\ resting' = FALSE
  /\ reader' = "Idle" /\ readSeq' = 0 /\ cache' = 0
  /\ pc' = "wait" /\ page' = NoPage
  /\ UNCHANGED accepted

Next ==
  \/ \E n \in 1 .. GroupSize : Enqueue(n)
  \/ Urge
  \/ RequestFlush
  \/ \E seq \in 1 .. MaxSequence : RequestRead(seq)
  \/ Worker
  \/ LosesLock
  \/ PageWritten
  \/ PageLost
  \/ Elapse
  \/ Environment
  \/ PowerCut

Spec == Init /\ [][Next]_vars

-----------------------------------------------------------------------------
TypeOK ==
  /\ accepted \in 0 .. MaxRecords /\ boot \in 0 .. accepted /\ head \in boot .. accepted
  /\ Queued <= Capacity /\ pendingConsume \in 0 .. Lesser(Queued, RecordsPerPage)
  /\ urgent \in BOOLEAN /\ flushRequested \in BOOLEAN /\ due \in BOOLEAN
  /\ resting \in BOOLEAN /\ healthy \in BOOLEAN
  /\ reader \in Readers /\ readSeq \in 0 .. MaxSequence /\ cache \in 0 .. MaxSequence
  /\ pc \in {"wait", "read", "reading", "flush", "copy", "append", "appending", "consume"}
  /\ page \in Pages \cup {NoPage} /\ request \in {NoPage, page}
  /\ DOMAIN log \subseteq 1 .. MaxSequence /\ \A s \in DOMAIN log : log[s] \in Pages

(* Nothing leaves the queue before it is in the log: the newest page ends  *)
(* no earlier than what has been consumed, or is about to be, whatever was *)
(* queued, refused, retried or cut off meanwhile (flush, consumeDurable).  *)
ConsumedIsLogged ==
  head + pendingConsume > boot =>
    /\ log # <<>> /\ log[Latest].boot = boot
    /\ log[Latest].last >= head + pendingConsume

(* The pages of a boot join up: retries may repeat records, but between    *)
(* two pages none is missing or out of order, and a boot starts with its   *)
(* first record (flush: the immutable prefix).                             *)
Follows(q, p) == IF p.boot = q.boot
                 THEN p.first <= q.first /\ q.first <= p.last + 1 /\ p.last <= q.last
                 ELSE p.last <= q.boot /\ q.first = q.boot + 1
PagesJoin ==
  \A s \in DOMAIN log : IF s = 1 THEN log[s].first = log[s].boot + 1
                       ELSE s - 1 \in DOMAIN log => Follows(log[s], log[s - 1])

(* The page handed out is the one asked for, though the console may ask    *)
(* again at any time and the worker reads it without readLock              *)
(* (requestRead, processRead, readChunk).                                  *)
PageServedIsAsked == reader = "Ready" => cache = readSeq

(* What the console reads is what was logged.                              *)
PagesServed == TypeOK /\ PagesJoin /\ PageServedIsAsked

(* No page can be appended any more: the worker only ever rests.           *)
Full == Latest = MaxSequence

(* Once storage stays available and the console asks for no more pages,    *)
(* every queued record is logged, whatever was lost, refused or postponed  *)
(* before (urgent, flushRequested, nextAttempt, lastFlush, pendingConsume).*)
QueuedIsLogged ==
  <>[](healthy /\ reader # "Pending") =>
    \A n \in 1 .. MaxRecords : head < n /\ n <= accepted ~> n <= head \/ Full

(* Once storage stays available every page asked for is read or refused    *)
(* (requestRead, processRead).                                             *)
ReadIsAnswered == <>[]healthy => (reader = "Pending" ~> reader # "Pending" \/ Full)

(* Once storage stays available neither records nor questions wait for     *)
(* ever (flush, processRead).                                              *)
WorkEnds == QueuedIsLogged /\ ReadIsAnswered
=============================================================================
