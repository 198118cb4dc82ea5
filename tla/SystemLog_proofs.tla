-------------------------- MODULE SystemLog_proofs ---------------------------
(***************************************************************************)
(* Proofs about the system log, for every size of the queue, the pages and *)
(* the log.  What the worker consumes is tied to what is on the NAND by    *)
(* the newest page alone: of this boot's records it ends either where the  *)
(* queue begins, or, when its append was not reported or is not consumed   *)
(* yet, within the prefix the next page will hold.                         *)
(*                                                                         *)
(* And about the diagnostic console beside it, for every size of its lines *)
(* and buffers: a line that lost a byte is marked until it ends, a reply   *)
(* in the ring keeps its end, and every command passes the gates of what   *)
(* it asks.                                                                *)
(***************************************************************************)
EXTENDS MCSystemLog, SequenceTheorems, TLAPS

(* The pages of the log are numbered up to the latest.                     *)
Numbered ==
  /\ Latest \in 0 .. MaxSequence /\ DOMAIN log \subseteq 1 .. Latest
  /\ log # <<>> => Latest \in DOMAIN log

(* Each holds records that were accepted, in one boot.                     *)
Stored ==
  \A s \in DOMAIN log :
    /\ log[s] \in Pages
    /\ log[s].boot < log[s].first /\ log[s].first <= log[s].last /\ log[s].last <= accepted
    /\ log[s].boot = boot \/ log[s].last <= boot

(* What a page copied now may hold.                                        *)
IsPrefix(p) == /\ p.first = head + 1 /\ p.first <= p.last
               /\ p.last <= head + Lesser(Queued, RecordsPerPage)

Edge(p) == p.boot = boot => IsPrefix(p) \/ p.last = head
Edged   == log # <<>> => Edge(log[Latest])

(* What waits to be consumed is in the newest page.                        *)
Pending ==
  pendingConsume # 0 =>
    /\ log # <<>> /\ log[Latest].boot = boot
    /\ log[Latest].last = head + pendingConsume

(* The log cannot go again once a page of it was reported as written.      *)
Reported == /\ reported \in Nat
            /\ head + pendingConsume > boot => reported # 0

LogOK == /\ Numbered /\ Stored /\ Edged /\ Pending /\ Reported
         /\ PagesJoin /\ ConsumedIsLogged

(* The page under way ends no earlier than the newest of this boot: the    *)
(* queue has only grown since that one was copied.                         *)
NoShorter(p) == log # <<>> /\ log[Latest].boot = boot => log[Latest].last <= p.last

(* Where the worker stands.                                                *)
Place ==
  /\ pendingConsume # 0 => pc \in {"wait", "consume"}
  /\ pc = "copy" => Queued > 0
  /\ pc \in {"append", "appending"} =>
       page \in Pages /\ page.boot = boot /\ IsPrefix(page) /\ NoShorter(page)
  /\ pc = "appending" => /\ request = page /\ sequence \in 1 .. MaxSequence
                         /\ Latest = sequence => log[sequence] = page
  /\ pc # "appending" => request = NoPage

Served == /\ PageServedIsAsked
          /\ pc = "reading" => reader = "Pending" /\ cache = readSeq

IInv == TypeOK /\ LogOK /\ Place /\ Served

-----------------------------------------------------------------------------
(* What the log's operators do to its numbers.                             *)
LEMMA LatestIs ==
  ASSUME NEW l, NEW n \in Nat, n \in DOMAIN l, DOMAIN l \subseteq 1 .. n
  PROVE  Log!Latest(l) = n /\ l # <<>>
<1>1. l # <<>>
  BY DOMAIN <<>> = {}
<1>2. n \in DOMAIN l /\ \A r \in DOMAIN l : r <= n
  OBVIOUS
<1>3. \A s \in DOMAIN l : (\A r \in DOMAIN l : r <= s) => s = n
  <2> TAKE s \in DOMAIN l
  <2> HAVE \A r \in DOMAIN l : r <= s
  <2> s \in Int /\ n <= s /\ s <= n
    OBVIOUS
  <2> QED OBVIOUS
<1>4. (CHOOSE s \in DOMAIN l : \A r \in DOMAIN l : r <= s) = n
  BY <1>2, <1>3
<1> QED BY <1>1, <1>4 DEF Log!Latest

LEMMA LatestOfNone == Log!Latest(<<>>) = 0
BY DEF Log!Latest

LEMMA AppendedIs ==
  ASSUME NEW l, NEW n \in Nat, Log!Latest(l) = n, DOMAIN l \subseteq 1 .. n, NEW v
  PROVE  LET q == Log!Appended(l, v)
         IN /\ DOMAIN q \subseteq 1 .. n + 1 /\ n + 1 \in DOMAIN q /\ q[n + 1] = v
            /\ \A s \in DOMAIN q : s # n + 1 => s \in DOMAIN l /\ q[s] = l[s]
            /\ Log!Latest(q) = n + 1 /\ q # <<>>
<1> DEFINE q == Log!Appended(l, v)
           D == {r \in DOMAIN l \cup {n + 1} : r + MaxPages > n + 1}
<1>0. MaxPages \in Nat \ {0}
  BY SystemLogAssumption
<1>1. q = [s \in D |-> IF s = n + 1 THEN v ELSE l[s]]
  BY DEF Log!Appended
<1>2. D \subseteq 1 .. n + 1 /\ n + 1 \in D
  BY <1>0
<1>3. /\ DOMAIN q = D /\ q[n + 1] = v
      /\ \A s \in D : s # n + 1 => s \in DOMAIN l /\ q[s] = l[s]
  BY <1>1, <1>2
<1> HIDE DEF q, D
<1>4. DOMAIN q \subseteq 1 .. n + 1 /\ n + 1 \in DOMAIN q
  BY <1>2, <1>3
<1>5. Log!Latest(q) = n + 1 /\ q # <<>>
  <2>1. n + 1 \in Nat
    OBVIOUS
  <2> QED BY <1>4, <2>1, LatestIs
<1> QED BY <1>3, <1>4, <1>5 DEF q

LEMMA LesserIs ==
  ASSUME NEW m \in Int, NEW n \in Int
  PROVE  Lesser(m, n) \in {m, n} /\ Lesser(m, n) <= m /\ Lesser(m, n) <= n
BY DEF Lesser

LEMMA Sizes == /\ Capacity \in Nat \ {0} /\ RecordsPerPage \in Nat \ {0}
               /\ GroupSize \in Nat \ {0} /\ MaxPages \in Nat \ {0}
               /\ MaxSequence \in Nat \ {0} /\ MaxRecords \in Nat \ {0}
BY SystemLogAssumption

(* The numbers are numbers.                                                *)
LEMMA Numbers ==
  ASSUME TypeOK
  PROVE  /\ accepted \in 0 .. MaxRecords /\ boot \in 0 .. accepted /\ head \in boot .. accepted
         /\ Queued \in Nat /\ Queued = accepted - head /\ pendingConsume \in Nat
         /\ pendingConsume <= Queued /\ pendingConsume <= RecordsPerPage
<1>1. /\ accepted \in 0 .. MaxRecords /\ boot \in 0 .. accepted /\ head \in boot .. accepted
      /\ pendingConsume \in 0 .. Lesser(Queued, RecordsPerPage)
  BY DEF TypeOK
<1>2. Queued \in Nat /\ Queued = accepted - head
  BY <1>1, Sizes DEF Queued
<1>3. Lesser(Queued, RecordsPerPage) \in Int
      /\ Lesser(Queued, RecordsPerPage) <= Queued
      /\ Lesser(Queued, RecordsPerPage) <= RecordsPerPage
  <2>1. Queued \in Int /\ RecordsPerPage \in Int
    BY <1>2, Sizes
  <2> QED BY <2>1, LesserIs
<1> QED BY <1>1, <1>2, <1>3, Sizes

-----------------------------------------------------------------------------
(* The steps.  First those that leave the log and the queue alone.         *)
LEMMA SameLog ==
  ASSUME LogOK, UNCHANGED <<log, reported, queue, pendingConsume>>
  PROVE  LogOK'
<1> USE DEF queue, Latest
<1>1. Numbered' /\ Stored'
  BY DEF LogOK, Numbered, Stored
<1>2. Edged' /\ Pending' /\ Reported'
  BY DEF LogOK, Edged, Edge, IsPrefix, Queued, Lesser, Pending, Reported
<1>3. PagesJoin' /\ ConsumedIsLogged'
  BY DEF LogOK, PagesJoin, Follows, ConsumedIsLogged
<1> QED BY <1>1, <1>2, <1>3 DEF LogOK

(* The state that neither the log nor the queue is part of.                *)
Small ==
  /\ urgent \in BOOLEAN /\ flushRequested \in BOOLEAN /\ due \in BOOLEAN
  /\ resting \in BOOLEAN /\ healthy \in BOOLEAN
  /\ reader \in Readers /\ readSeq \in 0 .. MaxSequence /\ cache \in 0 .. MaxSequence

LEMMA SameQueueTypes ==
  ASSUME TypeOK, UNCHANGED <<queue, pendingConsume, log>>, Small',
         pc' \in {"wait", "read", "reading", "flush", "copy", "append", "appending", "consume"},
         page' \in Pages \cup {NoPage}, request' \in {NoPage, page'}
  PROVE  TypeOK'
<1> USE DEF queue
<1>1. (/\ accepted \in 0 .. MaxRecords /\ boot \in 0 .. accepted /\ head \in boot .. accepted
       /\ Queued <= Capacity /\ pendingConsume \in 0 .. Lesser(Queued, RecordsPerPage))'
  BY DEF TypeOK, Queued, Lesser
<1>2. (DOMAIN log \subseteq 1 .. MaxSequence /\ \A s \in DOMAIN log : log[s] \in Pages)'
  BY DEF TypeOK
<1> QED BY <1>1, <1>2 DEF TypeOK, Small

(* A step that leaves the NAND, the queue and the worker alone.            *)
LEMMA AsideStep ==
  ASSUME IInv, UNCHANGED <<nand, queue, pendingConsume, pc, page>>, Small', Served'
  PROVE  IInv'
<1>1. LogOK'
  BY SameLog DEF IInv, nand
<1>2. TypeOK'
  <2>1. /\ UNCHANGED <<queue, pendingConsume, log>> /\ page' = page /\ pc' = pc
        /\ request' = request
    BY DEF nand
  <2> QED BY <2>1, SameQueueTypes DEF IInv, TypeOK
<1>3. Place'
  BY DEF IInv, Place, IsPrefix, NoShorter, Queued, Lesser, Latest, nand, queue
<1> QED BY <1>1, <1>2, <1>3 DEF IInv

LEMMA AsideSteps ==
  ASSUME IInv, \/ Urge \/ RequestFlush \/ (\E seq \in 1 .. MaxSequence : RequestRead(seq))
               \/ Elapse \/ Environment \/ UNCHANGED vars
  PROVE  IInv'
<1> USE DEF wishes, serial
<1>0. Small /\ Served /\ MaxSequence \in Nat
  BY Sizes DEF IInv, TypeOK, Small
<1>1. CASE Urge \/ RequestFlush \/ Elapse \/ Environment \/ UNCHANGED vars
  <2>1. UNCHANGED <<nand, queue, pendingConsume, pc, page, serial>> /\ Small'
    BY <1>0, <1>1 DEF Urge, RequestFlush, Elapse, Environment, vars, Small
  <2>2. Served'
    BY <1>0, <2>1 DEF Served, PageServedIsAsked
  <2> QED BY <2>1, <2>2, AsideStep
<1>2. ASSUME NEW seq \in 1 .. MaxSequence, RequestRead(seq) PROVE IInv'
  <2>1. /\ UNCHANGED <<nand, queue, pendingConsume, pc, page>>
        /\ reader # "Pending" /\ reader' = "Pending"
    BY <1>2 DEF RequestRead, RequestReadAnyway
  <2>2. Small'
    <3>1. seq \in 0 .. MaxSequence
      BY <1>0
    <3>2. /\ UNCHANGED <<urgent, flushRequested, due, cache, healthy>>
          /\ resting' = FALSE /\ reader' = "Pending" /\ readSeq' = seq
      BY <1>2 DEF RequestRead, RequestReadAnyway
    <3> QED BY <1>0, <3>1, <3>2 DEF Small, Readers
  <2>3. Served'
    BY <1>0, <2>1 DEF Served, PageServedIsAsked
  <2> QED BY <2>1, <2>2, <2>3, AsideStep
<1> QED BY <1>1, <1>2

(* A step of the worker that leaves the NAND and the queue alone.          *)
LEMMA WorkerStep ==
  ASSUME IInv, UNCHANGED <<nand, queue, pendingConsume>>, Small', Served',
         pc' \in {"wait", "read", "reading", "flush", "copy", "append", "consume"},
         page' \in Pages \cup {NoPage}, pc # "appending",
         pendingConsume # 0 => pc' \in {"wait", "consume"},
         pc' = "copy" => Queued > 0,
         pc' = "append" =>
           page' \in Pages /\ page'.boot = boot /\ IsPrefix(page') /\ NoShorter(page')
  PROVE  IInv'
<1>1. LogOK'
  BY SameLog DEF IInv, nand
<1>2. request = NoPage /\ request' = NoPage
  BY DEF IInv, Place, nand
<1>3. TypeOK'
  BY <1>2, SameQueueTypes DEF IInv, nand
<1>4. Place'
  BY <1>2 DEF Place, IsPrefix, NoShorter, Queued, Lesser, Latest, nand, queue
<1> QED BY <1>1, <1>3, <1>4 DEF IInv

LEMMA ReadSteps ==
  ASSUME IInv, BeginRead \/ ReadRefused \/ NoRead \/ ReadDone \/ ReadFails
  PROVE  IInv'
<1> USE DEF wishes, serial
<1>1. Small /\ Served /\ MaxSequence \in Nat /\ page \in Pages \cup {NoPage}
  BY Sizes DEF IInv, TypeOK, Small
<1>2. /\ UNCHANGED <<nand, queue, pendingConsume>> /\ page' = page
      /\ pc \in {"read", "reading"} /\ pc' \in {"reading", "flush"}
  BY DEF BeginRead, ReadRefused, NoRead, ReadDone, ReadFails, WorkerAt
<1>3. pendingConsume = 0
  BY <1>2 DEF IInv, Place
<1>4. Small'
  <2>1. 0 \in 0 .. MaxSequence
    BY <1>1
  <2>2. /\ healthy' = healthy /\ urgent' = urgent /\ flushRequested' = flushRequested
        /\ due' = due /\ readSeq' = readSeq
        /\ resting' \in {resting, TRUE} /\ reader' \in {reader, "Ready", "Failed"}
        /\ cache' \in {cache, readSeq, 0}
    BY DEF BeginRead, ReadRefused, NoRead, ReadDone, ReadFails, WorkerAt, Rest
  <2> QED BY <1>1, <2>1, <2>2 DEF Small, Readers
<1>5. Served'
  <2>1. CASE BeginRead
    BY <2>1 DEF BeginRead, WorkerAt, Served, PageServedIsAsked
  <2>2. CASE ReadRefused \/ NoRead
    BY <1>1, <2>2 DEF ReadRefused, NoRead, WorkerAt, Served, PageServedIsAsked
  <2>3. CASE ReadDone
    BY <1>1, <2>3 DEF ReadDone, WorkerAt, Served, PageServedIsAsked
  <2>4. CASE ReadFails
    BY <2>4 DEF ReadFails, WorkerAt, Served, PageServedIsAsked
  <2> QED BY <2>1, <2>2, <2>3, <2>4
<1> QED BY <1>1, <1>2, <1>3, <1>4, <1>5, WorkerStep

(* The prefix of a queue that is not empty is one.                         *)
LEMMA PrefixIs ==
  ASSUME TypeOK, Queued > 0
  PROVE  /\ Prefix \in Pages /\ Prefix.boot = boot /\ IsPrefix(Prefix)
         /\ Prefix.last = head + Lesser(Queued, RecordsPerPage) /\ Prefix.last > head
<1> DEFINE n == Lesser(Queued, RecordsPerPage)
<1>1. /\ accepted \in 0 .. MaxRecords /\ boot \in 0 .. accepted /\ head \in boot .. accepted
      /\ Queued \in Nat /\ Queued = accepted - head
  BY Numbers
<1>2. n \in Int /\ n <= Queued /\ n >= 1
  <2>1. Queued \in Int /\ RecordsPerPage \in Int /\ Queued >= 1 /\ RecordsPerPage >= 1
    BY <1>1, Sizes
  <2>2. n \in {Queued, RecordsPerPage} /\ n <= Queued
    BY <2>1, LesserIs
  <2> HIDE DEF n
  <2> QED BY <2>1, <2>2
<1>3. Prefix = [boot |-> boot, first |-> head + 1, last |-> head + n]
  BY DEF Prefix
<1> HIDE DEF n
<1>4. boot \in 0 .. MaxRecords /\ head + 1 \in 1 .. MaxRecords /\ head + n \in 1 .. MaxRecords
  BY <1>1, <1>2, Sizes
<1>5. Prefix \in Pages /\ Prefix.boot = boot /\ Prefix.first = head + 1 /\ Prefix.last = head + n
  BY <1>3, <1>4 DEF Pages
<1> QED BY <1>1, <1>2, <1>5 DEF IsPrefix, n

LEMMA FlushSteps ==
  ASSUME IInv, NoFlush \/ Load \/ FlushFails \/ Copy \/ LosesLock
  PROVE  IInv'
<1> USE DEF wishes, serial
<1>1. Small /\ Served /\ page \in Pages \cup {NoPage}
  BY DEF IInv, TypeOK, Small
<1>2. UNCHANGED <<nand, queue, pendingConsume, serial>>
  BY DEF NoFlush, Load, FlushFails, Copy, LosesLock
<1>3. Small'
  BY <1>1 DEF NoFlush, Load, FlushFails, Copy, LosesLock, WorkerAt, Small, Rest
<1>4. /\ pc \in {"flush", "copy", "append", "wait", "consume"}
      /\ pc' \in {"wait", "copy", "append"}
  BY DEF NoFlush, Load, FlushFails, Copy, LosesLock, WorkerAt
<1>5. Served'
  BY <1>1, <1>2, <1>4 DEF Served, PageServedIsAsked
<1>6. pendingConsume # 0 => pc' = "wait"
  BY <1>4 DEF IInv, Place, NoFlush, Load, FlushFails, Copy, LosesLock, WorkerAt
<1>7. pc' = "copy" => Queued > 0
  BY DEF NoFlush, Load, FlushFails, Copy, LosesLock, WorkerAt, Wanted
<1>8. page' \in Pages \cup {NoPage}
      /\ (pc' = "append" =>
            page' \in Pages /\ page'.boot = boot /\ IsPrefix(page') /\ NoShorter(page'))
  <2>1. CASE Copy
    <3>1. Queued > 0 /\ TypeOK /\ page' = Prefix
      BY <2>1 DEF Copy, WorkerAt, IInv, Place
    <3>2. /\ Prefix \in Pages /\ Prefix.boot = boot /\ IsPrefix(Prefix)
          /\ Prefix.last = head + Lesser(Queued, RecordsPerPage) /\ Prefix.last > head
      BY <3>1, PrefixIs
    <3>3. NoShorter(Prefix)
      <4> SUFFICES ASSUME log # <<>>, log[Latest].boot = boot
                   PROVE  log[Latest].last <= Prefix.last
        BY DEF NoShorter
      <4>1. IsPrefix(log[Latest]) \/ log[Latest].last = head
        BY DEF IInv, LogOK, Edged, Edge
      <4>2. Prefix.last \in Int /\ head \in Int
        BY <3>1, <3>2, Numbers DEF Pages
      <4> QED BY <3>2, <4>1, <4>2 DEF IsPrefix
    <3> QED BY <3>1, <3>2, <3>3
  <2>2. CASE NoFlush \/ Load \/ FlushFails \/ LosesLock
    BY <1>1, <2>2 DEF NoFlush, Load, FlushFails, LosesLock, WorkerAt
  <2> QED BY <2>1, <2>2
<1> QED BY <1>2, <1>3, <1>4, <1>5, <1>6, <1>7, <1>8, WorkerStep

-----------------------------------------------------------------------------
(* What the queue holds more of makes a prefix no shorter.                 *)
LEMMA LesserGrows ==
  ASSUME NEW m \in Int, NEW n \in Int, NEW k \in Int, m <= k
  PROVE  Lesser(m, n) <= Lesser(k, n) /\ Lesser(m, n) \in Int /\ Lesser(k, n) \in Int
BY DEF Lesser

LEMMA EnqueueStep ==
  ASSUME IInv, NEW n \in 1 .. GroupSize, Enqueue(n)
  PROVE  IInv'
<1>1. /\ accepted \in 0 .. MaxRecords /\ boot \in 0 .. accepted /\ head \in boot .. accepted
      /\ Queued \in Nat /\ Queued = accepted - head /\ pendingConsume \in Nat
  BY Numbers DEF IInv
<1>2. /\ accepted' = accepted + n /\ accepted + n <= MaxRecords /\ Queued + n <= Capacity
      /\ n \in Nat
      /\ head' = head /\ boot' = boot /\ pendingConsume' = pendingConsume
      /\ log' = log /\ reported' = reported /\ request' = request /\ sequence' = sequence
      /\ pc' = pc /\ page' = page
      /\ UNCHANGED <<urgent, flushRequested, due, resting, healthy, reader, readSeq, cache>>
  BY Sizes DEF Enqueue, nand, wishes, serial
<1>3. Queued' = Queued + n
  BY <1>1, <1>2 DEF Queued
<1> DEFINE k == Lesser(Queued, RecordsPerPage)
           l == Lesser(Queued', RecordsPerPage)
<1>4. k \in Int /\ l \in Int /\ k <= l
  <2>1. Queued \in Int /\ Queued' \in Int /\ RecordsPerPage \in Int /\ Queued <= Queued'
    BY <1>1, <1>2, <1>3, Sizes
  <2> QED BY <2>1, LesserGrows
<1>5. \A p : IsPrefix(p) /\ p \in Pages => IsPrefix(p)'
  <2> TAKE p
  <2> HAVE IsPrefix(p) /\ p \in Pages
  <2>1. p.last \in Int /\ p.first = head + 1 /\ p.first <= p.last /\ p.last <= head + k
    BY DEF IsPrefix, Pages
  <2> HIDE DEF k, l
  <2>2. p.last <= head + l
    BY <1>1, <1>4, <2>1
  <2> QED BY <1>2, <2>1, <2>2 DEF IsPrefix, l
<1>6. TypeOK'
  <2>1. pendingConsume \in 0 .. k
    BY DEF IInv, TypeOK
  <2>2. pendingConsume \in 0 .. l
    BY <1>1, <1>4, <2>1
  <2>3. (/\ accepted \in 0 .. MaxRecords /\ boot \in 0 .. accepted /\ head \in boot .. accepted
         /\ Queued <= Capacity /\ pendingConsume \in 0 .. Lesser(Queued, RecordsPerPage))'
    <3>1. accepted' \in 0 .. MaxRecords /\ boot' \in 0 .. accepted' /\ head' \in boot' .. accepted'
      BY <1>1, <1>2, Sizes
    <3>2. Queued' <= Capacity
      BY <1>2, <1>3
    <3> QED BY <1>2, <2>2, <3>1, <3>2
  <2> HIDE DEF k, l
  <2> QED BY <1>2, <2>3 DEF IInv, TypeOK
<1>7. Numbered' /\ Stored'
  <2>1. Numbered'
    BY <1>2 DEF IInv, LogOK, Numbered, Latest
  <2>2. Stored'
    <3> SUFFICES ASSUME NEW s \in DOMAIN log
                 PROVE  /\ log[s] \in Pages
                        /\ log[s].boot < log[s].first /\ log[s].first <= log[s].last
                        /\ log[s].last <= accepted + n
                        /\ log[s].boot = boot \/ log[s].last <= boot
      BY <1>2 DEF Stored
    <3>1. /\ log[s] \in Pages /\ log[s].last \in Int
          /\ log[s].boot < log[s].first /\ log[s].first <= log[s].last /\ log[s].last <= accepted
          /\ log[s].boot = boot \/ log[s].last <= boot
      BY DEF IInv, LogOK, Stored, Pages
    <3> QED BY <1>1, <1>2, <3>1
  <2> QED BY <2>1, <2>2
<1>8. Edged'
  <2> SUFFICES ASSUME log # <<>>, log[Latest].boot = boot
               PROVE  IsPrefix(log[Latest])' \/ log[Latest].last = head
    BY <1>2 DEF Edged, Edge, Latest
  <2>1. Latest \in DOMAIN log /\ log[Latest] \in Pages
    BY DEF IInv, LogOK, Numbered, Stored
  <2>2. IsPrefix(log[Latest]) \/ log[Latest].last = head
    BY DEF IInv, LogOK, Edged, Edge
  <2>3. log'[Latest'] = log[Latest]
    BY <1>2 DEF Latest
  <2> QED BY <1>2, <1>5, <2>1, <2>2, <2>3 DEF IsPrefix
<1>9. Pending' /\ Reported' /\ PagesJoin' /\ ConsumedIsLogged'
  BY <1>2 DEF IInv, LogOK, Pending, Reported, PagesJoin, Follows, ConsumedIsLogged, Latest
<1>10. Place'
  <2>1. Queued > 0 => Queued' > 0
    BY <1>1, <1>2, <1>3
  <2>2. pc \in {"append", "appending"} => IsPrefix(page)'
    BY <1>2, <1>5 DEF IInv, Place, IsPrefix
  <2> QED BY <1>2, <2>1, <2>2 DEF IInv, Place, NoShorter, Latest
<1>11. Served'
  BY <1>2 DEF IInv, Served, PageServedIsAsked
<1> QED BY <1>6, <1>7, <1>8, <1>9, <1>10, <1>11 DEF IInv, LogOK

(* What is consumed is in the newest page, which then ends where the queue *)
(* begins.                                                                 *)
LEMMA ConsumeStep ==
  ASSUME IInv, NEW from \in {"wait", "consume"}, NEW to \in {"read", "wait"}, Consume(from, to)
  PROVE  IInv'
<1>1. /\ accepted \in 0 .. MaxRecords /\ boot \in 0 .. accepted /\ head \in boot .. accepted
      /\ Queued \in Nat /\ Queued = accepted - head /\ pendingConsume \in Nat
      /\ pendingConsume <= Queued
  BY Numbers DEF IInv
<1>2. /\ head' = head + pendingConsume /\ pendingConsume' = 0
      /\ accepted' = accepted /\ boot' = boot /\ pc = from /\ pc' = to /\ page' = page
      /\ log' = log /\ reported' = reported /\ request' = request /\ sequence' = sequence
      /\ UNCHANGED <<urgent, flushRequested, due, resting, healthy, reader, readSeq, cache>>
  BY DEF Consume, Consumed, WorkerAt, nand, wishes, serial
<1>3. head' \in boot .. accepted /\ Queued' \in Nat /\ Queued' <= Queued
  BY <1>1, <1>2 DEF Queued
<1>4. TypeOK'
  <2> DEFINE l == Lesser(Queued', RecordsPerPage)
  <2>1. 0 \in 0 .. l
    <3>1. Queued' \in Int /\ RecordsPerPage \in Int /\ Queued' >= 0 /\ RecordsPerPage >= 0
      BY <1>3, Sizes
    <3>2. l \in {Queued', RecordsPerPage}
      BY <3>1 DEF Lesser
    <3> HIDE DEF l
    <3> QED BY <3>1, <3>2
  <2>2. Queued' <= Capacity
    <3>1. Queued <= Capacity
      BY DEF IInv, TypeOK
    <3> QED BY <1>1, <1>3, <3>1, Sizes
  <2>3. (/\ accepted \in 0 .. MaxRecords /\ boot \in 0 .. accepted /\ head \in boot .. accepted
         /\ Queued <= Capacity /\ pendingConsume \in 0 .. Lesser(Queued, RecordsPerPage))'
    BY <1>1, <1>2, <1>3, <2>1, <2>2
  <2> HIDE DEF l
  <2> QED BY <1>2, <2>3 DEF IInv, TypeOK
<1>5. Numbered' /\ Stored' /\ PagesJoin'
  BY <1>2 DEF IInv, LogOK, Numbered, Stored, PagesJoin, Follows, Latest
<1>6. Edged'
  <2>1. CASE pendingConsume = 0
    <3>1. head' = head
      BY <1>1, <1>2, <2>1
    <3> QED BY <1>2, <3>1 DEF IInv, LogOK, Edged, Edge, IsPrefix, Queued, Lesser, Latest
  <2>2. CASE pendingConsume # 0
    BY <1>2, <2>2 DEF IInv, LogOK, Pending, Edged, Edge, Latest
  <2> QED BY <2>1, <2>2
<1>7. Pending'
  BY <1>2 DEF Pending
<1>8. Reported' /\ ConsumedIsLogged'
  <2>1. head' + pendingConsume' = head + pendingConsume
    BY <1>1, <1>2
  <2> QED BY <1>2, <2>1 DEF IInv, LogOK, Reported, ConsumedIsLogged, Latest
<1>9. Place'
  BY <1>2 DEF IInv, Place
<1>10. Served'
  BY <1>2 DEF IInv, Served, PageServedIsAsked
<1> QED BY <1>4, <1>5, <1>6, <1>7, <1>8, <1>9, <1>10 DEF IInv, LogOK

-----------------------------------------------------------------------------
(* The append of a page, and what becomes of it.                           *)
LEMMA AppendStep == ASSUME IInv, AppendBegins PROVE IInv'
<1>1. /\ request = NoPage /\ request' = page /\ sequence' = Latest + 1
      /\ log' = log /\ reported' = reported /\ Latest < MaxSequence
      /\ pc = "append" /\ pc' = "appending" /\ page' = page
      /\ UNCHANGED <<queue, pendingConsume, wishes, serial, healthy>>
  BY DEF AppendBegins, WorkerAt, Log!Begin, Latest
<1>2. LogOK'
  BY <1>1, SameLog DEF IInv
<1>3. TypeOK'
  BY <1>1, SameQueueTypes DEF IInv, TypeOK, Small, wishes, serial
<1>4. Place'
  <2>1. Latest \in 0 .. MaxSequence
    BY DEF IInv, LogOK, Numbered
  <2>2. sequence' \in 1 .. MaxSequence /\ sequence' # Latest
    BY <1>1, <2>1, Sizes
  <2>3. pendingConsume = 0 /\ page \in Pages /\ page.boot = boot
        /\ IsPrefix(page)' /\ NoShorter(page)'
    BY <1>1 DEF IInv, Place, IsPrefix, NoShorter, Queued, Lesser, Latest, queue
  <2> QED BY <1>1, <2>2, <2>3 DEF Place, Latest, queue
<1>5. Served'
  BY <1>1 DEF IInv, Served, PageServedIsAsked, serial
<1> QED BY <1>2, <1>3, <1>4, <1>5 DEF IInv

LEMMA Appending ==
  ASSUME IInv, request # NoPage
  PROVE  /\ pc = "appending" /\ request = page /\ pendingConsume = 0
         /\ page \in Pages /\ page.boot = boot /\ IsPrefix(page) /\ NoShorter(page)
         /\ sequence \in 1 .. MaxSequence /\ (Latest = sequence => log[sequence] = page)
BY DEF IInv, Place

(* The facts about a page under way that arithmetic needs.                 *)
LEMMA PageIs ==
  ASSUME TypeOK, page \in Pages, page.boot = boot, IsPrefix(page)
  PROVE  /\ page.last \in Int /\ page.first = head + 1 /\ head < page.last
         /\ page.last <= accepted
         /\ page.last - head \in 1 .. Lesser(Queued, RecordsPerPage)
<1> DEFINE n == Lesser(Queued, RecordsPerPage)
<1>1. /\ head \in Int /\ Queued \in Nat /\ Queued = accepted - head /\ accepted \in Int
  BY Numbers
<1>2. n \in Int /\ n <= Queued
  <2>1. Queued \in Int /\ RecordsPerPage \in Int
    BY <1>1, Sizes
  <2> QED BY <2>1, LesserIs
<1>3. page.last \in Int /\ page.first = head + 1 /\ page.first <= page.last /\ page.last <= head + n
  BY DEF IsPrefix, Pages
<1> HIDE DEF n
<1>4. page.last - head \in 1 .. n /\ head < page.last /\ page.last <= accepted
  BY <1>1, <1>2, <1>3
<1> QED BY <1>3, <1>4 DEF n

LEMMA AppendDoneStep == ASSUME IInv, AppendDone PROVE IInv'
<1>1. /\ request # NoPage /\ Latest = sequence /\ request' = NoPage /\ reported' = sequence
      /\ log' = log /\ pendingConsume' = Count /\ page' = NoPage /\ pc' = "consume"
      /\ urgent' = FALSE /\ flushRequested' = FALSE /\ due' = FALSE /\ resting' = FALSE
      /\ UNCHANGED <<queue, serial, healthy>>
  BY DEF AppendDone, WorkerAt, Log!Done, Latest
<1>2. /\ page \in Pages /\ page.boot = boot /\ IsPrefix(page)
      /\ sequence \in 1 .. MaxSequence /\ log[Latest] = page
  BY <1>1, Appending
<1>3. TypeOK /\ LogOK
  BY DEF IInv
<1>4. /\ page.last \in Int /\ page.first = head + 1 /\ head < page.last
      /\ page.last - head \in 1 .. Lesser(Queued, RecordsPerPage)
  BY <1>2, <1>3, PageIs
<1>5. head \in Int /\ Count = page.last - head /\ head + Count = page.last /\ Count # 0
  <2>1. head \in Int
    BY <1>3, Numbers
  <2> QED BY <1>4, <2>1 DEF Count
<1>6. TypeOK'
  <2>1. (/\ accepted \in 0 .. MaxRecords /\ boot \in 0 .. accepted /\ head \in boot .. accepted
         /\ Queued <= Capacity /\ pendingConsume \in 0 .. Lesser(Queued, RecordsPerPage))'
    <3>1. Count \in 0 .. Lesser(Queued, RecordsPerPage)
      BY <1>4, <1>5
    <3> QED BY <1>1, <1>3, <3>1 DEF TypeOK, queue, Queued, Lesser
  <2>2. (DOMAIN log \subseteq 1 .. MaxSequence /\ \A s \in DOMAIN log : log[s] \in Pages)'
    BY <1>1, <1>3 DEF TypeOK
  <2> QED BY <1>1, <1>3, <2>1, <2>2 DEF TypeOK, serial
<1>7. LogOK'
  <2>0. Latest # 0 /\ log # <<>>
    <3>1. sequence # 0
      BY <1>2, Sizes
    <3> QED BY <1>1, <3>1, LatestOfNone DEF Latest
  <2>1. Numbered' /\ Stored' /\ PagesJoin'
    BY <1>1, <1>3 DEF LogOK, Numbered, Stored, PagesJoin, Follows, Latest, queue
  <2>2. Edged'
    BY <1>1, <1>3 DEF LogOK, Edged, Edge, IsPrefix, Queued, Lesser, Latest, queue
  <2>3. Pending' /\ ConsumedIsLogged'
    BY <1>1, <1>2, <1>4, <1>5, <2>0 DEF Pending, ConsumedIsLogged, Latest, queue
  <2>4. Reported'
    <3>1. sequence \in Nat /\ sequence # 0
      BY <1>2, Sizes
    <3> QED BY <1>1, <3>1 DEF Reported
  <2> QED BY <2>1, <2>2, <2>3, <2>4 DEF LogOK
<1>8. Place'
  BY <1>1 DEF Place
<1>9. Served'
  BY <1>1 DEF IInv, Served, PageServedIsAsked, serial
<1> QED BY <1>6, <1>7, <1>8, <1>9 DEF IInv

LEMMA AppendFailsStep == ASSUME IInv, AppendFails PROVE IInv'
<1>1. /\ request # NoPage /\ request' = NoPage /\ log' = log /\ reported' = reported
      /\ page' = NoPage /\ pc' = "wait" /\ resting' = TRUE
      /\ UNCHANGED <<queue, pendingConsume, serial, healthy, urgent, flushRequested, due>>
  BY DEF AppendFails, WorkerAt, Log!Undone, Rest
<1>2. LogOK'
  BY <1>1, SameLog DEF IInv
<1>3. TypeOK'
  BY <1>1, SameQueueTypes DEF IInv, TypeOK, Small, serial
<1>4. Place'
  BY <1>1 DEF Place
<1>5. Served'
  BY <1>1 DEF IInv, Served, PageServedIsAsked, serial
<1> QED BY <1>2, <1>3, <1>4, <1>5 DEF IInv

(* The page reaches the NAND and joins up with the one before.             *)
LEMMA PageWrittenStep == ASSUME IInv, PageWritten PROVE IInv'
<1> DEFINE q == Log!Appended(log, page)
           n == Latest
<1>1. /\ request # NoPage /\ Latest + 1 = sequence /\ log' = Log!Appended(log, request)
      /\ UNCHANGED <<request, sequence, reported>>
      /\ UNCHANGED <<queue, pendingConsume, wishes, serial, pc, page, healthy>>
  BY DEF PageWritten, Log!Commit, Latest
<1>2. /\ pc = "appending" /\ request = page /\ pendingConsume = 0
      /\ page \in Pages /\ page.boot = boot /\ IsPrefix(page) /\ NoShorter(page)
      /\ sequence \in 1 .. MaxSequence
  BY <1>1, Appending
<1>3. log' = q /\ TypeOK /\ LogOK
  BY <1>1, <1>2 DEF IInv
<1>4. n \in Nat /\ DOMAIN log \subseteq 1 .. n /\ n + 1 = sequence
  BY <1>1, <1>3, Sizes DEF LogOK, Numbered
<1>5. /\ DOMAIN q \subseteq 1 .. n + 1 /\ n + 1 \in DOMAIN q /\ q[n + 1] = page
      /\ \A s \in DOMAIN q : s # n + 1 => s \in DOMAIN log /\ q[s] = log[s]
      /\ Log!Latest(q) = n + 1 /\ q # <<>>
  <2>1. Log!Latest(log) = n
    BY DEF Latest
  <2> HIDE DEF n
  <2> QED BY <1>4, <2>1, AppendedIs
<1> HIDE DEF q
<1>6. Latest' = n + 1
  BY <1>3, <1>5 DEF Latest
<1>7. /\ page.last \in Int /\ page.first = head + 1 /\ head < page.last
      /\ page.last <= accepted
  BY <1>2, <1>3, PageIs
<1>8. /\ head \in Int /\ boot \in Int /\ accepted \in Int /\ boot <= head
  BY <1>3, Numbers
<1>9. Numbered'
  BY <1>2, <1>3, <1>4, <1>5, <1>6 DEF Numbered
<1>10. Stored'
  <2> SUFFICES ASSUME NEW s \in DOMAIN q
               PROVE  /\ q[s] \in Pages
                      /\ q[s].boot < q[s].first /\ q[s].first <= q[s].last
                      /\ q[s].last <= accepted
                      /\ q[s].boot = boot \/ q[s].last <= boot
    BY <1>1, <1>3 DEF Stored, queue
  <2>1. CASE s = n + 1
    <3>1. q[s] = page
      BY <1>5, <2>1
    <3>2. boot < head + 1 /\ head + 1 <= page.last
      BY <1>7, <1>8
    <3> QED BY <1>2, <1>7, <3>1, <3>2
  <2>2. CASE s # n + 1
    BY <1>3, <1>5, <2>2 DEF LogOK, Stored
  <2> QED BY <2>1, <2>2
<1>11. Edged'
  <2>1. IsPrefix(page)'
    BY <1>1, <1>2 DEF IsPrefix, Queued, Lesser, queue
  <2>2. log'[Latest'] = page'
    BY <1>1, <1>3, <1>5, <1>6
  <2> QED BY <2>1, <2>2 DEF Edged, Edge, IsPrefix
<1>12. Pending' /\ Reported'
  BY <1>1, <1>2, <1>3 DEF LogOK, Pending, Reported, queue
<1>13. ConsumedIsLogged'
  <2>1. log'[Latest'] = page /\ log' # <<>>
    BY <1>3, <1>5, <1>6
  <2>2. head' + pendingConsume' = head
    BY <1>1, <1>2, <1>8 DEF queue
  <2>3. page.last >= head
    BY <1>7, <1>8
  <2> QED BY <1>1, <1>2, <2>1, <2>2, <2>3 DEF ConsumedIsLogged, queue
<1>14. PagesJoin'
  <2> SUFFICES ASSUME NEW s \in DOMAIN q
               PROVE  IF s = 1 THEN q[s].first = q[s].boot + 1
                      ELSE s - 1 \in DOMAIN q => Follows(q[s], q[s - 1])
    BY <1>3 DEF PagesJoin, Follows
  <2>0. s \in 1 .. n + 1
    BY <1>5
  <2>1. CASE s # n + 1
    <3>1. s \in DOMAIN log /\ q[s] = log[s]
      BY <1>5, <2>1
    <3>2. s - 1 \in DOMAIN q => s - 1 \in DOMAIN log /\ q[s - 1] = log[s - 1]
      <4>1. s - 1 # n + 1
        BY <1>4, <2>0
      <4> QED BY <1>5, <4>1
    <3> QED BY <1>3, <3>1, <3>2 DEF LogOK, PagesJoin
  <2>2. CASE s = n + 1 /\ n = 0
    <3>1. log = <<>>
      BY <1>3, <1>4, <2>2 DEF LogOK, Numbered
    <3>2. ~(head + pendingConsume > boot)
      BY <1>3, <3>1 DEF LogOK, ConsumedIsLogged
    <3>3. head = boot
      BY <1>2, <1>8, <3>2
    <3> QED BY <1>2, <1>5, <1>7, <2>2, <3>3
  <2>3. CASE s = n + 1 /\ n # 0
    <3> SUFFICES ASSUME n \in DOMAIN q PROVE Follows(page, q[n])
      BY <1>4, <1>5, <2>3
    <3> DEFINE p == log[n]
    <3>1. n \in DOMAIN log /\ q[n] = p /\ log # <<>>
      <4>1. n # n + 1
        BY <1>4
      <4>2. n \in DOMAIN log /\ q[n] = p
        BY <1>5, <4>1
      <4> QED BY <4>2, DOMAIN <<>> = {}
    <3>2. /\ p \in Pages /\ p.boot < p.first /\ p.first <= p.last
          /\ p.boot = boot \/ p.last <= boot
      BY <1>3, <3>1 DEF LogOK, Stored
    <3>3. p.boot \in Int /\ p.first \in Int /\ p.last \in Int
      BY <3>2 DEF Pages
    <3>4. p.boot = boot => /\ p.first = head + 1 \/ p.last = head
                           /\ p.last <= page.last
      BY <1>2, <1>3, <3>1 DEF LogOK, Edged, Edge, IsPrefix, NoShorter
    <3>5. p.boot # boot => head = boot
      <4> SUFFICES ASSUME p.boot # boot PROVE head = boot
        OBVIOUS
      <4>1. ~(head + pendingConsume > boot)
        BY <1>3 DEF LogOK, ConsumedIsLogged
      <4> QED BY <1>2, <1>8, <4>1
    <3> HIDE DEF p
    <3>6. CASE p.boot = boot
      <4>1. p.first <= head + 1 /\ head + 1 <= p.last + 1
        BY <1>8, <3>2, <3>3, <3>4, <3>6
      <4> QED BY <1>2, <1>7, <3>1, <3>4, <3>6, <4>1 DEF Follows
    <3>7. CASE p.boot # boot
      BY <1>2, <1>7, <3>1, <3>2, <3>5, <3>7 DEF Follows
    <3> QED BY <3>6, <3>7
  <2> QED BY <2>1, <2>2, <2>3
<1>15. TypeOK'
  <2>1. (DOMAIN log \subseteq 1 .. MaxSequence /\ \A s \in DOMAIN log : log[s] \in Pages)'
    <3>1. n + 1 \in 1 .. MaxSequence
      BY <1>2, <1>4
    <3>2. DOMAIN q \subseteq 1 .. MaxSequence
      BY <1>4, <1>5, <3>1, Sizes
    <3> QED BY <1>3, <1>10, <3>2 DEF Stored
  <2>2. (/\ accepted \in 0 .. MaxRecords /\ boot \in 0 .. accepted /\ head \in boot .. accepted
         /\ Queued <= Capacity /\ pendingConsume \in 0 .. Lesser(Queued, RecordsPerPage))'
    BY <1>1, <1>3 DEF TypeOK, queue, Queued, Lesser
  <2> QED BY <1>1, <1>3, <2>1, <2>2 DEF TypeOK, wishes, serial
<1>16. Place'
  <2>1. log'[sequence'] = page'
    BY <1>1, <1>3, <1>4, <1>5
  <2>2. log'[Latest'] = page' /\ page'.last <= page'.last
    BY <1>1, <1>3, <1>5, <1>6, <1>7
  <2> QED BY <1>1, <1>2, <2>1, <2>2 DEF Place, NoShorter, IsPrefix, Queued, Lesser, queue
<1>17. Served'
  BY <1>1 DEF IInv, Served, PageServedIsAsked, serial
<1> QED BY <1>9, <1>10, <1>11, <1>12, <1>13, <1>14, <1>15, <1>16, <1>17 DEF IInv, LogOK

(* The log goes only while no page of this boot was consumed.              *)
LEMMA PageLostStep == ASSUME IInv, PageLost PROVE IInv'
<1>1. /\ request # NoPage /\ reported = 0 /\ log' = <<>>
      /\ UNCHANGED <<request, sequence, reported>>
      /\ UNCHANGED <<queue, pendingConsume, wishes, serial, pc, page, healthy>>
  BY DEF PageLost, Log!Lose
<1>2. /\ pc = "appending" /\ request = page /\ pendingConsume = 0
      /\ page \in Pages /\ page.boot = boot /\ IsPrefix(page)
      /\ sequence \in 1 .. MaxSequence
  BY <1>1, Appending
<1>3. Latest' = 0 /\ DOMAIN log' = {}
  BY <1>1, LatestOfNone, DOMAIN <<>> = {} DEF Latest
<1>4. LogOK'
  <2>1. Numbered' /\ Stored' /\ PagesJoin'
    BY <1>1, <1>3, Sizes DEF Numbered, Stored, PagesJoin
  <2>2. Edged' /\ Pending' /\ Reported'
    BY <1>1, <1>2 DEF IInv, LogOK, Edged, Pending, Reported, queue
  <2>3. ConsumedIsLogged'
    BY <1>1 DEF IInv, LogOK, Reported, ConsumedIsLogged, queue
  <2> QED BY <2>1, <2>2, <2>3 DEF LogOK
<1>5. TypeOK'
  <2>1. (DOMAIN log \subseteq 1 .. MaxSequence /\ \A s \in DOMAIN log : log[s] \in Pages)'
    BY <1>3
  <2>2. (/\ accepted \in 0 .. MaxRecords /\ boot \in 0 .. accepted /\ head \in boot .. accepted
         /\ Queued <= Capacity /\ pendingConsume \in 0 .. Lesser(Queued, RecordsPerPage))'
    BY <1>1 DEF IInv, TypeOK, queue, Queued, Lesser
  <2> QED BY <1>1, <2>1, <2>2 DEF IInv, TypeOK, wishes, serial
<1>6. Place'
  <2>1. sequence # 0
    BY <1>2, Sizes
  <2> QED BY <1>1, <1>2, <1>3, <2>1 DEF Place, NoShorter, IsPrefix, Queued, Lesser, queue
<1>7. Served'
  BY <1>1 DEF IInv, Served, PageServedIsAsked, serial
<1> QED BY <1>4, <1>5, <1>6, <1>7 DEF IInv

(* After a cut no page is of the new boot.                                 *)
LEMMA PowerCutStep == ASSUME IInv, PowerCut PROVE IInv'
<1>1. /\ log' = log /\ reported' = reported /\ request' = NoPage
      /\ accepted' = accepted /\ head' = accepted /\ boot' = accepted /\ pendingConsume' = 0
      /\ urgent' = FALSE /\ flushRequested' = FALSE /\ due' = FALSE /\ resting' = FALSE
      /\ reader' = "Idle" /\ readSeq' = 0 /\ cache' = 0 /\ healthy' = healthy
      /\ pc' = "wait" /\ page' = NoPage
  BY DEF PowerCut, nand, Log!Undone
<1>2. TypeOK /\ LogOK
  BY DEF IInv
<1>3. accepted \in 0 .. MaxRecords /\ accepted \in Nat
  BY <1>2, Numbers, Sizes
<1>4. \A s \in DOMAIN log : /\ log[s] \in Pages /\ log[s].last <= accepted
                            /\ log[s].boot < log[s].first /\ log[s].first <= log[s].last
                            /\ log[s].boot # accepted
  <2> TAKE s \in DOMAIN log
  <2>1. /\ log[s] \in Pages /\ log[s].last <= accepted
        /\ log[s].boot < log[s].first /\ log[s].first <= log[s].last
    BY <1>2 DEF LogOK, Stored
  <2>2. log[s].boot \in Int /\ log[s].first \in Int /\ log[s].last \in Int
    BY <2>1 DEF Pages
  <2> QED BY <1>3, <2>1, <2>2
<1>5. LogOK'
  <2>1. Numbered' /\ PagesJoin'
    BY <1>1, <1>2 DEF LogOK, Numbered, PagesJoin, Follows, Latest
  <2>2. Stored'
    BY <1>1, <1>4 DEF Stored
  <2>3. Edged'
    BY <1>1, <1>2, <1>4 DEF LogOK, Numbered, Edged, Edge, Latest
  <2>4. ~(head' + pendingConsume' > boot')
    BY <1>1, <1>3
  <2>5. Pending' /\ Reported' /\ ConsumedIsLogged'
    BY <1>1, <1>2, <2>4 DEF LogOK, Pending, Reported, ConsumedIsLogged
  <2> QED BY <2>1, <2>2, <2>3, <2>5 DEF LogOK
<1>6. TypeOK'
  <2>1. Queued' = 0
    BY <1>1, <1>3 DEF Queued
  <2>2. 0 \in 0 .. Lesser(0, RecordsPerPage) /\ 0 <= Capacity
    BY Sizes DEF Lesser
  <2>3. (/\ accepted \in 0 .. MaxRecords /\ boot \in 0 .. accepted /\ head \in boot .. accepted
         /\ Queued <= Capacity /\ pendingConsume \in 0 .. Lesser(Queued, RecordsPerPage))'
    BY <1>1, <1>3, <2>1, <2>2
  <2>4. 0 \in 0 .. MaxSequence
    BY Sizes
  <2> QED BY <1>1, <1>2, <2>3, <2>4 DEF TypeOK, Readers
<1>7. Place'
  BY <1>1 DEF Place
<1>8. Served'
  BY <1>1 DEF Served, PageServedIsAsked
<1> QED BY <1>5, <1>6, <1>7, <1>8 DEF IInv

-----------------------------------------------------------------------------
(* The invariant.                                                          *)
LEMMA InitStep == ASSUME Init PROVE IInv
<1>1. /\ log = <<>> /\ request = NoPage /\ sequence = 0 /\ reported = 0
      /\ accepted = 0 /\ head = 0 /\ boot = 0 /\ pendingConsume = 0
      /\ urgent = FALSE /\ flushRequested = FALSE /\ due = FALSE /\ resting = FALSE
      /\ reader = "Idle" /\ readSeq = 0 /\ cache = 0
      /\ pc = "wait" /\ page = NoPage /\ healthy = TRUE
  BY DEF Init, Log!Init
<1>2. Latest = 0 /\ DOMAIN log = {} /\ Queued = 0
  BY <1>1, LatestOfNone, DOMAIN <<>> = {} DEF Latest, Queued
<1>3. LogOK
  BY <1>1, <1>2, Sizes
     DEF LogOK, Numbered, Stored, Edged, Pending, Reported, PagesJoin, ConsumedIsLogged
<1>4. TypeOK
  <2>1. 0 \in 0 .. Lesser(0, RecordsPerPage) /\ 0 <= Capacity
    BY Sizes DEF Lesser
  <2>2. 0 \in 0 .. MaxSequence /\ 0 \in 0 .. MaxRecords /\ 0 \in 0 .. 0
    BY Sizes
  <2>3. /\ accepted \in 0 .. MaxRecords /\ boot \in 0 .. accepted /\ head \in boot .. accepted
        /\ Queued <= Capacity /\ pendingConsume \in 0 .. Lesser(Queued, RecordsPerPage)
    BY <1>1, <1>2, <2>1, <2>2
  <2> QED BY <1>1, <1>2, <2>2, <2>3 DEF TypeOK, Readers
<1>5. Place /\ Served
  BY <1>1 DEF Place, Served, PageServedIsAsked
<1> QED BY <1>3, <1>4, <1>5 DEF IInv

LEMMA NextStep == ASSUME IInv, [Next]_vars PROVE IInv'
<1>1. ASSUME NEW n \in 1 .. GroupSize, Enqueue(n) PROVE IInv'
  BY <1>1, EnqueueStep
<1>2. CASE \/ Urge \/ RequestFlush \/ (\E seq \in 1 .. MaxSequence : RequestRead(seq))
           \/ Elapse \/ Environment \/ UNCHANGED vars
  BY <1>2, AsideSteps
<1>3. CASE Consume("wait", "read") \/ Consume("consume", "wait")
  BY <1>3, ConsumeStep
<1>4. CASE BeginRead \/ ReadRefused \/ NoRead \/ ReadDone \/ ReadFails
  BY <1>4, ReadSteps
<1>5. CASE NoFlush \/ Load \/ FlushFails \/ Copy \/ LosesLock
  BY <1>5, FlushSteps
<1>6. CASE AppendBegins \/ AppendDone \/ AppendFails
  BY <1>6, AppendStep, AppendDoneStep, AppendFailsStep
<1>7. CASE PageWritten \/ PageLost \/ PowerCut
  BY <1>7, PageWrittenStep, PageLostStep, PowerCutStep
<1> QED BY <1>1, <1>2, <1>3, <1>4, <1>5, <1>6, <1>7 DEF Next, Worker

LEMMA Invariance == Spec => []IInv
<1>1. Init => IInv
  BY InitStep
<1>2. IInv /\ [Next]_vars => IInv'
  BY NextStep
<1> QED BY <1>1, <1>2, PTL DEF Spec

-----------------------------------------------------------------------------
(* No record leaves the queue before a page with it is on the NAND,        *)
(* whatever is queued, refused, retried, lost or cut off between the copy, *)
(* the append and consumeDurable (flush, consumeDurable).                  *)
THEOREM NothingDropped == Spec => []ConsumedIsLogged
<1>1. IInv => ConsumedIsLogged
  BY DEF IInv, LogOK
<1> QED BY <1>1, Invariance, PTL

(* The pages of the log join up across retries and boots, and the console  *)
(* is served the page it last asked for (flush, requestRead, processRead). *)
THEOREM ServedAsLogged == Spec => []PagesServed
<1>1. IInv => PagesServed
  BY DEF IInv, LogOK, Served, PagesServed
<1> QED BY <1>1, Invariance, PTL

-----------------------------------------------------------------------------
(* The lines of the console.                                               *)
\* a reply ring: what waits in it is in the order it was said, and ends a reply
RingBytes == [no : Int, ends : BOOLEAN]
Rings == [data : [0 .. TxCapacity - 1 -> RingBytes], head : 0 .. TxCapacity - 1, used : 0 .. TxCapacity]
Ordered(r) ==
  /\ \A i \in 0 .. r.used - 1 : r.data[Lines!Slot(r, i)].no = i
  /\ r.used > 0 => r.data[Lines!Slot(r, r.used - 1)].ends
RingSound(r) == r \in Rings /\ Ordered(r)

\* a line of a port, and what the driver and the poll hold
LineBytes == [kind : Lines!Bytes, gap : {Lines!None, "cut", "end"}]
PortLines == [length : 0 .. LineCapacity - 1, overflow : BOOLEAN, damaged : BOOLEAN]
UartDrivers == [rx : Seq(LineBytes), events : Seq({"data", "error"}), gap : {Lines!None, "cut", "end"}]
UartPlaces == {"events", "check", "read", "judge", "bytes"}
PollStates == [at : UartPlaces \cup {"closed", "idle", "usb", "async", "drain"}, looked : Int,
               chunk : Seq(LineBytes), up : SUBSET Lines!Ports]

LinesTyped ==
  /\ line \in [Lines!Ports -> PortLines] /\ driver \in UartDrivers /\ poll \in PollStates
  /\ Len(driver.rx) <= RxCapacity /\ Len(driver.events) <= UartEventCapacity /\ Len(poll.chunk) <= ChunkCapacity

\* a line typed over USB is never damaged, and a port that is down has no line
LinesInv ==
  /\ LinesTyped /\ RingSound(ring) /\ ~ran
  /\ ~line["usb"].damaged
  /\ \A p \in Lines!Ports : p \notin poll.up => line[p] = Lines!Fresh
  /\ poll.at \in UartPlaces => "uart" \in poll.up
  /\ poll.at = "closed" => poll.up = {}

(* Places of a ring, counted round it.                                     *)
LEMMA SlotWraps ==
  ASSUME NEW N \in Nat \ {0}, NEW h \in 0 .. N - 1, NEW i \in 0 .. N
  PROVE  (h + i) % N = (IF h + i < N THEN h + i ELSE h + i - N) /\ (h + i) % N \in 0 .. N - 1
<1>1. CASE h + i < N
  <2>1. h + i \in 0 .. N - 1
    BY <1>1
  <2>2. \A x \in 0 .. N - 1 : x % N = x
    OBVIOUS
  <2> QED BY <1>1, <2>1, <2>2
<1>2. CASE h + i >= N
  <2>1. h + i \in N .. 2 * N - 1
    BY <1>2
  <2>2. \A x \in N .. 2 * N - 1 : x % N = x - N
    OBVIOUS
  <2> QED BY <1>2, <2>1, <2>2
<1> QED BY <1>1, <1>2

LEMMA SlotDistance ==
  ASSUME NEW N \in Nat \ {0}, NEW s \in 0 .. N - 1, NEW t \in 0 .. N - 1
  PROVE  (s - t) % N = IF s >= t THEN s - t ELSE s - t + N
<1>1. CASE s >= t
  <2>1. s - t \in 0 .. N - 1
    BY <1>1
  <2>2. \A x \in 0 .. N - 1 : x % N = x
    OBVIOUS
  <2> QED BY <1>1, <2>1, <2>2
<1>2. CASE s < t
  <2>1. s - t \in 1 - N .. -1
    BY <1>2
  <2>2. \A x \in 1 - N .. -1 : x % N = x + N
    OBVIOUS
  <2> QED BY <1>2, <2>1, <2>2
<1> QED BY <1>1, <1>2

(* A reply that fits goes in whole, after what waits.                      *)
LEMMA ReplyEnqueued ==
  ASSUME NEW r, RingSound(r), NEW size \in 1 .. TxCapacity - 1
  PROVE  RingSound(Lines!Enqueue(r, size))
<1>1. TxCapacity \in Nat \ {0} /\ r \in Rings /\ Ordered(r)
  BY LinesConstants DEF RingSound
<1>2. CASE size > TxCapacity - r.used
  BY <1>2 DEF Lines!Enqueue
<1>3. CASE size <= TxCapacity - r.used
  <2> DEFINE N == TxCapacity
             h == r.head
             u == r.used
             J(s) == (s - Lines!Slot(r, u)) % N
             D == [s \in 0 .. N - 1 |-> IF J(s) < size THEN [no |-> u + J(s), ends |-> J(s) = size - 1] ELSE r.data[s]]
             q == [r EXCEPT !.used = @ + size, !.data = D]
  <2>1. N \in Nat \ {0} /\ h \in 0 .. N - 1 /\ u \in 0 .. N - size /\ r.data \in [0 .. N - 1 -> RingBytes]
    BY <1>1, <1>3 DEF Rings
  <2>2. Lines!Enqueue(r, size) = q
    <3>1. DOMAIN r.data = 0 .. N - 1
      BY <2>1
    <3>2. Lines!Enqueue(r, size) = Lines!Stored(r, size, size)
      BY <1>3, <2>1 DEF Lines!Enqueue
    <3>4. Lines!Stored(r, size, size) = [r EXCEPT !.used = @ + size, !.data = D]
      BY <3>1 DEF Lines!Stored
    <3> QED BY <3>2, <3>4
  <2>3. \A i \in 0 .. N : Lines!Slot(r, i) = (IF h + i < N THEN h + i ELSE h + i - N) /\ Lines!Slot(r, i) \in 0 .. N - 1
    BY <2>1, SlotWraps DEF Lines!Slot
  <2>4. Lines!Slot(r, u) \in 0 .. N - 1
    BY <2>1, <2>3
  <2>5. \A s \in 0 .. N - 1 : J(s) = (IF s >= Lines!Slot(r, u) THEN s - Lines!Slot(r, u) ELSE s - Lines!Slot(r, u) + N)
    BY <2>1, <2>4, SlotDistance
  <2> HIDE DEF J
  <2>6. ASSUME NEW i \in 0 .. u + size - 1 PROVE i \in 0 .. N - 1 /\ J(Lines!Slot(r, i)) = (IF i >= u THEN i - u ELSE i - u + N)
    <3>1. i \in 0 .. N - 1 /\ i \in 0 .. N /\ u \in 0 .. N
      BY <2>1
    <3>2. Lines!Slot(r, i) = (IF h + i < N THEN h + i ELSE h + i - N) /\ Lines!Slot(r, i) \in 0 .. N - 1
      BY <2>3, <3>1
    <3>3. Lines!Slot(r, u) = (IF h + u < N THEN h + u ELSE h + u - N) /\ Lines!Slot(r, u) \in 0 .. N - 1
      BY <2>3, <3>1
    <3>4. J(Lines!Slot(r, i)) = (IF Lines!Slot(r, i) >= Lines!Slot(r, u) THEN Lines!Slot(r, i) - Lines!Slot(r, u) ELSE Lines!Slot(r, i) - Lines!Slot(r, u) + N)
      BY <2>5, <3>2
    <3>5. u \in 0 .. N - 1
      BY <2>1
    <3>6. /\ h + i < N => Lines!Slot(r, i) = h + i
          /\ ~(h + i < N) => Lines!Slot(r, i) = h + i - N
      BY <3>2
    <3>7. /\ h + u < N => Lines!Slot(r, u) = h + u
          /\ ~(h + u < N) => Lines!Slot(r, u) = h + u - N
      BY <3>3
    <3>8. /\ Lines!Slot(r, i) >= Lines!Slot(r, u) => J(Lines!Slot(r, i)) = Lines!Slot(r, i) - Lines!Slot(r, u)
          /\ ~(Lines!Slot(r, i) >= Lines!Slot(r, u)) => J(Lines!Slot(r, i)) = Lines!Slot(r, i) - Lines!Slot(r, u) + N
      BY <3>4
    <3>9. J(Lines!Slot(r, i)) = (IF i >= u THEN i - u ELSE i - u + N)
      <4>1. PICK a \in 0 .. N - 1 : a = Lines!Slot(r, i)
        BY <3>2
      <4>2. PICK b \in 0 .. N - 1 : b = Lines!Slot(r, u)
        BY <3>3
      <4>3. PICK d : d = J(Lines!Slot(r, i))
        OBVIOUS
      <4>4. PICK k \in 0 .. N - 1 : k = u
        BY <3>5
      <4>7. PICK g \in 0 .. N - 1 : g = h
        BY <2>1
      <4>5. /\ g + i < N => a = g + i
            /\ ~(g + i < N) => a = g + i - N
            /\ g + k < N => b = g + k
            /\ ~(g + k < N) => b = g + k - N
            /\ a >= b => d = a - b
            /\ ~(a >= b) => d = a - b + N
        BY <3>6, <3>7, <3>8, <4>1, <4>2, <4>3, <4>4, <4>7
      <4>8. N \in Nat \ {0} /\ i \in 0 .. N - 1
        BY <2>1, <3>1
      <4>6. d = (IF i >= k THEN i - k ELSE i - k + N)
        BY <4>5, <4>8
      <4> QED BY <4>3, <4>4, <4>6
    <3> QED BY <3>1, <3>9
  <2>8. \A s \in 0 .. N - 1 : D[s] = IF J(s) < size THEN [no |-> u + J(s), ends |-> J(s) = size - 1] ELSE r.data[s]
    OBVIOUS
  <2>9. \A s \in 0 .. N - 1 : J(s) \in Int
    BY <2>1, <2>4, <2>5
  <2>10. D \in [0 .. N - 1 -> RingBytes]
    <3>1. ASSUME NEW s \in 0 .. N - 1 PROVE D[s] \in RingBytes
      <4>1. r.data[s] \in RingBytes
        BY <2>1
      <4>2. (J(s) = size - 1) \in BOOLEAN /\ u + J(s) \in Int
        BY <2>1, <2>9
      <4>3. [no |-> u + J(s), ends |-> J(s) = size - 1] \in RingBytes
        BY <4>2 DEF RingBytes
      <4> QED BY <2>8, <4>1, <4>3
    <3> QED BY <3>1
  <2> HIDE DEF D
  <2>11. q.data = D /\ q.head = h /\ q.used = u + size /\ q \in Rings
    <3>1. u + size \in 0 .. N
      BY <2>1
    <3> QED BY <1>1, <2>1, <2>10, <3>1 DEF Rings
  <2> HIDE DEF q
  <2>7. \A i \in 0 .. N - 1 : Lines!Slot(q, i) = Lines!Slot(r, i)
    BY <2>11 DEF Lines!Slot
  <2>12. ASSUME NEW i \in 0 .. u + size - 1
         PROVE  q.data[Lines!Slot(q, i)].no = i /\ (i = u + size - 1 => q.data[Lines!Slot(q, i)].ends)
    <3>1. i \in 0 .. N - 1 /\ Lines!Slot(r, i) \in 0 .. N - 1 /\ Lines!Slot(q, i) = Lines!Slot(r, i)
      BY <2>1, <2>3, <2>6, <2>7
    <3>2. CASE i >= u
      <4>1. J(Lines!Slot(r, i)) = i - u /\ i - u < size
        BY <2>1, <2>6, <3>2
      <4>2. D[Lines!Slot(r, i)] = [no |-> u + (i - u), ends |-> i - u = size - 1]
        BY <2>8, <3>1, <4>1
      <4>3. D[Lines!Slot(r, i)].no = u + (i - u) /\ D[Lines!Slot(r, i)].ends = (i - u = size - 1)
        BY <4>2
      <4>4. u + (i - u) = i /\ (i = u + size - 1 => i - u = size - 1)
        BY <2>1
      <4> QED BY <2>11, <3>1, <4>3, <4>4
    <3>3. CASE i < u
      <4>1. J(Lines!Slot(r, i)) = i - u + N /\ ~(i - u + N < size)
        BY <2>1, <2>6, <3>3
      <4>2. D[Lines!Slot(r, i)] = r.data[Lines!Slot(r, i)]
        BY <2>8, <3>1, <4>1
      <4>3. r.data[Lines!Slot(r, i)].no = i
        BY <1>1, <2>1, <3>3 DEF Ordered
      <4> QED BY <2>1, <2>11, <3>1, <3>3, <4>2, <4>3
    <3> QED BY <2>1, <3>2, <3>3
  <2>13. Ordered(q)
    BY <2>1, <2>11, <2>12 DEF Ordered
  <2> QED BY <2>2, <2>11, <2>13 DEF RingSound
<1> QED BY <1>1, <1>2, <1>3 DEF Rings

(* What the UART takes is what was said first.                             *)
LEMMA ReplyDrained ==
  ASSUME NEW r, RingSound(r), NEW sent \in 0 .. Lines!Contiguous(r)
  PROVE  RingSound(Lines!Drained(r, sent))
<1> DEFINE N == TxCapacity
           h == r.head
           u == r.used
           J(s) == (s - h) % N
           D == [s \in 0 .. N - 1 |-> IF J(s) \in sent .. u - 1 THEN [no |-> r.data[s].no - sent, ends |-> r.data[s].ends] ELSE Lines!Blank]
           q == [r EXCEPT !.head = (@ + sent) % TxCapacity, !.used = @ - sent, !.data = D]
<1>1. N \in Nat \ {0} /\ TxBudget \in Nat /\ r \in Rings /\ Ordered(r)
  BY LinesConstants DEF RingSound
<1>2. h \in 0 .. N - 1 /\ u \in 0 .. N /\ r.data \in [0 .. N - 1 -> RingBytes]
  BY <1>1 DEF Rings
<1>3. sent \in 0 .. u /\ sent \in 0 .. N
  BY <1>1, <1>2 DEF Lines!Contiguous
<1>4. Lines!Drained(r, sent) = q
  <2>1. DOMAIN r.data = 0 .. N - 1
    BY <1>2
  <2> QED BY <2>1 DEF Lines!Drained
<1>5. \A i \in 0 .. N : Lines!Slot(r, i) = (IF h + i < N THEN h + i ELSE h + i - N) /\ Lines!Slot(r, i) \in 0 .. N - 1
  BY <1>1, <1>2, SlotWraps DEF Lines!Slot
<1>6. \A s \in 0 .. N - 1 : J(s) = (IF s >= h THEN s - h ELSE s - h + N)
  BY <1>1, <1>2, SlotDistance
<1>7. (h + sent) % N = (IF h + sent < N THEN h + sent ELSE h + sent - N) /\ (h + sent) % N \in 0 .. N - 1
  BY <1>1, <1>2, <1>3, SlotWraps
<1> HIDE DEF J
<1>8. ASSUME NEW i \in 0 .. u - sent - 1 PROVE (((h + sent) % N) + i) % N = Lines!Slot(r, i + sent) /\ J(Lines!Slot(r, i + sent)) = i + sent
  <2>1. i \in 0 .. N - 1 /\ i \in 0 .. N /\ i + sent \in 0 .. N - 1 /\ i + sent \in 0 .. N
    BY <1>1, <1>2, <1>3
  <2>2. (((h + sent) % N) + i) % N = (IF ((h + sent) % N) + i < N THEN ((h + sent) % N) + i ELSE ((h + sent) % N) + i - N)
    BY <1>1, <1>7, <2>1, SlotWraps
  <2>3. Lines!Slot(r, i + sent) = (IF h + (i + sent) < N THEN h + (i + sent) ELSE h + (i + sent) - N) /\ Lines!Slot(r, i + sent) \in 0 .. N - 1
    BY <1>5, <2>1
  <2>4. J(Lines!Slot(r, i + sent)) = (IF Lines!Slot(r, i + sent) >= h THEN Lines!Slot(r, i + sent) - h ELSE Lines!Slot(r, i + sent) - h + N)
    BY <1>6, <2>3
  <2>5. J(Lines!Slot(r, i + sent)) = i + sent
    BY <1>1, <1>2, <1>3, <2>1, <2>3, <2>4
  <2>6. (((h + sent) % N) + i) % N = Lines!Slot(r, i + sent)
    <3>1. /\ h + sent < N => (h + sent) % N = h + sent
          /\ ~(h + sent < N) => (h + sent) % N = h + sent - N
      BY <1>7
    <3>2. /\ ((h + sent) % N) + i < N => (((h + sent) % N) + i) % N = ((h + sent) % N) + i
          /\ ~(((h + sent) % N) + i < N) => (((h + sent) % N) + i) % N = ((h + sent) % N) + i - N
      BY <2>2
    <3>3. /\ h + (i + sent) < N => Lines!Slot(r, i + sent) = h + (i + sent)
          /\ ~(h + (i + sent) < N) => Lines!Slot(r, i + sent) = h + (i + sent) - N
      BY <2>3
    <3>4. PICK m \in 0 .. N - 1 : m = (h + sent) % N
      BY <1>7
    <3>5. PICK a : a = (((h + sent) % N) + i) % N
      OBVIOUS
    <3>6. PICK b : b = Lines!Slot(r, i + sent)
      OBVIOUS
    <3>9. PICK g \in 0 .. N - 1 : g = h
      BY <1>2
    <3>7. /\ g + sent < N => m = g + sent
          /\ ~(g + sent < N) => m = g + sent - N
          /\ m + i < N => a = m + i
          /\ ~(m + i < N) => a = m + i - N
          /\ g + (i + sent) < N => b = g + (i + sent)
          /\ ~(g + (i + sent) < N) => b = g + (i + sent) - N
      BY <3>1, <3>2, <3>3, <3>4, <3>5, <3>6, <3>9
    <3>10. N \in Nat \ {0} /\ sent \in 0 .. N /\ i \in 0 .. N - 1 /\ i + sent \in 0 .. N - 1
      BY <1>1, <1>3, <2>1
    <3>8. a = b
      BY <3>7, <3>10
    <3> QED BY <3>5, <3>6, <3>8
  <2> QED BY <2>5, <2>6
<1>9. \A s \in 0 .. N - 1 : D[s] = IF J(s) \in sent .. u - 1 THEN [no |-> r.data[s].no - sent, ends |-> r.data[s].ends] ELSE Lines!Blank
  OBVIOUS
<1>10. D \in [0 .. N - 1 -> RingBytes]
  <2>1. ASSUME NEW s \in 0 .. N - 1 PROVE D[s] \in RingBytes
    <3>1. r.data[s] \in RingBytes
      BY <1>2
    <3>2. [no |-> r.data[s].no - sent, ends |-> r.data[s].ends] \in RingBytes
      BY <1>3, <3>1 DEF RingBytes
    <3>3. Lines!Blank \in RingBytes
      BY DEF Lines!Blank, RingBytes
    <3> QED BY <1>9, <3>2, <3>3
  <2> QED BY <2>1
<1> HIDE DEF D
<1>11. q.data = D /\ q.head = (h + sent) % N /\ q.used = u - sent /\ q \in Rings
  <2>1. u - sent \in 0 .. N
    BY <1>1, <1>2, <1>3
  <2> QED BY <1>1, <1>7, <1>10, <2>1 DEF Rings
<1> HIDE DEF q
<1>14. \A i \in 0 .. u - sent - 1 : Lines!Slot(q, i) = Lines!Slot(r, i + sent)
  BY <1>8, <1>11 DEF Lines!Slot
<1>12. ASSUME NEW i \in 0 .. u - sent - 1
       PROVE  q.data[Lines!Slot(q, i)].no = i /\ (i = u - sent - 1 => q.data[Lines!Slot(q, i)].ends)
  <2>1. i + sent \in 0 .. u - 1 /\ i + sent \in sent .. u - 1 /\ Lines!Slot(r, i + sent) \in 0 .. N - 1
    <3>1. i + sent \in 0 .. u - 1 /\ i + sent \in sent .. u - 1 /\ i + sent \in 0 .. N
      BY <1>1, <1>2, <1>3
    <3> QED BY <1>5, <3>1
  <2>2. D[Lines!Slot(r, i + sent)] = [no |-> r.data[Lines!Slot(r, i + sent)].no - sent, ends |-> r.data[Lines!Slot(r, i + sent)].ends]
    BY <1>8, <1>9, <2>1
  <2>3. r.data[Lines!Slot(r, i + sent)].no = i + sent /\ r.data[Lines!Slot(r, i + sent)] \in RingBytes
    BY <1>1, <1>2, <2>1 DEF Ordered
  <2>4. D[Lines!Slot(r, i + sent)].no = i /\ D[Lines!Slot(r, i + sent)].ends = r.data[Lines!Slot(r, i + sent)].ends
    BY <1>3, <2>2, <2>3 DEF RingBytes
  <2>5. i = u - sent - 1 => i + sent = u - 1 /\ u > 0
    BY <1>2, <1>3
  <2>6. i = u - sent - 1 => r.data[Lines!Slot(r, i + sent)].ends
    BY <1>1, <2>5 DEF Ordered
  <2> QED BY <1>11, <1>14, <2>4, <2>6
<1>13. Ordered(q)
  BY <1>2, <1>3, <1>11, <1>12 DEF Ordered
<1> QED BY <1>4, <1>11, <1>13 DEF RingSound

(* What a reply may leave in the ring.                                     *)
LEMMA RingReplies ==
  ASSUME RingSound(ring), NEW port, NEW said \in BOOLEAN, ring' \in IF said THEN Lines!Reply(port, ring) ELSE {ring}
  PROVE  RingSound(ring')
<1>1. CASE ring' = ring
  BY <1>1
<1>2. CASE \E size \in 1 .. TxCapacity - 1 : ring' = Lines!Enqueue(ring, size)
  BY <1>2, ReplyEnqueued
<1> QED BY <1>1, <1>2 DEF Lines!Reply

LEMMA RingDrains == ASSUME RingSound(ring), Lines!DrainUart PROVE RingSound(ring')
<1>1. CASE ring' = ring
  BY <1>1
<1>2. CASE \E sent \in 0 .. Lines!Contiguous(ring) : ring' = Lines!Drained(ring, sent)
  BY <1>2, ReplyDrained
<1> QED BY <1>1, <1>2 DEF Lines!DrainUart

(* An event finds room, or no one hears of it.                             *)
LEMMA EventPosted ==
  ASSUME NEW d \in UartDrivers, Len(d.rx) <= RxCapacity, Len(d.events) <= UartEventCapacity, NEW event \in {"data", "error"}
  PROVE  /\ Lines!Post(d, event) \in UartDrivers
         /\ Len(Lines!Post(d, event).rx) <= RxCapacity /\ Len(Lines!Post(d, event).events) <= UartEventCapacity
<1>1. CASE Len(d.events) < UartEventCapacity
  <2> DEFINE f == Append(d.events, event)
  <2>1. f \in Seq({"data", "error"}) /\ Len(f) = Len(d.events) + 1 /\ Len(d.events) \in Nat
    BY DEF UartDrivers
  <2> HIDE DEF f
  <2>2. [d EXCEPT !.events = f] \in UartDrivers /\ [d EXCEPT !.events = f].rx = d.rx /\ [d EXCEPT !.events = f].events = f
    BY <2>1 DEF UartDrivers
  <2>3. Lines!Post(d, event) = [d EXCEPT !.events = f]
    BY <1>1 DEF Lines!Post, f
  <2> QED BY <1>1, <2>1, <2>2, <2>3, LinesConstants
<1>2. CASE ~(Len(d.events) < UartEventCapacity)
  BY <1>2 DEF Lines!Post
<1> QED BY <1>1, <1>2

(* What arrives, and what the driver loses.                                *)
LEMMA HardwareKeeps == ASSUME LinesInv, Lines!Hardware PROVE LinesInv'
<1>1. /\ LinesTyped /\ driver \in UartDrivers /\ Len(driver.rx) <= RxCapacity /\ Len(driver.events) <= UartEventCapacity
      /\ driver.rx \in Seq(LineBytes) /\ Len(driver.rx) \in Nat
  BY DEF LinesInv, LinesTyped, UartDrivers
<1>2. UNCHANGED <<line, poll, ring, ran>>
  BY DEF Lines!Hardware, Lines!Receive, Lines!Lose, Lines!Driven
<1>3. driver' \in UartDrivers /\ Len(driver'.rx) <= RxCapacity /\ Len(driver'.events) <= UartEventCapacity
  <2>1. CASE \E kind \in {"char", "ctrl", "end"}, news \in BOOLEAN : Lines!Receive(kind, news)
    <3>1. PICK kind \in {"char", "ctrl", "end"}, news \in BOOLEAN : Lines!Receive(kind, news)
      BY <2>1
    <3> DEFINE q == Append(driver.rx, [kind |-> kind, gap |-> driver.gap])
               stored == [driver EXCEPT !.rx = q, !.gap = Lines!None]
    <3>2. [kind |-> kind, gap |-> driver.gap] \in LineBytes
      BY <1>1 DEF LineBytes, Lines!Bytes, UartDrivers
    <3>3. q \in Seq(LineBytes) /\ Len(q) = Len(driver.rx) + 1
      BY <1>1, <3>2
    <3>4. Len(driver.rx) < RxCapacity /\ driver' = IF news THEN Lines!Post(stored, "data") ELSE stored
      BY <3>1 DEF Lines!Receive
    <3> HIDE DEF q
    <3>5. stored \in UartDrivers /\ stored.rx = q /\ stored.events = driver.events
      BY <1>1, <3>3 DEF UartDrivers, Lines!None
    <3> HIDE DEF stored
    <3>6. Len(stored.rx) <= RxCapacity /\ Len(stored.events) <= UartEventCapacity
      BY <1>1, <3>3, <3>4, <3>5, LinesConstants
    <3> QED BY <3>4, <3>5, <3>6, EventPosted
  <2>2. CASE \E kind \in {"char", "end"} : Lines!Lose(kind)
    <3>1. PICK kind \in {"char", "end"} : driver' = Lines!Post([driver EXCEPT !.gap = Lines!Gap(kind)], "error")
      BY <2>2 DEF Lines!Lose
    <3> DEFINE d == [driver EXCEPT !.gap = Lines!Gap(kind)]
    <3>2. d \in UartDrivers /\ d.rx = driver.rx /\ d.events = driver.events
      BY <1>1 DEF UartDrivers, Lines!Gap
    <3> HIDE DEF d
    <3>3. driver' = Lines!Post(d, "error")
      BY <3>1 DEF d
    <3> QED BY <1>1, <3>2, <3>3, EventPosted
  <2> QED BY <2>1, <2>2 DEF Lines!Hardware
<1> QED BY <1>2, <1>3 DEF LinesInv, LinesTyped

(* A port at rest, whatever it owes of a loss.                             *)
LEMMA QuietSound ==
  \A g \in {"none", "cut", "end"} :
    /\ [Lines!Quiet EXCEPT !.gap = g] \in UartDrivers
    /\ [Lines!Quiet EXCEPT !.gap = g].rx = <<>> /\ [Lines!Quiet EXCEPT !.gap = g].events = <<>>
<1>1. \A g \in {"none", "cut", "end"} : [Lines!Quiet EXCEPT !.gap = g] = [rx |-> <<>>, events |-> <<>>, gap |-> g]
  BY DEF Lines!Quiet
<1>2. <<>> \in Seq(LineBytes) /\ <<>> \in Seq({"data", "error"})
  OBVIOUS
<1> QED BY <1>1, <1>2 DEF UartDrivers, Lines!None

(* What was received and not yet parsed goes, up to the next end of a line *)
LEMMA InputDropped ==
  ASSUME LinesInv, NEW chunk \in Seq(LineBytes), Lines!Invalidate(chunk)
  PROVE  /\ line' \in [Lines!Ports -> PortLines] /\ ~line'["usb"].damaged /\ line'["usb"] = line["usb"]
         /\ driver' \in UartDrivers /\ Len(driver'.rx) <= RxCapacity /\ Len(driver'.events) <= UartEventCapacity
<1>1. line \in [Lines!Ports -> PortLines] /\ driver \in UartDrivers /\ ~line["usb"].damaged /\ driver.rx \in Seq(LineBytes)
  BY DEF LinesInv, LinesTyped, UartDrivers
<1>2. Lines!Wiped \in PortLines /\ line' = [line EXCEPT !["uart"] = Lines!Wiped]
  BY LinesConstants DEF Lines!Wiped, PortLines, Lines!Invalidate
<1>3. line' \in [Lines!Ports -> PortLines] /\ line'["usb"] = line["usb"]
  BY <1>1, <1>2 DEF Lines!Ports
<1>4. PICK g : driver' = [Lines!Quiet EXCEPT !.gap = g] /\ g \in {"none", "cut", "end"}
  <2> DEFINE lost == chunk \o driver.rx
             g == IF driver.gap # Lines!None \/ lost = <<>> THEN driver.gap ELSE Lines!Gap(Lines!Last(lost).kind)
  <2>1. driver' = [Lines!Quiet EXCEPT !.gap = g]
    BY DEF Lines!Invalidate
  <2>2. g \in {"none", "cut", "end"}
    <3>1. driver.gap \in {"none", "cut", "end"}
      BY <1>1 DEF UartDrivers, Lines!None
    <3>2. \A kind : Lines!Gap(kind) \in {"none", "cut", "end"}
      BY DEF Lines!Gap
    <3> HIDE DEF lost
    <3> QED BY <3>1, <3>2
  <2> QED BY <2>1, <2>2
<1>5. driver' \in UartDrivers /\ driver'.rx = <<>> /\ driver'.events = <<>>
  BY <1>4, QuietSound
<1>6. Len(<<>>) = 0
  OBVIOUS
<1> QED BY <1>1, <1>3, <1>5, <1>6, LinesConstants

(* A byte makes of its line what it may; over USB none is missing, and     *)
(* over the UART a line with one missing is no frame.                      *)
LEMMA ByteConsumed ==
  ASSUME LinesInv, NEW port \in Lines!Ports, NEW byte \in LineBytes, port = "usb" => byte.gap = "none", Lines!ConsumeFrom(port, byte)
  PROVE  /\ line' \in [Lines!Ports -> PortLines] /\ ~line'["usb"].damaged /\ \A p \in Lines!Ports : p # port => line'[p] = line[p]
         /\ ~ran' /\ RingSound(ring')
<1>1. line \in [Lines!Ports -> PortLines] /\ ~line["usb"].damaged /\ ~ran /\ RingSound(ring) /\ line[port] \in PortLines
  BY DEF LinesInv, LinesTyped
<1> DEFINE l == line[port]
           broken == Lines!Damaged(l, byte)
<1>2. broken \in BOOLEAN /\ (port = "usb" => ~broken)
  BY <1>1 DEF Lines!Damaged, PortLines
<1>3. PICK c \in Lines!Consumed(port, l, byte) :
        /\ line' = [line EXCEPT ![port] = c.line]
        /\ ran' = (ran \/ (c.runs /\ broken))
        /\ ring' \in IF c.said THEN Lines!Reply(port, ring) ELSE {ring}
  BY DEF Lines!ConsumeFrom
<1>4. /\ c.line \in PortLines /\ (port = "usb" => ~c.line.damaged)
      /\ c.said \in BOOLEAN /\ (c.runs => ~broken)
  <2> DEFINE kept == [l EXCEPT !.damaged = broken]
  <2>1. /\ kept \in PortLines /\ kept.damaged = broken /\ kept.length = l.length
        /\ [kept EXCEPT !.overflow = TRUE] \in PortLines /\ [kept EXCEPT !.overflow = TRUE].damaged = broken
    BY <1>1, <1>2 DEF PortLines
  <2>2. ASSUME NEW n \in 0 .. LineCapacity - 1
        PROVE  [kept EXCEPT !.length = n] \in PortLines /\ [kept EXCEPT !.length = n].damaged = broken
    BY <1>1, <1>2 DEF PortLines
  <2>3. Lines!Fresh \in PortLines /\ ~Lines!Fresh.damaged
    BY LinesConstants DEF Lines!Fresh, PortLines
  <2>4. l.length \in 0 .. LineCapacity - 1
    BY <1>1 DEF PortLines
  <2>5. (IF l.length > 0 THEN l.length - 1 ELSE 0) \in 0 .. LineCapacity - 1 /\ (~(l.length + 1 >= LineCapacity) => l.length + 1 \in 0 .. LineCapacity - 1)
    BY <2>4, LinesConstants
  <2>6. \/ c = Lines!Kept(Lines!Fresh)
        \/ c = Lines!Kept([kept EXCEPT !.overflow = TRUE])
        \/ c = Lines!Kept(kept)
        \/ c = Lines!Kept([kept EXCEPT !.length = IF @ > 0 THEN @ - 1 ELSE 0])
        \/ ~(l.length + 1 >= LineCapacity) /\ c = Lines!Kept([kept EXCEPT !.length = @ + 1])
        \/ \E run \in BOOLEAN : c = [line |-> Lines!Fresh, said |-> TRUE, runs |-> run] /\ (run => port = "usb" \/ ~broken)
    BY <1>2, <1>3 DEF Lines!Consumed, Lines!Decodes
  <2>7. [kept EXCEPT !.length = IF @ > 0 THEN @ - 1 ELSE 0] = [kept EXCEPT !.length = IF l.length > 0 THEN l.length - 1 ELSE 0]
    BY <2>1
  <2>8. [kept EXCEPT !.length = @ + 1] = [kept EXCEPT !.length = l.length + 1]
    BY <2>1
  <2> HIDE DEF kept, broken
  <2>9. \A x : Lines!Kept(x).line = x /\ Lines!Kept(x).said = FALSE /\ Lines!Kept(x).runs = FALSE
    BY DEF Lines!Kept
  <2>10. CASE c = Lines!Kept(Lines!Fresh) \/ \E run \in BOOLEAN : c = [line |-> Lines!Fresh, said |-> TRUE, runs |-> run] /\ (run => port = "usb" \/ ~broken)
    <3>1. CASE c = Lines!Kept(Lines!Fresh)
      BY <2>3, <2>9, <3>1
    <3>2. CASE \E run \in BOOLEAN : c = [line |-> Lines!Fresh, said |-> TRUE, runs |-> run] /\ (run => port = "usb" \/ ~broken)
      <4>1. PICK run \in BOOLEAN : c = [line |-> Lines!Fresh, said |-> TRUE, runs |-> run] /\ (run => port = "usb" \/ ~broken)
        BY <3>2
      <4>2. c.line = Lines!Fresh /\ c.said = TRUE /\ c.runs = run
        BY <4>1
      <4> QED BY <1>2, <2>3, <4>1, <4>2
    <3> QED BY <2>10, <3>1, <3>2
  <2>11. CASE c = Lines!Kept([kept EXCEPT !.overflow = TRUE]) \/ c = Lines!Kept(kept)
    BY <1>2, <2>1, <2>9, <2>11
  <2>12. CASE c = Lines!Kept([kept EXCEPT !.length = IF @ > 0 THEN @ - 1 ELSE 0])
    <3>1. PICK n \in 0 .. LineCapacity - 1 : n = IF l.length > 0 THEN l.length - 1 ELSE 0
      BY <2>5
    <3>2. c = Lines!Kept([kept EXCEPT !.length = n])
      BY <2>7, <2>12, <3>1
    <3> QED BY <1>2, <2>2, <2>9, <3>2
  <2>13. CASE ~(l.length + 1 >= LineCapacity) /\ c = Lines!Kept([kept EXCEPT !.length = @ + 1])
    <3>1. PICK n \in 0 .. LineCapacity - 1 : n = l.length + 1
      BY <2>5, <2>13
    <3>2. c = Lines!Kept([kept EXCEPT !.length = n])
      BY <2>8, <2>13, <3>1
    <3> QED BY <1>2, <2>2, <2>9, <3>2
  <2> QED BY <2>6, <2>10, <2>11, <2>12, <2>13
<1>5. line' \in [Lines!Ports -> PortLines] /\ line'[port] = c.line /\ \A p \in Lines!Ports : p # port => line'[p] = line[p]
  BY <1>1, <1>3, <1>4
<1>6. ~line'["usb"].damaged
  BY <1>1, <1>4, <1>5 DEF Lines!Ports
<1>7. RingSound(ring')
  BY <1>1, <1>3, <1>4, RingReplies
<1> QED BY <1>1, <1>3, <1>4, <1>5, <1>6, <1>7

LEMMA EmptyRingSound == RingSound(Lines!EmptyRing)
<1>1. Lines!EmptyRing.data \in [0 .. TxCapacity - 1 -> RingBytes] /\ Lines!EmptyRing.head = 0 /\ Lines!EmptyRing.used = 0
  BY DEF Lines!EmptyRing, RingBytes
<1>2. Lines!EmptyRing \in Rings
  <2>1. \A s \in 0 .. TxCapacity - 1 : [no |-> 0, ends |-> FALSE] \in RingBytes
    BY DEF RingBytes
  <2> QED BY <2>1, LinesConstants DEF Lines!EmptyRing, Rings
<1>3. Ordered(Lines!EmptyRing)
  BY <1>1 DEF Ordered
<1> QED BY <1>2, <1>3 DEF RingSound

(* The app opens the console, and closes it.                               *)
LEMMA ConsoleOpens == ASSUME LinesInv, Lines!Begin \/ Lines!End PROVE LinesInv'
<1>1. LinesTyped /\ line \in [Lines!Ports -> PortLines] /\ poll \in PollStates
  BY DEF LinesInv, LinesTyped
<1>3. <<>> \in Seq(LineBytes) /\ <<>> \in Seq({"data", "error"})
  OBVIOUS
<1>5. CASE Lines!Begin
  <2>1. PICK up \in SUBSET Lines!Ports : poll' = [poll EXCEPT !.at = "idle", !.up = up]
    BY <1>5 DEF Lines!Begin
  <2>2. poll' \in PollStates /\ poll'.at = "idle" /\ poll'.chunk = poll.chunk
    BY <1>1, <2>1 DEF PollStates, UartPlaces
  <2>3. PICK g \in {"none", "cut"} : driver' = [Lines!Quiet EXCEPT !.gap = g]
    BY <1>5 DEF Lines!Begin, Lines!None
  <2>4. driver' \in UartDrivers /\ Len(driver'.rx) <= RxCapacity /\ Len(driver'.events) <= UartEventCapacity
    <3>1. driver' \in UartDrivers /\ driver'.rx = <<>> /\ driver'.events = <<>>
      BY <2>3, QuietSound
    <3>2. Len(<<>>) = 0
      OBVIOUS
    <3> QED BY <3>1, <3>2, LinesConstants
  <2>5. UNCHANGED <<line, ring, ran>> /\ \A p \in Lines!Ports : line[p] = Lines!Fresh
    BY <1>5 DEF Lines!Begin, LinesInv
  <2>6. LinesTyped'
    BY <1>1, <2>2, <2>4, <2>5 DEF LinesTyped
  <2> QED BY <2>2, <2>5, <2>6 DEF LinesInv, UartPlaces
<1>6. CASE Lines!End
  <2>1. poll' = [poll EXCEPT !.at = "closed", !.up = {}]
    BY <1>6 DEF Lines!End
  <2>2. poll' \in PollStates /\ poll'.at = "closed" /\ poll'.up = {} /\ poll'.chunk = poll.chunk
    BY <1>1, <2>1 DEF PollStates, UartPlaces
  <2>3. driver' = [rx |-> <<>>, events |-> <<>>, gap |-> "none"]
    BY <1>6 DEF Lines!End, Lines!Quiet, Lines!None
  <2>4. driver' \in UartDrivers /\ Len(driver'.rx) <= RxCapacity /\ Len(driver'.events) <= UartEventCapacity
    BY <1>3, <2>3, LinesConstants DEF UartDrivers, Lines!None
  <2>5. line' = [p \in Lines!Ports |-> Lines!Fresh] /\ ring' = Lines!EmptyRing /\ ~ran'
    BY <1>6 DEF Lines!End, LinesInv
  <2>6. Lines!Fresh \in PortLines /\ ~Lines!Fresh.damaged
    BY LinesConstants DEF Lines!Fresh, PortLines
  <2>7. line' \in [Lines!Ports -> PortLines] /\ \A p \in Lines!Ports : line'[p] = Lines!Fresh
    BY <2>5, <2>6
  <2>8. RingSound(ring')
    BY <2>5, EmptyRingSound
  <2>9. LinesTyped'
    BY <1>1, <2>2, <2>4, <2>7 DEF LinesTyped
  <2>10. ~line'["usb"].damaged
    BY <2>6, <2>7 DEF Lines!Ports
  <2> QED BY <2>2, <2>5, <2>7, <2>8, <2>9, <2>10 DEF LinesInv, UartPlaces
<1> QED BY <1>5, <1>6

(* Where a poll goes on with the bytes it has.                             *)
LEMMA PollGoes ==
  ASSUME poll \in PollStates
  PROVE  \A p \in UartPlaces \cup {"idle", "usb", "async", "drain"} :
           /\ [poll EXCEPT !.at = p] \in PollStates /\ [poll EXCEPT !.at = p].at = p
           /\ [poll EXCEPT !.at = p].up = poll.up /\ [poll EXCEPT !.at = p].chunk = poll.chunk
BY DEF PollStates

(* The steps of a poll that neither parse nor drop.                        *)
LEMMA PollPasses ==
  ASSUME LinesInv, poll' \in PollStates, poll'.up = poll.up, Len(poll'.chunk) <= ChunkCapacity,
         poll'.at # "closed", poll'.at \in UartPlaces => "uart" \in poll.up,
         line' \in [Lines!Ports -> PortLines], ~line'["usb"].damaged, \A p \in Lines!Ports : p \notin poll.up => line'[p] = line[p],
         driver' \in UartDrivers, Len(driver'.rx) <= RxCapacity, Len(driver'.events) <= UartEventCapacity,
         RingSound(ring'), ~ran'
  PROVE  LinesInv'
BY DEF LinesInv, LinesTyped

LEMMA PollKeeps == ASSUME LinesInv, Lines!Loop PROVE LinesInv'
<1>1. /\ LinesTyped /\ line \in [Lines!Ports -> PortLines] /\ driver \in UartDrivers /\ poll \in PollStates
      /\ Len(driver.rx) <= RxCapacity /\ Len(driver.events) <= UartEventCapacity /\ Len(poll.chunk) <= ChunkCapacity
      /\ RingSound(ring) /\ ~ran /\ ~line["usb"].damaged
      /\ driver.rx \in Seq(LineBytes) /\ driver.events \in Seq({"data", "error"}) /\ poll.chunk \in Seq(LineBytes)
  BY DEF LinesInv, LinesTyped, UartDrivers, PollStates
<1>2. poll.at \in UartPlaces => "uart" \in poll.up
  BY DEF LinesInv
<1>3. <<>> \in Seq(LineBytes) /\ Len(<<>>) <= ChunkCapacity
  BY LinesConstants
<1>4. CASE Lines!Poll \/ Lines!Drain \/ Lines!PollAsync
  <2>1. UNCHANGED <<line, driver, ran>> /\ (Lines!Go("usb") \/ Lines!Go("idle") \/ Lines!Go("drain"))
    BY <1>4 DEF Lines!Poll, Lines!Drain, Lines!PollAsync
  <2>2. RingSound(ring')
    <3>1. CASE Lines!Poll \/ Lines!Drain
      BY <1>1, <3>1, RingDrains DEF Lines!Poll, Lines!Drain
    <3>2. CASE Lines!PollAsync
      <4>1. CASE UNCHANGED ring
        BY <1>1, <4>1
      <4>2. CASE \E port \in poll.up : ring' \in Lines!Reply(port, ring)
        <5>1. PICK port \in poll.up : ring' \in Lines!Reply(port, ring)
          BY <4>2
        <5>2. ring' \in IF TRUE THEN Lines!Reply(port, ring) ELSE {ring}
          BY <5>1
        <5> QED BY <1>1, <5>2, RingReplies
      <4> QED BY <3>2, <4>1, <4>2 DEF Lines!PollAsync
    <3> QED BY <1>4, <3>1, <3>2
  <2>3. poll' \in PollStates /\ poll'.up = poll.up /\ poll'.chunk = poll.chunk /\ poll'.at \in {"usb", "idle", "drain"}
    <3>1. PICK p \in {"usb", "idle", "drain"} : poll' = [poll EXCEPT !.at = p]
      BY <2>1 DEF Lines!Go
    <3> QED BY <1>1, <3>1, PollGoes
  <2> QED BY <1>1, <2>1, <2>2, <2>3, PollPasses DEF UartPlaces
<1>5. CASE \E kind \in Lines!Bytes : Lines!UsbByte(kind)
  <2>1. PICK kind \in Lines!Bytes : Lines!UsbByte(kind)
    BY <1>5
  <2> DEFINE byte == [kind |-> kind, gap |-> Lines!None]
  <2>2. byte \in LineBytes /\ byte.gap = "none"
    BY DEF LineBytes, Lines!None
  <2>3. /\ Lines!ConsumeFrom("usb", byte) /\ UNCHANGED <<driver, poll>> /\ "usb" \in poll.up /\ poll.at = "usb"
    BY <2>1 DEF Lines!UsbByte, Lines!At
  <2> HIDE DEF byte
  <2>4. /\ line' \in [Lines!Ports -> PortLines] /\ ~line'["usb"].damaged /\ \A p \in Lines!Ports : p # "usb" => line'[p] = line[p]
        /\ ~ran' /\ RingSound(ring')
    <3>1. "usb" \in Lines!Ports
      BY DEF Lines!Ports
    <3> QED BY <2>2, <2>3, <3>1, ByteConsumed
  <2> QED BY <1>1, <1>2, <2>3, <2>4, PollPasses DEF UartPlaces
<1>6. CASE Lines!UsbDone \/ Lines!Event \/ Lines!Check
  <2>1. UNCHANGED <<ring, ran>> /\ (UNCHANGED line \/ Lines!Invalidate(<<>>))
    BY <1>6 DEF Lines!UsbDone, Lines!Event, Lines!Check
  <2>2. /\ line' \in [Lines!Ports -> PortLines] /\ ~line'["usb"].damaged
        /\ \A p \in Lines!Ports : p # "uart" => line'[p] = line[p]
    <3>1. CASE UNCHANGED line
      BY <1>1, <3>1
    <3>2. CASE Lines!Invalidate(<<>>)
      BY <1>3, <3>2, InputDropped DEF Lines!Ports
    <3> QED BY <2>1, <3>1, <3>2
  <2>3. \A p \in Lines!Ports : p \notin poll.up => line'[p] = line[p]
    <3>1. CASE "uart" \in poll.up
      BY <2>2, <3>1
    <3>2. CASE "uart" \notin poll.up
      BY <1>2, <1>6, <3>2 DEF Lines!UsbDone, Lines!Event, Lines!Check, Lines!At, UartPlaces
    <3> QED BY <3>1, <3>2
  <2>4. driver' \in UartDrivers /\ Len(driver'.rx) <= RxCapacity /\ Len(driver'.events) <= UartEventCapacity
    <3>1. CASE UNCHANGED driver
      BY <1>1, <3>1
    <3>2. CASE Lines!Invalidate(<<>>)
      BY <1>3, <3>2, InputDropped
    <3>3. CASE Lines!Event /\ driver.events # <<>> /\ driver' = [driver EXCEPT !.events = Tail(@)]
      <4>1. Tail(driver.events) \in Seq({"data", "error"}) /\ Len(Tail(driver.events)) = Len(driver.events) - 1 /\ Len(driver.events) \in Nat
        BY <1>1, <3>3
      <4>2. driver' \in UartDrivers /\ driver'.rx = driver.rx /\ driver'.events = Tail(driver.events)
        BY <1>1, <3>3, <4>1 DEF UartDrivers
      <4> QED BY <1>1, <4>1, <4>2, LinesConstants
    <3>4. CASE Lines!Event
      BY <3>1, <3>2, <3>3, <3>4 DEF Lines!Event
    <3>5. CASE Lines!UsbDone \/ Lines!Check
      BY <3>1, <3>2, <3>5 DEF Lines!UsbDone, Lines!Check
    <3> QED BY <1>6, <3>4, <3>5
  <2>5. \/ Lines!Go("async") \/ Lines!Go("check") \/ Lines!Go("read")
        \/ poll' = [poll EXCEPT !.at = "events", !.looked = 0] /\ "uart" \in poll.up
        \/ poll' = [poll EXCEPT !.looked = @ + 1]
    BY <1>6 DEF Lines!UsbDone, Lines!Event, Lines!Check
  <2>6. Lines!Go("check") \/ Lines!Go("read") \/ poll' = [poll EXCEPT !.looked = @ + 1] => "uart" \in poll.up
    <3>1. CASE Lines!Event \/ Lines!Check
      BY <1>2, <3>1 DEF Lines!Event, Lines!Check, Lines!At, UartPlaces
    <3>2. CASE Lines!UsbDone
      <4>1. poll.at = "usb"
        BY <3>2 DEF Lines!UsbDone, Lines!At
      <4>2. CASE "uart" \notin poll.up
        <5>1. Lines!Go("async")
          BY <3>2, <4>2 DEF Lines!UsbDone
        <5>2. poll'.at = "async"
          BY <1>1, <5>1, PollGoes DEF Lines!Go
        <5>3. Lines!Go("check") \/ Lines!Go("read") => poll'.at # "async"
          BY <1>1, PollGoes DEF Lines!Go, UartPlaces
        <5>4. poll' = [poll EXCEPT !.looked = @ + 1] => poll'.at = "usb"
          BY <1>1, <4>1 DEF PollStates
        <5> QED BY <5>2, <5>3, <5>4
      <4> QED BY <4>2
    <3> QED BY <1>6, <3>1, <3>2
  <2>7. /\ poll' \in PollStates /\ poll'.up = poll.up /\ poll'.chunk = poll.chunk /\ poll'.at # "closed"
        /\ poll'.at \in UartPlaces => "uart" \in poll.up
    <3>1. CASE Lines!Go("async") \/ Lines!Go("check") \/ Lines!Go("read")
      <4>1. PICK p \in {"async", "check", "read"} : poll' = [poll EXCEPT !.at = p]
        BY <3>1 DEF Lines!Go
      <4>2. p \in UartPlaces \cup {"async"} /\ p # "closed" /\ (p # "async" => Lines!Go("check") \/ Lines!Go("read"))
        BY <4>1 DEF Lines!Go, UartPlaces
      <4>3. poll' \in PollStates /\ poll'.at = p /\ poll'.up = poll.up /\ poll'.chunk = poll.chunk
        BY <1>1, <4>1, <4>2, PollGoes
      <4>4. p \in UartPlaces => "uart" \in poll.up
        BY <2>6, <4>2 DEF UartPlaces
      <4> QED BY <4>2, <4>3, <4>4
    <3>2. CASE poll' = [poll EXCEPT !.at = "events", !.looked = 0] /\ "uart" \in poll.up
      <4>1. [poll EXCEPT !.at = "events"] \in PollStates
        BY <1>1, PollGoes DEF UartPlaces
      <4>2. \A q \in PollStates : [q EXCEPT !.looked = 0] \in PollStates
        BY DEF PollStates
      <4>3. poll' = [[poll EXCEPT !.at = "events"] EXCEPT !.looked = 0]
        BY <1>1, <3>2 DEF PollStates
      <4>4. poll'.at = "events" /\ poll'.up = poll.up /\ poll'.chunk = poll.chunk
        BY <1>1, <3>2 DEF PollStates
      <4> QED BY <3>2, <4>1, <4>2, <4>3, <4>4
    <3>3. CASE poll' = [poll EXCEPT !.looked = @ + 1]
      <4>1. poll.at # "closed"
        BY <1>6 DEF Lines!UsbDone, Lines!Event, Lines!Check, Lines!At
      <4>2. poll' \in PollStates /\ poll'.up = poll.up /\ poll'.chunk = poll.chunk /\ poll'.at = poll.at
        <5>1. PICK n \in Int : n = poll.looked + 1
          BY <1>1 DEF PollStates
        <5>2. poll' = [poll EXCEPT !.looked = n]
          BY <1>1, <3>3, <5>1 DEF PollStates
        <5>3. poll' \in PollStates
          BY <1>1, <5>2 DEF PollStates
        <5>4. poll'.up = poll.up /\ poll'.chunk = poll.chunk /\ poll'.at = poll.at
          BY <1>1, <5>2 DEF PollStates
        <5> QED BY <5>3, <5>4
      <4> QED BY <1>2, <4>1, <4>2
    <3> QED BY <2>5, <3>1, <3>2, <3>3
  <2> QED BY <1>1, <2>1, <2>2, <2>3, <2>4, <2>7, PollPasses
<1>7. CASE Lines!Read
  <2>1. PICK n \in {0, IF Len(driver.rx) < ChunkCapacity THEN Len(driver.rx) ELSE ChunkCapacity} :
          /\ poll' = [poll EXCEPT !.at = "judge", !.chunk = SubSeq(driver.rx, 1, n)]
          /\ driver' = [driver EXCEPT !.rx = SubSeq(@, n + 1, Len(@))]
    BY <1>7 DEF Lines!Read
  <2>2. n \in 0 .. Len(driver.rx) /\ n <= ChunkCapacity /\ Len(driver.rx) \in Nat
    BY <1>1, LinesConstants
  <2> DEFINE c == SubSeq(driver.rx, 1, n)
             r == SubSeq(driver.rx, n + 1, Len(driver.rx))
  <2>3. c \in Seq(LineBytes) /\ Len(c) = n
    BY <1>1, <2>2, SubSeqProperties
  <2>4. r \in Seq(LineBytes) /\ Len(r) = Len(driver.rx) - n
    <3>1. \A i \in n + 1 .. Len(driver.rx) : driver.rx[i] \in LineBytes
      BY <1>1, <2>2, ElementOfSeq
    <3> QED BY <1>1, <2>2, <3>1, SubSeqProperties
  <2> HIDE DEF c, r
  <2>5. poll' \in PollStates /\ poll'.at = "judge" /\ poll'.chunk = c /\ poll'.up = poll.up
    <3>1. poll' = [poll EXCEPT !.at = "judge", !.chunk = c]
      BY <2>1 DEF c
    <3> QED BY <1>1, <2>3, <3>1 DEF PollStates, UartPlaces
  <2>6. driver' \in UartDrivers /\ driver'.rx = r /\ driver'.events = driver.events
    <3>1. driver' = [driver EXCEPT !.rx = r]
      BY <2>1 DEF r
    <3> QED BY <1>1, <2>4, <3>1 DEF UartDrivers
  <2>7. "uart" \in poll.up /\ UNCHANGED <<line, ring, ran>>
    BY <1>2, <1>7 DEF Lines!Read, Lines!At, UartPlaces
  <2>8. Len(driver'.rx) <= RxCapacity /\ Len(driver'.events) <= UartEventCapacity /\ Len(poll'.chunk) <= ChunkCapacity
    BY <1>1, <2>2, <2>3, <2>4, <2>5, <2>6, LinesConstants
  <2> QED BY <1>1, <2>5, <2>6, <2>7, <2>8, PollPasses
<1>8. CASE Lines!Refuse \/ (Lines!UartByte /\ Lines!Saturated)
  <2>1. Lines!Invalidate(poll.chunk) /\ poll' = [poll EXCEPT !.at = "async", !.chunk = <<>>] /\ UNCHANGED <<ring, ran>>
    BY <1>8 DEF Lines!Refuse, Lines!UartByte
  <2>2. "uart" \in poll.up
    BY <1>2, <1>8 DEF Lines!Refuse, Lines!UartByte, Lines!At, UartPlaces
  <2>3. poll' \in PollStates /\ poll'.at = "async" /\ poll'.chunk = <<>> /\ poll'.up = poll.up
    BY <1>1, <1>3, <2>1 DEF PollStates
  <2>4. /\ line' \in [Lines!Ports -> PortLines] /\ ~line'["usb"].damaged /\ line'["usb"] = line["usb"]
        /\ driver' \in UartDrivers /\ Len(driver'.rx) <= RxCapacity /\ Len(driver'.events) <= UartEventCapacity
    BY <1>1, <2>1, InputDropped
  <2>5. \A p \in Lines!Ports : p \notin poll.up => line'[p] = line[p]
    BY <2>2, <2>4 DEF Lines!Ports
  <2> QED BY <1>1, <1>3, <2>1, <2>3, <2>4, <2>5, PollPasses DEF UartPlaces
<1>9. CASE Lines!Accept \/ Lines!UartDone
  <2>1. UNCHANGED <<line, driver, ring, ran>> /\ (Lines!Go("bytes") \/ Lines!Go("async")) /\ "uart" \in poll.up
    BY <1>2, <1>9 DEF Lines!Accept, Lines!UartDone, Lines!At, UartPlaces
  <2>2. poll' \in PollStates /\ poll'.up = poll.up /\ poll'.chunk = poll.chunk /\ poll'.at # "closed"
    <3>1. PICK p \in {"bytes", "async"} : poll' = [poll EXCEPT !.at = p]
      BY <2>1 DEF Lines!Go
    <3>2. p \in UartPlaces \cup {"async"} /\ p # "closed"
      BY <3>1 DEF UartPlaces
    <3> QED BY <1>1, <3>1, <3>2, PollGoes
  <2> QED BY <1>1, <2>1, <2>2, PollPasses
<1>10. CASE Lines!UartByte /\ ~Lines!Saturated
  <2>1. /\ Lines!ConsumeFrom("uart", Head(poll.chunk)) /\ poll' = [poll EXCEPT !.chunk = Tail(@)] /\ UNCHANGED driver
        /\ poll.chunk # <<>> /\ poll.at = "bytes" /\ "uart" \in poll.up
    BY <1>2, <1>10 DEF Lines!UartByte, Lines!At, UartPlaces
  <2>2. Head(poll.chunk) \in LineBytes /\ Tail(poll.chunk) \in Seq(LineBytes) /\ Len(Tail(poll.chunk)) <= ChunkCapacity
    BY <1>1, <2>1, LinesConstants
  <2>3. poll' \in PollStates /\ poll'.at = "bytes" /\ poll'.chunk = Tail(poll.chunk) /\ poll'.up = poll.up
    BY <1>1, <2>1, <2>2 DEF PollStates
  <2>4. /\ line' \in [Lines!Ports -> PortLines] /\ ~line'["usb"].damaged /\ \A p \in Lines!Ports : p # "uart" => line'[p] = line[p]
        /\ ~ran' /\ RingSound(ring')
    <3>1. "uart" \in Lines!Ports
      BY DEF Lines!Ports
    <3> QED BY <2>1, <2>2, <3>1, ByteConsumed
  <2>5. \A p \in Lines!Ports : p \notin poll.up => line'[p] = line[p]
    BY <2>1, <2>4
  <2> QED BY <1>1, <2>1, <2>2, <2>3, <2>4, <2>5, PollPasses
<1> QED BY <1>4, <1>5, <1>6, <1>7, <1>8, <1>9, <1>10 DEF Lines!Loop

LEMMA LinesSteps == ASSUME LinesInv, Lines!Next PROVE LinesInv'
BY ConsoleOpens, HardwareKeeps, PollKeeps DEF Lines!Next

LEMMA LinesRest == ASSUME LinesInv, UNCHANGED Lines!vars PROVE LinesInv'
BY DEF LinesInv, LinesTyped, Lines!vars

LEMMA LinesStart == ASSUME Lines!Init PROVE LinesInv
<1>1. Lines!Fresh \in PortLines /\ ~Lines!Fresh.damaged
  BY LinesConstants DEF Lines!Fresh, PortLines
<1>2. line \in [Lines!Ports -> PortLines] /\ \A p \in Lines!Ports : line[p] = Lines!Fresh
  BY <1>1 DEF Lines!Init
<1>3. ~line["usb"].damaged
  BY <1>1, <1>2 DEF Lines!Ports
<1>4. <<>> \in Seq(LineBytes) /\ <<>> \in Seq({"data", "error"}) /\ Len(<<>>) = 0
  OBVIOUS
<1>5. driver = [rx |-> <<>>, events |-> <<>>, gap |-> "none"]
  BY DEF Lines!Init, Lines!Quiet, Lines!None
<1>6. driver \in UartDrivers /\ driver.rx = <<>> /\ driver.events = <<>>
  BY <1>4, <1>5 DEF UartDrivers, Lines!None
<1>7. poll = [at |-> "closed", looked |-> 0, chunk |-> <<>>, up |-> {}]
  BY DEF Lines!Init
<1>8. poll \in PollStates /\ poll.at = "closed" /\ poll.chunk = <<>> /\ poll.up = {}
  BY <1>4, <1>7 DEF PollStates
<1>9. LinesTyped
  BY <1>2, <1>4, <1>6, <1>8, LinesConstants DEF LinesTyped
<1>10. RingSound(ring) /\ ~ran
  BY EmptyRingSound DEF Lines!Init
<1> QED BY <1>2, <1>3, <1>8, <1>9, <1>10 DEF LinesInv, UartPlaces

(* A line that runs is whole, and what the UART is given is what was said. *)
LEMMA LinesKeep == ASSUME LinesInv PROVE Lines!LinesAreWhole
<1>1. Lines!TypeOK
  <2>1. \A p \in Lines!Ports : line[p].length \in 0 .. LineCapacity - 1
    BY DEF LinesInv, LinesTyped, PortLines
  <2>2. ring.used \in 0 .. TxCapacity
    BY DEF LinesInv, RingSound, Rings
  <2> QED BY <2>1, <2>2 DEF LinesInv, LinesTyped, Lines!TypeOK
<1>2. Lines!RingInOrder
  BY DEF LinesInv, RingSound, Ordered, Lines!RingInOrder
<1> QED BY <1>1, <1>2 DEF LinesInv, Lines!LinesAreWhole

-----------------------------------------------------------------------------
(* The commands of the console.                                            *)
\* a command, with what else is passed before it, asks only in its turn
CommandCalls(c, gates) ==
  /\ "idle" \in c.needs \cup gates \/ c.call \in {"standby", "cancel", "maintenance", "trial"}
  /\ "nand" \in c.needs \cup gates \/ c.call \in {"journal", "radio", "format"}
  /\ c.call \in {"rollback", "output", "usage", "pairing"} => "local" \in c.needs
  /\ c.call \in {"update", "maintenance"} => "notest" \in c.needs
  /\ c.call \in {"update", "rollback", "test"} => "notrial" \in c.needs
  /\ c.call = "test" => /\ "notest" \in c.needs \/ (c.command = "trace" /\ "local" \in c.needs)
                        /\ c.command \in {"inputs", "ui", "transport", "perf", "trace"}
CommandFits(c, gates) ==
  /\ c = [command |-> c.command, action |-> c.action, call |-> c.call, needs |-> c.needs]
  /\ c.call = "read" \/ CommandCalls(c, gates)

\* the tests a console may run, and how its news is addressed
ConsoleTests == [kind : {"none", "inputs", "ui", "transport", "perf", "trace"}, stage : 0 .. 2, asker : Console!Ports \cup {"none"}]
ConsoleReplies == [async : Console!Ports, observing : BOOLEAN, touch : Console!Ports, asker : Console!Ports]
Addressed(kind, asker, to) == to = asker \/ (kind = "trace" /\ asker = "usb")
LateAddressed(l) == l.to = l.asker \/ (l.of = "trace" /\ l.asker = "usb")

CommandsInv ==
  /\ test \in ConsoleTests /\ reply \in ConsoleReplies
  /\ capture \in BOOLEAN /\ (capture <=> test.kind = "inputs")
  /\ test.kind = "none" => test = Console!NoTest
  /\ IF test = Console!NoTest THEN reply.async = "usb" ELSE Addressed(test.kind, test.asker, reply.async)
  /\ reply.touch = reply.asker
  /\ Console!DeedsInTurn /\ \A l \in late : LateAddressed(l)

(* The table of commands: each passes the gates that its call stands for.  *)
LEMMA FamilyIs ==
  ASSUME NEW command, NEW actions, NEW call, NEW needs
  PROVE  \A c \in Console!Family(command, actions, call, needs) :
           /\ c = [command |-> c.command, action |-> c.action, call |-> c.call, needs |-> c.needs]
           /\ c.command = command /\ c.call = call /\ c.needs = needs
BY DEF Console!Family

LEMMA ReadsFit ==
  ASSUME NEW command, NEW actions, NEW needs, NEW gates
  PROVE  \A c \in Console!Family(command, actions, "read", needs) : CommandFits(c, gates)
BY FamilyIs DEF CommandFits

LEMMA PlainIs ==
  ASSUME NEW commands, NEW call, NEW needs
  PROVE  \A c \in Console!Plain(commands, call, needs) :
           /\ c = [command |-> c.command, action |-> c.action, call |-> c.call, needs |-> c.needs]
           /\ c.command \in commands /\ c.call = call /\ c.needs = needs
<1>1. SUFFICES ASSUME NEW c \in Console!Plain(commands, call, needs)
               PROVE  /\ c = [command |-> c.command, action |-> c.action, call |-> c.call, needs |-> c.needs]
                      /\ c.command \in commands /\ c.call = call /\ c.needs = needs
  OBVIOUS
<1>2. PICK d \in commands : c \in Console!Family(d, {""}, call, needs)
  BY <1>1 DEF Console!Plain
<1>3. PICK a \in {""} : c = [command |-> d, action |-> a, call |-> call, needs |-> needs]
  BY <1>2 DEF Console!Family
<1>4. c.command = d /\ c.action = a /\ c.call = call /\ c.needs = needs
  BY <1>3
<1> QED BY <1>3, <1>4

LEMMA GatedFits ==
  ASSUME NEW family, NEW gates, \A c \in family : CommandFits(c, gates)
  PROVE  \A c \in Console!Gated(family, gates) : CommandFits(c, {})
<1>1. SUFFICES ASSUME NEW d \in family PROVE CommandFits([d EXCEPT !.needs = @ \union gates], {})
  BY DEF Console!Gated
<1>2. /\ d = [command |-> d.command, action |-> d.action, call |-> d.call, needs |-> d.needs]
      /\ d.call = "read" \/ CommandCalls(d, gates)
  BY DEF CommandFits
<1> DEFINE c == [command |-> d.command, action |-> d.action, call |-> d.call, needs |-> d.needs \cup gates]
<1>3. [d EXCEPT !.needs = @ \union gates] = c
  <2>1. PICK k, a, f, n : d = [command |-> k, action |-> a, call |-> f, needs |-> n]
    BY <1>2
  <2>2. d.command = k /\ d.action = a /\ d.call = f /\ d.needs = n
    BY <2>1
  <2>3. [[command |-> k, action |-> a, call |-> f, needs |-> n] EXCEPT !.needs = n \cup gates]
          = [command |-> k, action |-> a, call |-> f, needs |-> n \cup gates]
    OBVIOUS
  <2>4. [d EXCEPT !.needs = @ \union gates] = [command |-> k, action |-> a, call |-> f, needs |-> n \cup gates]
    BY <2>1, <2>2, <2>3
  <2> QED BY <2>2, <2>4
<1>4. c.command = d.command /\ c.call = d.call /\ c.needs = d.needs \cup gates /\ c.action = d.action
  OBVIOUS
<1>5. c = [command |-> c.command, action |-> c.action, call |-> c.call, needs |-> c.needs]
  OBVIOUS
<1> HIDE DEF c
<1>6. c.call = "read" \/ CommandCalls(c, {})
  BY <1>2, <1>4 DEF CommandCalls
<1> QED BY <1>3, <1>5, <1>6 DEF CommandFits

LEMMA CachedReadsFit == \A c \in Console!CachedReads : CommandFits(c, {})
BY FamilyIs, PlainIs DEF Console!CachedReads, CommandFits, CommandCalls

LEMMA MaintenanceRestartFit == \A c \in Console!MaintenanceRestart : CommandFits(c, {})
BY FamilyIs, PlainIs DEF Console!MaintenanceRestart, CommandFits, CommandCalls

LEMMA ColdFit == \A c \in Console!Cold : CommandFits(c, {})
BY FamilyIs, PlainIs DEF Console!Cold, CommandFits, CommandCalls

LEMMA ContrastFit == \A c \in Console!Contrast : CommandFits(c, {})
BY FamilyIs, PlainIs DEF Console!Contrast, CommandFits, CommandCalls

LEMMA FactoryScaleFit == \A c \in Console!FactoryScale : CommandFits(c, {})
BY FamilyIs, PlainIs DEF Console!FactoryScale, CommandFits, CommandCalls

LEMMA StackBudgetFit == \A c \in Console!StackBudget : CommandFits(c, {})
BY FamilyIs, PlainIs DEF Console!StackBudget, CommandFits, CommandCalls

LEMMA SleepIoFit == \A c \in Console!SleepIo : CommandFits(c, {})
BY FamilyIs, PlainIs DEF Console!SleepIo, CommandFits, CommandCalls

LEMMA GaugeTraceFit == \A c \in Console!GaugeTrace : CommandFits(c, {})
BY FamilyIs, PlainIs DEF Console!GaugeTrace, CommandFits, CommandCalls

LEMMA OtaStatusFit == \A c \in Console!OtaStatus : CommandFits(c, {})
BY FamilyIs, PlainIs DEF Console!OtaStatus, CommandFits, CommandCalls

LEMMA LivenessFit == \A c \in Console!Liveness : CommandFits(c, {})
BY FamilyIs, PlainIs DEF Console!Liveness, CommandFits, CommandCalls

LEMMA SleepPoliciesFit == \A c \in Console!SleepPolicies : CommandFits(c, {"nand"})
BY FamilyIs, PlainIs DEF Console!SleepPolicies, CommandFits, CommandCalls

LEMMA SettingsFit == \A c \in Console!Settings : CommandFits(c, {"nand"})
<1>1. \A c \in Console!Family("settings", {"usb", "ui", "wifi list", "get"}, "read", {}) : CommandFits(c, {"nand"})
  BY Zenon, ReadsFit
<1>2. \A c \in Console!Family("settings", {"wifi save", "wifi forget", "wifi restart"}, "config", {"idle", "healthy", "notrial"}) :
        CommandFits(c, {"nand"})
  <2> SUFFICES ASSUME NEW actions
               PROVE  \A c \in Console!Family("settings", actions, "config", {"idle", "healthy", "notrial"}) : CommandFits(c, {"nand"})
    BY Zenon
  <2> QED BY FamilyIs DEF CommandFits, CommandCalls
<1>3. \A c \in Console!Family("settings", {"set", "restore", "save"}, "display", {"idle", "healthy", "notrial"}) : CommandFits(c, {"nand"})
  BY FamilyIs DEF CommandFits, CommandCalls
<1>4. \A c \in Console!Plain({"display-settings"}, "read", {}) : CommandFits(c, {"nand"})
  BY PlainIs DEF CommandFits, CommandCalls
<1> QED BY <1>1, <1>2, <1>3, <1>4 DEF Console!Settings

LEMMA BankPulseFit == \A c \in Console!BankPulse : CommandFits(c, {"nand"})
BY FamilyIs, PlainIs DEF Console!BankPulse, CommandFits, CommandCalls

LEMMA OtaMaintenanceFit == \A c \in Console!OtaMaintenance : CommandFits(c, {"nand"})
BY FamilyIs, PlainIs DEF Console!OtaMaintenance, CommandFits, CommandCalls

LEMMA NandCommandsFit == \A c \in Console!NandCommands : CommandFits(c, {"idle"})
BY FamilyIs, PlainIs DEF Console!NandCommands, CommandFits, CommandCalls

LEMMA PowerFit == \A c \in Console!Power : CommandFits(c, {"idle"})
<1>1. \A c \in Console!Family("power", {""}, "read", {}) : CommandFits(c, {"idle"})
  BY Zenon, ReadsFit
<1>2. \A c \in Console!Family("power", {"baseline", "radio", "eco"}, "radio", {}) : CommandFits(c, {"idle"})
  BY FamilyIs DEF CommandFits, CommandCalls
<1> QED BY <1>1, <1>2 DEF Console!Power

LEMMA OtaRequestsFit == \A c \in Console!OtaRequests : CommandFits(c, {"nand", "idle"})
BY FamilyIs, PlainIs DEF Console!OtaRequests, CommandFits, CommandCalls

LEMMA ProbesFit == \A c \in Console!Probes : CommandFits(c, {"nand", "idle"})
BY FamilyIs, PlainIs DEF Console!Probes, CommandFits, CommandCalls

LEMMA ObserversFit == \A c \in Console!Observers : CommandFits(c, {"nand", "idle"})
BY FamilyIs, PlainIs DEF Console!Observers, CommandFits, CommandCalls

LEMMA NetworkFit == \A c \in Console!Network : CommandFits(c, {"nand", "idle"})
BY FamilyIs, PlainIs DEF Console!Network, CommandFits, CommandCalls

LEMMA IdleFrequencyFit == \A c \in Console!IdleFrequency : CommandFits(c, {"nand", "idle"})
<1>1. \A c \in Console!Family("display-idle-frequency", {"160", "320"}, "radio", {"lit"}) : CommandFits(c, {"nand", "idle"})
  BY FamilyIs DEF CommandFits, CommandCalls
<1>2. \A c \in Console!Family("display-idle-frequency", {""}, "read", {}) : CommandFits(c, {"nand", "idle"})
  BY Zenon, ReadsFit
<1>3. \A c \in Console!Plain({"idle-runtime"}, "read", {}) : CommandFits(c, {"nand", "idle"})
  BY PlainIs DEF CommandFits, CommandCalls
<1> QED BY <1>1, <1>2, <1>3 DEF Console!IdleFrequency

LEMMA TwtFit == \A c \in Console!Twt : CommandFits(c, {"nand", "idle"})
BY FamilyIs, PlainIs DEF Console!Twt, CommandFits, CommandCalls

LEMMA ClocksFit == \A c \in Console!Clocks : CommandFits(c, {"nand", "idle"})
BY FamilyIs, PlainIs DEF Console!Clocks, CommandFits, CommandCalls

LEMMA GaugeAuditsFit == \A c \in Console!GaugeAudits : CommandFits(c, {"nand", "idle"})
BY FamilyIs, PlainIs DEF Console!GaugeAudits, CommandFits, CommandCalls

LEMMA GaugeScaleFit == \A c \in Console!GaugeScale : CommandFits(c, {"nand", "idle"})
BY FamilyIs, PlainIs DEF Console!GaugeScale, CommandFits, CommandCalls

LEMMA SyslogFit == \A c \in Console!Syslog : CommandFits(c, {"nand", "idle"})
BY FamilyIs, PlainIs DEF Console!Syslog, CommandFits, CommandCalls

LEMMA GaugeReadsFit == \A c \in Console!GaugeReads : CommandFits(c, {"nand", "idle"})
<1>1. \A c \in Console!Plain({"gauge-engine"}, "read", {"healthy"}) : CommandFits(c, {"nand", "idle"})
  BY PlainIs DEF CommandFits, CommandCalls
<1>2. \A c \in Console!Plain({"gauge-mode", "gauge", "gauge-fcc-status", "gauge-public-extra-field", "gauge-profile-field"}, "read", {}) : CommandFits(c, {"nand", "idle"})
  BY PlainIs DEF CommandFits, CommandCalls
<1>3. \A c \in Console!Family("gauge-thresholds", {""}, "read", {}) : CommandFits(c, {"nand", "idle"})
  BY Zenon, ReadsFit
<1>4. \A c \in Console!Family("gauge-thresholds", {"audit"}, "gauge", {}) : CommandFits(c, {"nand", "idle"})
  BY FamilyIs DEF CommandFits, CommandCalls
<1>5. \A c \in Console!Family("gauge-fcc-limit", {"apply"}, "gauge", {"local"}) : CommandFits(c, {"nand", "idle"})
  BY FamilyIs DEF CommandFits, CommandCalls
<1>6. \A c \in Console!Family("gauge-ocv", {"measure"}, "gauge", {"local"}) : CommandFits(c, {"nand", "idle"})
  BY FamilyIs DEF CommandFits, CommandCalls
<1> QED BY <1>1, <1>2, <1>3, <1>4, <1>5, <1>6 DEF Console!GaugeReads

LEMMA NandProbeFit == \A c \in Console!NandProbe : CommandFits(c, {"nand", "idle"})
<1>1. \A c \in Console!Family("nand-probe", {"", "page"}, "read", {"dark", "healthy"}) : CommandFits(c, {"nand", "idle"})
  BY Zenon, ReadsFit
<1> QED BY <1>1 DEF Console!NandProbe

LEMMA GaugeWritesFit == \A c \in Console!GaugeWrites : CommandFits(c, {"nand", "idle"})
BY FamilyIs, PlainIs DEF Console!GaugeWrites, CommandFits, CommandCalls

LEMMA GaugeDarkroomFit == \A c \in Console!GaugeDarkroom : CommandFits(c, {"nand", "idle"})
BY FamilyIs, PlainIs DEF Console!GaugeDarkroom, CommandFits, CommandCalls

LEMMA QuotasFit == \A c \in Console!Quotas : CommandFits(c, {"nand", "idle"})
BY FamilyIs, PlainIs DEF Console!Quotas, CommandFits, CommandCalls

LEMMA DisplaysFit == \A c \in Console!Displays : CommandFits(c, {"nand", "idle"})
BY FamilyIs, PlainIs DEF Console!Displays, CommandFits, CommandCalls

LEMMA TestsFit == \A c \in Console!Tests : CommandFits(c, {"nand", "idle"})
BY FamilyIs, PlainIs DEF Console!Tests, CommandFits, CommandCalls

LEMMA OutputsFit == \A c \in Console!Outputs : CommandFits(c, {"nand", "idle"})
BY FamilyIs, PlainIs DEF Console!Outputs, CommandFits, CommandCalls

LEMMA CommandsFit == \A c \in Console!Commands : CommandFits(c, {})
<1>1. \A c \in Console!Early : CommandFits(c, {})
  BY CachedReadsFit, MaintenanceRestartFit, ColdFit, ContrastFit, FactoryScaleFit, StackBudgetFit, SleepIoFit, GaugeTraceFit DEF Console!Early
<1>2. \A c \in Console!HandleLine : CommandFits(c, {})
  <2>1. \A c \in Console!SleepPolicies \union Console!Settings \union Console!BankPulse \union Console!OtaMaintenance : CommandFits(c, {"nand"})
    BY SleepPoliciesFit, SettingsFit, BankPulseFit, OtaMaintenanceFit
  <2> QED BY <2>1, GatedFits, OtaStatusFit DEF Console!HandleLine
<1>3. \A c \in Console!HandleIdle : CommandFits(c, {})
  <2>1. \A c \in Console!NandCommands \union Console!Power : CommandFits(c, {"idle"})
    BY NandCommandsFit, PowerFit
  <2> DEFINE gated == Console!OtaRequests \union Console!Probes \union Console!Observers \union Console!Network \union Console!IdleFrequency \union Console!Twt
                      \union Console!Clocks \union Console!GaugeAudits \union Console!GaugeScale \union Console!Syslog \union Console!GaugeReads
                      \union Console!NandProbe \union Console!GaugeWrites \union Console!GaugeDarkroom \union Console!Quotas \union Console!Displays
                      \union Console!Tests \union Console!Outputs
  <2>2. \A c \in gated : CommandFits(c, {"nand", "idle"})
    BY OtaRequestsFit, ProbesFit, ObserversFit, NetworkFit, IdleFrequencyFit, TwtFit, ClocksFit, GaugeAuditsFit, GaugeScaleFit, SyslogFit, GaugeReadsFit, NandProbeFit, GaugeWritesFit, GaugeDarkroomFit, QuotasFit, DisplaysFit, TestsFit, OutputsFit
  <2>3. Console!HandleIdle = Console!Liveness \union Console!Gated(Console!NandCommands \union Console!Power, {"idle"}) \union Console!Gated(gated, {"nand", "idle"})
    BY DEF Console!HandleIdle
  <2> HIDE DEF gated
  <2> QED BY <2>1, <2>2, <2>3, GatedFits, LivenessFit
<1> QED BY <1>1, <1>2, <1>3 DEF Console!Commands

LEMMA NothingAsked == ASSUME deed' = Console!NoDeed PROVE Console!DeedsInTurn'
<1>1. deed'.call = "none"
  BY DEF Console!NoDeed, Console!None
<1> QED BY <1>1 DEF Console!DeedsInTurn, Console!None

(* What a line makes of the world it ran in.                               *)
LEMMA LineInTurn ==
  ASSUME NEW c \in Console!Commands, NEW port \in Console!Ports, CommandsInv, Console!Line(c, port)
  PROVE  /\ c.call = "test" => c.command \in {"inputs", "ui", "transport", "perf", "trace"}
         /\ c.call = "test" /\ test # Console!NoTest => c.command = "trace" /\ port = "usb"
         /\ Console!DeedsInTurn'
<1>1. c.call # "read" /\ c.needs \subseteq Console!World(c, port) /\ deed' = [call |-> c.call, port |-> port, world |-> Console!World(c, port)]
  BY DEF Console!Line
<1>2. CommandCalls(c, {})
  BY <1>1, CommandsFit DEF CommandFits
<1>3. /\ "local" \in c.needs => port = "usb"
      /\ "notest" \in c.needs => test = Console!NoTest
  BY <1>1 DEF Console!World
<1>4. /\ "idle" \in c.needs => "idle" \in Console!World(c, port)
      /\ "nand" \in c.needs => "nand" \in Console!World(c, port)
      /\ "notrial" \in c.needs => "notrial" \in Console!World(c, port)
      /\ "notest" \in c.needs => "notest" \in Console!World(c, port)
  BY <1>1
<1>5. c.call = "test" => test'.kind \in {c.command, "none"}
  <2>1. SUFFICES ASSUME c.call = "test" PROVE test'.kind \in {c.command, "none"}
    OBVIOUS
  <2>2. Console!TestStarts(c, port)
    BY <2>1 DEF Console!Line, Console!Cancels, Console!TouchAsked, Console!Asks
  <2>3. PICK ready \in BOOLEAN : test' = Console!Started(c.command, port, ready)
    BY <2>2 DEF Console!TestStarts
  <2> QED BY <2>3 DEF Console!Started, Console!NoTest, Console!None
<1>6. Console!DeedsInTurn'
  <2>1. deed'.call = c.call /\ deed'.port = port /\ deed'.world = Console!World(c, port)
    BY <1>1
  <2> QED BY <1>2, <1>3, <1>4, <1>5, <2>1 DEF CommandCalls, Console!DeedsInTurn, Console!None
<1> QED BY <1>2, <1>3, <1>6 DEF CommandCalls

LEMMA LineKeeps == ASSUME CommandsInv, NEW c \in Console!Commands, NEW port \in Console!Ports, Console!Line(c, port) PROVE CommandsInv'
<1>1. /\ test \in ConsoleTests /\ reply \in ConsoleReplies /\ capture \in BOOLEAN /\ (capture <=> test.kind = "inputs")
      /\ test.kind = "none" => test = Console!NoTest
      /\ IF test = Console!NoTest THEN reply.async = "usb" ELSE Addressed(test.kind, test.asker, reply.async)
      /\ reply.touch = reply.asker
  BY DEF CommandsInv
<1>2. late' = {} /\ Console!DeedsInTurn' /\ ~Console!Released
  BY <1>1, LineInTurn DEF Console!Line, Console!Released
<1>3. Console!NoTest \in ConsoleTests /\ Console!NoTest.kind = "none"
  BY DEF Console!NoTest, Console!None, ConsoleTests
<1>4. \A a \in Console!Ports : /\ [reply EXCEPT !.async = a] \in ConsoleReplies /\ [reply EXCEPT !.async = a].async = a
                       /\ [reply EXCEPT !.async = a].touch = reply.touch /\ [reply EXCEPT !.async = a].asker = reply.asker
  BY <1>1 DEF ConsoleReplies
<1>5. reply.async \in Console!Ports /\ "usb" \in Console!Ports
  BY <1>1 DEF ConsoleReplies, Console!Ports
<1>6. CASE Console!TestStarts(c, port)
  <2>1. PICK ready \in BOOLEAN :
          /\ c.command = "inputs" => ready
          /\ test' = Console!Started(c.command, port, ready) /\ reply' = [reply EXCEPT !.async = Console!Routed(test, Console!Started(c.command, port, ready), port)]
    BY <1>6 DEF Console!TestStarts
  <2>2. c.call = "test" /\ capture' = (c.command = "inputs") /\ c.command \in {"inputs", "ui", "transport", "perf", "trace"}
    BY <1>2, <1>6, LineInTurn DEF Console!TestStarts
  <2>3. CASE ~ready
    <3>1. test' = Console!NoTest /\ reply' = [reply EXCEPT !.async = "usb"] /\ ~capture' /\ c.command # "inputs"
      BY <2>1, <2>2, <2>3 DEF Console!Started, Console!Routed
    <3>2. capture' \in BOOLEAN /\ (capture' <=> test'.kind = "inputs")
      BY <1>3, <2>2, <3>1
    <3>3. reply' \in ConsoleReplies /\ reply'.async = "usb" /\ reply'.touch = reply'.asker
      BY <1>1, <1>4, <1>5, <3>1
    <3> QED BY <1>2, <1>3, <3>1, <3>2, <3>3 DEF CommandsInv, LateAddressed
  <2>4. CASE ready
    <3>1. test' = [kind |-> c.command, stage |-> 0, asker |-> port]
      BY <2>1, <2>4 DEF Console!Started
    <3>2. test' \in ConsoleTests /\ test'.kind = c.command /\ test'.asker = port /\ test'.kind # "none"
      BY <2>2, <3>1 DEF ConsoleTests
    <3>3. test' # Console!NoTest
      BY <1>3, <3>2
    <3>4. PICK a \in Console!Ports : reply' = [reply EXCEPT !.async = a] /\ Addressed(c.command, port, a)
      <4>1. CASE test = Console!NoTest
        <5>1. reply' = [reply EXCEPT !.async = port]
          BY <2>1, <2>4, <3>1, <3>3, <4>1 DEF Console!Routed, Console!Started
        <5> QED BY <5>1 DEF Addressed
      <4>2. CASE test # Console!NoTest
        <5>1. reply' = [reply EXCEPT !.async = reply.async]
          BY <2>1, <2>4, <3>1, <3>3, <4>2 DEF Console!Routed, Console!Started
        <5>2. c.command = "trace" /\ port = "usb"
          BY <2>2, <4>2, LineInTurn
        <5> QED BY <1>5, <5>1, <5>2 DEF Addressed
      <4> QED BY <4>1, <4>2
    <3>5. reply' \in ConsoleReplies /\ reply'.async = a /\ reply'.touch = reply'.asker
      BY <1>1, <1>4, <3>4
    <3>6. capture' \in BOOLEAN /\ (capture' <=> test'.kind = "inputs")
      BY <2>2, <3>2
    <3> QED BY <1>2, <3>2, <3>3, <3>4, <3>5, <3>6 DEF CommandsInv, LateAddressed
  <2> QED BY <2>3, <2>4
<1>7. CASE Console!Cancels(c, port)
  <2>1. test' = Console!NoTest /\ reply' = [reply EXCEPT !.async = "usb"] /\ ~capture'
    BY <1>2, <1>7 DEF Console!Cancels, Console!Routed
  <2>2. capture' \in BOOLEAN
    BY <1>1, <1>7 DEF Console!Cancels, Console!Released
  <2> QED BY <1>1, <1>2, <1>3, <1>4, <1>5, <2>1, <2>2 DEF CommandsInv, LateAddressed
<1>8. CASE Console!TouchAsked(c, port)
  <2>1. UNCHANGED <<test, capture>> /\ (reply' = reply \/ reply' = [reply EXCEPT !.observing = TRUE, !.touch = port, !.asker = port])
    BY <1>8 DEF Console!TouchAsked
  <2>2. reply' \in ConsoleReplies /\ reply'.async = reply.async /\ reply'.touch = reply'.asker
    BY <1>1, <2>1 DEF ConsoleReplies
  <2> QED BY <1>1, <1>2, <2>1, <2>2 DEF CommandsInv, LateAddressed
<1>9. CASE Console!Asks(c)
  BY <1>1, <1>2, <1>9 DEF Console!Asks, CommandsInv, LateAddressed
<1> QED BY <1>6, <1>7, <1>8, <1>9 DEF Console!Line

(* News of a test goes where the test is answered.                         *)
LEMMA PollAnswers == ASSUME CommandsInv, Console!PollAsync PROVE CommandsInv'
<1>1. /\ test \in ConsoleTests /\ reply \in ConsoleReplies /\ capture \in BOOLEAN /\ (capture <=> test.kind = "inputs")
      /\ test.kind = "none" => test = Console!NoTest
      /\ IF test = Console!NoTest THEN reply.async = "usb" ELSE Addressed(test.kind, test.asker, reply.async)
      /\ reply.touch = reply.asker
  BY DEF CommandsInv
<1>2. Console!NoTest \in ConsoleTests /\ Console!NoTest.kind = "none"
  BY DEF Console!NoTest, Console!None, ConsoleTests
<1>3. PICK news \in BOOLEAN, last \in BOOLEAN, step \in Console!Steps \union (IF test = Console!NoTest THEN {[Console!Over EXCEPT !.said = FALSE]} ELSE {}) :
        /\ test' = step.test /\ capture' = (capture /\ (test.kind = "inputs" => step.test # Console!NoTest))
        /\ late' = Console!TestNews(step) \union (IF news THEN Console!TouchNews ELSE {})
        /\ reply' = [reply EXCEPT !.observing = @ /\ ~(news /\ last), !.async = IF step.test = Console!NoTest THEN "usb" ELSE @]
  BY DEF Console!PollAsync
<1>4. /\ step.said => test # Console!NoTest
      /\ \/ step.test = Console!NoTest
         \/ test # Console!NoTest /\ \E s \in 0 .. 2 : step.test = [test EXCEPT !.stage = s]
  <2>1. CASE test = Console!NoTest
    <3>1. Console!Steps = {} /\ step = [Console!Over EXCEPT !.said = FALSE]
      BY <1>2, <1>3, <2>1 DEF Console!Steps, Console!None
    <3>2. step.test = Console!NoTest /\ step.said = FALSE
      BY <3>1 DEF Console!Over
    <3> QED BY <3>2
  <2>2. CASE test # Console!NoTest
    <3>1. step \in Console!Steps /\ test.stage \in 0 .. 2
      BY <1>1, <1>3, <2>2 DEF ConsoleTests
    <3>2. \/ step = Console!Over
          \/ \E s \in 0 .. 2 : step.test = [test EXCEPT !.stage = s]
      <4>1. CASE test.kind = "inputs"
        <5>1. step \in {Console!On(0, FALSE), Console!On(0, TRUE), Console!Over}
          BY <3>1, <4>1 DEF Console!Steps, Console!None
        <5> QED BY <5>1 DEF Console!On
      <4>2. CASE test.kind = "transport"
        <5>1. step \in {Console!On(0, FALSE), Console!Over}
          BY <3>1, <4>2 DEF Console!Steps, Console!None
        <5> QED BY <5>1 DEF Console!On
      <4>3. CASE test.kind = "ui"
        <5>1. step \in {Console!On(test.stage, FALSE), Console!Over} \/ (test.stage < 2 /\ step = Console!On(test.stage + 1, TRUE))
          BY <3>1, <4>3 DEF Console!Steps, Console!None
        <5>2. test.stage < 2 => test.stage + 1 \in 0 .. 2
          BY <3>1
        <5> QED BY <3>1, <5>1, <5>2 DEF Console!On
      <4>4. CASE test.kind \notin {"none", "inputs", "transport", "ui"}
        <5>1. step \in {Console!On(0, FALSE), Console!On(1, FALSE), Console!Over}
          BY <3>1, <4>4 DEF Console!Steps, Console!None
        <5> QED BY <5>1 DEF Console!On
      <4>5. CASE test.kind = "none"
        BY <3>1, <4>5 DEF Console!Steps, Console!None
      <4> QED BY <4>1, <4>2, <4>3, <4>4, <4>5
    <3> QED BY <2>2, <3>2 DEF Console!Over
  <2> QED BY <2>1, <2>2
<1>5. /\ test' \in ConsoleTests /\ (test'.kind = "none" => test' = Console!NoTest)
      /\ test' # Console!NoTest => test # Console!NoTest /\ test'.kind = test.kind /\ test'.asker = test.asker /\ test'.kind # "none"
  <2>1. CASE step.test = Console!NoTest
    BY <1>2, <1>3, <2>1
  <2>2. CASE test # Console!NoTest /\ \E s \in 0 .. 2 : step.test = [test EXCEPT !.stage = s]
    <3>1. PICK s \in 0 .. 2 : test' = [test EXCEPT !.stage = s]
      BY <1>3, <2>2
    <3>2. test' \in ConsoleTests /\ test'.kind = test.kind /\ test'.asker = test.asker
      BY <1>1, <3>1 DEF ConsoleTests
    <3> QED BY <1>1, <2>2, <3>2
  <2> QED BY <1>4, <2>1, <2>2
<1>6. capture' \in BOOLEAN /\ (capture' <=> test'.kind = "inputs")
  BY <1>1, <1>2, <1>3, <1>5
<1>7. /\ reply' \in ConsoleReplies /\ reply'.touch = reply'.asker
      /\ reply'.async = IF test' = Console!NoTest THEN "usb" ELSE reply.async
  <2>1. PICK o \in BOOLEAN, a \in Console!Ports : reply' = [reply EXCEPT !.observing = o, !.async = a] /\ a = IF test' = Console!NoTest THEN "usb" ELSE reply.async
    <3>1. reply.observing \in BOOLEAN /\ reply.async \in Console!Ports /\ "usb" \in Console!Ports
      BY <1>1 DEF ConsoleReplies, Console!Ports
    <3>2. (reply.observing /\ ~(news /\ last)) \in BOOLEAN
      BY <3>1
    <3> QED BY <1>3, <3>1, <3>2
  <2> QED BY <1>1, <2>1 DEF ConsoleReplies
<1>8. IF test' = Console!NoTest THEN reply'.async = "usb" ELSE Addressed(test'.kind, test'.asker, reply'.async)
  BY <1>1, <1>5, <1>7
<1>9. ASSUME NEW l \in late' PROVE LateAddressed(l)
  <2>1. CASE l \in Console!TestNews(step)
    <3>1. l = [to |-> reply.async, asker |-> test.asker, of |-> test.kind] /\ test # Console!NoTest
      BY <1>4, <2>1 DEF Console!TestNews
    <3> QED BY <1>1, <3>1 DEF Addressed, LateAddressed
  <2>2. CASE l \in Console!TouchNews
    BY <1>1, <2>2 DEF Console!TouchNews, LateAddressed
  <2> QED BY <1>3, <1>9, <2>1, <2>2
<1>10. Console!DeedsInTurn'
  <2>1. deed' = Console!NoDeed
    BY DEF Console!PollAsync
  <2> QED BY <2>1, NothingAsked
<1> QED BY <1>5, <1>6, <1>7, <1>8, <1>9, <1>10 DEF CommandsInv

LEMMA CommandsSteps == ASSUME CommandsInv, Console!Next PROVE CommandsInv'
<1>1. CASE \E port \in Console!Ports : \E c \in Console!Commands : Console!Line(c, port)
  BY <1>1, LineKeeps
<1>2. CASE \E port \in Console!Ports : Console!TrialEnds(port)
  <2>1. PICK port \in Console!Ports : Console!TrialEnds(port)
    BY <1>2
  <2>2. deed' = [call |-> "standby", port |-> port, world |-> {"nand"}] /\ late' = {} /\ UNCHANGED <<test, reply, capture>>
    BY <2>1 DEF Console!TrialEnds
  <2>3. Console!DeedsInTurn'
    BY <2>2 DEF Console!DeedsInTurn
  <2> QED BY <2>2, <2>3 DEF CommandsInv, LateAddressed
<1>3. CASE Console!PollAsync
  BY <1>3, PollAnswers
<1>4. CASE Console!End
  <2>1. test' = Console!NoTest /\ capture' = Console!Released /\ deed' = Console!NoDeed /\ late' = {} /\ reply' = [reply EXCEPT !.async = "usb", !.observing = FALSE]
    BY <1>4 DEF Console!End
  <2>2. ~Console!Released /\ Console!Released \in BOOLEAN
    BY DEF Console!Released, CommandsInv
  <2>3. Console!NoTest \in ConsoleTests /\ Console!NoTest.kind = "none"
    BY DEF Console!NoTest, Console!None, ConsoleTests
  <2>4. reply' \in ConsoleReplies /\ reply'.async = "usb" /\ reply'.touch = reply.touch /\ reply'.asker = reply.asker
    BY <2>1 DEF CommandsInv, ConsoleReplies, Console!Ports
  <2> QED BY <2>1, <2>2, <2>3, <2>4, NothingAsked DEF CommandsInv, LateAddressed
<1> QED BY <1>1, <1>2, <1>3, <1>4 DEF Console!Next

LEMMA CommandsRest == ASSUME CommandsInv, UNCHANGED Console!vars PROVE CommandsInv'
BY DEF CommandsInv, Console!DeedsInTurn, LateAddressed, Console!vars

LEMMA CommandsStart == ASSUME Console!Init PROVE CommandsInv
<1>1. Console!NoTest \in ConsoleTests /\ Console!NoTest.kind = "none"
  BY DEF Console!NoTest, Console!None, ConsoleTests
<1>2. reply \in ConsoleReplies /\ reply.async = "usb" /\ reply.touch = reply.asker
  BY DEF Console!Init, ConsoleReplies, Console!Ports
<1>3. Console!DeedsInTurn
  BY DEF Console!Init, Console!NoDeed, Console!None, Console!DeedsInTurn
<1> QED BY <1>1, <1>2, <1>3 DEF Console!Init, CommandsInv, LateAddressed

LEMMA CommandsKeep == ASSUME CommandsInv PROVE Console!CommandsInTurn
<1>1. Console!TypeOK
  BY DEF CommandsInv, ConsoleTests, ConsoleReplies, Console!TypeOK, Console!None
<1>2. Console!TestsAnswer
  BY DEF CommandsInv, LateAddressed, Console!TestsAnswer
<1> QED BY <1>1, <1>2 DEF CommandsInv, Console!CommandsInTurn

(* The console runs whole lines as they were typed, over a link that loses *)
(* bytes or not; it asks for nothing while it would be in the way; and the *)
(* late answers of a test go to who began it (SerialConsole::poll,         *)
(* handleLine, pollAsync).                                                 *)
THEOREM ConsoleStaysHonest == ConsoleSpec => []ConsoleIsHonest
<1> DEFINE Honest == (part = "lines" => LinesInv) /\ (part = "commands" => CommandsInv)
<1>1. ConsoleInit => Honest
  BY LinesStart, CommandsStart DEF ConsoleInit
<1>2. Honest /\ [ConsoleNext]_<<part, vars, linesVars, commandsVars>> => Honest'
  <2> SUFFICES ASSUME Honest, [ConsoleNext]_<<part, vars, linesVars, commandsVars>> PROVE Honest'
    OBVIOUS
  <2>1. part' = part
    BY DEF ConsoleNext
  <2>2. ASSUME part = "lines" PROVE LinesInv'
    <3>1. LinesInv
      BY <2>2
    <3>2. CASE Lines!Next
      BY <3>1, <3>2, LinesSteps
    <3>3. CASE UNCHANGED linesVars
      <4>1. UNCHANGED Lines!vars
        BY <3>3 DEF linesVars, Lines!vars
      <4> QED BY <3>1, <4>1, LinesRest
    <3> QED BY <2>2, <3>2, <3>3 DEF ConsoleNext
  <2>3. ASSUME part = "commands" PROVE CommandsInv'
    <3>1. CommandsInv
      BY <2>3
    <3>2. CASE Console!Next
      BY <3>1, <3>2, CommandsSteps
    <3>3. CASE UNCHANGED commandsVars
      <4>1. UNCHANGED Console!vars
        BY <3>3 DEF commandsVars, Console!vars
      <4> QED BY <3>1, <4>1, CommandsRest
    <3> QED BY <2>3, <3>2, <3>3 DEF ConsoleNext
  <2> QED BY <2>1, <2>2, <2>3
<1>3. Honest => ConsoleIsHonest
  BY LinesKeep, CommandsKeep DEF ConsoleIsHonest
<1> HIDE DEF Honest
<1> QED BY <1>1, <1>2, <1>3, PTL DEF ConsoleSpec
=============================================================================
