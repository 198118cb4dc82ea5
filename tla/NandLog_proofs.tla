--------------------------- MODULE NandLog_proofs ---------------------------
(***************************************************************************)
(* Proofs about the page log on the NAND, for every length of the ring,    *)
(* every page and every limit of the sequence numbers.                     *)
(*                                                                         *)
(* Two inductive invariants.  KeptInv says where an append stands between  *)
(* the two index pages and the ring; it holds whatever a failed program    *)
(* leaves behind.  CleanInv adds what the pages of a log are that was only *)
(* ever torn behind a readable header, and so is never called corrupt once *)
(* a page has been reported.                                               *)
(***************************************************************************)
EXTENDS MCNandLog, FiniteSetTheorems, SequenceTheorems, TLAPS

Addresses == 0 .. DataPages - 1

(* The pages the index promises are there.                                 *)
Ring(d, s) == \A r \in Window(s) : Holds(d, r)

(* No page carries a number past the one after the last indexed one.       *)
Near(d, s) == \A a \in Addresses : d[a].seq <= s + 1

Kept(i, d) == Ring(d, Indexed(i)) /\ Near(d, Indexed(i))

(* The variables of the transaction, by where it stands.                   *)
AtData  == pc \in {"dataWrite", "dataSync", "dataVerify"} =>
             /\ latest = Indexed(index) /\ copy = IndexCopy(index)
             /\ sequence = latest + 1
AtIndex == pc = "indexWrite" =>
             /\ copy = IndexCopy(index) /\ latest = sequence - 1
             /\ sequence \in {Indexed(index) + 1, Indexed(index) + 2}
             /\ Indexed(index) # MaxSequence /\ Holds(data, Indexed(index) + 1)
AtSync  == pc \in {"indexSync", "indexVerify"} =>
             /\ Indexed(index) = Publishing /\ IndexCopy(index) = Other
             /\ latest = sequence - 1 /\ Publishing \in {latest, sequence}

KeptInv == /\ TypeOK
           /\ Kept(index, data) /\ Kept(dIndex, dData)
           /\ AtData /\ AtIndex /\ AtSync

(* A page of the ring is erased, or its header is whole, names the number  *)
(* of its address, and was written by an append to a log of Indexed pages. *)
CleanData(d, s) ==
  \A a \in Addresses :
    \/ d[a].kind = "blank"
    \/ ValidHeader(d[a]) /\ d[a].seq \in 1 .. s + 1 /\ Address(d[a].seq) = a

(* An index page names a page of the log, the two name neighbours.         *)
CleanIndex(i) ==
  /\ \A c \in Copies : /\ i[c].kind # "garbage"
                       /\ i[c].kind = "page" => i[c].seq # 0
  /\ (\A c \in Copies : IndexSeq(i, c) # 0) =>
       IndexSeq(i, 0) + 1 = IndexSeq(i, 1) \/ IndexSeq(i, 1) + 1 = IndexSeq(i, 0)

Clean(i, d) == CleanIndex(i) /\ CleanData(d, Indexed(i))

(* Between its writes a transaction reads what a power cut would leave.    *)
Settled == pc \in {"idle", "dataWrite", "dataVerify", "indexWrite", "indexVerify",
                   "reopen", "recheck", "complete"} => index = dIndex /\ data = dData

(* An append that goes on works on a log whose index it could read.        *)
Proper == pc \notin {"idle", "failed"} =>
            Indexed(index) # 0 \/ \A c \in Copies : index[c].kind # "header"

Acked == /\ reported <= Indexed(index) /\ reported <= Indexed(dIndex)
         /\ pc \in {"reopen", "recheck", "complete"} =>
              sequence = Indexed(dIndex) /\ latest = sequence
         /\ pc = "complete" => ~Adopts(dIndex, dData)

CleanInv == /\ KeptInv
            /\ Clean(index, data) /\ Clean(dIndex, dData)
            /\ Settled /\ Proper /\ Acked

-----------------------------------------------------------------------------
(* Division with remainder, for a round of n pages.                        *)
LEMMA Remainder ==
  ASSUME NEW n \in Nat, n > 0, NEW a \in Nat
  PROVE  /\ (a % n) \in 0 .. n - 1 /\ (a \div n) \in Nat
         /\ a = (n * (a \div n)) + (a % n)
  OBVIOUS

LEMMA Rounds ==
  ASSUME NEW n \in Nat, n > 0, NEW q \in Nat, NEW p \in Nat, q > p
  PROVE  n * q >= n * p + n
<1>1. PICK k \in Nat : q = p + 1 + k
  BY q - p - 1 \in Nat
<1>2. n * q = n * p + n + n * k
  BY <1>1
<1>3. n * k >= 0
  OBVIOUS
<1>4. n * p \in Nat /\ n * k \in Nat
  OBVIOUS
<1> QED BY <1>2, <1>3, <1>4

(* Two numbers less than a round apart have different remainders.          *)
LEMMA RemaindersDiffer ==
  ASSUME NEW n \in Nat, n > 0, NEW a \in Nat, NEW b \in Nat, a < b, b < a + n
  PROVE  (a % n) # (b % n)
<1> DEFINE p == a \div n
           q == b \div n
           u == n * p
           w == n * q
<1>1. /\ p \in Nat /\ a = u + (a % n) /\ (a % n) \in 0 .. n - 1
      /\ q \in Nat /\ b = w + (b % n) /\ (b % n) \in 0 .. n - 1
  BY Remainder
<1>2. u \in Nat /\ w \in Nat
  BY <1>1
<1>3. q > p => w >= u + n
  BY Rounds, <1>1
<1>4. p > q => u >= w + n
  BY Rounds, <1>1
<1>5. p = q => u = w
  OBVIOUS
<1> HIDE DEF u, w
<1> HIDE DEF p, q
<1>6. SUFFICES ASSUME (a % n) = (b % n) PROVE FALSE
  OBVIOUS
<1>7. w > u /\ w < u + n
  BY <1>1, <1>2, <1>6
<1> QED BY <1>1, <1>2, <1>3, <1>4, <1>5, <1>7

(* The ring gives every number an address, and different addresses to      *)
(* numbers less than a round apart.                                        *)
LEMMA AddressType == ASSUME NEW s \in Nat \ {0} PROVE Address(s) \in Addresses
<1>1. s - 1 \in Nat /\ DataPages \in Nat /\ DataPages > 0
  BY NandLogAssumption
<1> QED BY <1>1, Remainder DEF Address, Addresses

LEMMA AddressesDiffer ==
  ASSUME NEW a \in Nat \ {0}, NEW b \in Nat \ {0}, a < b, b < a + DataPages
  PROVE  Address(a) # Address(b)
<1>1. a - 1 \in Nat /\ b - 1 \in Nat /\ DataPages \in Nat /\ DataPages > 0
  BY NandLogAssumption
<1>2. a - 1 < b - 1 /\ b - 1 < (a - 1) + DataPages
  BY <1>1
<1> QED BY <1>1, <1>2, RemaindersDiffer DEF Address

(* The pages of the log never share the address the next one is written at.*)
LEMMA WindowSpare ==
  ASSUME NEW s \in Nat, NEW r \in Window(s)
  PROVE  /\ r \in 1 .. s /\ r \in Sequences
         /\ Address(r) \in Addresses /\ Address(s + 1) \in Addresses
         /\ Address(r) # Address(s + 1)
<1>1. r \in 1 .. s /\ r \in Sequences /\ s + 1 < r + DataPages
  BY NandLogAssumption DEF Window, Oldest, MaxPages, Sequences
<1>2. r \in Nat \ {0} /\ s + 1 \in Nat \ {0} /\ r < s + 1
  BY <1>1
<1>3. Address(r) # Address(s + 1)
  BY <1>1, <1>2, AddressesDiffer
<1> QED BY <1>1, <1>2, <1>3, AddressType

LEMMA WindowNext ==
  ASSUME NEW s \in Nat, NEW r \in Window(s + 1), r # s + 1
  PROVE  r \in Window(s)
BY NandLogAssumption DEF Window, Oldest, MaxPages, Sequences

-----------------------------------------------------------------------------
(* What the index pages say.                                               *)
IndexType(i) == i \in [Copies -> IndexSet]
DataType(d)  == d \in [Addresses -> DataSet]

LEMMA IndexSeqType ==
  ASSUME NEW i, IndexType(i), NEW c \in Copies
  PROVE  IndexSeq(i, c) \in 0 .. MaxSequence
BY NandLogAssumption DEF IndexType, IndexSeq, IndexSet

LEMMA IndexFacts ==
  ASSUME NEW i, IndexType(i)
  PROVE  /\ Indexed(i) \in 0 .. MaxSequence /\ IndexCopy(i) \in Copies \cup {NoCopy}
         /\ \A c \in Copies : IndexSeq(i, c) <= Indexed(i)
         /\ IndexCopy(i) = NoCopy => Indexed(i) = 0
         /\ IndexCopy(i) # NoCopy => Indexed(i) = IndexSeq(i, IndexCopy(i))
<1>1. IndexSeq(i, 0) \in 0 .. MaxSequence /\ IndexSeq(i, 1) \in 0 .. MaxSequence
  BY IndexSeqType DEF Copies
<1>2. MaxSequence \in Nat
  BY NandLogAssumption
<1> QED BY <1>1, <1>2 DEF Indexed, IndexCopy, Copies, NoCopy

(* Publishing the next number in the other index page makes it the newest. *)
LEMMA Published ==
  ASSUME NEW i, IndexType(i), Indexed(i) # MaxSequence,
         NEW o \in Copies, IndexCopy(i) = 0 => o = 1, IndexCopy(i) # 0 => o = 0,
         NEW j, j = [i EXCEPT ![o] = [kind |-> "page", seq |-> Indexed(i) + 1]]
  PROVE  IndexType(j) /\ Indexed(j) = Indexed(i) + 1 /\ IndexCopy(j) = o
<1> DEFINE n == Indexed(i) + 1
<1>1. MaxSequence \in Nat /\ Indexed(i) \in 0 .. MaxSequence /\ n \in 1 .. MaxSequence
  BY NandLogAssumption, IndexFacts
<1>2. IndexSeq(i, 0) \in 0 .. Indexed(i) /\ IndexSeq(i, 1) \in 0 .. Indexed(i)
  BY IndexFacts, IndexSeqType, <1>1 DEF Copies
<1>3. IndexSeq(j, o) = n
  BY DEF IndexType, IndexSeq, IndexSet
<1>4. \A c \in Copies : c # o => IndexSeq(j, c) = IndexSeq(i, c)
  BY DEF IndexType, IndexSeq, IndexSet
<1>5. IndexType(j)
  BY <1>1 DEF IndexType, IndexSet, PageKinds
<1>5b. n > Indexed(i)
  BY <1>1
<1> HIDE DEF n
<1>6. IndexCopy(j) = o
  <2>1. CASE o = 0
    <3>1. IndexSeq(j, 0) = n /\ IndexSeq(j, 1) = IndexSeq(i, 1)
      BY <2>1, <1>3, <1>4 DEF Copies
    <3> QED BY <3>1, <2>1, <1>1, <1>2, <1>5b DEF IndexCopy
  <2>2. CASE o = 1
    <3>1. IndexSeq(j, 1) = n /\ IndexSeq(j, 0) = IndexSeq(i, 0)
      BY <2>2, <1>3, <1>4 DEF Copies
    <3> QED BY <3>1, <2>2, <1>1, <1>2, <1>5b DEF IndexCopy
  <2> QED BY <2>1, <2>2 DEF Copies
<1>7. Indexed(j) = n
  BY <1>3, <1>6 DEF Indexed, Copies, NoCopy
<1> QED BY <1>5, <1>6, <1>7 DEF n

(* A page torn there leaves the newest where it was.                       *)
LEMMA TornIndex ==
  ASSUME NEW i, IndexType(i), NEW tear \in {"header", "garbage"},
         NEW o \in Copies, IndexCopy(i) = 0 => o = 1, IndexCopy(i) # 0 => o = 0,
         NEW j, j = [i EXCEPT ![o] = [kind |-> tear, seq |-> 0]]
  PROVE  IndexType(j) /\ Indexed(j) = Indexed(i)
<1>1. MaxSequence \in Nat
  BY NandLogAssumption
<1>2. IndexSeq(i, 0) \in 0 .. MaxSequence /\ IndexSeq(i, 1) \in 0 .. MaxSequence
  BY IndexSeqType DEF Copies
<1>3. IndexSeq(j, o) = 0
  BY DEF IndexType, IndexSeq, IndexSet
<1>4. \A c \in Copies : c # o => IndexSeq(j, c) = IndexSeq(i, c)
  BY DEF IndexType, IndexSeq, IndexSet
<1>5. IndexType(j)
  BY <1>1 DEF IndexType, IndexSet, PageKinds
<1>6. Indexed(j) = Indexed(i)
  <2>1. CASE o = 0
    <3>1. IndexSeq(j, 0) = 0 /\ IndexSeq(j, 1) = IndexSeq(i, 1)
      BY <2>1, <1>3, <1>4 DEF Copies
    <3>2. IndexCopy(i) # 0
      BY <2>1
    <3> QED BY <3>1, <3>2, <1>1, <1>2 DEF IndexCopy, NoCopy, Indexed
  <2>2. CASE o = 1
    <3>1. IndexSeq(j, 1) = 0 /\ IndexSeq(j, 0) = IndexSeq(i, 0)
      BY <2>2, <1>3, <1>4 DEF Copies
    <3>2. IndexCopy(i) = 0
      BY <2>2
    <3> QED BY <3>1, <3>2, <1>1, <1>2 DEF IndexCopy, NoCopy, Indexed
  <2> QED BY <2>1, <2>2 DEF Copies
<1> QED BY <1>5, <1>6

-----------------------------------------------------------------------------
(* What a program of the spare does to the ring.                           *)
LEMMA SpareWritten ==
  ASSUME NEW d, DataType(d), NEW s \in 0 .. MaxSequence, s # MaxSequence,
         NEW p \in DataSet, p.seq <= s + 1,
         NEW e, e = [d EXCEPT ![Address(s + 1)] = p]
  PROVE  /\ DataType(e)
         /\ Ring(d, s) => Ring(e, s)
         /\ Near(d, s) => Near(e, s)
<1>1. s \in Nat /\ Address(s + 1) \in Addresses
  BY NandLogAssumption, AddressType
<1>2. DataType(e)
  BY DEF DataType
<1>3. ASSUME Ring(d, s), NEW r \in Window(s) PROVE Holds(e, r)
  <2>1. Address(r) # Address(s + 1) /\ Address(r) \in Addresses
    BY <1>1, WindowSpare
  <2>2. e[Address(r)] = d[Address(r)]
    BY <2>1 DEF DataType
  <2> QED BY <1>3, <2>2 DEF Ring, Holds
<1>4. ASSUME Near(d, s), NEW a \in Addresses PROVE e[a].seq <= s + 1
  BY <1>4 DEF DataType, Near
<1> QED BY <1>2, <1>3, <1>4 DEF Ring, Near

(* The next page once it is there makes the window of the next number.     *)
LEMMA RingGrows ==
  ASSUME NEW d, NEW s \in Nat, Ring(d, s), Holds(d, s + 1)
  PROVE  Ring(d, s + 1)
BY WindowNext DEF Ring

LEMMA NearGrows ==
  ASSUME NEW d, DataType(d), NEW s \in Nat, Near(d, s)
  PROVE  Near(d, s + 1)
<1>1. \A a \in Addresses : d[a].seq \in Nat
  BY NandLogAssumption DEF DataType, DataSet
<1> QED BY <1>1 DEF Near

-----------------------------------------------------------------------------
(* No step leaves a variable outside its type.                             *)
LEMMA LoadType ==
  ASSUME NEW i, IndexType(i), NEW d
  PROVE  LoadLatest(i, d) \in 0 .. MaxSequence
BY NandLogAssumption, IndexFacts DEF LoadLatest, Adopts

LEMMA TypeAtInit == Init => TypeOK
<1> SUFFICES ASSUME Init PROVE TypeOK
  OBVIOUS
<1>1. MaxSequence \in Nat \ {0} /\ 0 \in 0 .. MaxSequence
  BY NandLogAssumption
<1>2. BlankIndex \in IndexSet /\ BlankData \in DataSet
  BY <1>1 DEF BlankIndex, BlankData, IndexSet, DataSet, PageKinds
<1>3. index \in [Copies -> IndexSet] /\ data \in [0 .. DataPages - 1 -> DataSet]
  BY <1>2 DEF Init
<1>4. dIndex \in [Copies -> IndexSet] /\ dData \in [0 .. DataPages - 1 -> DataSet]
  BY <1>3 DEF Init
<1>5. pc = "idle" /\ input = NoValue /\ copy = NoCopy /\ sequence = 0 /\ latest = 0
      /\ result = "None" /\ cleanupFailed = FALSE /\ reported = 0
  BY DEF Init
<1> QED BY <1>1, <1>3, <1>4, <1>5 DEF TypeOK

LEMMA PublishingType == TypeOK => /\ Publishing \in 0 .. MaxSequence
                                  /\ Other \in Copies
BY DEF TypeOK, Publishing, Other, Copies

(* A failed program leaves one page torn, and nothing else changed.         *)
TornPage(tear) ==
  \/ /\ pc = "dataWrite" /\ index' = index
     /\ \/ /\ tear = "header"
           /\ data' = [data EXCEPT ![Address(sequence)] =
                         [kind |-> tear, seq |-> sequence, value |-> NoValue]]
        \/ /\ tear # "header"
           /\ data' = [data EXCEPT ![Address(sequence)] =
                         [kind |-> tear, seq |-> 0, value |-> NoValue]]
  \/ /\ pc = "indexWrite" /\ data' = data
     /\ index' = [index EXCEPT ![Other] = [kind |-> tear, seq |-> 0]]

LEMMA TornPages == TornWrite => \E tear \in Tears : TornPage(tear)
<1> SUFFICES ASSUME NEW tear \in Tears,
                    \/ /\ pc = "dataWrite"
                       /\ data' = [data EXCEPT ![Address(sequence)] =
                            IF tear = "header"
                            THEN [kind |-> tear, seq |-> sequence, value |-> NoValue]
                            ELSE [BlankData EXCEPT !.kind = tear]]
                       /\ UNCHANGED index
                    \/ /\ pc = "indexWrite"
                       /\ index' = [index EXCEPT ![Other] = [kind |-> tear, seq |-> 0]]
                       /\ UNCHANGED data
             PROVE  TornPage(tear)
  BY DEF TornWrite
<1>1. [BlankData EXCEPT !.kind = tear] = [kind |-> tear, seq |-> 0, value |-> NoValue]
  BY DEF BlankData
<1>2. CASE tear = "header" BY <1>2 DEF TornPage
<1>3. CASE tear # "header" BY <1>1, <1>3 DEF TornPage
<1> QED BY <1>2, <1>3

LEMMA TypeStep == TypeOK /\ [Next]_vars => TypeOK'
<1> SUFFICES ASSUME TypeOK, [Next]_vars PROVE TypeOK'
  OBVIOUS
<1> USE NandLogAssumption
<1> USE DEF live, media, locals
<1>t. IndexType(index) /\ IndexType(dIndex)
  BY DEF TypeOK, IndexType
<1> USE TypeOK DEF TypeOK
<1>1. ASSUME NEW v \in Values, BeginAppend(v) PROVE TypeOK'
  <2>1. latest' \in 0 .. MaxSequence /\ latest' # MaxSequence
    BY <1>1, <1>t, LoadType DEF BeginAppend
  <2>2. sequence' \in 0 .. MaxSequence
    BY <1>1, <2>1 DEF BeginAppend
  <2>3. copy' \in Copies \cup {NoCopy}
    BY <1>1, <1>t, IndexFacts DEF BeginAppend
  <2>4. pc' \in {"indexWrite", "dataWrite"} /\ input' \in Values /\ input' # NoValue
    BY <1>1 DEF BeginAppend
  <2> QED BY <1>1, <2>1, <2>2, <2>3, <2>4 DEF BeginAppend
<1>2. CASE Refuse BY <1>2 DEF Refuse, LoadCode
<1>3. CASE OpenError BY <1>3 DEF OpenError
<1>4. CASE WriteData BY SMTT(30), <1>4 DEF WriteData, DataSet, PageKinds
<1>5. CASE DataSync BY <1>5 DEF DataSync, Sync
<1>6. CASE VerifyData BY <1>6 DEF VerifyData
<1>7. CASE WriteIndex BY <1>7, PublishingType DEF WriteIndex, IndexSet, PageKinds
<1>8. CASE IndexSync BY <1>8 DEF IndexSync, Sync
<1>9. CASE VerifyIndex BY <1>9, PublishingType DEF VerifyIndex
<1>10. CASE Reopen BY <1>10 DEF Reopen
<1>11. CASE Recheck BY <1>11 DEF Recheck
<1>12. CASE IoError BY <1>12 DEF IoError
<1>13. CASE TornWrite
  <2>3. PICK tear \in Tears : TornPage(tear)
    BY <1>13, TornPages
  <2>4. tear \in PageKinds
    BY DEF PageKinds
  <2>5. [kind |-> tear, seq |-> 0] \in IndexSet
    BY <2>4 DEF IndexSet
  <2>6. [kind |-> tear, seq |-> sequence, value |-> NoValue] \in DataSet
    BY <2>4 DEF DataSet
  <2>7. [kind |-> tear, seq |-> 0, value |-> NoValue] \in DataSet
    BY <2>4 DEF DataSet
  <2>1. index' \in [Copies -> IndexSet]
    BY <2>3, <2>5 DEF TornPage
  <2>2. data' \in [0 .. DataPages - 1 -> DataSet]
    BY <2>3, <2>6, <2>7 DEF TornPage
  <2> QED BY <1>13, <2>1, <2>2 DEF TornWrite
<1>14. CASE Checkpoint BY <1>14 DEF Checkpoint
<1>15. ASSUME NEW closed \in BOOLEAN, Finish(closed) PROVE TypeOK'
  <2>1. (pc' = "idle" <=> input' = NoValue) /\ input' \in Values \cup {NoValue}
    BY <1>15 DEF Finish, Closed
  <2>2. reported' \in 0 .. MaxSequence
    BY <1>15 DEF Finish
  <2>3. sequence' \in 0 .. MaxSequence /\ latest' \in 0 .. MaxSequence
    BY <1>15 DEF Finish, Closed
  <2>4. index' \in [Copies -> IndexSet] /\ dIndex' \in [Copies -> IndexSet]
        /\ data' \in [0 .. DataPages - 1 -> DataSet]
        /\ dData' \in [0 .. DataPages - 1 -> DataSet]
    BY <1>15 DEF Finish, Closed
  <2>5. result' \in {"Ok", "Error"} /\ cleanupFailed' \in BOOLEAN
        /\ pc' = "idle" /\ copy' = NoCopy
    BY <1>15 DEF Finish, Closed
  <2> QED BY <2>1, <2>2, <2>3, <2>4, <2>5
<1>16. CASE PowerCut
  <2>1. (pc' = "idle" <=> input' = NoValue) /\ input' \in Values \cup {NoValue}
    BY <1>16 DEF PowerCut, Closed
  <2>3. sequence' \in 0 .. MaxSequence /\ latest' \in 0 .. MaxSequence
    BY <1>16 DEF PowerCut, Closed
  <2>4. index' \in [Copies -> IndexSet] /\ dIndex' \in [Copies -> IndexSet]
        /\ data' \in [0 .. DataPages - 1 -> DataSet]
        /\ dData' \in [0 .. DataPages - 1 -> DataSet]
    BY <1>16 DEF PowerCut, Closed
  <2> QED BY <1>16, <2>1, <2>3, <2>4 DEF PowerCut, Closed
<1>17. CASE UNCHANGED vars BY <1>17 DEF vars
<1> QED BY <1>1, <1>2, <1>3, <1>4, <1>5, <1>6, <1>7, <1>8, <1>9, <1>10, <1>11,
           <1>12, <1>13, <1>14, <1>15, <1>16, <1>17 DEF Next

-----------------------------------------------------------------------------
(* The invariant of an append, step by step.                               *)
LEMMA IndexTyped == TypeOK => IndexType(index) /\ IndexType(dIndex)
BY DEF TypeOK, IndexType

LEMMA DataTyped == TypeOK => DataType(data) /\ DataType(dData)
BY DEF TypeOK, DataType, Addresses

LEMMA KeptAtInit == Init => KeptInv
<1> SUFFICES ASSUME Init PROVE KeptInv
  OBVIOUS
<1>1. Indexed(index) = 0
  BY DEF Init, Indexed, IndexCopy, IndexSeq, BlankIndex, Copies, NoCopy
<1>2. Ring(data, 0)
  <2>1. ASSUME NEW r \in Window(0) PROVE FALSE
    BY DEF Window, Sequences
  <2> QED BY <2>1 DEF Ring
<1>3. Near(data, 0)
  BY DEF Near, Init, BlankData, Addresses
<1>4. pc = "idle" /\ dIndex = index /\ dData = data
  BY DEF Init
<1>5. AtData /\ AtIndex /\ AtSync
  BY <1>4 DEF AtData, AtIndex, AtSync
<1> QED BY <1>1, <1>2, <1>3, <1>4, <1>5, TypeAtInit DEF KeptInv, Kept

(* What the index page to write will say.                                  *)
LEMMA NextPublished ==
  ASSUME KeptInv, pc = "indexWrite"
  PROVE  Publishing = Indexed(index) + 1
<1>1. IndexType(index) /\ DataType(data)
  BY IndexTyped, DataTyped DEF KeptInv
<1> DEFINE s == Indexed(index)
<1>2. s \in Nat
  BY <1>1, IndexFacts, NandLogAssumption
<1>3. /\ sequence \in {s + 1, s + 2} /\ latest = sequence - 1 /\ Holds(data, s + 1)
  BY DEF KeptInv, AtIndex
<1> HIDE DEF s
<1>4. CASE sequence = s + 1
  BY <1>4, <1>3 DEF Publishing, Holds, s
<1>5. CASE sequence = s + 2
  <2>1. Address(sequence) \in Addresses
    BY <1>5, <1>2, AddressType
  <2>2. data[Address(sequence)].seq <= s + 1
    BY <2>1 DEF KeptInv, Kept, Near, s
  <2>3. data[Address(sequence)].seq # sequence
    BY <2>2, <1>5, <1>2
  <2>4. latest = s + 1
    BY <1>5, <1>3, <1>2
  <2> QED BY <2>3, <2>4 DEF Publishing, s
<1> QED BY <1>3, <1>4, <1>5

(* A program of the spare, whole or torn.                                  *)
LEMMA SpareStep ==
  ASSUME KeptInv, pc = "dataWrite",
         NEW p \in DataSet, p.seq <= sequence,
         data' = [data EXCEPT ![Address(sequence)] = p]
  PROVE  Kept(index, data')
<1> DEFINE s == Indexed(index)
<1>1. s \in 0 .. MaxSequence /\ sequence = s + 1 /\ MaxSequence \in Nat
  BY IndexTyped, IndexFacts, NandLogAssumption DEF KeptInv, AtData
<1>2. s # MaxSequence
  BY <1>1 DEF KeptInv, TypeOK
<1>3. data' = [data EXCEPT ![Address(s + 1)] = p] /\ p.seq <= s + 1
  BY <1>1
<1>4. DataType(data) /\ Ring(data, s) /\ Near(data, s)
  BY DataTyped DEF KeptInv, Kept
<1> HIDE DEF s
<1>5. Ring(data', s) /\ Near(data', s)
  BY <1>1, <1>2, <1>3, <1>4, SpareWritten
<1> QED BY <1>5 DEF Kept, s

(* The program of the index page, torn.                                    *)
LEMMA TornIndexStep ==
  ASSUME KeptInv, pc = "indexWrite", NEW tear \in {"header", "garbage"},
         index' = [index EXCEPT ![Other] = [kind |-> tear, seq |-> 0]]
  PROVE  Indexed(index') = Indexed(index)
<1>1. IndexType(index) /\ copy = IndexCopy(index)
  BY IndexTyped DEF KeptInv, AtIndex
<1>2. /\ Other \in Copies
      /\ IndexCopy(index) = 0 => Other = 1
      /\ IndexCopy(index) # 0 => Other = 0
  BY <1>1 DEF Other, Copies
<1> QED BY ZenonT(60), <1>1, <1>2, TornIndex

(* The program of the index page.                                          *)
LEMMA WriteIndexStep ==
  ASSUME KeptInv, WriteIndex
  PROVE  /\ Indexed(index') = Indexed(index) + 1 /\ Indexed(index') = Publishing
         /\ IndexCopy(index') = Other /\ Kept(index', data)
<1> DEFINE s == Indexed(index)
<1>1. /\ IndexType(index) /\ DataType(data) /\ pc = "indexWrite"
      /\ copy = IndexCopy(index) /\ s # MaxSequence /\ Holds(data, s + 1)
  BY IndexTyped, DataTyped DEF KeptInv, AtIndex, WriteIndex
<1>2. /\ Other \in Copies
      /\ IndexCopy(index) = 0 => Other = 1
      /\ IndexCopy(index) # 0 => Other = 0
  BY <1>1 DEF Other, Copies
<1>3. Publishing = s + 1
  BY <1>1, NextPublished
<1>4. index' = [index EXCEPT ![Other] = [kind |-> "page", seq |-> s + 1]]
  BY <1>3 DEF WriteIndex
<1>5. Indexed(index') = s + 1 /\ IndexCopy(index') = Other
  BY ZenonT(60), <1>1, <1>2, <1>4, Published
<1>6. s \in Nat /\ Ring(data, s) /\ Near(data, s)
  BY <1>1, IndexFacts, NandLogAssumption DEF KeptInv, Kept
<1> HIDE DEF s
<1>7. Ring(data, s + 1) /\ Near(data, s + 1)
  BY <1>1, <1>6, RingGrows, NearGrows
<1> QED BY <1>3, <1>5, <1>7 DEF Kept, s

(* Where nothing is written the append stands where its program counter    *)
(* says; each step that writes is one of the lemmas above.                 *)
LEMMA KeptStep == KeptInv /\ [Next]_vars => KeptInv'
<1> SUFFICES ASSUME KeptInv, [Next]_vars PROVE KeptInv'
  OBVIOUS
<1>t. TypeOK' /\ TypeOK
  BY TypeStep DEF KeptInv
<1>k. Kept(index, data) /\ Kept(dIndex, dData) /\ AtData /\ AtIndex /\ AtSync
  BY DEF KeptInv
<1>s. Indexed(index) \in 0 .. MaxSequence /\ MaxSequence \in Nat
  BY <1>t, IndexTyped, IndexFacts, NandLogAssumption
<1> DEFINE Done == /\ Kept(index', data') /\ Kept(dIndex', dData')
                   /\ AtData' /\ AtIndex' /\ AtSync'
<1> USE DEF live, media, locals
<1> SUFFICES Done
  BY <1>t DEF KeptInv
<1>e. ASSUME pc' \in {"idle", "reopen", "recheck", "failed", "complete"}
      PROVE  AtData' /\ AtIndex' /\ AtSync'
  BY <1>e DEF AtData, AtIndex, AtSync
<1>1. ASSUME NEW v \in Values, BeginAppend(v) PROVE Done
  <2>1. /\ index' = index /\ data' = data /\ dIndex' = dIndex /\ dData' = dData
        /\ latest' = LoadLatest(index, data) /\ copy' = IndexCopy(index)
        /\ sequence' = latest' + 1
        /\ pc' = IF Adopts(index, data) THEN "indexWrite" ELSE "dataWrite"
    BY <1>1 DEF BeginAppend
  <2>2. CASE Adopts(index, data)
    <3>1. /\ pc' = "indexWrite" /\ latest' = Indexed(index) + 1
          /\ Indexed(index) # MaxSequence /\ Holds(data, Indexed(index) + 1)
      BY <2>1, <2>2 DEF LoadLatest, Adopts
    <3>2. sequence' = Indexed(index) + 2 /\ latest' = sequence' - 1
      BY <2>1, <3>1, <1>s
    <3> QED BY <1>k, <2>1, <3>1, <3>2 DEF AtData, AtIndex, AtSync
  <2>3. CASE ~Adopts(index, data)
    <3>1. pc' = "dataWrite" /\ latest' = Indexed(index)
      BY <2>1, <2>3 DEF LoadLatest
    <3> QED BY <1>k, <2>1, <3>1 DEF AtData, AtIndex, AtSync
  <2> QED BY <2>2, <2>3
<1>2. CASE Refuse
  BY <1>2, <1>k, <1>e DEF Refuse
<1>3. CASE OpenError
  BY <1>3, <1>k, <1>e DEF OpenError
<1>4. CASE WriteData
  <2>1. CASE SpareCorrupt(data, latest)
    <3>1. /\ index' = index /\ data' = data /\ dIndex' = dIndex /\ dData' = dData
          /\ pc' = "failed"
      BY <1>4, <2>1 DEF WriteData
    <3> QED BY <1>k, <1>e, <3>1
  <2>2. CASE ~SpareCorrupt(data, latest)
    <3> DEFINE p == [kind |-> "page", seq |-> sequence, value |-> input]
    <3>1. /\ index' = index /\ dIndex' = dIndex /\ dData' = dData /\ pc = "dataWrite"
          /\ pc' = "dataSync" /\ latest' = latest /\ copy' = copy /\ sequence' = sequence
          /\ data' = [data EXCEPT ![Address(sequence)] = p]
      BY <1>4, <2>2 DEF WriteData
    <3>2. p \in DataSet /\ p.seq <= sequence
      BY <1>t, <1>s DEF TypeOK, DataSet, PageKinds
    <3> HIDE DEF p
    <3>3. Kept(index', data')
      BY <3>1, <3>2, SpareStep
    <3> QED BY <1>k, <3>1, <3>3 DEF AtData, AtIndex, AtSync
  <2> QED BY <2>1, <2>2
<1>5. CASE DataSync
  <2>1. /\ index' = index /\ data' = data /\ dIndex' = index /\ dData' = data
        /\ pc = "dataSync" /\ pc' = "dataVerify"
        /\ latest' = latest /\ copy' = copy /\ sequence' = sequence
    BY <1>5 DEF DataSync, Sync
  <2> QED BY <1>k, <2>1 DEF AtData, AtIndex, AtSync
<1>6. CASE VerifyData
  <2>1. /\ index' = index /\ data' = data /\ dIndex' = dIndex /\ dData' = dData
        /\ latest' = latest /\ copy' = copy /\ sequence' = sequence /\ pc = "dataVerify"
    BY <1>6 DEF VerifyData
  <2>2. CASE pc' = "failed"
    BY <2>1, <2>2, <1>k, <1>e
  <2>3. CASE pc' # "failed"
    <3>1. /\ pc' = "indexWrite"
          /\ data[Address(sequence)] = [kind |-> "page", seq |-> sequence, value |-> input]
      BY <1>6, <2>3 DEF VerifyData
    <3>2. /\ sequence = Indexed(index) + 1 /\ latest = sequence - 1
          /\ copy = IndexCopy(index) /\ Indexed(index) # MaxSequence
      BY <1>k, <1>s, <1>t, <2>1 DEF AtData, TypeOK
    <3>3. Holds(data, Indexed(index) + 1)
      BY <3>1, <3>2 DEF Holds
    <3> QED BY <1>k, <2>1, <3>1, <3>2, <3>3 DEF AtData, AtIndex, AtSync
  <2> QED BY <2>2, <2>3
<1>7. CASE WriteIndex
  <2>1. /\ data' = data /\ dIndex' = dIndex /\ dData' = dData
        /\ pc = "indexWrite" /\ pc' = "indexSync"
        /\ latest' = latest /\ copy' = copy /\ sequence' = sequence
    BY <1>7 DEF WriteIndex
  <2>2. Publishing' = Publishing /\ Other' = Other /\ Publishing \in {latest, sequence}
    BY <2>1 DEF Publishing, Other
  <2>3. Kept(index', data') /\ Indexed(index') = Publishing /\ IndexCopy(index') = Other
    BY <1>7, <2>1, WriteIndexStep
  <2>4. AtSync'
    BY <2>1, <2>2, <2>3, <1>k DEF AtSync, AtIndex
  <2> QED BY <1>k, <2>1, <2>3, <2>4 DEF AtData, AtIndex
<1>8. CASE IndexSync
  <2>1. /\ index' = index /\ data' = data /\ dIndex' = index /\ dData' = data
        /\ pc = "indexSync" /\ pc' = "indexVerify"
        /\ latest' = latest /\ copy' = copy /\ sequence' = sequence
    BY <1>8 DEF IndexSync, Sync
  <2>2. Publishing' = Publishing /\ Other' = Other
    BY <2>1 DEF Publishing, Other
  <2> QED BY <1>k, <2>1, <2>2 DEF AtData, AtIndex, AtSync
<1>9. CASE VerifyIndex
  <2>1. /\ index' = index /\ data' = data /\ dIndex' = dIndex /\ dData' = dData
        /\ sequence' = sequence /\ pc = "indexVerify"
        /\ pc' \in {"failed", "reopen", "dataWrite"}
    BY <1>9 DEF VerifyIndex
  <2>2. CASE pc' = "dataWrite"
    <3>1. latest' = Publishing /\ copy' = Other /\ Publishing # sequence
      BY <1>9, <2>2 DEF VerifyIndex
    <3>2. /\ Indexed(index) = Publishing /\ IndexCopy(index) = Other
          /\ Publishing = latest /\ latest = sequence - 1
      BY <1>k, <2>1, <3>1 DEF AtSync
    <3>3. sequence' = latest' + 1
      BY <2>1, <3>1, <3>2, <1>t DEF TypeOK
    <3> QED BY <1>k, <2>1, <2>2, <3>1, <3>2, <3>3 DEF AtData, AtIndex, AtSync
  <2>3. CASE pc' # "dataWrite"
    BY <1>k, <1>e, <2>1, <2>3
  <2> QED BY <2>2, <2>3
<1>10. CASE Reopen
  BY <1>10, <1>k, <1>e DEF Reopen
<1>11. CASE Recheck
  BY <1>11, <1>k, <1>e DEF Recheck
<1>12. CASE IoError
  BY <1>12, <1>k, <1>e DEF IoError
<1>13. CASE TornWrite
  <2>1. dIndex' = dIndex /\ dData' = dData /\ pc' = "failed"
    BY <1>13 DEF TornWrite
  <2>2. PICK tear \in Tears : TornPage(tear)
    BY <1>13, TornPages
  <2>3. tear \in {"header", "garbage"}
    BY NandLogAssumption
  <2>4. Kept(index', data')
    <3>1. CASE pc = "dataWrite"
      <4> DEFINE p == [kind |-> tear, seq |-> IF tear = "header" THEN sequence ELSE 0,
                       value |-> NoValue]
      <4>1. data' = [data EXCEPT ![Address(sequence)] = p] /\ index' = index
        BY <3>1, <2>2 DEF TornPage
      <4>2. p \in DataSet /\ p.seq <= sequence
        BY <1>t, <1>s, <2>3 DEF TypeOK, DataSet, PageKinds
      <4> HIDE DEF p
      <4> QED BY <3>1, <4>1, <4>2, SpareStep
    <3>2. CASE pc = "indexWrite"
      <4>1. data' = data /\ index' = [index EXCEPT ![Other] = [kind |-> tear, seq |-> 0]]
        BY <3>2, <2>2 DEF TornPage
      <4>2. Indexed(index') = Indexed(index)
        BY <3>2, <4>1, <2>3, TornIndexStep
      <4> QED BY <4>1, <4>2, <1>k DEF Kept
    <3> QED BY <3>1, <3>2, <2>2 DEF TornPage
  <2> QED BY <1>k, <1>e, <2>1, <2>4
<1>14. CASE Checkpoint
  <2>1. /\ index' = index /\ data' = data /\ dIndex' = index /\ dData' = data
        /\ pc' = pc /\ latest' = latest /\ copy' = copy /\ sequence' = sequence
    BY <1>14 DEF Checkpoint
  <2>2. Publishing' = Publishing /\ Other' = Other
    BY <2>1 DEF Publishing, Other
  <2> QED BY <1>k, <2>1, <2>2 DEF AtData, AtIndex, AtSync
<1>15. ASSUME NEW closed \in BOOLEAN, Finish(closed) PROVE Done
  BY <1>15, <1>k, <1>e DEF Finish, Closed
<1>16. CASE PowerCut
  BY <1>16, <1>k, <1>e DEF PowerCut, Closed
<1>17. CASE UNCHANGED vars
  <2>1. Publishing' = Publishing /\ Other' = Other
    BY <1>17 DEF Publishing, Other, vars
  <2> QED BY <1>17, <1>k, <2>1 DEF vars, AtData, AtIndex, AtSync
<1> HIDE DEF Done
<1> QED BY <1>1, <1>2, <1>3, <1>4, <1>5, <1>6, <1>7, <1>8, <1>9, <1>10, <1>11,
           <1>12, <1>13, <1>14, <1>15, <1>16, <1>17 DEF Next

(* A boot finds every page of the window it offers, through errors, power  *)
(* cuts and torn pages of either kind.                                     *)
LEMMA KeptIsReadable == KeptInv => WindowReadable
<1> SUFFICES ASSUME KeptInv, NEW s \in Window(LoadLatest(dIndex, dData))
             PROVE  Holds(dData, s)
  BY DEF WindowReadable
<1> DEFINE n == Indexed(dIndex)
<1>1. Ring(dData, n) /\ n \in Nat
  BY IndexTyped, IndexFacts, NandLogAssumption DEF KeptInv, Kept
<1>2. CASE Adopts(dIndex, dData)
  <2>1. Holds(dData, n + 1) /\ LoadLatest(dIndex, dData) = n + 1
    BY <1>2 DEF Adopts, LoadLatest
  <2> HIDE DEF n
  <2>2. Ring(dData, n + 1)
    BY <1>1, <2>1, RingGrows
  <2> QED BY <2>1, <2>2 DEF Ring
<1>3. CASE ~Adopts(dIndex, dData)
  BY <1>1, <1>3 DEF LoadLatest, Ring
<1> QED BY <1>2, <1>3

(* The spare is never a page the index still promises: what logLoad offers *)
(* to be read, logRead finds (oldest, address, append, publish).           *)
THEOREM WindowAlwaysReadable == Spec => []WindowReadable
<1>1. Init => KeptInv
  BY KeptAtInit
<1>2. KeptInv /\ [Next]_vars => KeptInv'
  BY KeptStep
<1>3. KeptInv => WindowReadable
  BY KeptIsReadable
<1> QED BY <1>1, <1>2, <1>3, PTL DEF Spec

-----------------------------------------------------------------------------
(* A log only ever torn behind a readable header.                          *)
LEMMA CleanSpareWritten ==
  ASSUME NEW d, DataType(d), NEW s \in 0 .. MaxSequence, s # MaxSequence,
         NEW p \in DataSet, p.seq = s + 1, ValidHeader(p), CleanData(d, s),
         NEW e, e = [d EXCEPT ![Address(s + 1)] = p]
  PROVE  CleanData(e, s)
<1>1. s \in Nat /\ s + 1 \in 1 .. s + 1 /\ Address(s + 1) \in Addresses
  BY NandLogAssumption, AddressType
<1> SUFFICES ASSUME NEW a \in Addresses, e[a].kind # "blank"
             PROVE  /\ ValidHeader(e[a]) /\ e[a].seq \in 1 .. s + 1
                    /\ Address(e[a].seq) = a
  BY DEF CleanData
<1>2. CASE a = Address(s + 1)
  <2>1. e[a] = p
    BY <1>2 DEF DataType
  <2> QED BY <2>1, <1>1, <1>2
<1>3. CASE a # Address(s + 1)
  <2>1. e[a] = d[a]
    BY <1>3 DEF DataType
  <2> QED BY <2>1 DEF CleanData
<1> QED BY <1>2, <1>3

LEMMA CleanGrows ==
  ASSUME NEW d, NEW s \in Nat, CleanData(d, s)
  PROVE  CleanData(d, s + 1)
BY DEF CleanData

LEMMA CleanPublished ==
  ASSUME NEW i, IndexType(i), CleanIndex(i), Indexed(i) # MaxSequence,
         NEW o \in Copies, IndexCopy(i) = 0 => o = 1, IndexCopy(i) # 0 => o = 0,
         NEW j, j = [i EXCEPT ![o] = [kind |-> "page", seq |-> Indexed(i) + 1]]
  PROVE  CleanIndex(j)
<1> DEFINE n == Indexed(i) + 1
<1>1. MaxSequence \in Nat /\ Indexed(i) \in 0 .. MaxSequence /\ n \in 1 .. MaxSequence
      /\ n = Indexed(i) + 1
  BY NandLogAssumption, IndexFacts
<1> HIDE DEF n
<1>2. ASSUME NEW c \in Copies
      PROVE  j[c].kind # "garbage" /\ (j[c].kind = "page" => j[c].seq # 0)
  <2>1. CASE c = o
    <3>1. j[c] = [kind |-> "page", seq |-> n]
      BY <2>1, <1>1 DEF IndexType, n
    <3> QED BY <3>1, <1>1
  <2>2. CASE c # o
    <3>1. j[c] = i[c]
      BY <2>2 DEF IndexType
    <3> QED BY <3>1 DEF CleanIndex
  <2> QED BY <2>1, <2>2
<1>3. IndexSeq(j, o) = n
  BY <1>1 DEF IndexType, IndexSeq, IndexSet, n
<1>4. ASSUME NEW c \in Copies, c # o PROVE IndexSeq(j, c) = IndexSeq(i, c)
  BY <1>4 DEF IndexType, IndexSeq, IndexSet
<1>5. IndexSeq(i, 0) \in 0 .. Indexed(i) /\ IndexSeq(i, 1) \in 0 .. Indexed(i)
  BY IndexFacts, IndexSeqType, <1>1 DEF Copies
<1>6. ASSUME \A c \in Copies : IndexSeq(j, c) # 0
      PROVE  \/ IndexSeq(j, 0) + 1 = IndexSeq(j, 1)
             \/ IndexSeq(j, 1) + 1 = IndexSeq(j, 0)
  <2>1. CASE o = 0
    <3>1. IndexSeq(j, 0) = n /\ IndexSeq(j, 1) = IndexSeq(i, 1) /\ IndexSeq(j, 1) # 0
      BY <2>1, <1>3, <1>4, <1>6 DEF Copies
    <3>2. IndexSeq(i, 1) = Indexed(i)
      BY <2>1, <3>1, <1>1, <1>5 DEF IndexCopy, Indexed, NoCopy
    <3> QED BY <3>1, <3>2, <1>1
  <2>2. CASE o = 1
    <3>1. IndexSeq(j, 1) = n /\ IndexSeq(j, 0) = IndexSeq(i, 0)
      BY <2>2, <1>3, <1>4 DEF Copies
    <3>2. IndexSeq(i, 0) = Indexed(i)
      BY <2>2 DEF Indexed, NoCopy
    <3> QED BY <3>1, <3>2, <1>1
  <2> QED BY <2>1, <2>2 DEF Copies
<1> QED BY <1>2, <1>6 DEF CleanIndex

LEMMA CleanTorn ==
  ASSUME NEW i, IndexType(i), CleanIndex(i), NEW o \in Copies,
         NEW j, j = [i EXCEPT ![o] = [kind |-> "header", seq |-> 0]]
  PROVE  CleanIndex(j)
<1>1. IndexSeq(j, o) = 0
  BY DEF IndexType, IndexSeq, IndexSet
<1>2. ASSUME NEW c \in Copies
      PROVE  j[c].kind # "garbage" /\ (j[c].kind = "page" => j[c].seq # 0)
  <2>1. CASE c = o
    BY <2>1 DEF IndexType
  <2>2. CASE c # o
    <3>1. j[c] = i[c]
      BY <2>2 DEF IndexType
    <3> QED BY <3>1 DEF CleanIndex
  <2> QED BY <2>1, <2>2
<1> QED BY <1>1, <1>2 DEF CleanIndex

(* How such a log is read: never corrupt but for an index page torn before *)
(* any was whole.                                                          *)
LEMMA CleanLoad ==
  ASSUME NEW i, IndexType(i), NEW d, DataType(d), Clean(i, d), Kept(i, d),
         Indexed(i) # 0 \/ \A c \in Copies : i[c].kind # "header"
  PROVE  LoadCode(i, d) = (IF LoadLatest(i, d) = 0 THEN "Empty" ELSE "Ok")
<1> DEFINE s == Indexed(i)
<1>1. s \in Nat /\ s \in 0 .. MaxSequence /\ Ring(d, s) /\ CleanData(d, s)
  BY IndexFacts, NandLogAssumption DEF Kept, Clean
<1>2. ~IndexCorrupt(i)
  BY DEF IndexCorrupt, Clean, CleanIndex
<1> HIDE DEF s
<1>3. s # 0 => Holds(d, s)
  <2>1. s # 0 => s \in Window(s)
    BY <1>1, NandLogAssumption DEF Window, Oldest, MaxPages, Sequences
  <2> QED BY <2>1, <1>1 DEF Ring
<1>4. ~SuccessorCorrupt(d, s)
  <2> SUFFICES ASSUME SuccessorCorrupt(d, s) PROVE FALSE
    OBVIOUS
  <2> DEFINE a == Address(s + 1)
             p == d[a]
  <2>1. a \in Addresses
    BY <1>1, AddressType
  <2>2. p.kind # "blank" /\ \/ ~ValidHeader(p)
                            \/ Address(p.seq) # a
                            \/ p.seq # s + 1 /\ (s = 0 \/ p.seq >= Oldest(s))
    BY DEF SuccessorCorrupt
  <2>3. ValidHeader(p) /\ p.seq \in 1 .. s + 1 /\ Address(p.seq) = a
    BY <1>1, <2>1, <2>2 DEF CleanData
  <2> DEFINE q == p.seq
  <2>4. q \in 1 .. s /\ q >= Oldest(s) /\ Address(q) = a
    BY <2>2, <2>3, <1>1
  <2> HIDE DEF q, p
  <2>5. q \in Window(s)
    BY <2>4, <1>1, NandLogAssumption DEF Window, Sequences
  <2> QED BY <2>4, <2>5, <1>1, WindowSpare
<1> QED BY <1>2, <1>3, <1>4 DEF LoadCode, s

LEMMA CleanAtInit == Init => CleanInv
<1> SUFFICES ASSUME Init PROVE CleanInv
  OBVIOUS
<1>1. KeptInv
  BY KeptAtInit
<1>2. index = [c \in Copies |-> BlankIndex] /\ data = [a \in Addresses |-> BlankData]
      /\ dIndex = index /\ dData = data /\ pc = "idle" /\ reported = 0
  BY DEF Init, Addresses
<1>3. CleanIndex(index)
  BY <1>2 DEF CleanIndex, BlankIndex, IndexSeq, Copies
<1>4. CleanData(data, Indexed(index))
  BY <1>2 DEF CleanData, BlankData
<1>5. Indexed(index) \in Nat
  BY <1>1, IndexTyped, IndexFacts, NandLogAssumption DEF KeptInv
<1>6. Settled /\ Proper
  BY <1>2 DEF Settled, Proper
<1>7. Acked
  BY <1>2, <1>5 DEF Acked
<1> QED BY <1>1, <1>2, <1>3, <1>4, <1>6, <1>7 DEF CleanInv, Clean

(* The three programs of a page keep the log clean.                        *)
LEMMA CleanSpareStep ==
  ASSUME CleanInv, pc = "dataWrite",
         NEW p \in DataSet, p.seq = sequence, ValidHeader(p),
         data' = [data EXCEPT ![Address(sequence)] = p]
  PROVE  Clean(index, data')
<1> DEFINE s == Indexed(index)
<1>1. s \in 0 .. MaxSequence /\ sequence = s + 1 /\ MaxSequence \in Nat
  BY IndexTyped, IndexFacts, NandLogAssumption DEF CleanInv, KeptInv, AtData
<1>2. s # MaxSequence
  BY <1>1 DEF CleanInv, KeptInv, TypeOK
<1>3. data' = [data EXCEPT ![Address(s + 1)] = p] /\ p.seq = s + 1
  BY <1>1
<1>4. DataType(data) /\ CleanData(data, s) /\ CleanIndex(index)
  BY DataTyped DEF CleanInv, KeptInv, Clean
<1> HIDE DEF s
<1>5. CleanData(data', s)
  BY <1>1, <1>2, <1>3, <1>4, CleanSpareWritten
<1> QED BY <1>4, <1>5 DEF Clean, s

LEMMA CleanTornIndexStep ==
  ASSUME CleanInv, pc = "indexWrite",
         index' = [index EXCEPT ![Other] = [kind |-> "header", seq |-> 0]]
  PROVE  Clean(index', data) /\ Indexed(index') = Indexed(index)
<1>1. IndexType(index) /\ CleanIndex(index) /\ CleanData(data, Indexed(index)) /\ KeptInv
  BY IndexTyped DEF CleanInv, KeptInv, Clean
<1>2. Other \in Copies
  BY DEF Other, Copies
<1>3. CleanIndex(index')
  BY <1>1, <1>2, CleanTorn
<1>4. Indexed(index') = Indexed(index)
  BY <1>1, TornIndexStep
<1> QED BY <1>1, <1>3, <1>4 DEF Clean

LEMMA CleanWriteIndexStep ==
  ASSUME CleanInv, WriteIndex
  PROVE  Clean(index', data)
<1> DEFINE s == Indexed(index)
<1>1. /\ IndexType(index) /\ KeptInv /\ pc = "indexWrite"
      /\ copy = IndexCopy(index) /\ s # MaxSequence
      /\ CleanIndex(index) /\ CleanData(data, s)
  BY IndexTyped DEF CleanInv, KeptInv, Clean, AtIndex, WriteIndex
<1>2. /\ Other \in Copies
      /\ IndexCopy(index) = 0 => Other = 1
      /\ IndexCopy(index) # 0 => Other = 0
  BY <1>1 DEF Other, Copies
<1>3. Publishing = s + 1 /\ Indexed(index') = s + 1
  BY <1>1, NextPublished, WriteIndexStep
<1>4. index' = [index EXCEPT ![Other] = [kind |-> "page", seq |-> s + 1]]
  BY <1>3 DEF WriteIndex
<1>5. CleanIndex(index')
  BY <1>1, <1>2, <1>4, CleanPublished
<1>6. s \in Nat
  BY <1>1, IndexFacts, NandLogAssumption
<1> HIDE DEF s
<1>7. CleanData(data, s + 1)
  BY <1>1, <1>6, CleanGrows
<1> QED BY <1>3, <1>5, <1>7 DEF Clean

(* Nothing the transaction does changes the log's cleanliness or what it   *)
(* has reported, provided a failed program leaves a readable header.       *)
LEMMA CleanStep ==
  ASSUME Tears \subseteq {"header"}
  PROVE  CleanInv /\ [Next]_vars => CleanInv'
<1> SUFFICES ASSUME CleanInv, [Next]_vars PROVE CleanInv'
  OBVIOUS
<1>t. KeptInv /\ KeptInv' /\ TypeOK /\ TypeOK'
  BY KeptStep DEF CleanInv, KeptInv
<1>k. Clean(index, data) /\ Clean(dIndex, dData) /\ Settled /\ Proper /\ Acked
  BY DEF CleanInv
<1>s. /\ Indexed(index) \in 0 .. MaxSequence /\ Indexed(dIndex) \in 0 .. MaxSequence
      /\ reported \in 0 .. MaxSequence /\ MaxSequence \in Nat
  BY <1>t, IndexTyped, IndexFacts, NandLogAssumption DEF TypeOK
<1> DEFINE Done == /\ Clean(index', data') /\ Clean(dIndex', dData')
                   /\ Settled' /\ Proper' /\ Acked'
<1> SUFFICES Done
  BY <1>t DEF CleanInv
<1> USE DEF live, media, locals
<1>1. ASSUME NEW v \in Values, BeginAppend(v) PROVE Done
  <2>1. /\ index' = index /\ data' = data /\ dIndex' = dIndex /\ dData' = dData
        /\ reported' = reported /\ pc = "idle" /\ pc' \in {"indexWrite", "dataWrite"}
        /\ LoadCode(index, data) \in {"Ok", "Empty"}
    BY <1>1 DEF BeginAppend
  <2>2. ~IndexCorrupt(index)
    BY <2>1 DEF LoadCode
  <2>3. Proper'
    BY <2>1, <2>2 DEF Proper, IndexCorrupt
  <2> QED BY <1>k, <2>1, <2>3 DEF Settled, Acked
<1>2. CASE Refuse
  BY <1>2, <1>k DEF Refuse, Settled, Proper, Acked
<1>3. CASE OpenError
  BY <1>3, <1>k DEF OpenError, Settled, Proper, Acked
<1>4. CASE WriteData
  <2>1. CASE SpareCorrupt(data, latest)
    <3>1. /\ index' = index /\ data' = data /\ dIndex' = dIndex /\ dData' = dData
          /\ reported' = reported /\ pc' = "failed"
      BY <1>4, <2>1 DEF WriteData
    <3> QED BY <1>k, <3>1 DEF Settled, Proper, Acked
  <2>2. CASE ~SpareCorrupt(data, latest)
    <3> DEFINE p == [kind |-> "page", seq |-> sequence, value |-> input]
    <3>1. /\ index' = index /\ dIndex' = dIndex /\ dData' = dData /\ pc = "dataWrite"
          /\ reported' = reported /\ pc' = "dataSync"
          /\ data' = [data EXCEPT ![Address(sequence)] = p]
      BY <1>4, <2>2 DEF WriteData
    <3>2. p \in DataSet /\ p.seq = sequence /\ ValidHeader(p)
      BY <1>t, <1>s DEF TypeOK, DataSet, PageKinds, ValidHeader
    <3> HIDE DEF p
    <3>3. Clean(index, data')
      BY <3>1, <3>2, CleanSpareStep
    <3> QED BY <1>k, <3>1, <3>3 DEF Settled, Proper, Acked
  <2> QED BY <2>1, <2>2
<1>5. CASE DataSync
  <2>1. /\ index' = index /\ data' = data /\ dIndex' = index /\ dData' = data
        /\ pc = "dataSync" /\ pc' = "dataVerify" /\ reported' = reported
    BY <1>5 DEF DataSync, Sync
  <2> QED BY <1>k, <2>1 DEF Settled, Proper, Acked
<1>6. CASE VerifyData
  <2>1. /\ index' = index /\ data' = data /\ dIndex' = dIndex /\ dData' = dData
        /\ reported' = reported /\ pc = "dataVerify" /\ pc' \in {"indexWrite", "failed"}
    BY <1>6 DEF VerifyData
  <2> QED BY <1>k, <2>1 DEF Settled, Proper, Acked
<1>7. CASE WriteIndex
  <2>1. /\ data' = data /\ dIndex' = dIndex /\ dData' = dData
        /\ pc = "indexWrite" /\ pc' = "indexSync" /\ reported' = reported
    BY <1>7 DEF WriteIndex
  <2>2. Indexed(index') = Indexed(index) + 1 /\ Clean(index', data')
    BY <1>7, <1>t, <2>1, WriteIndexStep, CleanWriteIndexStep
  <2>3. Indexed(index') # 0 /\ reported <= Indexed(index')
    BY <2>2, <1>s, <1>k DEF Acked
  <2> QED BY <1>k, <2>1, <2>2, <2>3 DEF Settled, Proper, Acked
<1>8. CASE IndexSync
  <2>1. /\ index' = index /\ data' = data /\ dIndex' = index /\ dData' = data
        /\ pc = "indexSync" /\ pc' = "indexVerify" /\ reported' = reported
    BY <1>8 DEF IndexSync, Sync
  <2> QED BY <1>k, <2>1 DEF Settled, Proper, Acked
<1>9. CASE VerifyIndex
  <2>1. /\ index' = index /\ data' = data /\ dIndex' = dIndex /\ dData' = dData
        /\ sequence' = sequence /\ pc = "indexVerify" /\ reported' = reported
        /\ pc' \in {"failed", "reopen", "dataWrite"}
    BY <1>9 DEF VerifyIndex
  <2>2. ASSUME pc' = "reopen" PROVE sequence = Indexed(dIndex) /\ latest' = sequence
    <3>1. Publishing = sequence /\ latest' = Publishing
      BY <1>9, <2>2 DEF VerifyIndex
    <3>2. Indexed(index) = Publishing /\ index = dIndex
      BY <1>t, <1>k, <2>1 DEF KeptInv, AtSync, Settled
    <3> QED BY <3>1, <3>2
  <2> QED BY <1>k, <2>1, <2>2 DEF Settled, Proper, Acked
<1>10. CASE Reopen
  <2>1. /\ index' = dIndex /\ data' = dData /\ dIndex' = dIndex /\ dData' = dData
        /\ pc = "reopen" /\ pc' = "recheck" /\ reported' = reported
        /\ sequence' = sequence /\ latest' = latest
    BY <1>10 DEF Reopen
  <2> QED BY <1>k, <2>1 DEF Settled, Proper, Acked
<1>11. CASE Recheck
  <2>1. /\ index' = index /\ data' = data /\ dIndex' = dIndex /\ dData' = dData
        /\ pc = "recheck" /\ pc' \in {"complete", "failed"} /\ reported' = reported
        /\ sequence' = sequence /\ latest' = latest
    BY <1>11 DEF Recheck
  <2>2. ASSUME pc' = "complete" PROVE ~Adopts(dIndex, dData)
    <3>1. LoadLatest(index, data) = latest
      BY <1>11, <2>2 DEF Recheck
    <3>2. latest = Indexed(dIndex) /\ index = dIndex /\ data = dData
      BY <1>k, <2>1 DEF Acked, Settled
    <3> QED BY <3>1, <3>2, <1>s DEF LoadLatest
  <2> QED BY <1>k, <2>1, <2>2 DEF Settled, Proper, Acked
<1>12. CASE IoError
  BY <1>12, <1>k DEF IoError, Settled, Proper, Acked
<1>13. CASE TornWrite
  <2>1. dIndex' = dIndex /\ dData' = dData /\ pc' = "failed" /\ reported' = reported
    BY <1>13 DEF TornWrite
  <2>2. PICK tear \in Tears : TornPage(tear)
    BY <1>13, TornPages
  <2>3. tear = "header"
    OBVIOUS
  <2>4. Clean(index', data') /\ Indexed(index') = Indexed(index)
    <3>1. CASE pc = "dataWrite"
      <4> DEFINE p == [kind |-> "header", seq |-> sequence, value |-> NoValue]
      <4>1. data' = [data EXCEPT ![Address(sequence)] = p] /\ index' = index
        BY <3>1, <2>2, <2>3 DEF TornPage
      <4>2. p \in DataSet /\ p.seq = sequence /\ ValidHeader(p)
        BY <1>t, <1>s DEF TypeOK, DataSet, PageKinds, ValidHeader
      <4> HIDE DEF p
      <4>3. Clean(index, data')
        BY <3>1, <4>1, <4>2, CleanSpareStep
      <4> QED BY <4>1, <4>3
    <3>2. CASE pc = "indexWrite"
      <4>1. data' = data /\ index' = [index EXCEPT ![Other] = [kind |-> "header", seq |-> 0]]
        BY <3>2, <2>2, <2>3 DEF TornPage
      <4>2. Clean(index', data) /\ Indexed(index') = Indexed(index)
        BY <3>2, <4>1, CleanTornIndexStep
      <4> QED BY <4>1, <4>2
    <3> QED BY <3>1, <3>2, <2>2 DEF TornPage
  <2> QED BY <1>k, <2>1, <2>4 DEF Settled, Proper, Acked
<1>14. CASE Checkpoint
  <2>1. /\ index' = index /\ data' = data /\ dIndex' = index /\ dData' = data
        /\ pc' = pc /\ latest' = latest /\ sequence' = sequence /\ reported' = reported
    BY <1>14 DEF Checkpoint
  <2>2. pc \in {"reopen", "recheck", "complete"} => index = dIndex /\ data = dData
    BY <1>k DEF Settled
  <2> QED BY <1>k, <2>1, <2>2 DEF Settled, Proper, Acked
<1>15. ASSUME NEW closed \in BOOLEAN, Finish(closed) PROVE Done
  <2>1. /\ index' = dIndex /\ data' = dData /\ dIndex' = dIndex /\ dData' = dData
        /\ pc' = "idle"
    BY <1>15 DEF Finish, Closed
  <2>2. reported' <= Indexed(dIndex)
    <3>1. CASE pc = "complete" /\ closed
      BY <1>15, <3>1, <1>k, <1>s DEF Finish, Acked
    <3>2. CASE ~(pc = "complete" /\ closed)
      BY <1>15, <3>2, <1>k DEF Finish, Acked
    <3> QED BY <3>1, <3>2
  <2> QED BY <1>k, <2>1, <2>2 DEF Settled, Proper, Acked
<1>16. CASE PowerCut
  BY <1>16, <1>k DEF PowerCut, Closed, Settled, Proper, Acked
<1>17. CASE UNCHANGED vars
  BY <1>17, <1>k DEF vars, Settled, Proper, Acked
<1> HIDE DEF Done
<1> QED BY <1>1, <1>2, <1>3, <1>4, <1>5, <1>6, <1>7, <1>8, <1>9, <1>10, <1>11,
           <1>12, <1>13, <1>14, <1>15, <1>16, <1>17 DEF Next

(* What the log calls latest, once a page has been reported, and why the   *)
(* next append finds the spare free.                                       *)
LEMMA CleanIsReported == CleanInv => ReportedNeverLost
<1> SUFFICES ASSUME CleanInv, reported # 0
             PROVE  /\ StoredLatest >= reported
                    /\ StoredLatest # MaxSequence => ~SpareCorrupt(dData, StoredLatest)
  BY DEF ReportedNeverLost
<1> DEFINE s == Indexed(dIndex)
           n == LoadLatest(dIndex, dData)
<1>1. /\ IndexType(dIndex) /\ DataType(dData) /\ Clean(dIndex, dData)
      /\ Kept(dIndex, dData) /\ KeptInv
  BY IndexTyped, DataTyped DEF CleanInv, KeptInv
<1>2. /\ s \in Nat /\ reported \in Nat /\ reported <= s /\ s # 0
      /\ MaxSequence \in Nat /\ n \in 0 .. MaxSequence
  BY <1>1, IndexFacts, LoadType, NandLogAssumption DEF CleanInv, Acked, KeptInv, TypeOK
<1>3. n = s \/ n = s + 1
  BY DEF LoadLatest
<1>4. n # 0 /\ n >= reported
  BY <1>2, <1>3
<1>5. LoadCode(dIndex, dData) = "Ok"
  BY <1>1, <1>2, <1>4, CleanLoad
<1>6. StoredLatest = n
  BY <1>5 DEF StoredLatest
<1>7. n = s => s = MaxSequence \/ ~Holds(dData, s + 1)
  BY <1>2 DEF LoadLatest, Adopts
<1>8. CleanData(dData, s)
  BY <1>1 DEF Clean
<1> HIDE DEF s, n
<1>9. ASSUME n # MaxSequence, SpareCorrupt(dData, n) PROVE FALSE
  <2> DEFINE a == Address(n + 1)
             p == dData[a]
             q == p.seq
  <2>1. a \in Addresses /\ n \in Nat
    BY <1>2, AddressType
  <2>2. p.kind # "blank" /\ \/ ~ValidHeader(p)
                            \/ Address(q) # a
                            \/ q = n + 1 /\ p.kind = "page"
                            \/ q # n + 1 /\ (q > n \/ q >= Oldest(n))
    BY <1>9 DEF SpareCorrupt
  <2>3. ValidHeader(p) /\ q \in 1 .. s + 1 /\ Address(q) = a
    BY <1>8, <2>1, <2>2 DEF CleanData
  <2>4. CASE q = n + 1
    <3>1. n = s /\ p.kind = "page"
      BY <2>2, <2>3, <2>4, <1>2, <1>3
    <3>2. Holds(dData, s + 1)
      BY <3>1, <2>4 DEF Holds
    <3> QED BY <3>1, <3>2, <1>7, <1>9
  <2>5. CASE q # n + 1
    <3>1. q > n \/ q >= Oldest(n)
      BY <2>2, <2>3, <2>5
    <3> HIDE DEF q, p
    <3>2. q \in 1 .. n
      BY <2>3, <2>5, <1>2, <1>3
    <3>3. q >= Oldest(n)
      BY <3>1, <3>2, <2>1
    <3>4. q \in Window(n)
      BY <3>2, <3>3, <1>2 DEF Window, Sequences
    <3> QED BY <3>4, <2>1, <2>3, WindowSpare
  <2> QED BY <2>4, <2>5
<1> QED BY <1>4, <1>6, <1>9

(* A page reported as appended stays in the log, and the log takes further *)
(* pages, whatever errors, torn pages and power cuts follow, so long as    *)
(* the header of a torn page can still be read: append() refuses a spare   *)
(* whose header it cannot read, and load() an index page it cannot.        *)
THEOREM ReportedStays ==
  ASSUME Tears \subseteq {"header"}
  PROVE  Spec => []ReportedNeverLost
<1>1. Init => CleanInv
  BY CleanAtInit
<1>2. CleanInv /\ [Next]_vars => CleanInv'
  BY CleanStep
<1>3. CleanInv => ReportedNeverLost
  BY CleanIsReported
<1> QED BY <1>1, <1>2, <1>3, PTL DEF Spec

-----------------------------------------------------------------------------
(* The refinement: what a boot would read is the abstract log.             *)
Pages(d, n) == [s \in Window(n) |-> d[Address(s)].value]
LogOf(i, d) == IF LoadCode(i, d) # "Ok" THEN <<>> ELSE Pages(d, LoadLatest(i, d))

(* The pages the open transaction reads are the log a power cut leaves, or *)
(* that log with the page being appended, or nothing: the latter only when *)
(* the first index page was torn.                                          *)
Ahead ==
  /\ \/ LogOf(index, data) = Stored
     \/ /\ LogOf(index, data) = Log!Appended(Stored, input)
        /\ Log!Latest(Stored) + 1 = sequence /\ input # NoValue
     \/ /\ LogOf(index, data) = <<>> /\ input # NoValue
        /\ reported = 0 /\ Log!Latest(Stored) <= 1
  /\ pc = "idle" => sequence = 0

LEMMA StoredIsLog == Stored = LogOf(dIndex, dData)
BY DEF Stored, LogOf, Pages

LEMMA WindowOf ==
  ASSUME NEW n \in 1 .. MaxSequence
  PROVE  n \in Window(n) /\ \A r \in Window(n) : r <= n
BY NandLogAssumption DEF Window, Oldest, MaxPages, Sequences

LEMMA LatestOfPages ==
  ASSUME NEW d, NEW n \in 1 .. MaxSequence
  PROVE  Log!Latest(Pages(d, n)) = n
<1>1. DOMAIN Pages(d, n) = Window(n)
  BY DEF Pages
<1>2. n \in Window(n) /\ (\A r \in Window(n) : r <= n) /\ Window(n) \subseteq Nat
  BY WindowOf, NandLogAssumption DEF Window, Sequences
<1>3. Pages(d, n) # <<>>
  <2>1. DOMAIN <<>> = {}
    OBVIOUS
  <2> QED BY <1>1, <1>2, <2>1
<1>4. Log!Latest(Pages(d, n))
        = CHOOSE s \in Window(n) : \A r \in Window(n) : r <= s
  BY <1>1, <1>3 DEF Log!Latest
<1>5. \A s \in Window(n) : (\A r \in Window(n) : r <= s) => s = n
  BY <1>2
<1> QED BY <1>2, <1>4, <1>5

LEMMA LatestOfNothing == Log!Latest(<<>>) = 0
BY DEF Log!Latest

LEMMA LatestOfLog ==
  ASSUME NEW i, IndexType(i), NEW d
  PROVE  Log!Latest(LogOf(i, d)) = IF LoadCode(i, d) = "Ok" THEN LoadLatest(i, d) ELSE 0
<1>1. LoadCode(i, d) = "Ok" => LoadLatest(i, d) # 0
  BY DEF LoadCode
<1>2. LoadLatest(i, d) \in 0 .. MaxSequence
  BY LoadType
<1>3. CASE LoadCode(i, d) = "Ok"
  <2>1. LoadLatest(i, d) \in 1 .. MaxSequence
    BY <1>1, <1>2, <1>3, NandLogAssumption
  <2> QED BY <1>3, <2>1, LatestOfPages DEF LogOf
<1>4. CASE LoadCode(i, d) # "Ok"
  BY <1>4, LatestOfNothing DEF LogOf
<1> QED BY <1>3, <1>4

(* A page written in the spare is the log with that page appended.         *)
LEMMA AppendedPages ==
  ASSUME NEW d, DataType(d), NEW n \in Nat, n < MaxSequence,
         NEW p \in DataSet
  PROVE  Pages([d EXCEPT ![Address(n + 1)] = p], n + 1)
           = Log!Appended(IF n = 0 THEN <<>> ELSE Pages(d, n), p.value)
<1> DEFINE v == p.value
           e == [d EXCEPT ![Address(n + 1)] = p]
           l == IF n = 0 THEN <<>> ELSE Pages(d, n)
<1>1. n + 1 \in 1 .. MaxSequence /\ MaxSequence \in Nat
  BY NandLogAssumption
<1>2. Log!Latest(l) = n
  <2>1. CASE n = 0
    BY <2>1, LatestOfNothing
  <2>2. CASE n # 0
    <3>1. n \in 1 .. MaxSequence
      BY <2>2, <1>1
    <3> QED BY <2>2, <3>1, LatestOfPages
  <2> QED BY <2>1, <2>2
<1>3. DOMAIN l = Window(n)
  <2>1. CASE n = 0
    <3>1. Window(0) = {}
      BY DEF Window, Sequences
    <3>2. DOMAIN <<>> = {}
      OBVIOUS
    <3> QED BY <2>1, <3>1, <3>2
  <2>2. CASE n # 0
    BY <2>2 DEF Pages
  <2> QED BY <2>1, <2>2
<1>4. {r \in Window(n) \cup {n + 1} : r + MaxPages > n + 1} = Window(n + 1)
  BY <1>1, NandLogAssumption DEF Window, Oldest, MaxPages, Sequences
<1>5. Log!Appended(l, v)
        = [s \in Window(n + 1) |-> IF s = n + 1 THEN v ELSE l[s]]
  BY <1>2, <1>3, <1>4 DEF Log!Appended
<1>6. ASSUME NEW s \in Window(n + 1)
      PROVE  e[Address(s)].value = IF s = n + 1 THEN v ELSE l[s]
  <2>1. CASE s = n + 1
    <3>1. Address(n + 1) \in Addresses
      BY AddressType
    <3> QED BY <2>1, <3>1 DEF DataType
  <2>2. CASE s # n + 1
    <3>1. s \in Window(n)
      BY <2>2, WindowNext
    <3>2. Address(s) # Address(n + 1) /\ Address(s) \in Addresses
      BY <3>1, WindowSpare
    <3>3. e[Address(s)] = d[Address(s)]
      BY <3>2 DEF DataType
    <3>4. n # 0
      BY <3>1 DEF Window, Sequences
    <3> QED BY <2>2, <3>1, <3>3, <3>4 DEF Pages
  <2> QED BY <2>1, <2>2
<1> QED BY <1>5, <1>6 DEF Pages

(* A torn header in the spare leaves the pages of the log as they were.    *)
LEMMA SamePages ==
  ASSUME NEW d, DataType(d), NEW n \in Nat, NEW p,
         NEW e, e = [d EXCEPT ![Address(n + 1)] = p]
  PROVE  Pages(e, n) = Pages(d, n)
<1>1. ASSUME NEW s \in Window(n) PROVE e[Address(s)] = d[Address(s)]
  <2>1. Address(s) # Address(n + 1) /\ Address(s) \in Addresses
    BY WindowSpare
  <2> QED BY <2>1 DEF DataType
<1> QED BY <1>1 DEF Pages

(* The log the open transaction reads, by where the append stands.         *)
LEMMA LiveLog ==
  ASSUME CleanInv, pc \notin {"idle", "failed"}
  PROVE  LoadCode(index, data) = IF LoadLatest(index, data) = 0 THEN "Empty" ELSE "Ok"
<1>1. /\ IndexType(index) /\ DataType(data) /\ Clean(index, data) /\ Kept(index, data)
  BY IndexTyped, DataTyped DEF CleanInv, KeptInv
<1>2. Indexed(index) # 0 \/ \A c \in Copies : index[c].kind # "header"
  BY DEF CleanInv, Proper
<1> QED BY <1>1, <1>2, CleanLoad

LEMMA SpareFree ==
  ASSUME CleanInv, pc = "dataWrite", ~SpareCorrupt(data, latest)
  PROVE  /\ LoadLatest(index, data) = Indexed(index)
         /\ LogOf(index, data) = IF Indexed(index) = 0 THEN <<>>
                                 ELSE Pages(data, Indexed(index))
<1> DEFINE s == Indexed(index)
<1>1. latest = s /\ s \in 0 .. MaxSequence /\ MaxSequence \in Nat
  BY IndexTyped, IndexFacts, NandLogAssumption DEF CleanInv, KeptInv, AtData
<1>2. ~Holds(data, s + 1)
  BY <1>1 DEF SpareCorrupt, Holds
<1>3. LoadLatest(index, data) = s
  BY <1>2 DEF LoadLatest, Adopts
<1>4. LoadCode(index, data) = IF s = 0 THEN "Empty" ELSE "Ok"
  BY <1>3, LiveLog
<1> QED BY <1>3, <1>4 DEF LogOf

(* The program of the spare appends the page to the log being read.        *)
LEMMA AheadWritten ==
  ASSUME CleanInv, CleanInv', Ahead, WriteData, ~SpareCorrupt(data, latest)
  PROVE  /\ LogOf(index', data') = Log!Appended(Stored, input)
         /\ Log!Latest(Stored) + 1 = sequence
<1> DEFINE s == Indexed(index)
           p == [kind |-> "page", seq |-> sequence, value |-> input]
<1>1. /\ pc = "dataWrite" /\ pc' = "dataSync" /\ index' = index
      /\ data' = [data EXCEPT ![Address(sequence)] = p]
  BY DEF WriteData
<1>2. /\ latest = s /\ sequence = s + 1 /\ s \in Nat /\ IndexType(index)
      /\ sequence \in 0 .. MaxSequence /\ MaxSequence \in Nat
      /\ DataType(data) /\ TypeOK
  BY <1>1, IndexTyped, DataTyped, IndexFacts, NandLogAssumption
     DEF CleanInv, KeptInv, AtData, TypeOK
<1>3. p \in DataSet /\ p.value = input /\ p.kind = "page" /\ p.seq = s + 1
  BY <1>2 DEF DataSet, PageKinds, TypeOK
<1>4. Stored = LogOf(index, data)
  BY <1>1, StoredIsLog DEF CleanInv, Settled
<1>5. /\ LoadLatest(index, data) = s
      /\ Stored = IF s = 0 THEN <<>> ELSE Pages(data, s)
  BY <1>1, <1>4, SpareFree
<1>6. Log!Latest(Stored) = s
  <2>1. CASE s = 0
    BY <2>1, <1>5, LatestOfNothing
  <2>2. CASE s # 0
    <3>1. s \in 1 .. MaxSequence
      BY <2>2, <1>2
    <3> QED BY <2>2, <3>1, <1>5, LatestOfPages
  <2> QED BY <2>1, <2>2
<1> HIDE DEF p
<1>7. Holds(data', s + 1)
  <2>1. Address(s + 1) \in Addresses
    BY <1>2, AddressType
  <2> QED BY <2>1, <1>1, <1>2, <1>3 DEF Holds, DataType
<1>8. LoadLatest(index', data') = s + 1
  BY <1>1, <1>2, <1>7 DEF LoadLatest, Adopts
<1>9. LoadCode(index', data') = "Ok"
  <2>1. /\ IndexType(index') /\ DataType(data') /\ Clean(index', data') /\ Kept(index', data')
    BY <1>2, <1>1, <1>3 DEF CleanInv, KeptInv, DataType
  <2>2. Indexed(index') # 0 \/ \A c \in Copies : index'[c].kind # "header"
    BY <1>1 DEF CleanInv, Proper
  <2>3. s + 1 # 0
    BY <1>2
  <2> QED BY <2>1, <2>2, <2>3, <1>8, CleanLoad
<1>10. LogOf(index', data') = Pages(data', s + 1)
  BY <1>8, <1>9 DEF LogOf
<1> DEFINE n == s
<1>11. /\ n \in Nat /\ n < MaxSequence
       /\ data' = [data EXCEPT ![Address(n + 1)] = p]
       /\ Stored = IF n = 0 THEN <<>> ELSE Pages(data, n)
  BY <1>1, <1>2, <1>5
<1>12. Pages(data', n + 1) = Log!Appended(Stored, input)
  <2>1. DataType(data) /\ p \in DataSet /\ p.value = input
    BY <1>2, <1>3
  <2> HIDE DEF s, n
  <2>2. Pages([data EXCEPT ![Address(n + 1)] = p], n + 1)
          = Log!Appended(IF n = 0 THEN <<>> ELSE Pages(data, n), p.value)
    BY <2>1, <1>11, AppendedPages
  <2> QED BY <2>1, <2>2, <1>11, Zenon
<1> QED BY <1>2, <1>6, <1>10, <1>12

(* Indexing the page read ahead of the index leaves the log as it is.      *)
LEMMA AheadIndexed ==
  ASSUME CleanInv, CleanInv', WriteIndex
  PROVE  LogOf(index', data') = LogOf(index, data)
<1> DEFINE s == Indexed(index)
<1>1. /\ pc = "indexWrite" /\ pc' = "indexSync" /\ data' = data
      /\ Indexed(index') = s + 1
  BY WriteIndexStep DEF WriteIndex, CleanInv
<1>2. /\ s \in Nat /\ DataType(data) /\ Near(data, s)
      /\ s # MaxSequence /\ Holds(data, s + 1)
  BY <1>1, IndexTyped, DataTyped, IndexFacts, NandLogAssumption
     DEF CleanInv, KeptInv, AtIndex, Kept
<1>3. LoadLatest(index, data) = s + 1
  BY <1>2 DEF LoadLatest, Adopts
<1>4. ~Holds(data, (s + 1) + 1)
  <2>1. Address(s + 2) \in Addresses
    BY <1>2, AddressType
  <2>2. data[Address(s + 2)].seq <= s + 1
    BY <1>2, <2>1 DEF Near
  <2>3. (s + 1) + 1 = s + 2 /\ ~(s + 2 <= s + 1)
    BY <1>2
  <2> QED BY <2>2, <2>3 DEF Holds
<1>5. LoadLatest(index', data') = s + 1
  BY <1>1, <1>4 DEF LoadLatest, Adopts
<1>6. s + 1 # 0
  BY <1>2
<1>7. LoadCode(index, data) = "Ok"
  BY <1>1, <1>3, <1>6, LiveLog
<1>8. LoadCode(index', data') = "Ok"
  <2>1. /\ IndexType(index') /\ Clean(index', data') /\ Kept(index', data')
    BY IndexTyped DEF CleanInv, KeptInv, TypeOK, IndexType
  <2> QED BY <2>1, <1>1, <1>2, <1>5, <1>6, CleanLoad
<1> QED BY <1>1, <1>3, <1>5, <1>7, <1>8 DEF LogOf

(* A header torn in the spare leaves the log as it is.                     *)
LEMMA AheadTornData ==
  ASSUME CleanInv, CleanInv', pc = "dataWrite", ~SpareCorrupt(data, latest),
         index' = index,
         data' = [data EXCEPT ![Address(sequence)] =
                    [kind |-> "header", seq |-> sequence, value |-> NoValue]]
  PROVE  LogOf(index', data') = LogOf(index, data)
<1> DEFINE s == Indexed(index)
           p == [kind |-> "header", seq |-> sequence, value |-> NoValue]
<1>1. /\ sequence = s + 1 /\ s \in Nat /\ DataType(data)
      /\ s \in 0 .. MaxSequence /\ MaxSequence \in Nat
  BY IndexTyped, DataTyped, IndexFacts, NandLogAssumption DEF CleanInv, KeptInv, AtData
<1>2. data' = [data EXCEPT ![Address(s + 1)] = p]
  BY <1>1
<1>3. /\ LoadLatest(index, data) = s
      /\ LogOf(index, data) = IF s = 0 THEN <<>> ELSE Pages(data, s)
  BY SpareFree
<1>4. ~Holds(data', s + 1)
  <2>1. Address(s + 1) \in Addresses
    BY <1>1, AddressType
  <2>2. data'[Address(s + 1)] = p
    BY <1>1, <1>2, <2>1 DEF DataType
  <2> QED BY <2>2 DEF Holds
<1>5. LoadLatest(index', data') = s
  BY <1>4 DEF LoadLatest, Adopts
<1>6. LoadCode(index', data') = IF s = 0 THEN "Empty" ELSE "Ok"
  <2>1. /\ IndexType(index') /\ DataType(data') /\ Clean(index', data') /\ Kept(index', data')
    BY IndexTyped, DataTyped DEF CleanInv, KeptInv, TypeOK, IndexType, DataType, Addresses
  <2>2. Indexed(index') # 0 \/ \A c \in Copies : index'[c].kind # "header"
    BY DEF CleanInv, Proper
  <2> QED BY <2>1, <2>2, <1>5, CleanLoad
<1>7. Pages(data', s) = Pages(data, s)
  <2> HIDE DEF p, s
  <2>1. Pages([data EXCEPT ![Address(s + 1)] = p], s) = Pages(data, s)
    BY <1>1, SamePages
  <2> QED BY <1>2, <2>1, Zenon
<1> QED BY <1>3, <1>5, <1>6, <1>7 DEF LogOf

(* A header torn in an index page leaves the log as it is, or, when it was *)
(* to be the first index page, nothing.                                    *)
LEMMA AheadTornIndex ==
  ASSUME CleanInv, CleanInv', pc = "indexWrite", data' = data,
         index' = [index EXCEPT ![Other] = [kind |-> "header", seq |-> 0]]
  PROVE  \/ LogOf(index', data') = LogOf(index, data)
         \/ LogOf(index', data') = <<>> /\ reported = 0 /\ Log!Latest(Stored) <= 1
<1> DEFINE s == Indexed(index)
<1>1. /\ IndexType(index) /\ IndexType(index') /\ DataType(data) /\ s \in Nat
      /\ s # MaxSequence /\ Holds(data, s + 1) /\ index = dIndex /\ data = dData
      /\ reported <= s /\ reported \in Nat
  BY IndexTyped, DataTyped, IndexFacts, NandLogAssumption
     DEF CleanInv, KeptInv, AtIndex, Settled, Acked, TypeOK, IndexType
<1>2. Indexed(index') = s
  BY CleanTornIndexStep
<1>3. LoadLatest(index, data) = s + 1 /\ LoadLatest(index', data') = s + 1 /\ s + 1 # 0
  BY <1>1, <1>2 DEF LoadLatest, Adopts
<1>4. LoadCode(index, data) = "Ok"
  BY <1>3, LiveLog
<1>5. CASE s # 0
  <2>1. Clean(index', data') /\ Kept(index', data')
    BY DEF CleanInv, KeptInv
  <2>2. LoadCode(index', data') = "Ok"
    BY <2>1, <1>1, <1>2, <1>3, <1>5, CleanLoad
  <2> QED BY <1>3, <1>4, <2>2 DEF LogOf
<1>6. CASE s = 0
  <2>1. Other \in Copies
    BY DEF Other, Copies
  <2>2. index'[Other].kind = "header"
    BY <2>1, <1>1 DEF IndexType
  <2>3. LoadCode(index', data') = "Corrupt"
    BY <1>2, <1>6, <2>1, <2>2 DEF LoadCode, IndexCorrupt
  <2>4. LogOf(index', data') = <<>>
    BY <2>3 DEF LogOf
  <2>5. reported = 0
    BY <1>1, <1>6
  <2>6. Log!Latest(Stored) = s + 1
    BY <1>1, <1>3, <1>4, StoredIsLog, LatestOfLog
  <2> QED BY <2>4, <2>5, <2>6, <1>6
<1> QED BY <1>5, <1>6

(* A sync, or the cache written out by itself, is the abstract log's       *)
(* commit, or its loss, or nothing.                                        *)
LEMMA AheadSynced ==
  ASSUME CleanInv, Ahead, index' = index, data' = data, dIndex' = index, dData' = data,
         pc' # "idle", input' = input, sequence' = sequence, reported' = reported
  PROVE  [Log!Next]_Log!vars /\ Ahead'
<1>1. Stored' = LogOf(index, data) /\ LogOf(index, data)' = LogOf(index, data)
  BY DEF Stored, LogOf, Pages, LoadCode, LoadLatest
<1>2. Ahead'
  BY <1>1 DEF Ahead
<1>3. CASE LogOf(index, data) = Stored
  BY <1>1, <1>2, <1>3 DEF Log!vars
<1>4. CASE /\ LogOf(index, data) = Log!Appended(Stored, input)
           /\ Log!Latest(Stored) + 1 = sequence /\ input # NoValue
  <2>1. Log!Commit
    BY <1>1, <1>4 DEF Log!Commit
  <2> QED BY <1>2, <2>1 DEF Log!Next
<1>5. CASE /\ LogOf(index, data) = <<>> /\ input # NoValue
           /\ reported = 0 /\ Log!Latest(Stored) <= 1
  <2>1. Log!Lose
    BY <1>1, <1>5 DEF Log!Lose
  <2> QED BY <1>2, <2>1 DEF Log!Next
<1> QED BY <1>2, <1>3, <1>4, <1>5 DEF Ahead

LEMMA AheadAtInit == Init => Log!Init /\ Ahead
<1> SUFFICES ASSUME Init PROVE Log!Init /\ Ahead
  OBVIOUS
<1>1. CleanInv /\ index = dIndex /\ data = dData /\ pc = "idle"
  BY CleanAtInit DEF Init
<1>2. Indexed(dIndex) = 0
  BY DEF Init, Indexed, IndexCopy, IndexSeq, BlankIndex, Copies, NoCopy
<1>3. dData[Address(1)].kind = "blank"
  <2>1. Address(1) \in Addresses
    BY AddressType
  <2> QED BY <2>1 DEF Init, Addresses, BlankData
<1>4. LoadLatest(dIndex, dData) = 0
  BY <1>2, <1>3 DEF LoadLatest, Adopts, Holds
<1>5. Stored = <<>>
  BY <1>4 DEF Stored, LoadCode
<1>6. LogOf(index, data) = Stored
  BY <1>1, StoredIsLog
<1>7. sequence = 0 /\ input = NoValue /\ reported = 0
  BY DEF Init
<1> QED BY <1>5, <1>6, <1>7 DEF Ahead, Log!Init

(* A step of the transaction that leaves the pages on the medium and the   *)
(* append it is about alone is invisible in the abstract log.              *)
LEMMA AheadStutter ==
  ASSUME dIndex' = dIndex, dData' = dData, input' = input, sequence' = sequence,
         reported' = reported
  PROVE  /\ Stored' = Stored /\ Log!Latest(Stored)' = Log!Latest(Stored)
         /\ Log!Appended(Stored, input)' = Log!Appended(Stored, input)
         /\ UNCHANGED Log!vars
<1>1. Stored' = Stored
  BY DEF Stored, LoadCode, LoadLatest
<1> QED BY <1>1 DEF Log!vars, Log!Latest, Log!Appended

(* Every step of the transaction, of a failure and of a power cut is a     *)
(* step of the abstract log or invisible in it.                            *)
LEMMA AheadStep ==
  ASSUME Tears \subseteq {"header"}
  PROVE  CleanInv /\ Ahead /\ [Next]_vars => [Log!Next]_Log!vars /\ Ahead'
<1> SUFFICES ASSUME CleanInv, Ahead, [Next]_vars PROVE [Log!Next]_Log!vars /\ Ahead'
  OBVIOUS
<1>t. CleanInv' /\ TypeOK /\ Settled
  BY CleanStep DEF CleanInv, KeptInv
<1>i. pc = "idle" <=> input = NoValue
  BY <1>t DEF TypeOK
<1> USE DEF live, media, locals
<1>u. ASSUME dIndex' = dIndex, dData' = dData, input' = input, sequence' = sequence,
             reported' = reported, pc' = "idle" => pc = "idle",
             LogOf(index', data') = LogOf(index, data)
      PROVE  [Log!Next]_Log!vars /\ Ahead'
  BY <1>u, AheadStutter DEF Ahead
<1>r. ASSUME index' = dIndex, data' = dData, dIndex' = dIndex, dData' = dData,
             pc' = "idle" => sequence' = 0
      PROVE  Stored' = Stored /\ Ahead'
  <2>1. Stored' = Stored
    BY <1>r DEF Stored, LoadCode, LoadLatest
  <2>2. LogOf(index', data') = Stored
    BY <1>r, StoredIsLog
  <2> QED BY <1>r, <2>1, <2>2 DEF Ahead
<1>1. ASSUME NEW v \in Values, BeginAppend(v) PROVE [Log!Next]_Log!vars /\ Ahead'
  <2>1. /\ index' = index /\ data' = data /\ dIndex' = dIndex /\ dData' = dData
        /\ reported' = reported /\ pc = "idle" /\ pc' \in {"indexWrite", "dataWrite"}
        /\ input' = v /\ sequence' = LoadLatest(index, data) + 1
        /\ LoadCode(index, data) \in {"Ok", "Empty"}
    BY <1>1 DEF BeginAppend
  <2>2. index = dIndex /\ data = dData
    BY <1>t, <2>1 DEF Settled
  <2>3. LoadCode(index, data) = "Empty" => LoadLatest(index, data) = 0
    BY DEF LoadCode
  <2>4. Log!Latest(Stored) = LoadLatest(index, data)
    <3>1. IndexType(dIndex)
      BY <1>t, IndexTyped
    <3> QED BY <2>1, <2>2, <2>3, <3>1, StoredIsLog, LatestOfLog
  <2>5. Stored' = Stored /\ LogOf(index', data') = Stored
    BY <2>1, <2>2, StoredIsLog DEF Stored, LoadCode, LoadLatest
  <2>6. Ahead'
    BY <2>1, <2>5 DEF Ahead
  <2>7. Log!Begin(v)
    BY <2>1, <2>4, <2>5, <1>i DEF Log!Begin
  <2> QED BY <2>6, <2>7 DEF Log!Next
<1>2. CASE Refuse
  BY <1>2, <1>u DEF Refuse
<1>3. CASE OpenError
  BY <1>3, <1>u DEF OpenError
<1>4. CASE WriteData
  <2>1. CASE SpareCorrupt(data, latest)
    <3>1. /\ index' = index /\ data' = data /\ dIndex' = dIndex /\ dData' = dData
          /\ reported' = reported /\ pc' = "failed" /\ input' = input
          /\ sequence' = sequence
      BY <1>4, <2>1 DEF WriteData
    <3> QED BY <1>u, <3>1
  <2>2. CASE ~SpareCorrupt(data, latest)
    <3>1. /\ dIndex' = dIndex /\ dData' = dData /\ reported' = reported
          /\ pc = "dataWrite" /\ pc' = "dataSync" /\ input' = input /\ sequence' = sequence
      BY <1>4, <2>2 DEF WriteData
    <3>2. /\ LogOf(index', data') = Log!Appended(Stored, input)
          /\ Log!Latest(Stored) + 1 = sequence
      BY <1>4, <1>t, <2>2, AheadWritten
    <3>3. Ahead'
      BY <3>1, <3>2, <1>i, AheadStutter DEF Ahead
    <3> QED BY <3>1, <3>3, AheadStutter
  <2> QED BY <2>1, <2>2
<1>5. CASE DataSync
  BY <1>5, AheadSynced DEF DataSync, Sync
<1>6. CASE VerifyData
  BY <1>6, <1>u DEF VerifyData
<1>7. CASE WriteIndex
  BY <1>7, <1>t, <1>u, AheadIndexed DEF WriteIndex
<1>8. CASE IndexSync
  BY <1>8, AheadSynced DEF IndexSync, Sync
<1>9. CASE VerifyIndex
  BY <1>9, <1>u DEF VerifyIndex
<1>10. CASE Reopen
  <2>1. /\ index' = dIndex /\ data' = dData /\ dIndex' = dIndex /\ dData' = dData
        /\ reported' = reported /\ pc' = "recheck" /\ input' = input /\ sequence' = sequence
    BY <1>10 DEF Reopen
  <2> QED BY <2>1, <1>r, AheadStutter
<1>11. CASE Recheck
  BY <1>11, <1>u DEF Recheck
<1>12. CASE IoError
  BY <1>12, <1>u DEF IoError
<1>13. CASE TornWrite
  <2>1. /\ dIndex' = dIndex /\ dData' = dData /\ pc' = "failed" /\ reported' = reported
        /\ input' = input /\ sequence' = sequence
        /\ pc = "dataWrite" => ~SpareCorrupt(data, latest)
    BY <1>13 DEF TornWrite
  <2>2. PICK tear \in Tears : TornPage(tear)
    BY <1>13, TornPages
  <2>3. tear = "header"
    OBVIOUS
  <2>4. CASE pc = "dataWrite"
    <3>1. /\ index' = index
          /\ data' = [data EXCEPT ![Address(sequence)] =
                        [kind |-> "header", seq |-> sequence, value |-> NoValue]]
      BY <2>2, <2>3, <2>4 DEF TornPage
    <3>2. LogOf(index', data') = LogOf(index, data)
      BY <1>t, <2>1, <2>4, <3>1, AheadTornData
    <3> QED BY <1>u, <2>1, <3>2
  <2>5. CASE pc = "indexWrite"
    <3>1. data' = data /\ index' = [index EXCEPT ![Other] = [kind |-> "header", seq |-> 0]]
      BY <2>2, <2>3, <2>5 DEF TornPage
    <3>2. \/ LogOf(index', data') = LogOf(index, data)
          \/ LogOf(index', data') = <<>> /\ reported = 0 /\ Log!Latest(Stored) <= 1
      BY <1>t, <2>5, <3>1, AheadTornIndex
    <3>3. CASE LogOf(index', data') = LogOf(index, data)
      BY <1>u, <2>1, <3>3
    <3>4. CASE LogOf(index', data') = <<>> /\ reported = 0 /\ Log!Latest(Stored) <= 1
      <4>1. Ahead'
        BY <2>1, <2>5, <3>4, <1>i, AheadStutter DEF Ahead
      <4> QED BY <2>1, <4>1, AheadStutter
    <3> QED BY <3>2, <3>3, <3>4
  <2> QED BY <2>2, <2>4, <2>5 DEF TornPage
<1>14. CASE Checkpoint
  BY <1>14, AheadSynced DEF Checkpoint
<1>15. ASSUME NEW closed \in BOOLEAN, Finish(closed) PROVE [Log!Next]_Log!vars /\ Ahead'
  <2>1. /\ index' = dIndex /\ data' = dData /\ dIndex' = dIndex /\ dData' = dData
        /\ pc' = "idle" /\ input' = NoValue /\ sequence' = 0
        /\ pc \in {"failed", "complete"}
    BY <1>15 DEF Finish, Closed
  <2>2. Stored' = Stored /\ Ahead' /\ input # NoValue
    BY <2>1, <1>r, <1>i
  <2>3. CASE pc = "complete" /\ closed
    <3>1. reported' = sequence
      BY <1>15, <2>3 DEF Finish
    <3>2. /\ sequence = Indexed(dIndex) /\ ~Adopts(dIndex, dData)
          /\ index = dIndex /\ data = dData /\ IndexType(dIndex)
      BY <1>t, <2>3, IndexTyped DEF CleanInv, Acked, Settled
    <3>3. LoadLatest(dIndex, dData) = sequence
      BY <3>2 DEF LoadLatest
    <3>4. LoadCode(dIndex, dData) = IF sequence = 0 THEN "Empty" ELSE "Ok"
      BY <2>3, <3>2, <3>3, LiveLog
    <3>5. Log!Latest(Stored) = sequence
      BY <3>2, <3>3, <3>4, StoredIsLog, LatestOfLog
    <3>6. Log!Done
      BY <2>1, <2>2, <3>1, <3>5 DEF Log!Done
    <3> QED BY <2>2, <3>6 DEF Log!Next
  <2>4. CASE ~(pc = "complete" /\ closed)
    <3>1. reported' = reported
      BY <1>15, <2>4 DEF Finish
    <3>2. Log!Undone
      BY <2>1, <2>2, <3>1 DEF Log!Undone
    <3> QED BY <2>2, <3>2 DEF Log!Next
  <2> QED BY <2>3, <2>4
<1>16. CASE PowerCut
  <2>1. /\ index' = dIndex /\ data' = dData /\ dIndex' = dIndex /\ dData' = dData
        /\ pc' = "idle" /\ input' = NoValue /\ sequence' = 0 /\ reported' = reported
    BY <1>16 DEF PowerCut, Closed
  <2>2. Stored' = Stored /\ Ahead'
    BY <2>1, <1>r
  <2>3. CASE input = NoValue
    <3>1. sequence = 0
      BY <2>3, <1>i DEF Ahead
    <3> QED BY <2>1, <2>2, <2>3, <3>1 DEF Log!vars
  <2>4. CASE input # NoValue
    <3>1. Log!Undone
      BY <2>1, <2>2, <2>4 DEF Log!Undone
    <3> QED BY <2>2, <3>1 DEF Log!Next
  <2> QED BY <2>3, <2>4
<1>17. CASE UNCHANGED vars
  BY <1>17, <1>u DEF vars
<1> QED BY <1>1, <1>2, <1>3, <1>4, <1>5, <1>6, <1>7, <1>8, <1>9, <1>10, <1>11,
           <1>12, <1>13, <1>14, <1>15, <1>16, <1>17 DEF Next

(* The pages, the two index pages and the transaction around them behave   *)
(* as one append-only log, which the system log (logLoad, logRead,         *)
(* logAppend) may take them for; torn pages keep a readable header.        *)
THEOREM LogIsImplemented ==
  ASSUME Tears \subseteq {"header"}
  PROVE  Spec => ImplementsLog
<1>1. Init => CleanInv /\ Ahead /\ Log!Init
  BY CleanAtInit, AheadAtInit
<1>2. CleanInv /\ [Next]_vars => CleanInv'
  BY CleanStep
<1>3. CleanInv /\ Ahead /\ [Next]_vars => [Log!Next]_Log!vars /\ Ahead'
  BY AheadStep
<1> QED BY <1>1, <1>2, <1>3, PTL DEF Spec, ImplementsLog, Log!Spec

(***************************************************************************)
(* The trace of a discharge.                                               *)
(***************************************************************************)
\* what the rows, the model and the records of the trace are
TraceAnchors == {"first", "none"} \cup Anchors
TraceRows == [boot : Nat, life : Nat, anchor : TraceAnchors]
TraceModels == [rows : Seq(TraceRows), armed : BOOLEAN, low : BOOLEAN, fin : BOOLEAN, chg : Nat,
                dirty : BOOLEAN, boot : Nat, given : SUBSET TraceAnchors]
TraceRecords == [ok : BOOLEAN, rows : Seq(TraceRows), armed : BOOLEAN, low : BOOLEAN, fin : BOOLEAN,
                 boot : Nat, given : SUBSET TraceAnchors]
TraceType ==
  /\ m \in TraceModels /\ cmd \in {"none", "arm", "stop", "resume", "checkpoint", "clear"}
  /\ st \in [ready : BOOLEAN, corrupt : BOOLEAN]
  /\ policy \in {"unknown", "fault", "nvs", "pending", "nand"}
  /\ fmt \in [pc : {"none", "queued", "format", "migrate", "activate"}, snap : TraceRecords, tried : BOOLEAN]
  /\ flash \in [policy : 0 .. 2, nvs : TraceRecords, nand : TraceRecords]
  /\ acked.sure \in BOOLEAN
  /\ life \in Nat /\ life >= 1 /\ samples \in Nat /\ samples <= Samples /\ life <= Lives

\* rows as the trace keeps them: its anchors are there once, and its boots in order
Anchored(rows, given) ==
  /\ "none" \notin given
  /\ rows # <<>> => rows[1].anchor = "first"
  /\ \A a \in given : \E i \in 1 .. Len(rows) : rows[i].anchor = a
  /\ \A i \in 1 .. Len(rows) : rows[i].anchor = "none" \/ rows[i].anchor \in given
  /\ \A i, j \in 1 .. Len(rows) : rows[i].anchor = rows[j].anchor => rows[i].anchor = "none" \/ i = j
Booted(rows, boot) ==
  /\ \A i \in 1 .. Len(rows) : rows[i].boot <= boot
  /\ \A i, j \in 1 .. Len(rows) :
       /\ rows[i].boot = rows[j].boot => rows[i].life = rows[j].life
       /\ i < j => rows[i].boot <= rows[j].boot
Orderly(x) == Len(x.rows) <= Rows /\ Anchored(x.rows, x.given) /\ Booted(x.rows, x.boot)
Living(x) == \A i \in 1 .. Len(x.rows) : x.rows[i].boot = x.boot => x.rows[i].life = life

\* the policy of a boot is the one in flash, and a migration holds what the model is
Migrating ==
  /\ policy = "nvs" => flash.policy = 0
  /\ policy = "pending" => flash.policy = 1
  /\ policy = "nand" => flash.policy = 2
  /\ fmt.pc # "none" => cmd = "none" /\ st.ready /\ ~st.corrupt /\ ~m.armed /\ fmt.snap.ok /\ fmt.snap.rows = m.rows
  /\ fmt.pc \in {"format", "migrate", "activate"} => policy = "pending"
  /\ fmt.pc = "activate" => flash.nand = fmt.snap

TraceInv ==
  /\ TraceType /\ Orderly(m) /\ Living(m)
  /\ Orderly(flash.nvs) /\ Orderly(flash.nand) /\ Orderly(fmt.snap)
  /\ Migrating /\ Trace!ReportedKept /\ Trace!CleanIsSaved
\* compaction takes a row out, and keeps the others in their places
LEMMA TraceRemoved ==
  ASSUME NEW S, NEW s \in Seq(S), NEW i \in 1 .. Len(s)
  PROVE /\ Trace!RemoveAt(s, i) \in Seq(S) /\ Len(Trace!RemoveAt(s, i)) = Len(s) - 1
        /\ \A j \in 1 .. Len(s) - 1 : Trace!RemoveAt(s, i)[j] = IF j < i THEN s[j] ELSE s[j + 1]
<1> DEFINE a == SubSeq(s, 1, i - 1)
           b == SubSeq(s, i + 1, Len(s))
<1>1. Len(s) \in Nat /\ i \in Nat
  OBVIOUS
<1>2. a \in Seq(S) /\ Len(a) = i - 1 /\ \A j \in 1 .. i - 1 : a[j] = s[j]
  BY <1>1, SubSeqProperties
<1>3. b \in Seq(S) /\ Len(b) = Len(s) - i /\ \A j \in 1 .. Len(s) - i : b[j] = s[i + j]
  BY <1>1, SubSeqProperties
<1> HIDE DEF a, b
<1>4. /\ a \o b \in Seq(S) /\ Len(a \o b) = Len(a) + Len(b)
      /\ \A j \in 1 .. Len(a) + Len(b) : (a \o b)[j] = IF j <= Len(a) THEN a[j] ELSE b[j - Len(a)]
  BY <1>2, <1>3, ConcatProperties
<1>5. Trace!RemoveAt(s, i) = a \o b
  BY DEF Trace!RemoveAt, a, b
<1>6. ASSUME NEW j \in 1 .. Len(s) - 1
      PROVE  (a \o b)[j] = IF j < i THEN s[j] ELSE s[j + 1]
  <2>1. ASSUME j < i PROVE (a \o b)[j] = s[j]
    BY <1>1, <1>2, <1>3, <1>4, <2>1
  <2>2. ASSUME j >= i PROVE (a \o b)[j] = s[j + 1] /\ ~(j < i)
    <3>1. j - (i - 1) \in 1 .. Len(s) - i /\ j > Len(a) /\ j \in 1 .. Len(a) + Len(b)
      BY <1>1, <1>2, <1>3, <2>2
    <3>2. b[j - (i - 1)] = s[i + (j - (i - 1))]
      BY <1>3, <3>1
    <3>3. i + (j - (i - 1)) = j + 1
      BY <1>1, <2>2
    <3>4. (a \o b)[j] = b[j - Len(a)] /\ j - Len(a) = j - (i - 1)
      BY <1>2, <1>4, <3>1
    <3>5. (a \o b)[j] = s[j + 1] /\ ~(j < i)
      BY <1>1, <2>2, <3>2, <3>3, <3>4
    <3>6. QED BY <3>5
  <2>3. j < i \/ j >= i
    BY <1>1
  <2>4. CASE j < i
    BY <2>1, <2>4
  <2>5. CASE j >= i
    <3>1. (a \o b)[j] = s[j + 1] /\ ~(j < i)
      BY <2>2, <2>5
    <3>2. QED BY <3>1
  <2>6. QED BY <2>3, <2>4, <2>5
<1>7. a \o b \in Seq(S) /\ Len(a \o b) = Len(s) - 1
  BY <1>1, <1>2, <1>3, <1>4
<1> DEFINE c == a \o b
<1>8. Trace!RemoveAt(s, i) = c /\ c \in Seq(S) /\ Len(c) = Len(s) - 1
      /\ \A j \in 1 .. Len(s) - 1 : c[j] = IF j < i THEN s[j] ELSE s[j + 1]
  BY <1>5, <1>6, <1>7
<1> HIDE DEF c
<1>9. QED BY <1>8

\* the half has rows, and all of them are in a full trace
LEMMA TraceHalf == Rows \in Nat /\ Rows \div 2 \in Nat /\ Rows \div 2 > 0 /\ (Rows \div 2) + 1 <= Rows
<1>1. Cardinality(Anchors) \in Nat
  BY TraceConstants, FS_CardinalityType
<1>2. QED BY <1>1, TraceConstants

\* the old half has a row that is no anchor: there are fewer anchors than rows in it
LEMMA TraceSpare ==
  ASSUME NEW rows \in Seq(TraceRows), NEW given, Anchored(rows, given), Len(rows) = Rows
  PROVE \E k \in Trace!Half : rows[k].anchor = "none"
<1> SUFFICES ASSUME \A k \in Trace!Half : rows[k].anchor # "none" PROVE FALSE
  OBVIOUS
<1>1. \A k \in Trace!Half : k \in 1 .. Len(rows) /\ k # 1 /\ k \in Nat
  BY TraceHalf DEF Trace!Half
<1>2. rows # <<>> /\ 1 \in 1 .. Len(rows)
  BY TraceHalf
<1>3. \A k \in Trace!Half : rows[k].anchor \in Anchors
  <2>1. TAKE k \in Trace!Half
  <2>2. rows[k] \in TraceRows
    BY <1>1
  <2>3. rows[k].anchor \in {"first", "none"} \cup Anchors
    BY <2>2 DEF TraceRows, TraceAnchors
  <2>4. rows[k].anchor # "first"
    BY <1>1, <1>2 DEF Anchored
  <2>5. QED BY <2>3, <2>4
<1> DEFINE f == [k \in Trace!Half |-> rows[k].anchor]
<1>4. f \in [Trace!Half -> Anchors]
  BY <1>3
<1>5. IsFiniteSet(Trace!Half) /\ Cardinality(Trace!Half) = Rows \div 2
  BY TraceHalf, FS_Interval DEF Trace!Half
<1>6. PICK x \in Trace!Half, y \in Trace!Half : x # y /\ f[x] = f[y]
  <2> HIDE DEF f
  <2>1. QED BY <1>4, <1>5, TraceConstants, FS_PigeonHole
<1>7. rows[x].anchor = rows[y].anchor
  BY <1>6
<1>8. QED BY <1>1, <1>6, <1>7 DEF Anchored

\* so the row of the least rank is none either
LEMMA TraceOld ==
  ASSUME NEW rows \in Seq(TraceRows), NEW given, Anchored(rows, given), Len(rows) = Rows, NEW i \in Trace!Old(rows)
  PROVE i \in 2 .. Len(rows) /\ rows[i].anchor = "none"
<1>1. PICK k \in Trace!Half : rows[k].anchor = "none"
  BY TraceSpare
<1>2. i \in Trace!Half /\ Trace!Rank(rows, i) <= Trace!Rank(rows, k)
  BY DEF Trace!Old
<1>3. i \in 2 .. Len(rows) /\ i \in 1 .. Len(rows)
  BY <1>2, TraceHalf DEF Trace!Half
<1>4. Trace!Rank(rows, k) \in {0, 1, 2}
  BY <1>1 DEF Trace!Rank
<1>5. ASSUME rows[i].anchor # "none" PROVE FALSE
  <2>1. rows[i] \in TraceRows
    BY <1>3
  <2>2. rows[i].anchor \in {"first", "edv", "zero"}
    BY <1>5, <2>1, TraceConstants DEF TraceRows, TraceAnchors
  <2>3. Trace!AnchorRank[rows[i].anchor] \in {7, 8, 9}
    BY <2>2 DEF Trace!AnchorRank
  <2>4. Trace!Rank(rows, i) = Trace!AnchorRank[rows[i].anchor]
    BY <1>5 DEF Trace!Rank
  <2>5. QED BY <1>2, <1>4, <2>3, <2>4
<1>6. QED BY <1>3, <1>5

\* compaction keeps the anchors, the order and the boots, and makes room
LEMMA TraceCompacted ==
  ASSUME NEW rows \in Seq(TraceRows), NEW given, NEW boot, Anchored(rows, given), Booted(rows, boot), Len(rows) <= Rows,
         NEW r \in Trace!Compacted(rows)
  PROVE /\ r \in Seq(TraceRows) /\ Len(r) < Rows /\ Anchored(r, given) /\ Booted(r, boot)
        /\ (rows = <<>> <=> r = <<>>)
        /\ \A j \in 1 .. Len(r) : \E i \in 1 .. Len(rows) : r[j] = rows[i]
<1>1. CASE Len(rows) < Rows
  <2>1. r = rows
    BY <1>1 DEF Trace!Compacted
  <2>2. QED BY <1>1, <2>1
<1>2. CASE Len(rows) >= Rows
  <2>1. Len(rows) = Rows
    BY <1>2, TraceHalf
  <2>2. PICK i \in Trace!Old(rows) : r = Trace!RemoveAt(rows, i)
    BY <1>2, TraceHalf DEF Trace!Compacted
  <2>3. i \in 2 .. Len(rows) /\ rows[i].anchor = "none" /\ i \in 1 .. Len(rows)
    BY <2>1, TraceOld
  <2>4. /\ r \in Seq(TraceRows) /\ Len(r) = Len(rows) - 1
        /\ \A j \in 1 .. Len(rows) - 1 : r[j] = IF j < i THEN rows[j] ELSE rows[j + 1]
    BY <2>2, <2>3, TraceRemoved
  <2>5. Len(rows) \in Nat /\ Len(r) \in Nat /\ Len(rows) >= 2
    BY <2>3
  <2> DEFINE g(j) == IF j < i THEN j ELSE j + 1
  <2>6. \A j \in 1 .. Len(r) : g(j) \in 1 .. Len(rows) /\ r[j] = rows[g(j)]
    BY <2>3, <2>4, <2>5
  <2>7. \A j, k \in 1 .. Len(r) : (g(j) = g(k) => j = k) /\ (j < k => g(j) < g(k))
    BY <2>3, <2>5
  <2>8. g(1) = 1
    BY <2>3
  <2>9. \A k \in 1 .. Len(rows) : k # i => \E j \in 1 .. Len(r) : g(j) = k
    <3>1. TAKE k \in 1 .. Len(rows)
    <3>2. HAVE k # i
    <3>3. CASE k < i
      BY <2>3, <2>4, <2>5, <3>3
    <3>4. CASE k > i
      <4>1. k - 1 \in 1 .. Len(r) /\ g(k - 1) = k
        BY <2>3, <2>4, <2>5, <3>4
      <4>2. QED BY <4>1
    <3>5. QED BY <2>3, <2>5, <3>2, <3>3, <3>4
  <2> HIDE DEF g
  <2>10. r # <<>> /\ rows # <<>> /\ 1 \in 1 .. Len(r)
    BY <2>3, <2>4, <2>5
  <2>11. Anchored(r, given)
    <3>1. "none" \notin given /\ r[1].anchor = "first"
      BY <2>6, <2>8, <2>10 DEF Anchored
    <3>2. \A a \in given : \E j \in 1 .. Len(r) : r[j].anchor = a
      <4>1. TAKE a \in given
      <4>2. PICK k \in 1 .. Len(rows) : rows[k].anchor = a
        BY DEF Anchored
      <4>3. k # i
        BY <2>3, <3>1, <4>2
      <4>4. QED BY <2>6, <2>9, <4>2, <4>3
    <3>3. \A j \in 1 .. Len(r) : r[j].anchor = "none" \/ r[j].anchor \in given
      BY <2>6 DEF Anchored
    <3>4. \A j, k \in 1 .. Len(r) : r[j].anchor = r[k].anchor => r[j].anchor = "none" \/ j = k
      BY <2>6, <2>7 DEF Anchored
    <3>5. QED BY <3>1, <3>2, <3>3, <3>4 DEF Anchored
  <2>12. Booted(r, boot)
    <3>1. \A j \in 1 .. Len(r) : r[j].boot <= boot
      BY <2>6 DEF Booted
    <3>2. ASSUME NEW j \in 1 .. Len(r), NEW k \in 1 .. Len(r)
          PROVE  (r[j].boot = r[k].boot => r[j].life = r[k].life) /\ (j < k => r[j].boot <= r[k].boot)
      <4>1. g(j) \in 1 .. Len(rows) /\ g(k) \in 1 .. Len(rows) /\ r[j] = rows[g(j)] /\ r[k] = rows[g(k)] /\ (j < k => g(j) < g(k))
        BY <2>6, <2>7
      <4>2. QED BY <4>1 DEF Booted
    <3>3. QED BY <3>1, <3>2 DEF Booted
  <2>13. QED BY <2>1, <2>4, <2>5, <2>6, <2>10, <2>11, <2>12
<1>3. QED BY <1>1, <1>2, TraceHalf

\* what a row that is appended leaves of the trace
LEMMA TraceAppended ==
  ASSUME m \in TraceModels, Orderly(m), Living(m), life \in Nat, NEW a \in Trace!NextAnchors, NEW flow, NEW x \in Trace!Appended(a, flow)
  PROVE x \in TraceModels /\ Orderly(x) /\ Living(x) /\ x.dirty
<1>1. PICK r \in Trace!Compacted(m.rows) :
        LET saw == m.low \/ flow = "deep"
            chg == IF saw /\ flow = "charge" THEN m.chg + 1 ELSE 0
            done == chg = 2
        IN x = [m EXCEPT !.rows = Append(r, [boot |-> m.boot, life |-> life, anchor |-> a]),
                         !.low = saw, !.chg = IF done THEN 0 ELSE chg, !.armed = ~done, !.fin = done,
                         !.dirty = TRUE, !.given = @ \cup ({a} \ {"none"})]
  BY DEF Trace!Appended
<1>2. /\ m.rows \in Seq(TraceRows) /\ m.boot \in Nat /\ m.chg \in Nat /\ m.given \in SUBSET TraceAnchors
      /\ m.low \in BOOLEAN /\ Len(m.rows) <= Rows /\ Anchored(m.rows, m.given) /\ Booted(m.rows, m.boot)
  BY DEF TraceModels, Orderly
<1>3. /\ r \in Seq(TraceRows) /\ Len(r) < Rows /\ Anchored(r, m.given) /\ Booted(r, m.boot)
      /\ (m.rows = <<>> <=> r = <<>>)
      /\ \A j \in 1 .. Len(r) : \E i \in 1 .. Len(m.rows) : r[j] = m.rows[i]
  BY <1>2, TraceCompacted
<1>4. a \in TraceAnchors /\ (m.rows = <<>> => a = "first") /\ (m.rows # <<>> => a = "none" \/ a \notin m.given)
  BY DEF Trace!NextAnchors, TraceAnchors
<1> DEFINE row == [boot |-> m.boot, life |-> life, anchor |-> a]
           rows == Append(r, row)
           given == m.given \cup ({a} \ {"none"})
<1>5. row \in TraceRows /\ row.boot = m.boot /\ row.life = life /\ row.anchor = a
  BY <1>2, <1>4 DEF TraceRows
<1> HIDE DEF row
<1>6. /\ rows \in Seq(TraceRows) /\ rows # <<>> /\ Len(rows) = Len(r) + 1
      /\ \A i \in 1 .. Len(r) : rows[i] = r[i]
      /\ rows[Len(r) + 1] = row
  BY <1>3, <1>5, AppendProperties
<1>7. x = [m EXCEPT !.rows = rows, !.low = x.low, !.chg = x.chg, !.armed = x.armed, !.fin = x.fin, !.dirty = TRUE, !.given = given]
      /\ x.low \in BOOLEAN /\ x.chg \in Nat /\ x.armed \in BOOLEAN /\ x.fin \in BOOLEAN
  <2>1. PICK saw \in BOOLEAN, done \in BOOLEAN, chg \in Nat :
          x = [m EXCEPT !.rows = rows, !.low = saw, !.chg = chg, !.armed = ~done, !.fin = done, !.dirty = TRUE, !.given = given]
    <3> DEFINE saw == m.low \/ flow = "deep"
               chg == IF saw /\ flow = "charge" THEN m.chg + 1 ELSE 0
               done == chg = 2
               left == IF done THEN 0 ELSE chg
    <3>1. saw \in BOOLEAN /\ done \in BOOLEAN /\ left \in Nat
      BY <1>2
    <3>2. x = [m EXCEPT !.rows = rows, !.low = saw, !.chg = left, !.armed = ~done, !.fin = done, !.dirty = TRUE, !.given = given]
      BY <1>1 DEF row
    <3> HIDE DEF saw, chg, done, left, rows, given
    <3>3. QED BY <3>1, <3>2
  <2>2. x.low = saw /\ x.chg = chg /\ x.armed = ~done /\ x.fin = done
    BY <2>1 DEF TraceModels
  <2>3. QED BY <2>1, <2>2
<1>8. given \in SUBSET TraceAnchors
  BY <1>2, <1>4
<1> HIDE DEF rows, given
<1>9. x \in TraceModels /\ x.rows = rows /\ x.boot = m.boot /\ x.given = given /\ x.dirty
  BY <1>2, <1>6, <1>7, <1>8 DEF TraceModels
<1>10. Len(r) \in Nat /\ Rows \in Nat /\ Len(rows) <= Rows
  BY <1>3, <1>6, TraceHalf
<1>11. Anchored(rows, given)
  <2>1. "none" \notin given
    BY <1>3 DEF Anchored, given
  <2>2. rows[1].anchor = "first"
    <3>1. CASE r = <<>>
      BY <1>3, <1>4, <1>5, <1>6, <3>1
    <3>2. CASE r # <<>>
      <4>1. 1 \in 1 .. Len(r)
        BY <1>3, <3>2
      <4>2. QED BY <1>3, <1>6, <3>2, <4>1 DEF Anchored
    <3>3. QED BY <3>1, <3>2
  <2>3. \A b \in given : \E i \in 1 .. Len(rows) : rows[i].anchor = b
    <3>1. TAKE b \in given
    <3>2. CASE b \in m.given
      <4>1. PICK i \in 1 .. Len(r) : r[i].anchor = b
        BY <1>3, <3>2 DEF Anchored
      <4>2. i \in 1 .. Len(rows)
        BY <1>6, <1>10
      <4>3. QED BY <1>6, <4>1, <4>2
    <3>3. CASE b = a
      <4>1. Len(r) + 1 \in 1 .. Len(rows)
        BY <1>6, <1>10
      <4>2. QED BY <1>5, <1>6, <3>3, <4>1
    <3>4. QED BY <3>2, <3>3 DEF given
  <2>4. \A i \in 1 .. Len(rows) : rows[i].anchor = "none" \/ rows[i].anchor \in given
    <3>1. TAKE i \in 1 .. Len(rows)
    <3>2. CASE i \in 1 .. Len(r)
      BY <1>3, <1>6, <3>2 DEF Anchored, given
    <3>3. CASE i = Len(r) + 1
      BY <1>5, <1>6, <3>3 DEF given
    <3>4. QED BY <1>6, <1>10, <3>2, <3>3
  <2>5. a = "none" \/ \A i \in 1 .. Len(r) : r[i].anchor # a
    <3>1. CASE m.rows = <<>>
      BY <1>3, <3>1
    <3>2. CASE m.rows # <<>>
      BY <1>3, <1>4, <3>2 DEF Anchored
    <3>3. QED BY <3>1, <3>2
  <2>6. ASSUME NEW i \in 1 .. Len(rows), NEW j \in 1 .. Len(rows), rows[i].anchor = rows[j].anchor
        PROVE  rows[i].anchor = "none" \/ i = j
    <3>1. (i \in 1 .. Len(r) \/ i = Len(r) + 1) /\ (j \in 1 .. Len(r) \/ j = Len(r) + 1)
      BY <1>6, <1>10
    <3>2. CASE i \in 1 .. Len(r) /\ j \in 1 .. Len(r)
      BY <1>3, <1>6, <2>6, <3>2 DEF Anchored
    <3>3. CASE i \in 1 .. Len(r) /\ j = Len(r) + 1
      BY <1>5, <1>6, <2>5, <2>6, <3>3
    <3>4. CASE i = Len(r) + 1 /\ j \in 1 .. Len(r)
      BY <1>5, <1>6, <2>5, <2>6, <3>4
    <3>5. QED BY <3>1, <3>2, <3>3, <3>4
  <2>7. QED BY <2>1, <2>2, <2>3, <2>4, <2>6 DEF Anchored
<1>12. Living(x) /\ Booted(rows, m.boot)
  <2>1. \A i \in 1 .. Len(r) : r[i].boot <= m.boot /\ r[i].boot \in Nat /\ (r[i].boot = m.boot => r[i].life = life)
    <3>1. TAKE i \in 1 .. Len(r)
    <3>2. r[i] \in TraceRows
      BY <1>3
    <3>3. r[i].boot = m.boot => r[i].life = life
      BY <1>3 DEF Living
    <3>4. QED BY <1>3, <3>2, <3>3 DEF Booted, TraceRows
  <2>2. \A i \in 1 .. Len(rows) : rows[i].boot <= m.boot /\ (rows[i].boot = m.boot => rows[i].life = life)
    <3>1. TAKE i \in 1 .. Len(rows)
    <3>2. i \in 1 .. Len(r) \/ i = Len(r) + 1
      BY <1>6, <1>10
    <3>3. QED BY <1>2, <1>5, <1>6, <2>1, <3>2
  <2>3. ASSUME NEW i \in 1 .. Len(rows), NEW j \in 1 .. Len(rows)
        PROVE  /\ rows[i].boot = rows[j].boot => rows[i].life = rows[j].life
               /\ i < j => rows[i].boot <= rows[j].boot
    <3>1. (i \in 1 .. Len(r) \/ i = Len(r) + 1) /\ (j \in 1 .. Len(r) \/ j = Len(r) + 1)
      BY <1>6, <1>10
    <3>2. CASE i \in 1 .. Len(r) /\ j \in 1 .. Len(r)
      <4>1. rows[i] = r[i] /\ rows[j] = r[j]
        BY <1>6, <3>2
      <4>2. (r[i].boot = r[j].boot => r[i].life = r[j].life) /\ (i < j => r[i].boot <= r[j].boot)
        BY <1>3, <3>2 DEF Booted
      <4>3. QED BY <4>1, <4>2
    <3>3. CASE i \in 1 .. Len(r) /\ j = Len(r) + 1
      BY <1>5, <1>6, <2>1, <3>3
    <3>4. CASE i = Len(r) + 1
      <4>1. ~(i < j)
        BY <1>6, <1>10, <3>4
      <4>2. rows[i].boot = m.boot /\ rows[i].life = life
        BY <1>5, <1>6, <3>4
      <4>3. QED BY <2>2, <4>1, <4>2
    <3>5. QED BY <3>1, <3>2, <3>3, <3>4
  <2>4. QED BY <1>9, <2>2, <2>3 DEF Living, Booted
<1>13. QED BY <1>9, <1>10, <1>11, <1>12 DEF Orderly

\* what is saved is what the model is, and an empty model or record is in order
LEMMA TraceRecorded ==
  ASSUME NEW x \in TraceModels
  PROVE Trace!Record(x) \in TraceRecords /\ Trace!Record(x).ok /\ Trace!Record(x).rows = x.rows /\ (Orderly(x) => Orderly(Trace!Record(x)))
<1>1. Trace!Record(x) \in TraceRecords /\ Trace!Record(x).ok /\ Trace!Record(x).rows = x.rows /\ Trace!Record(x).given = x.given /\ Trace!Record(x).boot = x.boot
  BY DEF TraceModels, TraceRecords, Trace!Record
<1>2. QED BY <1>1 DEF Orderly

\* what is blank or absent is in order
LEMMA TraceEmpty == /\ Trace!Absent \in TraceRecords /\ Orderly(Trace!Absent)
                    /\ \A n \in Nat : LET b == [Trace!Blank EXCEPT !.boot = n] IN b \in TraceModels /\ Orderly(b) /\ b.rows = <<>> /\ b.boot = n
                    /\ Trace!Blank \in TraceModels /\ Orderly(Trace!Blank) /\ Trace!Blank.rows = <<>>
<1>1. Trace!Absent \in TraceRecords /\ Trace!Absent.rows = <<>> /\ Trace!Absent.given = {}
  BY DEF Trace!Absent, TraceRecords
<1>2. ASSUME NEW x, x.rows = <<>>, x.given = {} PROVE Orderly(x)
  <2>1. Len(x.rows) = 0 /\ x.rows = <<>> /\ x.given = {} /\ 1 .. Len(x.rows) = {}
    BY <1>2
  <2>2. QED BY <2>1, TraceHalf DEF Orderly, Anchored, Booted
<1>4. Trace!Blank \in TraceModels /\ Trace!Blank.rows = <<>> /\ Trace!Blank.given = {}
  BY DEF Trace!Blank, TraceModels
<1>3. ASSUME NEW n \in Nat
      PROVE [Trace!Blank EXCEPT !.boot = n] \in TraceModels /\ [Trace!Blank EXCEPT !.boot = n].rows = <<>>
            /\ [Trace!Blank EXCEPT !.boot = n].boot = n /\ [Trace!Blank EXCEPT !.boot = n].given = {}
  BY <1>4 DEF TraceModels
<1>5. QED BY <1>1, <1>2, <1>3, <1>4

\* no command puts the rows out of order
LEMMA TraceCommanded ==
  ASSUME NEW x \in TraceModels, Orderly(x)
  PROVE Trace!Commanded(x) \in TraceModels /\ Orderly(Trace!Commanded(x)) /\ (Living(x) => Living(Trace!Commanded(x)))
<1>1. CASE cmd = "clear"
  <2>1. Trace!Commanded(x) = [Trace!Blank EXCEPT !.boot = x.boot] /\ x.boot \in Nat
    BY <1>1 DEF Trace!Commanded, TraceModels
  <2>2. Trace!Commanded(x) \in TraceModels /\ Orderly(Trace!Commanded(x)) /\ Trace!Commanded(x).rows = <<>>
    BY <2>1, TraceEmpty
  <2>3. QED BY <2>2 DEF Living
<1>2. CASE cmd # "clear"
  <2>1. PICK b \in BOOLEAN : Trace!Commanded(x) = x \/ Trace!Commanded(x) = [x EXCEPT !.armed = b]
    BY <1>2 DEF Trace!Commanded
  <2>2. Trace!Commanded(x) \in TraceModels /\ Trace!Commanded(x).rows = x.rows /\ Trace!Commanded(x).given = x.given /\ Trace!Commanded(x).boot = x.boot
    BY <2>1 DEF TraceModels
  <2>3. QED BY <2>2 DEF Orderly, Living
<1>3. QED BY <1>1, <1>2

\* a trace that was saved has the rows it had
LEMMA TraceCleaned ==
  ASSUME NEW x \in TraceModels, NEW y, y = [x EXCEPT !.dirty = FALSE]
  PROVE y \in TraceModels /\ y.rows = x.rows /\ y.given = x.given /\ y.boot = x.boot
        /\ (Orderly(x) => Orderly(y)) /\ (Living(x) => Living(y))
<1>1. y \in TraceModels /\ y.rows = x.rows /\ y.given = x.given /\ y.boot = x.boot
  BY DEF TraceModels
<1>2. QED BY <1>1 DEF Orderly, Living

\* a save writes where the policy points, and what it reports is what it wrote
LEMMA TraceSaved ==
  ASSUME TraceInv, NEW x \in TraceModels, Orderly(x), NEW ok \in BOOLEAN, Trace!Save(x, ok)
  PROVE /\ flash' \in [policy : 0 .. 2, nvs : TraceRecords, nand : TraceRecords]
        /\ flash'.policy = flash.policy /\ Orderly(flash'.nvs) /\ Orderly(flash'.nand)
        /\ acked'.sure \in BOOLEAN /\ Trace!ReportedKept'
        /\ (ok => Trace!Durable'.rows = x.rows)
        /\ (fmt.pc # "none" => ~ok /\ flash' = flash)
<1>1. flash \in [policy : 0 .. 2, nvs : TraceRecords, nand : TraceRecords] /\ acked.sure \in BOOLEAN
      /\ Orderly(flash.nvs) /\ Orderly(flash.nand) /\ Trace!ReportedKept
  BY DEF TraceInv, TraceType
<1>2. CASE ~ok /\ UNCHANGED <<flash, acked>>
  <2>1. Trace!Durable' = Trace!Durable /\ Trace!ReportedKept'
    BY <1>1, <1>2 DEF Trace!ReportedKept, Trace!Durable
  <2>2. QED BY <1>1, <1>2, <2>1
<1>3. CASE /\ Trace!Selected /\ flash' = [flash EXCEPT ![policy] = Trace!Record(x)]
           /\ acked' = [sure |-> ok, rows |-> IF ok THEN x.rows ELSE <<>>]
  <2>1. Trace!Record(x) \in TraceRecords /\ Trace!Record(x).ok /\ Trace!Record(x).rows = x.rows /\ Orderly(Trace!Record(x))
    BY TraceRecorded
  <2>2. fmt.pc = "none" /\ (policy = "nvs" \/ policy = "nand") /\ (policy = "nvs" => flash.policy = 0) /\ (policy = "nand" => flash.policy = 2)
    BY <1>3 DEF Trace!Selected, TraceInv, Migrating
  <2> DEFINE r == Trace!Record(x)
  <2> HIDE DEF r
  <2>3. CASE policy = "nvs"
    <3>1. flash' = [flash EXCEPT !.nvs = r]
      BY <1>3, <2>3 DEF r
    <3>2. flash' \in [policy : 0 .. 2, nvs : TraceRecords, nand : TraceRecords] /\ flash'.policy = 0 /\ flash.policy = 0
          /\ flash'.nvs = r /\ flash'.nand = flash.nand
      BY <1>1, <2>1, <2>2, <2>3, <3>1 DEF r
    <3>3. Trace!Durable' = r
      BY <3>2 DEF Trace!Durable
    <3>4. Trace!ReportedKept' /\ Trace!Durable'.rows = x.rows
      BY <1>3, <2>1, <3>3 DEF Trace!ReportedKept, r
    <3>5. QED BY <1>1, <1>3, <2>1, <2>2, <3>2, <3>4 DEF r
  <2>4. CASE policy = "nand"
    <3>1. flash' = [flash EXCEPT !.nand = r]
      BY <1>3, <2>4 DEF r
    <3>2. flash' \in [policy : 0 .. 2, nvs : TraceRecords, nand : TraceRecords] /\ flash'.policy = 2 /\ flash.policy = 2
          /\ flash'.nand = r /\ flash'.nvs = flash.nvs
      BY <1>1, <2>1, <2>2, <2>4, <3>1 DEF r
    <3>3. Trace!Durable' = r
      BY <3>2 DEF Trace!Durable
    <3>4. Trace!ReportedKept' /\ Trace!Durable'.rows = x.rows
      BY <1>3, <2>1, <3>3 DEF Trace!ReportedKept, r
    <3>5. QED BY <1>1, <1>3, <2>1, <2>2, <3>2, <3>4 DEF r
  <2>5. QED BY <2>2, <2>3, <2>4
<1>4. QED BY <1>2, <1>3 DEF Trace!Save

LEMMA TraceBegins == ASSUME Trace!Init PROVE TraceInv
<1>1. TraceType
  BY TraceEmpty, TraceConstants, TraceHalf DEF Trace!Init, TraceType, Trace!NoFormat, TraceModels
<1>2. Orderly(m) /\ Orderly(flash.nvs) /\ Orderly(flash.nand) /\ Orderly(fmt.snap) /\ m.rows = <<>>
  BY TraceEmpty DEF Trace!Init, Trace!NoFormat
<1>3. Living(m) /\ Migrating /\ Trace!ReportedKept /\ Trace!CleanIsSaved
  BY <1>2 DEF Trace!Init, Trace!NoFormat, Living, Migrating, Trace!ReportedKept, Trace!CleanIsSaved
<1>4. QED BY <1>1, <1>2, <1>3 DEF TraceInv

\* a reset leaves what the flash holds
LEMMA TraceReset == ASSUME TraceInv, Trace!Reset PROVE TraceInv'
<1>1. TraceType'
  BY TraceEmpty, TraceConstants DEF TraceInv, TraceType, Trace!Reset, Trace!NoFormat
<1>2. Orderly(m)' /\ Orderly(flash.nvs)' /\ Orderly(flash.nand)' /\ Orderly(fmt.snap)' /\ m'.rows = <<>>
  BY TraceEmpty DEF TraceInv, Trace!Reset, Trace!NoFormat
<1>3. Living(m)' /\ Migrating' /\ Trace!CleanIsSaved'
  BY <1>2 DEF Trace!Reset, Trace!NoFormat, Living, Migrating, Trace!CleanIsSaved
<1>4. Trace!ReportedKept'
  BY DEF TraceInv, Trace!Reset, Trace!ReportedKept, Trace!Durable
<1>5. QED BY <1>1, <1>2, <1>3, <1>4 DEF TraceInv

\* a command waits for a service that is not formatting
LEMMA TraceRequest == ASSUME TraceInv, NEW c \in {"arm", "stop", "resume", "checkpoint", "clear"}, Trace!Request(c) PROVE TraceInv'
<1>1. TraceType'
  BY DEF TraceInv, TraceType, Trace!Request
<1>2. Orderly(m)' /\ Orderly(flash.nvs)' /\ Orderly(flash.nand)' /\ Orderly(fmt.snap)' /\ Living(m)'
  BY DEF TraceInv, Trace!Request, Living
<1>3. Migrating' /\ Trace!CleanIsSaved' /\ Trace!ReportedKept'
  BY DEF TraceInv, Trace!Request, Migrating, Trace!CleanIsSaved, Trace!ReportedKept, Trace!Durable
<1>4. QED BY <1>1, <1>2, <1>3 DEF TraceInv

\* a format takes the trace as it is, while nothing can change it
LEMMA TraceFormatAsked == ASSUME TraceInv, Trace!BeginFormat PROVE TraceInv'
<1>1. m \in TraceModels /\ Orderly(m)
  BY DEF TraceInv, TraceType
<1>2. PICK phase \in {"queued", "none"} : fmt' = [pc |-> phase, snap |-> IF phase = "none" THEN Trace!Absent ELSE Trace!Record(m), tried |-> TRUE]
  BY DEF Trace!BeginFormat
<1>3. fmt'.snap \in TraceRecords /\ Orderly(fmt'.snap) /\ (phase # "none" => fmt'.snap.ok /\ fmt'.snap.rows = m.rows)
      /\ fmt'.pc = phase /\ fmt' = [pc |-> phase, snap |-> fmt'.snap, tried |-> TRUE]
  BY <1>1, <1>2, TraceEmpty, TraceRecorded
<1>4. TraceType'
  BY <1>3 DEF TraceInv, TraceType, Trace!BeginFormat
<1>5. Orderly(m)' /\ Orderly(flash.nvs)' /\ Orderly(flash.nand)' /\ Orderly(fmt.snap)' /\ Living(m)'
  BY <1>3 DEF TraceInv, Trace!BeginFormat, Living
<1>6. Migrating' /\ Trace!CleanIsSaved' /\ Trace!ReportedKept'
  BY <1>3 DEF TraceInv, Trace!BeginFormat, Migrating, Trace!CleanIsSaved, Trace!ReportedKept, Trace!Durable
<1>7. QED BY <1>4, <1>5, <1>6 DEF TraceInv

\* a boot that loads numbers itself past every row it loaded
LEMMA TraceLoads == ASSUME TraceInv, Trace!Load PROVE TraceInv'
<1>1. PICK p \in Trace!Policies :
       /\ policy' = p
       /\ LET f == IF p = "nand" THEN flash.nand ELSE flash.nvs IN
          \/ /\ p \in {"nvs", "nand"} /\ (f.ok \/ p = "nvs")
             /\ m' = [Trace!Blank EXCEPT !.rows = f.rows, !.armed = f.armed, !.low = f.low, !.fin = f.fin,
                                   !.boot = f.boot + 1, !.given = f.given]
             /\ st' = [st EXCEPT !.ready = TRUE]
          \/ p = "nand" /\ UNCHANGED <<m, st>>
          \/ st' = [st EXCEPT !.ready = TRUE, !.corrupt = TRUE] /\ UNCHANGED m
  BY DEF Trace!Load
<1>2. /\ p \in {"unknown", "fault", "nvs", "pending", "nand"}
      /\ (p = "nvs" => flash.policy = 0) /\ (p = "pending" => flash.policy = 1) /\ (p = "nand" => flash.policy = 2)
  <2>1. CASE policy # "unknown"
    BY <2>1 DEF Trace!Policies, TraceInv, TraceType, Migrating
  <2>2. CASE policy = "unknown"
    <3>1. flash.policy \in 0 .. 2
      BY DEF TraceInv, TraceType
    <3>2. p = "fault" \/ p = CASE flash.policy = 0 -> "nvs" [] flash.policy = 1 -> "pending" [] OTHER -> "nand"
      BY <2>2 DEF Trace!Policies
    <3>3. QED BY <3>1, <3>2
  <2>3. QED BY <2>1, <2>2
<1>3. ~st.ready /\ fmt.pc = "none" /\ fmt' = fmt /\ cmd' = cmd /\ flash' = flash /\ acked' = acked /\ life' = life /\ samples' = samples
  BY DEF Trace!Load
<1>4. m \in TraceModels /\ st \in [ready : BOOLEAN, corrupt : BOOLEAN] /\ Orderly(m) /\ Living(m)
      /\ flash.nvs \in TraceRecords /\ flash.nand \in TraceRecords
  BY DEF TraceInv, TraceType
<1>5. m' \in TraceModels /\ st' \in [ready : BOOLEAN, corrupt : BOOLEAN] /\ Orderly(m') /\ Living(m)'
      /\ ((st'.ready /\ ~st'.corrupt) => Trace!Durable.rows = m'.rows)
  <2> DEFINE f == IF p = "nand" THEN flash.nand ELSE flash.nvs
  <2>1. CASE /\ p \in {"nvs", "nand"} /\ (f.ok \/ p = "nvs")
             /\ m' = [Trace!Blank EXCEPT !.rows = f.rows, !.armed = f.armed, !.low = f.low, !.fin = f.fin,
                                   !.boot = f.boot + 1, !.given = f.given]
             /\ st' = [st EXCEPT !.ready = TRUE]
    <3>1. f \in TraceRecords /\ Orderly(f) /\ f = Trace!Durable
      BY <1>2, <1>4, <2>1 DEF Trace!Durable, TraceInv
    <3> HIDE DEF f
    <3>2. m' \in TraceModels /\ m'.rows = f.rows /\ m'.given = f.given /\ m'.boot = f.boot + 1
      <4>1. Trace!Blank \in TraceModels
        BY TraceEmpty
      <4>2. /\ f.rows \in Seq(TraceRows) /\ f.armed \in BOOLEAN /\ f.low \in BOOLEAN /\ f.fin \in BOOLEAN
            /\ f.boot + 1 \in Nat /\ f.given \in SUBSET TraceAnchors
        BY <3>1 DEF TraceRecords
      <4> DEFINE up == f.boot + 1
                 new == [Trace!Blank EXCEPT !.rows = f.rows, !.armed = f.armed, !.low = f.low, !.fin = f.fin,
                                      !.boot = up, !.given = f.given]
      <4>3. m' = new /\ up \in Nat /\ up = f.boot + 1
        BY <2>1, <4>2
      <4> HIDE DEF up
      <4>4. new \in TraceModels /\ new.rows = f.rows /\ new.given = f.given /\ new.boot = up
        BY <4>1, <4>2, <4>3 DEF TraceModels
      <4> HIDE DEF new
      <4>5. QED BY <4>3, <4>4
    <3>3. f.boot \in Nat /\ f.rows \in Seq(TraceRows)
      BY <3>1 DEF TraceRecords
    <3>4. \A i \in 1 .. Len(f.rows) : f.rows[i].boot \in Nat /\ f.rows[i].boot <= f.boot
      <4>1. TAKE i \in 1 .. Len(f.rows)
      <4>2. f.rows[i] \in TraceRows
        BY <3>3
      <4>3. QED BY <3>1, <4>2 DEF TraceRows, Orderly, Booted
    <3>5. Booted(f.rows, f.boot + 1)
      BY <3>1, <3>3, <3>4 DEF Orderly, Booted
    <3>6. Orderly(m')
      BY <3>1, <3>2, <3>5 DEF Orderly
    <3>7. Living(m)'
      <4>1. ASSUME NEW i \in 1 .. Len(f.rows) PROVE f.rows[i].boot # f.boot + 1
        BY <3>3, <3>4
      <4>2. QED BY <3>2, <4>1 DEF Living
    <3>8. QED BY <1>4, <2>1, <3>1, <3>2, <3>6, <3>7
  <2>2. CASE p = "nand" /\ UNCHANGED <<m, st>>
    BY <1>3, <1>4, <2>2 DEF Living
  <2>3. CASE st' = [st EXCEPT !.ready = TRUE, !.corrupt = TRUE] /\ UNCHANGED m
    <3>1. st' \in [ready : BOOLEAN, corrupt : BOOLEAN] /\ st'.corrupt
      BY <1>4, <2>3
    <3>2. QED BY <1>3, <1>4, <2>3, <3>1 DEF Living
  <2>4. QED BY <1>1, <2>1, <2>2, <2>3
<1>6. TraceType'
  BY <1>1, <1>2, <1>3, <1>5 DEF TraceInv, TraceType
<1>7. Orderly(m)' /\ Orderly(flash.nvs)' /\ Orderly(flash.nand)' /\ Orderly(fmt.snap)'
  BY <1>3, <1>5 DEF TraceInv
<1>8. Trace!Durable' = Trace!Durable
  BY <1>3 DEF Trace!Durable
<1>9. Trace!ReportedKept' /\ Trace!CleanIsSaved'
  BY <1>3, <1>5, <1>8 DEF TraceInv, Trace!ReportedKept, Trace!CleanIsSaved
<1>10. Migrating'
  BY <1>1, <1>2, <1>3 DEF TraceInv, Migrating
<1>11. QED BY <1>5, <1>6, <1>7, <1>9, <1>10 DEF TraceInv

\* while the worker has the store nothing is sampled or commanded, and after it everything is saved as asked
LEMMA TraceServes == ASSUME TraceInv, Trace!Service PROVE TraceInv'
<1>1. /\ m \in TraceModels /\ st \in [ready : BOOLEAN, corrupt : BOOLEAN] /\ Orderly(m) /\ Living(m) /\ life \in Nat
      /\ samples \in Nat /\ Samples \in Nat /\ samples <= Samples
  BY TraceConstants DEF TraceInv, TraceType
<1>2. st.ready /\ policy' = policy /\ fmt' = fmt /\ life' = life
  BY DEF Trace!Service
<1>3. PICK x \in Trace!Samplings :
       /\ samples' = samples + (IF x = m THEN 0 ELSE 1)
       /\ \/ m' = x /\ UNCHANGED <<cmd, st, flash, acked>>
          \/ /\ cmd # "none" /\ Trace!Save(Trace!Commanded(x), TRUE) /\ cmd' = "none"
             /\ m' = [Trace!Commanded(x) EXCEPT !.dirty = FALSE] /\ st' = [st EXCEPT !.corrupt = FALSE]
          \/ /\ cmd = "none" /\ ~st.corrupt /\ x.dirty /\ Trace!Save(x, TRUE) /\ UNCHANGED <<cmd, st>>
             /\ m' = [x EXCEPT !.dirty = FALSE]
          \/ /\ cmd # "none" \/ (~st.corrupt /\ x.dirty)
             /\ Trace!Save(IF cmd = "none" THEN x ELSE Trace!Commanded(x), FALSE)
             /\ m' = x /\ UNCHANGED <<cmd, st>>
  BY DEF Trace!Service
<1>4. x = m \/ (m.armed /\ samples # Samples /\ x.dirty /\ x \in TraceModels /\ Orderly(x) /\ Living(x))
  <2>1. CASE x = m
    BY <2>1
  <2>2. CASE x # m
    <3>1. PICK a \in Trace!NextAnchors, flow \in {"deep", "charge", "other"} : x \in Trace!Appended(a, flow)
      BY <1>3, <2>2 DEF Trace!Samplings
    <3>2. m.armed /\ samples # Samples
      BY <1>3, <2>2 DEF Trace!Samplings
    <3>3. QED BY <1>1, <3>1, <3>2, TraceAppended
  <2>3. QED BY <2>1, <2>2
<1>5. x \in TraceModels /\ Orderly(x) /\ Living(x) /\ samples' \in Nat /\ samples' <= Samples
  BY <1>1, <1>3, <1>4
<1> DEFINE y == Trace!Commanded(x)
<1>6. y \in TraceModels /\ Orderly(y) /\ Living(y) /\ (cmd = "none" => y = x)
  <2>1. cmd = "none" => y = x
    BY DEF Trace!Commanded
  <2>2. QED BY <1>5, <2>1, TraceCommanded
<1> HIDE DEF y
<1>7. fmt.pc # "none" => cmd = "none" /\ ~m.armed /\ ~st.corrupt /\ fmt.snap.rows = m.rows /\ x = m
  BY <1>4 DEF TraceInv, Migrating
<1>8. /\ m' \in TraceModels /\ Orderly(m') /\ Living(m') /\ st' \in [ready : BOOLEAN, corrupt : BOOLEAN] /\ st'.ready
      /\ cmd' \in {cmd, "none"}
      /\ flash' \in [policy : 0 .. 2, nvs : TraceRecords, nand : TraceRecords] /\ flash'.policy = flash.policy
      /\ Orderly(flash'.nvs) /\ Orderly(flash'.nand) /\ acked'.sure \in BOOLEAN /\ Trace!ReportedKept' /\ Trace!CleanIsSaved'
      /\ (fmt.pc # "none" => flash' = flash /\ m' = m /\ st' = st)
  <2>1. CASE m' = x /\ UNCHANGED <<cmd, st, flash, acked>>
    <3>1. Trace!ReportedKept' /\ Trace!Durable' = Trace!Durable
      BY <2>1 DEF TraceInv, Trace!ReportedKept, Trace!Durable
    <3>2. Trace!CleanIsSaved'
      BY <1>4, <2>1, <3>1 DEF TraceInv, Trace!CleanIsSaved
    <3>3. QED BY <1>1, <1>2, <1>5, <1>7, <2>1, <3>1, <3>2 DEF TraceInv, TraceType
  <2>2. CASE /\ cmd # "none" /\ Trace!Save(y, TRUE) /\ cmd' = "none"
             /\ m' = [y EXCEPT !.dirty = FALSE] /\ st' = [st EXCEPT !.corrupt = FALSE]
    <3>1. /\ flash' \in [policy : 0 .. 2, nvs : TraceRecords, nand : TraceRecords]
          /\ flash'.policy = flash.policy /\ Orderly(flash'.nvs) /\ Orderly(flash'.nand)
          /\ acked'.sure \in BOOLEAN /\ Trace!ReportedKept' /\ Trace!Durable'.rows = y.rows /\ fmt.pc = "none"
      BY <1>6, <2>2, TraceSaved
    <3>2. m' \in TraceModels /\ Orderly(m') /\ Living(m') /\ m'.rows = y.rows
      BY <1>6, <2>2, TraceCleaned
    <3>3. Trace!CleanIsSaved' /\ st' \in [ready : BOOLEAN, corrupt : BOOLEAN] /\ st'.ready
      BY <1>1, <1>2, <2>2, <3>1, <3>2 DEF Trace!CleanIsSaved
    <3>4. QED BY <2>2, <3>1, <3>2, <3>3
  <2>3. CASE /\ cmd = "none" /\ ~st.corrupt /\ x.dirty /\ Trace!Save(x, TRUE) /\ UNCHANGED <<cmd, st>>
             /\ m' = [x EXCEPT !.dirty = FALSE]
    <3>1. /\ flash' \in [policy : 0 .. 2, nvs : TraceRecords, nand : TraceRecords]
          /\ flash'.policy = flash.policy /\ Orderly(flash'.nvs) /\ Orderly(flash'.nand)
          /\ acked'.sure \in BOOLEAN /\ Trace!ReportedKept' /\ Trace!Durable'.rows = x.rows /\ fmt.pc = "none"
      BY <1>5, <2>3, TraceSaved
    <3>2. m' \in TraceModels /\ Orderly(m') /\ Living(m') /\ m'.rows = x.rows
      BY <1>5, <2>3, TraceCleaned
    <3>3. Trace!CleanIsSaved'
      BY <3>1, <3>2 DEF Trace!CleanIsSaved
    <3>4. QED BY <1>1, <1>2, <2>3, <3>1, <3>2, <3>3
  <2>4. CASE /\ cmd # "none" \/ (~st.corrupt /\ x.dirty)
             /\ Trace!Save(IF cmd = "none" THEN x ELSE y, FALSE)
             /\ m' = x /\ UNCHANGED <<cmd, st>>
    <3> DEFINE z == IF cmd = "none" THEN x ELSE y
    <3>1. z \in TraceModels /\ Orderly(z) /\ Trace!Save(z, FALSE)
      BY <1>5, <1>6, <2>4
    <3> HIDE DEF z
    <3>2. /\ flash' \in [policy : 0 .. 2, nvs : TraceRecords, nand : TraceRecords]
          /\ flash'.policy = flash.policy /\ Orderly(flash'.nvs) /\ Orderly(flash'.nand)
          /\ acked'.sure \in BOOLEAN /\ Trace!ReportedKept' /\ (fmt.pc # "none" => flash' = flash)
      BY <3>1, TraceSaved
    <3>3. Trace!CleanIsSaved'
      BY <2>4 DEF Trace!CleanIsSaved
    <3>4. QED BY <1>1, <1>2, <1>5, <1>7, <2>4, <3>2, <3>3
  <2>5. QED BY <1>3, <2>1, <2>2, <2>3, <2>4 DEF y
<1>9. TraceType'
  BY <1>1, <1>2, <1>5, <1>8 DEF TraceInv, TraceType
<1>10. Migrating'
  BY <1>2, <1>7, <1>8 DEF TraceInv, Migrating
<1>11. Living(m)' /\ Orderly(fmt.snap)'
  BY <1>2, <1>8 DEF Living, TraceInv
<1>12. QED BY <1>8, <1>9, <1>10, <1>11 DEF TraceInv

\* a phase of the format leaves what the trace is, and where it is kept until it is in both places
LEMMA TraceFormats == ASSUME TraceInv, Trace!Format PROVE TraceInv'
<1>1. /\ fmt \in [pc : {"none", "queued", "format", "migrate", "activate"}, snap : TraceRecords, tried : BOOLEAN]
      /\ flash \in [policy : 0 .. 2, nvs : TraceRecords, nand : TraceRecords]
      /\ Orderly(flash.nvs) /\ Orderly(flash.nand) /\ Orderly(fmt.snap) /\ acked.sure \in BOOLEAN /\ Trace!ReportedKept /\ Trace!CleanIsSaved
      /\ m' = m /\ cmd' = cmd /\ st' = st /\ life' = life /\ samples' = samples
      /\ Trace!Absent \in TraceRecords /\ Orderly(Trace!Absent)
  BY TraceEmpty DEF TraceInv, TraceType, Trace!Format
<1>2. fmt.pc # "none" => cmd = "none" /\ st.ready /\ ~st.corrupt /\ ~m.armed /\ fmt.snap.ok /\ fmt.snap.rows = m.rows
  BY DEF TraceInv, Migrating
<1>3. ASSUME NEW phase \in {"none", "queued", "format", "migrate", "activate"},
             fmt' = [fmt EXCEPT !.pc = phase, !.snap = IF phase = "none" THEN Trace!Absent ELSE @]
      PROVE  /\ fmt' \in [pc : {"none", "queued", "format", "migrate", "activate"}, snap : TraceRecords, tried : BOOLEAN]
             /\ Orderly(fmt'.snap) /\ fmt'.pc = phase /\ (phase # "none" => fmt'.snap = fmt.snap)
  <2>1. CASE phase = "none"
    <3>1. fmt' = [fmt EXCEPT !.pc = "none", !.snap = Trace!Absent]
      BY <1>3, <2>1
    <3>2. QED BY <1>1, <2>1, <3>1
  <2>2. CASE phase # "none"
    <3>1. fmt' = [fmt EXCEPT !.pc = phase, !.snap = fmt.snap]
      BY <1>3, <2>2
    <3>2. QED BY <1>1, <2>2, <3>1
  <2>3. QED BY <2>1, <2>2
<1>4. Trace!Fail => fmt' = [fmt EXCEPT !.pc = "none", !.snap = IF "none" = "none" THEN Trace!Absent ELSE @]
  BY DEF Trace!Fail
<1>5. ASSUME NEW b \in 0 .. 2, flash' = [flash EXCEPT !.policy = b]
      PROVE  /\ flash' \in [policy : 0 .. 2, nvs : TraceRecords, nand : TraceRecords]
             /\ flash'.policy = b /\ flash'.nvs = flash.nvs /\ flash'.nand = flash.nand
  BY <1>1, <1>5
<1>6. ASSUME NEW f \in TraceRecords, flash' = [flash EXCEPT !.nand = f]
      PROVE  /\ flash' \in [policy : 0 .. 2, nvs : TraceRecords, nand : TraceRecords]
             /\ flash'.policy = flash.policy /\ flash'.nvs = flash.nvs /\ flash'.nand = f
  BY <1>1, <1>6
\* what any phase leaves: the types, the order of what is kept, and the place it is kept at
<1>7. /\ fmt' \in [pc : {"none", "queued", "format", "migrate", "activate"}, snap : TraceRecords, tried : BOOLEAN]
      /\ flash' \in [policy : 0 .. 2, nvs : TraceRecords, nand : TraceRecords]
      /\ Orderly(flash'.nvs) /\ Orderly(flash'.nand) /\ Orderly(fmt'.snap)
      /\ policy' \in {"unknown", "fault", "nvs", "pending", "nand"}
      /\ (policy' = "nvs" => flash'.policy = 0) /\ (policy' = "pending" => flash'.policy = 1) /\ (policy' = "nand" => flash'.policy = 2)
      /\ (fmt'.pc # "none" => fmt.pc # "none" /\ fmt'.snap = fmt.snap)
      /\ (fmt'.pc \in {"format", "migrate", "activate"} => policy' = "pending")
      /\ (fmt'.pc = "activate" => flash'.nand = fmt'.snap)
      /\ fmt.pc # "none"
      /\ \/ Trace!Durable' = Trace!Durable /\ acked' = acked
         \/ Trace!Durable' = fmt.snap /\ acked' = [sure |-> TRUE, rows |-> fmt.snap.rows]
  <2>0. policy \in {"unknown", "fault", "nvs", "pending", "nand"}
        /\ (policy = "nvs" => flash.policy = 0) /\ (policy = "pending" => flash.policy = 1) /\ (policy = "nand" => flash.policy = 2)
    BY DEF TraceInv, TraceType, Migrating
  <2>1. CASE fmt.pc = "queued" /\ UNCHANGED acked /\ Trace!Fail /\ UNCHANGED <<policy, flash>>
    <3>1. /\ fmt' \in [pc : {"none", "queued", "format", "migrate", "activate"}, snap : TraceRecords, tried : BOOLEAN]
          /\ Orderly(fmt'.snap) /\ fmt'.pc = "none"
      BY <1>3, <1>4, <2>1
    <3>2. QED BY <1>1, <2>0, <2>1, <3>1 DEF Trace!Durable
  <2>2. ASSUME fmt.pc = "queued", UNCHANGED acked, policy = "nvs", Trace!WritePolicy(1, "pending", "format")
        PROVE  <1>7!:
    <3>1. flash.policy = 0
      BY <2>0, <2>2
    <3>2. CASE /\ flash' = [flash EXCEPT !.policy = 1] /\ policy' = "pending"
               /\ fmt' = [fmt EXCEPT !.pc = "format", !.snap = IF "format" = "none" THEN Trace!Absent ELSE @]
      <4>1. /\ fmt' \in [pc : {"none", "queued", "format", "migrate", "activate"}, snap : TraceRecords, tried : BOOLEAN]
            /\ Orderly(fmt'.snap) /\ fmt'.pc = "format" /\ fmt'.snap = fmt.snap
        BY <1>3, <3>2
      <4>2. /\ flash' \in [policy : 0 .. 2, nvs : TraceRecords, nand : TraceRecords]
            /\ flash'.policy = 1 /\ flash'.nvs = flash.nvs /\ flash'.nand = flash.nand
        BY <1>5, <3>2
      <4>3. QED BY <1>1, <2>2, <3>1, <3>2, <4>1, <4>2 DEF Trace!Durable
    <3>3. CASE /\ flash' \in {flash, [flash EXCEPT !.policy = 1]} /\ policy' = "fault"
               /\ fmt' = [fmt EXCEPT !.pc = "none", !.snap = Trace!Absent]
      <4>1. /\ fmt' \in [pc : {"none", "queued", "format", "migrate", "activate"}, snap : TraceRecords, tried : BOOLEAN]
            /\ Orderly(fmt'.snap) /\ fmt'.pc = "none"
        BY <1>1, <3>3
      <4>2. /\ flash' \in [policy : 0 .. 2, nvs : TraceRecords, nand : TraceRecords]
            /\ flash'.policy \in {0, 1} /\ flash'.nvs = flash.nvs /\ flash'.nand = flash.nand
        BY <1>1, <1>5, <3>1, <3>3
      <4>3. QED BY <1>1, <2>2, <3>1, <3>3, <4>1, <4>2 DEF Trace!Durable
    <3>4. QED BY <2>2, <3>2, <3>3 DEF Trace!WritePolicy
  <2>3. ASSUME fmt.pc \in {"format", "migrate"}, UNCHANGED <<policy, acked>>, NEW f \in TraceRecords, Orderly(f),
               flash' \in {flash, [flash EXCEPT !.nand = f]}, NEW phase \in {"none", "migrate", "activate"},
               fmt' = [fmt EXCEPT !.pc = phase, !.snap = IF phase = "none" THEN Trace!Absent ELSE @],
               phase = "activate" => f = fmt.snap /\ flash' = [flash EXCEPT !.nand = f]
        PROVE  <1>7!:
    <3>1. policy = "pending" /\ flash.policy = 1
      BY <2>0, <2>3 DEF TraceInv, Migrating
    <3>2. /\ fmt' \in [pc : {"none", "queued", "format", "migrate", "activate"}, snap : TraceRecords, tried : BOOLEAN]
          /\ Orderly(fmt'.snap) /\ fmt'.pc = phase /\ (phase # "none" => fmt'.snap = fmt.snap)
      BY <1>3, <2>3
    <3>3. /\ flash' \in [policy : 0 .. 2, nvs : TraceRecords, nand : TraceRecords]
          /\ flash'.policy = 1 /\ flash'.nvs = flash.nvs /\ flash'.nand \in {flash.nand, f}
          /\ (phase = "activate" => flash'.nand = f)
      BY <1>1, <1>6, <2>3, <3>1
    <3>4. QED BY <1>1, <2>3, <3>1, <3>2, <3>3 DEF Trace!Durable
  <2>4. CASE fmt.pc = "format" /\ UNCHANGED <<policy, acked>>
             /\ \/ fmt' = [fmt EXCEPT !.pc = "migrate"] /\ flash' = [flash EXCEPT !.nand = Trace!Absent]
                \/ Trace!Fail /\ flash' \in {flash, [flash EXCEPT !.nand = Trace!Absent]}
    <3>1. PICK phase \in {"none", "migrate"} : fmt' = [fmt EXCEPT !.pc = phase, !.snap = IF phase = "none" THEN Trace!Absent ELSE @]
      <4>1. [fmt EXCEPT !.pc = "migrate"] = [fmt EXCEPT !.pc = "migrate", !.snap = fmt.snap]
        BY <1>1
      <4>2. QED BY <1>4, <2>4, <4>1
    <3>2. QED BY <1>1, <2>3, <2>4, <3>1
  <2>5. CASE fmt.pc = "migrate" /\ UNCHANGED <<policy, acked>>
             /\ \/ fmt' = [fmt EXCEPT !.pc = "activate"] /\ flash' = [flash EXCEPT !.nand = fmt.snap]
                \/ Trace!Fail /\ flash' \in {flash, [flash EXCEPT !.nand = fmt.snap]}
    <3>1. fmt.snap \in TraceRecords /\ Orderly(fmt.snap)
      BY <1>1
    <3>2. PICK phase \in {"none", "activate"} :
            /\ fmt' = [fmt EXCEPT !.pc = phase, !.snap = IF phase = "none" THEN Trace!Absent ELSE @]
            /\ phase = "activate" => flash' = [flash EXCEPT !.nand = fmt.snap]
      <4>1. [fmt EXCEPT !.pc = "activate"] = [fmt EXCEPT !.pc = "activate", !.snap = fmt.snap]
        BY <1>1
      <4>2. QED BY <1>4, <2>5, <4>1
    <3>3. flash' \in {flash, [flash EXCEPT !.nand = fmt.snap]}
      BY <2>5
    <3>4. CASE phase = "none"
      BY <2>3, <2>5, <3>1, <3>2, <3>3, <3>4
    <3>5. CASE phase = "activate"
      <4>1. flash' = [flash EXCEPT !.nand = fmt.snap]
        BY <3>2, <3>5
      <4>2. QED BY <2>3, <2>5, <3>1, <3>2, <3>3, <3>5, <4>1
    <3>6. QED BY <3>4, <3>5
  <2>6. ASSUME fmt.pc = "activate", Trace!WritePolicy(2, "nand", "none"),
               acked' = IF flash'.policy = 2 THEN [sure |-> TRUE, rows |-> fmt.snap.rows] ELSE acked
        PROVE  <1>7!:
    <3>1. policy = "pending" /\ flash.policy = 1 /\ flash.nand = fmt.snap
      BY <2>0, <2>6 DEF TraceInv, Migrating
    <3>2. /\ fmt' = [fmt EXCEPT !.pc = "none", !.snap = Trace!Absent]
          /\ \/ flash' = [flash EXCEPT !.policy = 2] /\ policy' \in {"nand", "fault"}
             \/ flash' = flash /\ policy' = "fault"
      BY <2>6 DEF Trace!WritePolicy
    <3>3. /\ fmt' \in [pc : {"none", "queued", "format", "migrate", "activate"}, snap : TraceRecords, tried : BOOLEAN]
          /\ Orderly(fmt'.snap) /\ fmt'.pc = "none"
      BY <1>1, <3>2
    <3>4. CASE flash' = [flash EXCEPT !.policy = 2] /\ policy' \in {"nand", "fault"}
      <4>1. /\ flash' \in [policy : 0 .. 2, nvs : TraceRecords, nand : TraceRecords]
            /\ flash'.policy = 2 /\ flash'.nvs = flash.nvs /\ flash'.nand = flash.nand
        BY <1>5, <3>4
      <4>2. Trace!Durable' = fmt.snap /\ acked' = [sure |-> TRUE, rows |-> fmt.snap.rows]
        BY <2>6, <3>1, <4>1 DEF Trace!Durable
      <4>3. QED BY <1>1, <2>6, <3>1, <3>3, <3>4, <4>1, <4>2
    <3>5. CASE flash' = flash /\ policy' = "fault"
      <4>1. Trace!Durable' = Trace!Durable /\ acked' = acked
        BY <2>6, <3>1, <3>5 DEF Trace!Durable
      <4>2. QED BY <1>1, <2>6, <3>3, <3>5, <4>1
    <3>6. QED BY <3>2, <3>4, <3>5
  <2>7. QED BY <2>1, <2>2, <2>4, <2>5, <2>6 DEF Trace!Format
<1>8. TraceType'
  <2>1. ASSUME acked' = acked PROVE acked'.sure \in BOOLEAN
    BY <1>1, <2>1
  <2>2. ASSUME acked' = [sure |-> TRUE, rows |-> fmt.snap.rows] PROVE acked'.sure \in BOOLEAN
    BY <2>2
  <2>3. acked'.sure \in BOOLEAN
    BY <1>7, <2>1, <2>2
  <2>4. QED BY <1>1, <1>7, <2>3 DEF TraceInv, TraceType
<1>9. Migrating'
  BY <1>1, <1>2, <1>7 DEF Migrating
<1>10. Trace!ReportedKept' /\ Trace!CleanIsSaved'
  BY <1>1, <1>2, <1>7 DEF Trace!ReportedKept, Trace!CleanIsSaved
<1>11. Orderly(m)' /\ Living(m)'
  BY <1>1 DEF TraceInv, Living
<1>12. QED BY <1>7, <1>8, <1>9, <1>10, <1>11 DEF TraceInv

LEMMA TraceStep == ASSUME TraceInv, Trace!Next PROVE TraceInv'
BY TraceReset, TraceLoads, TraceFormatAsked, TraceServes, TraceFormats, TraceRequest DEF Trace!Next

LEMMA TraceSame == ASSUME TraceInv, UNCHANGED Trace!traceVars PROVE TraceInv'
<1>1. m' = m /\ cmd' = cmd /\ st' = st /\ policy' = policy /\ fmt' = fmt /\ flash' = flash /\ acked' = acked /\ life' = life /\ samples' = samples
  BY DEF Trace!traceVars
<1>2. TraceType' /\ Living(m)' /\ Migrating' /\ Trace!ReportedKept' /\ Trace!CleanIsSaved'
  BY <1>1 DEF TraceInv, TraceType, Living, Migrating, Trace!ReportedKept, Trace!CleanIsSaved, Trace!Durable
<1>3. QED BY <1>1, <1>2 DEF TraceInv

LEMMA TraceOwned == ASSUME TraceInv PROVE Trace!TraceKept
<1>1. m.rows \in Seq(TraceRows) /\ DOMAIN m.rows = 1 .. Len(m.rows) /\ Orderly(m)
  BY DEF TraceInv, TraceType, TraceModels
<1>2. Trace!TypeOK /\ Trace!ReportedKept /\ Trace!CleanIsSaved
  BY <1>1, TraceConstants DEF TraceInv, TraceType, Trace!TypeOK, Orderly
<1>3. Trace!AnchorsKept
  BY <1>1 DEF Trace!AnchorsKept, Orderly, Anchored
<1>4. Trace!BootsTold
  BY <1>1 DEF Trace!BootsTold, Orderly, Booted
<1>5. QED BY <1>2, <1>3, <1>4 DEF Trace!TraceKept

LEMMA NandMoves == ASSUME TraceInv, [NandNext]_<<part, vars, traceVars>> PROVE TraceInv'
<1>1. CASE UNCHANGED traceVars
  <2>1. UNCHANGED Trace!traceVars
    BY <1>1 DEF traceVars, Trace!traceVars
  <2>2. QED BY <2>1, TraceSame
<1>2. CASE Trace!Next
  BY <1>2, TraceStep
<1>3. QED BY <1>1, <1>2 DEF NandNext

(* What the trace of a discharge reports as saved stays saved, through a    *)
(* migration to the NAND that fails or is cut anywhere, and compaction      *)
(* loses no first observation and no order of the boots: for every capacity *)
(* of rows and every number of boots and samples.                          *)
THEOREM TraceIsKept == NandSpec => []TraceKept
<1>1. NandInit => TraceInv
  BY TraceBegins DEF NandInit
<1>2. TraceInv => TraceKept
  BY TraceOwned DEF TraceKept
<1>3. QED BY NandMoves, <1>1, <1>2, PTL DEF NandSpec
=============================================================================
