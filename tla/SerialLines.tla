----------------------------- MODULE SerialLines -----------------------------
(* The diagnostic console's two transports (serial_debug.cpp from begin to *)
(* consume, serial_debug_transport.h): lines typed over USB and framed     *)
(* lines over the UART, whose driver may lose bytes and even the news of a *)
(* loss, and the ring that its replies wait in.  The main loop polls; the  *)
(* UART driver and the host act between any two of its steps.              *)
EXTENDS Integers, Sequences, SequencesExt

CONSTANTS LineCapacity,       \* of a line buffer, its terminator included
          RxCapacity,         \* of the driver's receive buffer
          UartEventCapacity,  \* of the driver's event queue
          ChunkCapacity,      \* of one read
          TxCapacity,         \* of the reply ring
          TxBudget,           \* of one drain
          MaxBytes            \* bound on bytes sent and lost, and on late replies

Ports == {"usb", "uart"}
Bytes == {"char", "ctrl", "back", "end"}    \* a backspace is a control character to the UART
None == "none"

VARIABLES
  line,   \* per port: length, overflow; history: damaged, bytes of it are missing
  driver, \* the UART's: rx, events; history: gap, what was lost after rx
  poll,   \* SerialDebug::poll: place, events looked at, chunk; up, the ports it owns
  ring,   \* TxRing: data, head, used
  ran,    \* history: a damaged line has run
  left    \* of MaxBytes

vars == <<line, driver, poll, ring, ran, left>>

Fresh == [length |-> 0, overflow |-> FALSE, damaged |-> FALSE]
EmptyRing == [data |-> [i \in 0..TxCapacity - 1 |-> [no |-> 0, ends |-> FALSE]], head |-> 0, used |-> 0]
Idle == [at |-> "idle", looked |-> 0, chunk |-> <<>>]
Quiet == [rx |-> <<>>, events |-> <<>>, gap |-> None]

Init ==
  /\ line = [p \in Ports |-> Fresh] /\ driver = Quiet
  /\ poll = [at |-> "closed", looked |-> 0, chunk |-> <<>>, up |-> {}]
  /\ ring = EmptyRing /\ ran = FALSE /\ left = MaxBytes

-----------------------------------------------------------------------------
(* The UART driver of the ESP-IDF: a byte that finds no room, or that the  *)
(* FIFO loses, is reported, if the event queue has room for the report;    *)
(* one that is stored may be, as "data", like a wake-up.                   *)
(* A gap is known by the last of the bytes lost: an end, or within a line. *)
Post(d, event) == IF Len(d.events) < UartEventCapacity THEN [d EXCEPT !.events = Append(@, event)] ELSE d
Spend == left > 0 /\ left' = left - 1
Driven == "uart" \in poll.up /\ UNCHANGED <<line, poll, ring, ran>>

Receive(kind, news) ==
  /\ Driven /\ Spend /\ Len(driver.rx) < RxCapacity
  /\ LET stored == [driver EXCEPT !.rx = Append(@, [kind |-> kind, gap |-> driver.gap]), !.gap = None]
     IN driver' = IF news THEN Post(stored, "data") ELSE stored

Gap(kind) == IF kind = "end" THEN "end" ELSE "cut"

Lose(kind) ==
  /\ Driven /\ Spend
  /\ driver' = Post([driver EXCEPT !.gap = Gap(kind)], "error")

Saturated == Len(driver.events) >= UartEventCapacity

-----------------------------------------------------------------------------
(* TxRing: a reply goes in whole or not at all, and out as the UART takes  *)
(* it.  A byte is known by its place among those that wait, and by whether *)
(* it ends a reply.                                                        *)
Slot(r, i) == (r.head + i) % TxCapacity
Blank == [no |-> 0, ends |-> FALSE]

Stored(r, n, size) ==
  [r EXCEPT !.used = @ + n,
            !.data = [s \in DOMAIN @ |->
               LET i == (s - Slot(r, r.used)) % TxCapacity
               IN IF i < n THEN [no |-> r.used + i, ends |-> i = size - 1] ELSE @[s]]]

Enqueue(r, size) == IF size > TxCapacity - r.used THEN r ELSE Stored(r, size, size)

Contiguous(r) ==
  LET count == IF r.used < TxBudget THEN r.used ELSE TxBudget
  IN IF count < TxCapacity - r.head THEN count ELSE TxCapacity - r.head

(* Nothing reads the bytes that are gone.                                  *)
Drained(r, sent) ==
  [r EXCEPT !.head = (@ + sent) % TxCapacity, !.used = @ - sent,
            !.data = [s \in DOMAIN @ |->
               IF (s - r.head) % TxCapacity \in sent..r.used - 1 THEN [no |-> @[s].no - sent, ends |-> @[s].ends] ELSE Blank]]

DrainUart ==
  IF "uart" \in poll.up THEN \E sent \in 0..Contiguous(ring) : ring' = Drained(ring, sent)
  ELSE UNCHANGED ring

(* debugPrintf: to the ring, or straight to USB.                           *)
Reply(port, r) == IF port = "uart" THEN {Enqueue(r, size) : size \in 1..TxCapacity - 1} ELSE {r}

-----------------------------------------------------------------------------
(* invalidateUartInput: all that was received and not yet parsed is        *)
(* dropped, and so is what comes up to the next end of a line.             *)
Wiped == [length |-> 0, overflow |-> TRUE, damaged |-> FALSE]

Invalidate(chunk) ==
  LET lost == chunk \o driver.rx
  IN /\ line' = [line EXCEPT !["uart"] = Wiped]
     /\ driver' = [Quiet EXCEPT !.gap = IF driver.gap # None \/ lost = <<>> THEN driver.gap
                                        ELSE Gap(Last(lost).kind)]

(* Bytes of a line are missing, within it or at its end.                   *)
Damaged(l, byte) == l.damaged \/ byte.gap = "cut" \/ (byte.gap = "end" /\ l.length > 0)

(* A slip: what begins like a frame is one.                                *)
DecodesByForm(l, byte) == TRUE

(* decodeUartLine: the frame's CRC-32 tells damage.                        *)
Decodes(l, byte) == ~Damaged(l, byte)

(* consume: what a byte may make of its line, whether that is answered,    *)
(* and whether the line runs; over the UART only a frame does.             *)
Kept(l) == [line |-> l, said |-> FALSE, runs |-> FALSE]

Consumed(port, l, byte) ==
  LET kept == [l EXCEPT !.damaged = Damaged(l, byte)]
  IN CASE byte.kind = "end" /\ l.length = 0 /\ ~l.overflow -> {Kept(Fresh)}
       [] byte.kind = "end" /\ (l.length > 0 \/ l.overflow) ->
            {[line |-> Fresh, said |-> TRUE, runs |-> run] :
               run \in CASE l.overflow -> {FALSE}
                         [] ~l.overflow /\ port = "usb" -> {TRUE}
                         [] OTHER -> {FALSE, Decodes(l, byte)}}
       [] port = "uart" /\ byte.kind = "ctrl" -> {Kept([kept EXCEPT !.overflow = TRUE])}
       [] port = "usb" /\ byte.kind = "ctrl" -> {Kept(kept)}
       [] port = "usb" /\ byte.kind = "back" ->
            {Kept([kept EXCEPT !.length = IF @ > 0 THEN @ - 1 ELSE 0])}
       [] OTHER -> {Kept(IF l.length + 1 >= LineCapacity THEN [kept EXCEPT !.overflow = TRUE]
                         ELSE [kept EXCEPT !.length = @ + 1])}

(* consumeFrom, on the line of a port.                                     *)
ConsumeFrom(port, byte) ==
  \E c \in Consumed(port, line[port], byte) :
    /\ line' = [line EXCEPT ![port] = c.line]
    /\ ran' = (ran \/ (c.runs /\ Damaged(line[port], byte)))
    /\ ring' \in IF c.said THEN Reply(port, ring) ELSE {ring}

-----------------------------------------------------------------------------
(* SerialDebug::begin, of a new object each time the app opens; either     *)
(* port may refuse, and the UART may come up within a line.                *)
Begin ==
  /\ poll.at = "closed"
  /\ \E up \in SUBSET Ports : up # {} /\ poll' = [poll EXCEPT !.at = "idle", !.up = up]
  /\ \E gap \in {None, "cut"} : driver' = [Quiet EXCEPT !.gap = gap]
  /\ UNCHANGED <<line, ring, ran, left>>

(* end: what was received and what was not yet sent is wiped.              *)
End ==
  /\ poll.at = "idle" /\ poll' = [poll EXCEPT !.at = "closed", !.up = {}]
  /\ line' = [p \in Ports |-> Fresh] /\ driver' = Quiet /\ ring' = EmptyRing
  /\ UNCHANGED <<ran, left>>

-----------------------------------------------------------------------------
(* SerialDebug::poll.                                                      *)
At(place) == poll.at = place
Go(place) == poll' = [poll EXCEPT !.at = place]

Poll ==
  /\ At("idle") /\ DrainUart /\ Go("usb")
  /\ UNCHANGED <<line, driver, ran, left>>

UsbByte(kind) ==
  /\ At("usb") /\ "usb" \in poll.up /\ Spend
  /\ ConsumeFrom("usb", [kind |-> kind, gap |-> None])
  /\ UNCHANGED <<driver, poll>>

(* A full event queue may have lost the news of an error.                  *)
UsbDone ==
  /\ At("usb") /\ IF "uart" \notin poll.up THEN Go("async") ELSE poll' = [poll EXCEPT !.at = "events", !.looked = 0]
  /\ IF "uart" \in poll.up /\ Saturated THEN Invalidate(<<>>) ELSE UNCHANGED <<line, driver>>
  /\ UNCHANGED <<ring, ran, left>>

Event ==
  /\ At("events")
  /\ CASE poll.looked < UartEventCapacity /\ Saturated -> Invalidate(<<>>) /\ Go("check")
       [] poll.looked = UartEventCapacity \/ driver.events = <<>> -> Go("check") /\ UNCHANGED <<line, driver>>
       [] OTHER ->
            IF Head(driver.events) = "error" THEN Invalidate(<<>>) /\ Go("check")
            ELSE /\ poll' = [poll EXCEPT !.looked = @ + 1]
                 /\ driver' = [driver EXCEPT !.events = Tail(@)] /\ UNCHANGED line
  /\ UNCHANGED <<ring, ran, left>>

Check ==
  /\ At("check") /\ Go("read")
  /\ IF Saturated THEN Invalidate(<<>>) ELSE UNCHANGED <<line, driver>>
  /\ UNCHANGED <<ring, ran, left>>

(* A read may come back empty-handed.                                      *)
Read ==
  /\ At("read")
  /\ \E n \in {0, IF Len(driver.rx) < ChunkCapacity THEN Len(driver.rx) ELSE ChunkCapacity} :
        /\ poll' = [poll EXCEPT !.at = "judge", !.chunk = SubSeq(driver.rx, 1, n)]
        /\ driver' = [driver EXCEPT !.rx = SubSeq(@, n + 1, Len(@))]
  /\ UNCHANGED <<line, ring, ran, left>>

(* The read failed, or the queue filled meanwhile.                         *)
Refuse ==
  /\ At("judge") /\ (Saturated \/ poll.chunk = <<>>) /\ Invalidate(poll.chunk)
  /\ poll' = [poll EXCEPT !.at = "async", !.chunk = <<>>]
  /\ UNCHANGED <<ring, ran, left>>

Accept ==
  /\ At("judge") /\ ~Saturated /\ Go("bytes")
  /\ UNCHANGED <<line, driver, ring, ran, left>>

UartByte ==
  /\ At("bytes") /\ poll.chunk # <<>>
  /\ IF Saturated
       THEN Invalidate(poll.chunk) /\ poll' = [poll EXCEPT !.at = "async", !.chunk = <<>>] /\ UNCHANGED <<ring, ran>>
       ELSE ConsumeFrom("uart", Head(poll.chunk)) /\ poll' = [poll EXCEPT !.chunk = Tail(@)] /\ UNCHANGED driver
  /\ UNCHANGED left

UartDone ==
  /\ At("bytes") /\ poll.chunk = <<>> /\ Go("async")
  /\ UNCHANGED <<line, driver, ring, ran, left>>

(* pollAsync answers late, on either port.                                 *)
PollAsync ==
  /\ At("async") /\ Go("drain")
  /\ \/ UNCHANGED <<ring, left>>
     \/ Spend /\ \E port \in poll.up : ring' \in Reply(port, ring)
  /\ UNCHANGED <<line, driver, ran>>

Drain ==
  /\ At("drain") /\ DrainUart /\ Go("idle")
  /\ UNCHANGED <<line, driver, ran, left>>

Hardware == \/ \E kind \in {"char", "ctrl", "end"}, news \in BOOLEAN : Receive(kind, news)
            \/ \E kind \in {"char", "end"} : Lose(kind)
Loop == \/ Poll \/ (\E kind \in Bytes : UsbByte(kind)) \/ UsbDone \/ Event \/ Check \/ Read
        \/ Refuse \/ Accept \/ UartByte \/ UartDone \/ PollAsync \/ Drain
Next == Begin \/ End \/ Hardware \/ Loop

Spec == Init /\ [][Next]_vars

-----------------------------------------------------------------------------
TypeOK ==
  /\ \A p \in Ports : line[p].length \in 0..LineCapacity - 1
  /\ Len(driver.rx) <= RxCapacity /\ Len(driver.events) <= UartEventCapacity
  /\ Len(poll.chunk) <= ChunkCapacity /\ ring.used \in 0..TxCapacity

(* What the UART is given is what was said, in order, and no reply is cut  *)
(* (TxRing): its bytes wait in the order they were put in, and the last    *)
(* of them ends a reply.                                                   *)
RingInOrder ==
  /\ \A i \in 0..ring.used - 1 : ring.data[Slot(ring, i)].no = i
  /\ ring.used > 0 => ring.data[Slot(ring, ring.used - 1)].ends

(* A port that is down holds nothing, and a line that runs is the line     *)
(* that was sent (decodeUartLine, invalidateUartInput).                    *)
LinesAreWhole ==
  /\ TypeOK /\ RingInOrder /\ ~ran
  /\ \A p \in Ports : p \notin poll.up => line[p] = Fresh
=============================================================================
