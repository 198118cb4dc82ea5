------------------------------ MODULE BleInput ------------------------------
(* The user's controls on their way to the host (codex_micro_ble.cpp, on   *)
(* the watch): the UI thread puts events of this connection into three     *)
(* queues, and the transport worker sends them, keys before motion.  A     *)
(* connection may break and the radio be switched at any moment.           *)
EXTENDS Integers, Sequences

CONSTANTS CriticalDepth, NormalDepth, Reserve,   \* the queues, scaled down
          Tries,               \* attempts to send what must be preserved
          Controls,            \* those the user moves, of key, stick and press
          MaxGeneration        \* bound on connections

(* A key and the button of the stick are ordered and critical, the stick's *)
(* motion is not; the encoder's press is ordered with its rotation.        *)
None == [control |-> "none", on |-> FALSE, gen |-> 0, repeat |-> 0]

VARIABLES
  link,       \* up, ready, generation, radio idle requested
  held,       \* the controls the user holds
  ui,         \* the event queueInput has in hand, or None
  resetting,  \* queueInput has reset the joystick queue
  queue,      \* _critical_input_queue, _input_queue, _joystick_queue
  worker,     \* the event runInputTask has in hand, or None
  tries,      \* how often it was sent in vain
  batch,      \* encoder_batch while encoder_pending, else None
  notified,   \* the worker's task notification
  waiting,    \* the worker is in ulTaskNotifyTake
  host,       \* the controls the host takes to be held
  idled       \* history: radio idle was requested on this connection

vars == <<link, held, ui, resetting, queue, worker, tries, batch, notified, waiting, host, idled>>
sending == <<worker, tries, batch, waiting>>

Init ==
  /\ link = [up |-> FALSE, ready |-> FALSE, gen |-> 0, idle |-> FALSE]
  /\ held = {} /\ ui = None /\ resetting = FALSE
  /\ queue = [critical |-> <<>>, normal |-> <<>>, stick |-> <<>>]
  /\ worker = None /\ tries = 0 /\ batch = None /\ notified = FALSE /\ waiting = TRUE
  /\ host = {} /\ idled = FALSE

Accepts(e) == ~link.idle /\ link.ready /\ e.gen = link.gen
Rotation(e) == e.control = "dial"
Neutral(e) == e.control = "stick" /\ ~e.on
MustPreserve(e) == Neutral(e) \/ e.control \in {"key", "press"}
Queue(e) == IF e.control = "key" \/ Neutral(e) THEN "critical"
            ELSE IF e.control = "stick" THEN "stick" ELSE "normal"
Depth(q) == CASE q = "critical" -> CriticalDepth [] q = "normal" -> NormalDepth [] OTHER -> 1

(* esp_restart, to release what the host holds: all begins anew.           *)
Restart ==
  /\ link' = [link EXCEPT !.up = FALSE, !.ready = FALSE]
  /\ ui' = None /\ resetting' = FALSE
  /\ queue' = [critical |-> <<>>, normal |-> <<>>, stick |-> <<>>]
  /\ worker' = None /\ tries' = 0 /\ batch' = None /\ notified' = FALSE /\ waiting' = TRUE
  /\ host' = {} /\ UNCHANGED <<held, idled>>

-----------------------------------------------------------------------------
(* The user moves a control, and the UI asks queueInput to send it.        *)
Move(c, steps) ==
  /\ ui = None
  /\ held' = IF c = "dial" THEN held ELSE IF c \in held THEN held \ {c} ELSE held \union {c}
  /\ ui' = IF ~link.idle /\ link.ready
             THEN [control |-> c, on |-> c \in held', gen |-> link.gen, repeat |-> steps] ELSE None
  /\ UNCHANGED <<link, resetting, queue, sending, notified, host, idled>>

(* A slip: the motion stays queued.                                        *)
ResetNothing ==
  /\ Neutral(ui) /\ ~resetting /\ resetting' = TRUE
  /\ UNCHANGED <<link, held, ui, queue, sending, notified, host, idled>>

(* A neutral stick first discards the motion not yet sent.                 *)
ResetStick ==
  /\ Neutral(ui) /\ ~resetting
  /\ resetting' = TRUE /\ queue' = [queue EXCEPT !.stick = <<>>]
  /\ UNCHANGED <<link, held, ui, sending, notified, host, idled>>

Fits(e) ==
  \/ Queue(e) = "stick"
  \/ Len(queue[Queue(e)]) < Depth(Queue(e)) - (IF Rotation(e) THEN Reserve ELSE 0)

Enqueue ==
  /\ ui # None /\ (Neutral(ui) => resetting) /\ Fits(ui)
  /\ queue' = [queue EXCEPT ![Queue(ui)] = IF Queue(ui) = "stick" THEN <<ui>> ELSE Append(@, ui)]
  /\ ui' = None /\ resetting' = FALSE /\ notified' = TRUE
  /\ UNCHANGED <<link, held, sending, host, idled>>

(* The queue stayed full: motion is dropped, the rest asks for a restart.  *)
EnqueueFails ==
  /\ ui # None /\ (Neutral(ui) => resetting) /\ ~Fits(ui)
  /\ \/ MustPreserve(ui) /\ Accepts(ui) /\ Restart
     \/ /\ ~(MustPreserve(ui) /\ Accepts(ui))
        /\ ui' = None /\ resetting' = FALSE
        /\ UNCHANGED <<link, held, queue, sending, notified, host, idled>>

-----------------------------------------------------------------------------
(* runInputTask: critical events, then the latest motion, then one detent  *)
(* or press of the encoder.                                                *)
Wake ==
  /\ waiting /\ notified
  /\ waiting' = FALSE /\ notified' = FALSE
  /\ UNCHANGED <<link, held, ui, resetting, queue, worker, tries, batch, host, idled>>

Pick(q) ==
  /\ worker' = Head(queue[q]) /\ queue' = [queue EXCEPT ![q] = Tail(@)] /\ tries' = 0
  /\ UNCHANGED <<link, held, ui, resetting, notified, waiting, host, idled>>

TakeCritical == ~waiting /\ worker = None /\ link.up /\ queue.critical # <<>> /\ Pick("critical")
                /\ UNCHANGED batch

TakeStick == /\ ~waiting /\ worker = None /\ link.up /\ queue.critical = <<>> /\ link.ready
             /\ queue.stick # <<>> /\ Pick("stick") /\ UNCHANGED batch

TakeEncoder ==
  /\ ~waiting /\ worker = None /\ link.up /\ queue.critical = <<>> /\ link.ready
  /\ queue.stick = <<>>
  /\ \/ /\ batch = None /\ queue.normal # <<>> /\ Pick("normal") /\ batch' = Head(queue.normal)
     \/ /\ batch # None /\ worker' = batch /\ tries' = 0
        /\ UNCHANGED <<link, held, ui, resetting, queue, batch, notified, waiting, host, idled>>

(* Nothing left, or not ready, or the connection broke.                    *)
Rest ==
  /\ ~waiting /\ worker = None
  /\ \/ ~link.up
     \/ queue.critical = <<>> /\ ~link.ready
     \/ queue.critical = <<>> /\ queue.stick = <<>> /\ queue.normal = <<>> /\ batch = None
  /\ waiting' = TRUE /\ batch' = IF link.up THEN batch ELSE None
  /\ UNCHANGED <<link, held, ui, resetting, queue, worker, tries, notified, host, idled>>

(* The event is done with: an encoder batch goes on with its next step.    *)
Finish ==
  /\ worker' = None /\ tries' = 0
  /\ batch' = IF batch = None \/ worker # batch THEN batch
              ELSE IF batch.repeat > 1 /\ Accepts(worker) THEN [batch EXCEPT !.repeat = @ - 1]
              ELSE None

Stale ==
  /\ worker # None /\ ~Accepts(worker) /\ Finish
  /\ UNCHANGED <<link, held, ui, resetting, queue, notified, waiting, host, idled>>

Send ==
  /\ worker # None /\ Accepts(worker) /\ Finish
  /\ host' = IF Rotation(worker) THEN host
             ELSE IF worker.on THEN host \union {worker.control} ELSE host \ {worker.control}
  /\ UNCHANGED <<link, held, ui, resetting, queue, notified, waiting, idled>>

(* The stack refuses the report.  Keys and presses are tried again, then   *)
(* the device restarts; motion is dropped.                                 *)
SendFails ==
  /\ worker # None /\ Accepts(worker)
  /\ \/ /\ MustPreserve(worker) /\ tries + 1 < Tries /\ tries' = tries + 1
        /\ UNCHANGED <<link, held, ui, resetting, queue, worker, batch, notified, waiting, host,
                       idled>>
     \/ MustPreserve(worker) /\ tries + 1 = Tries /\ Restart
     \/ /\ ~MustPreserve(worker) /\ Finish
        /\ UNCHANGED <<link, held, ui, resetting, queue, notified, waiting, host, idled>>

-----------------------------------------------------------------------------
(* The connection and the radio.  A host releases all when a link breaks.  *)
Connect ==
  /\ ~link.up /\ link.gen < MaxGeneration
  /\ link' = [link EXCEPT !.up = TRUE, !.gen = @ + 1] /\ idled' = link.idle
  /\ UNCHANGED <<held, ui, resetting, queue, sending, notified, host>>

Ready ==
  /\ link.up /\ ~link.ready /\ link' = [link EXCEPT !.ready = TRUE]
  /\ UNCHANGED <<held, ui, resetting, queue, sending, notified, host, idled>>

Break ==
  /\ link.up /\ link.gen < MaxGeneration /\ host' = {}
  /\ link' = [link EXCEPT !.up = FALSE, !.ready = FALSE, !.gen = @ + 1]
  /\ UNCHANGED <<held, ui, resetting, queue, sending, notified, idled>>

SwitchRadio ==
  /\ link.gen < MaxGeneration /\ link' = [link EXCEPT !.idle = ~@] /\ idled' = (idled \/ ~link.idle)
  /\ UNCHANGED <<held, ui, resetting, queue, sending, notified, host>>

Ui == ResetStick \/ Enqueue \/ EnqueueFails
User == (\E c \in Controls : Move(c, 1)) \/ Move("dial", 2)
Work == Wake \/ TakeCritical \/ TakeStick \/ TakeEncoder \/ Rest \/ Stale \/ Send \/ SendFails
Radio == Connect \/ Ready \/ Break \/ SwitchRadio
Next == User \/ Ui \/ Work \/ Radio

Spec == Init /\ [][Next]_vars

-----------------------------------------------------------------------------
TypeOK ==
  /\ {waiting, notified, resetting, idled} \subseteq BOOLEAN /\ held \subseteq Controls
  /\ \A q \in DOMAIN queue : Len(queue[q]) <= Depth(q)

(* When the UI and the worker have come to rest on a link that stayed in   *)
(* use, the host holds nothing that the user has let go: no release was    *)
(* dropped, overtaken by a press or motion, or left in a queue nobody is   *)
(* told of (queueInput, runInputTask, the restarts).                       *)
NothingStuck ==
  TypeOK /\ (waiting /\ ~notified /\ ui = None /\ link.ready /\ ~idled => host \subseteq held)
=============================================================================
