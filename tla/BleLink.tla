------------------------------ MODULE BleLink ------------------------------
(* The Bluetooth link of the Codex protocol (codex_micro_ble.cpp, on the   *)
(* monitor board): advertising and radio idle, connections and their       *)
(* generations, the handshake that makes a connection Ready, the recovery  *)
(* of a half-open one, and the latched failure.  Four threads share        *)
(* atomics: the Bluetooth stack's callbacks ("gap"), its HID event loop    *)
(* ("hid"), the main loop ("main") and the transport worker ("worker").    *)
(* A thread's todo is what is left of the handler it runs, one entry for   *)
(* each access to shared state; a step executes one entry.                 *)
EXTENDS Integers, Sequences, Functions

CONSTANTS MaxConnections,      \* how often a host that returns may connect
          Courses              \* what the environment does, see course

ASSUME LinkAssumption ==
  MaxConnections \in Nat \ {0} /\ Courses \subseteq {"returning", "failing", "switched"}

Threads == {"gap", "hid", "main", "worker"}
RpcDepth == 1                  \* RpcQueueDepth, scaled down
MaxEvents == 1                 \* bound on events the controller may owe
NoRequest == [gen |-> 0]

VARIABLES
  ble,       \* the atomics and the state of CodexMicroBle, one field each
  todo,      \* what each thread still has to do
  held,      \* the request each thread has in hand
  wanted,    \* what the sessions service wanted of the radio
  events,    \* events on their way to the gap and hid threads
  air,       \* the controller: advertising, connection (0 if none), the
             \* connection the HID stack sends to, connections made
  answered,  \* the generation in which the host was last answered
  fault,     \* the call to the stack that failed: one of a behaviour may
  course     \* bound: in a behaviour the host talks and either connects again
             \* or a drop may fail, or it is silent, the user switches the
             \* radio and advertising may fail

vars == <<ble, todo, held, wanted, events, air, answered, fault, course>>
outside == <<wanted, events, air, answered, fault, course>>

Init ==
  /\ ble = [advertising |-> FALSE, stopping |-> FALSE, dropping |-> FALSE, idle |-> TRUE,
            failed |-> FALSE, conn |-> FALSE, gen |-> 0, link |-> "Disconnected",
            ready |-> {},        \* advertising data, scan response, HID service
            peer |-> FALSE,      \* _peer_address_valid
            shown |-> FALSE,     \* _state.protocolReady
            watchdog |-> FALSE,  \* a deadline set for a recovery
            rpcs |-> <<>>]
  /\ todo = [t \in Threads |-> <<>>] /\ held = [t \in Threads |-> NoRequest]
  /\ wanted = FALSE
  /\ events = [gap |-> <<[kind |-> "data", from |-> 0], [kind |-> "scan", from |-> 0]>>,
               hid |-> <<[kind |-> "hid", from |-> 0]>>]
  /\ air = [on |-> FALSE, linked |-> 0, stack |-> 0, made |-> 0]
  /\ answered = 0 /\ fault = "none" /\ course \in Courses

-----------------------------------------------------------------------------
(* One entry of a handler: thread t is at op, and goes on with ops.        *)
At(t, op) == todo[t] # <<>> /\ Head(todo[t]) = op
Then(t, ops) ==
  /\ todo' = [todo EXCEPT ![t] = ops \o Tail(@)]
  /\ held' = [held EXCEPT ![t] = IF ops \o Tail(todo[t]) = <<>> THEN NoRequest ELSE @]

(* Entry op leaves the object as object and is followed by ops.            *)
Do(t, op, object, ops) ==
  /\ At(t, op) /\ ble' = object /\ Then(t, ops)
  /\ UNCHANGED <<outside>>

(* Entry op decides whether the handler goes on.                           *)
Ask(t, op, condition, yes, no) == Do(t, op, ble, IF condition THEN yes ELSE no)

(* The controller carries a command out, or fails to; an event tells.      *)
Post(kind, from) ==
  events' = [events EXCEPT !["gap"] = Append(@, [kind |-> kind, from |-> from])]

Carry(cmd) ==
  \/ cmd = "start" /\ air' = [air EXCEPT !.on = TRUE] /\ Post("started", 0)
  \/ cmd = "stop" /\ air' = [air EXCEPT !.on = FALSE] /\ Post("stopped", 0)
  \/ cmd = "drop" /\ air.linked # 0 /\ air' = [air EXCEPT !.linked = 0] /\ Post("down", air.linked)
  \/ cmd = "drop" /\ air.linked = 0 /\ UNCHANGED <<air, events>>

MayFail(cmd) == fault = "none" /\ course = IF cmd = "drop" THEN "failing" ELSE "switched"

Obey(cmd) ==
  \/ Carry(cmd) /\ UNCHANGED fault
  \/ /\ MayFail(cmd) /\ cmd # "drop" /\ fault' = cmd /\ UNCHANGED air
     /\ Post(IF cmd = "start" THEN "not started" ELSE "not stopped", 0)

(* Entry op takes the flag and gives the command if it may; the stack may  *)
(* refuse, and the flag is given back.                                     *)
Command(t, op, flag, may) ==
  /\ At(t, op) /\ Then(t, <<>>)
  /\ \/ may /\ ~ble[flag] /\ ble' = [ble EXCEPT ![flag] = TRUE] /\ Obey(op)
     \/ (~may \/ ble[flag]) /\ UNCHANGED <<ble, air, events, fault>>
     \/ may /\ ~ble[flag] /\ MayFail(op) /\ fault' = op /\ UNCHANGED <<ble, air, events>>
  /\ UNCHANGED <<wanted, answered, course>>

(* The worker holds the state mutex while it marks the link Ready.         *)
MutexFree == ~ (At("worker", "swap") \/ At("worker", "confirm"))

-----------------------------------------------------------------------------
(* maybeStartAdvertising.                                                  *)
Advertising(t) ==
  \/ Ask(t, "advertise?", ~ble.idle /\ ble.ready = {"data", "scan", "hid"} /\ ~ble.conn,
         <<"start">>, <<>>)
  \/ Command(t, "start", "advertising", TRUE)
  \/ Do(t, "not advertising", [ble EXCEPT !.advertising = FALSE], <<>>)

(* requestRadioIdle.  A link that failed is never woken.                   *)
Request(t) ==
  \/ Ask(t, "wake?", ble.failed, <<"idle">>, <<"wake">>)
  \/ Do(t, "wake", [ble EXCEPT !.idle = FALSE], <<"advertise?">>)
  \/ Do(t, "idle", [ble EXCEPT !.idle = TRUE], <<"stop", "drop">>)

(* serviceRadioIdle, with stopAdvertisingForIdle and disconnectForIdle;    *)
(* an attempt may be too soon after the last one.                          *)
TooSoon(t) == Do(t, "stop", ble, <<>>) \/ Do(t, "drop", ble, <<>>)

Idle(t) ==
  \/ Ask(t, "idle?", ble.idle, <<"stop", "drop">>, <<>>)
  \/ Command(t, "stop", "stopping", ble.advertising)
  \/ Do(t, "not stopping", [ble EXCEPT !.stopping = FALSE], <<>>)
  \/ MutexFree /\ Command(t, "drop", "dropping", ble.conn /\ ble.peer)

-----------------------------------------------------------------------------
(* onConnected.  The admission gate closes before the generation changes,  *)
(* and opens only after the state of the last connection is gone.          *)
Closing == <<"close", "generation", "down", "state">>
Opening == <<"generation", "up", "state", "open">>

Connected(t) ==
  \/ Do(t, "close", [ble EXCEPT !.conn = FALSE, !.dropping = FALSE], <<>>)
  \/ Do(t, "open", [ble EXCEPT !.conn = TRUE, !.rpcs = <<>>], <<>>)
  \/ Do(t, "generation", [ble EXCEPT !.gen = @ + 1], <<>>)
  \/ Do(t, "up", [ble EXCEPT !.link = "Awaiting", !.watchdog = FALSE], <<>>)
  \/ Do(t, "down", [ble EXCEPT !.link = "Disconnected", !.watchdog = FALSE], <<>>)
  \/ MutexFree /\ Do(t, "state", [ble EXCEPT !.shown = FALSE, !.rpcs = IF t = "hid" THEN <<>> ELSE @],
                      <<>>)

(* failMonitorLink: latched, and its new generation disowns every request. *)
Fail(t) ==
  \/ Do(t, "fail", [ble EXCEPT !.failed = TRUE],
        IF ble.failed THEN <<>> ELSE <<"fail link", "generation", "state">>)
  \/ Do(t, "fail link", [ble EXCEPT !.idle = TRUE, !.link = "Recovering", !.watchdog = FALSE], <<>>)

(* poll and recoverHalfOpenConnection, by the main loop: a connection that *)
(* waits long enough for its handshake, or for its end, is given up.       *)
(* A slip: only the end of a recovery is waited for.                       *)
TooLongToEnd(t) ==
  /\ ~ble.idle /\ ble.conn
  /\ ble.link = "Recovering" /\ ble.watchdog /\ Do(t, "poll", ble, <<"fail">>)

TooLong(t) ==
  /\ ~ble.idle /\ ble.conn
  /\ \/ ble.link = "Recovering" /\ ble.watchdog /\ Do(t, "poll", ble, <<"fail">>)
     \/ ble.link = "Awaiting" /\ Do(t, "poll", ble, <<"recover">>)

Poll(t) ==
  \/ Do(t, "poll", ble, <<>>)
  \/ Do(t, "recover", IF ble.conn /\ ble.link = "Awaiting"
                        THEN [ble EXCEPT !.link = "Recovering"] ELSE ble,
        IF ble.conn /\ ble.link = "Awaiting" THEN <<"cut">> ELSE <<>>)
  \/ /\ At(t, "cut") /\ MutexFree
     /\ \/ ble.peer /\ Obey("drop") /\ Then(t, <<"watch">>)
        \/ /\ \/ ~ble.peer /\ UNCHANGED fault
              \/ ble.peer /\ MayFail("drop") /\ fault' = "drop"
           /\ Then(t, <<"fail">>) /\ UNCHANGED <<air, events>>
     /\ UNCHANGED <<ble, wanted, answered, course>>
  \/ Do(t, "watch", [ble EXCEPT !.watchdog = TRUE], <<>>)

-----------------------------------------------------------------------------
(* onOutput and queueRpcRequest: the generation of a complete request is   *)
(* read, and checked again before it is queued.                            *)
(* A slip: any connection will do.                                         *)
CurrentWithAny(r) == ble.conn

Current(r) == r.gen = ble.gen /\ ble.conn
Open == ble.link \in {"Awaiting", "Ready"}

Receive ==
  \/ /\ At("hid", "receive")
     /\ todo' = [todo EXCEPT !["hid"] = IF ble.conn /\ Open THEN <<"enqueue">> ELSE <<>>]
     /\ held' = [held EXCEPT !["hid"] = [gen |-> ble.gen]]
     /\ UNCHANGED <<ble, outside>>
  \/ Do("hid", "enqueue",
        IF Current(held["hid"]) /\ Open /\ Len(ble.rpcs) < RpcDepth
          THEN [ble EXCEPT !.rpcs = Append(@, held["hid"])] ELSE ble, <<>>)

(* runInputTask takes a request of this generation, and after the warm-up  *)
(* of the transport looks again; handleRpc refuses on a failed link.       *)
TakeRpc ==
  /\ todo["worker"] = <<>> /\ ble.conn /\ ble.rpcs # <<>>
  /\ LET r == Head(ble.rpcs) IN
       /\ held' = [held EXCEPT !["worker"] = r]
       /\ todo' = [todo EXCEPT !["worker"] = IF r.gen = ble.gen THEN <<"warm">> ELSE <<>>]
  /\ ble' = [ble EXCEPT !.rpcs = Tail(@)]
  /\ UNCHANGED <<outside>>

Handle ==
  Ask("worker", "warm", Current(held["worker"]) /\ Open /\ ~ble.failed, <<"send">>, <<>>)

(* sendJsonObject and sendJson: while the connection is current a report   *)
(* the stack refuses may be sent again; an answer to a known method makes  *)
(* the link Ready.                                                         *)
SendJson ==
  \/ Ask("worker", "send", Current(held["worker"]) /\ Open, <<"report">>, <<>>)
  \/ /\ At("worker", "report") /\ air.stack # 0
     /\ answered' = held["worker"].gen
     /\ \E known \in BOOLEAN : Then("worker", IF known THEN <<"mark">> ELSE <<>>)
     /\ UNCHANGED <<ble, wanted, events, air, fault, course>>
  \/ /\ air.stack = 0
     /\ \E again \in BOOLEAN :
          Ask("worker", "report", again /\ Current(held["worker"]) /\ Open, <<"send">>, <<>>)

(* markProtocolReady, under the state mutex.                               *)
MarkProtocolReady ==
  \/ Ask("worker", "mark", Current(held["worker"]), <<"swap">>, <<>>)
  \/ Do("worker", "swap", IF ble.link = "Awaiting" THEN [ble EXCEPT !.link = "Ready"] ELSE ble,
        IF ble.link = "Awaiting" THEN <<"confirm">> ELSE <<>>)
  \/ Do("worker", "confirm",
        IF Current(held["worker"]) /\ ble.link = "Ready"
          THEN [ble EXCEPT !.watchdog = FALSE, !.shown = TRUE] ELSE ble, <<>>)

-----------------------------------------------------------------------------
(* The callbacks: gapEventCallback and gattsEventCallback on the gap       *)
(* thread, which passes connections and output on to the HID event loop;   *)
(* hidEventCallback on the other.                                          *)
OnGap(kind) ==
  CASE kind \in {"data", "scan"} -> <<"advertise?">>
    [] kind = "started"    -> IF ble.idle THEN <<"stop", "drop">> ELSE <<>>
    [] kind = "not started" -> <<"not advertising", "not stopping">>
    [] kind = "stopped"    -> <<"not advertising", "not stopping", "advertise?">>
    [] kind = "not stopped" -> <<"not stopping", "advertise?">>
    [] OTHER -> <<>>

OnHid(kind) ==
  CASE kind = "hid"  -> <<"advertise?">>
    [] kind = "up"   -> <<"not advertising">> \o Opening \o <<"idle?">>
    [] kind = "down" -> Closing \o <<"not advertising", "advertise?">>
    [] kind = "out"  -> <<"receive">>

GapEvent ==
  /\ todo["gap"] = <<>> /\ events["gap"] # <<>> /\ MutexFree
  /\ LET e == Head(events["gap"])
         forward == e.kind \in {"up", "down", "out"} IN
       /\ todo' = [todo EXCEPT !["gap"] = OnGap(e.kind)]
       /\ ble' = [ble EXCEPT !.ready = @ \union ({e.kind} \intersect {"data", "scan"}),
                             !.peer = (@ /\ e.kind # "down") \/ e.kind = "up"]
       /\ events' = [gap |-> Tail(events["gap"]),
                     hid |-> IF forward THEN Append(events["hid"], e) ELSE events["hid"]]
       /\ air' = [air EXCEPT !.stack = IF e.kind = "up" THEN e.from
                                       ELSE IF e.kind = "down" THEN 0 ELSE @]
  /\ UNCHANGED <<held, wanted, answered, fault, course>>

HidEvent ==
  /\ todo["hid"] = <<>> /\ events["hid"] # <<>>
  /\ LET e == Head(events["hid"]) IN
       /\ todo' = [todo EXCEPT !["hid"] = OnHid(e.kind)]
       /\ ble' = [ble EXCEPT !.ready = @ \union ({e.kind} \intersect {"hid"})]
       /\ events' = [events EXCEPT !["hid"] = Tail(@)]
  /\ UNCHANGED <<held, wanted, air, answered, fault, course>>

(* MosaicoSessions::service, by the main loop, over and over: the radio as *)
(* wanted unless the link failed; then poll, which serves the radio too.   *)
Service ==
  /\ todo["main"] = <<>> /\ "hid" \in ble.ready
  /\ wanted' \in BOOLEAN /\ (course # "switched" => wanted')
  /\ todo' = [todo EXCEPT !["main"] = <<IF wanted' /\ ~ble.failed THEN "wake?" ELSE "idle">>
                                     \o (IF ble.failed THEN <<>> ELSE <<"idle?", "poll">>)]
  /\ UNCHANGED <<ble, held, events, air, answered, fault, course>>

-----------------------------------------------------------------------------
(* The controller and the host.                                            *)
Connect ==
  /\ air.on /\ air.linked = 0
  /\ air.made < IF course = "returning" THEN MaxConnections ELSE 1
  /\ Len(events["gap"]) < MaxEvents
  /\ air' = [air EXCEPT !.on = FALSE, !.linked = air.made + 1, !.made = @ + 1]
  /\ Post("up", air.made + 1)
  /\ UNCHANGED <<ble, todo, held, wanted, answered, fault, course>>

Disconnect ==
  /\ air.linked # 0 /\ air' = [air EXCEPT !.linked = 0] /\ Post("down", air.linked)
  /\ UNCHANGED <<ble, todo, held, wanted, answered, fault, course>>

Output ==
  /\ course # "switched" /\ air.linked # 0 /\ ~ble.failed /\ \A t \in DOMAIN events : \A e \in Range(events[t]) : e.kind # "out"
  /\ Post("out", air.linked)
  /\ UNCHANGED <<ble, todo, held, wanted, air, answered, fault, course>>

(* A thread that is in a handler goes on with it.                          *)
Busy(t) == todo[t] # <<>>
Radio(t) == TooSoon(t) \/ Advertising(t) \/ Idle(t)
Watch(t) == Request(t) \/ Connected(t) \/ Fail(t) \/ Poll(t) \/ TooLong(t)

Gap == GapEvent \/ (Busy("gap") /\ Radio("gap"))
Hid == HidEvent \/ (Busy("hid") /\ (Radio("hid") \/ Connected("hid") \/ Receive))
Main == Service \/ (Busy("main") /\ (Radio("main") \/ Watch("main")))
Worker == TakeRpc \/ (Busy("worker") /\ (Handle \/ SendJson \/ MarkProtocolReady))
Host == Connect \/ Disconnect \/ Output

Next == Gap \/ Hid \/ Main \/ Worker \/ Host

Spec == Init /\ [][Next]_vars

(* The threads run, where that is asked: nothing has to happen while the   *)
(* host connects again.                                                    *)
Owed(A) == course # "returning" /\ A
Fair == /\ WF_vars(Owed(Gap)) /\ WF_vars(Owed(Hid)) /\ WF_vars(Owed(Main)) /\ WF_vars(Owed(Worker))

(* A deadline that is past stays past.                                     *)
PollSpec == Spec /\ Fair /\ SF_vars(Owed(TooLong("main")))

(* An attempt to silence the radio is not for ever too soon.               *)
FairSpec == /\ Spec /\ Fair /\ SF_vars(Idle("main") /\ ~ble.stopping /\ ble'.stopping)
            /\ SF_vars(Idle("main") /\ ~ble.dropping /\ ble'.dropping)

-----------------------------------------------------------------------------
(* A link is Ready only if the host was answered on this very connection:  *)
(* neither an answer under way when the link broke nor one of the          *)
(* connection before makes the next one Ready, and a failed link never is. *)
ReadyIsAnswered ==
  /\ ble.conn /\ ble.link = "Ready" => answered = ble.gen
  /\ ble.shown /\ todo["hid"] = <<>> /\ todo["main"] = <<>> => ble.conn /\ ble.link = "Ready"
  /\ ble.failed /\ todo["main"] = <<>> => ~ble.shown

(* Once the radio is not wanted any more, and unless advertising failed to *)
(* start, the device goes and stays silent.  (The documents promise it;    *)
(* the code does not always keep it.)                                      *)
Silent == ~air.on /\ air.linked = 0
LockedIsSilent == <>[](~wanted /\ fault # "start") => <>[]Silent

(* A half-open link is given up: it becomes Ready, breaks, or is latched   *)
(* as failed (poll, recoverHalfOpenConnection against the handshake).      *)
(* Asked where the host does not come back: one connection is enough, and  *)
(* only there do the threads owe anything (Owed).                          *)
HalfOpenEnds ==
  course # "returning" => []<>(ble.link \notin {"Awaiting", "Recovering"} \/ ble.failed \/ ble.idle)
=============================================================================
