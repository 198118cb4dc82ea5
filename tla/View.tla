-------------------------------- MODULE View --------------------------------
(* The screen and its controls: view_mosaico.cpp, the loop that drives it  *)
(* (app_codex_micro.cpp), key_manager.cpp, and the touch, light and        *)
(* orientation calls of hal_mosaico.cpp.  LVGL's task delivers touches,    *)
(* frames and the ends of animations; the main loop polls keys and console *)
(* and updates the view.  Both hold LVGL's mutex for each step below.      *)
EXTENDS Integers, FiniteSets, Sequences, Functions

CONSTANT MaxEvents    \* bound on presses and drags, and at twice the price on
                      \* what keys, console, backend and board do

Ring == <<"Command", "History", "OTA", "Sessions">>
Fields == {"ssid", "password"}
None == "none"

VARIABLES
  view,     \* CodexMicroView, and what it has set on the board
  world,    \* gauge trial, touch controller asleep, what the last frame showed
  ota,      \* the updater's snapshot: stage, and news of it not yet copied
  hand,     \* LVGL's contact: down, on what; history: stale, deeds
  keys,     \* the two keys and KeyManager; history: pressed in the dark
  loop,     \* onRunning: place, event, _lock_wake_keys_held, capture
  left      \* of MaxEvents

vars == <<view, world, ota, hand, keys, loop, left>>

Init ==
  /\ view = [page |-> "Command", panels |-> {"Command"}, slide |-> <<>>,
             locked |-> FALSE, suppressed |-> FALSE, fault |-> FALSE,
             phase |-> "Idle", curtain |-> "off", noted |-> FALSE, turned |-> FALSE,
             healthy |-> TRUE, open |-> FALSE, closing |-> FALSE, moving |-> FALSE,
             sheet |-> FALSE, detail |-> 0, anims |-> {},
             tracking |-> FALSE, consumed |-> FALSE, onEditor |-> FALSE, plot |-> FALSE,
             editor |-> None, pending |-> None, released |-> FALSE, secret |-> FALSE,
             stage |-> "idle", approved |-> FALSE, offered |-> FALSE,
             dim |-> FALSE, applied |-> "bright", light |-> "bright", due |-> FALSE,
             link |-> FALSE, radio |-> FALSE, idle |-> FALSE, still |-> FALSE]
  /\ world = [trial |-> FALSE, asleep |-> FALSE, drawn |-> "open"]
  /\ ota = [stage |-> "idle", news |-> FALSE]
  /\ hand = [down |-> FALSE, on |-> None, stale |-> FALSE, deeds |-> 0]
  /\ keys = [down |-> {}, was |-> {}, pend |-> None, combo |-> FALSE, active |-> {}, dark |-> FALSE]
  /\ loop = [at |-> "poll", toggle |-> FALSE, event |-> FALSE, held |-> FALSE, capture |-> FALSE]
  /\ left = MaxEvents

-----------------------------------------------------------------------------
(* Guards and parts, on a view v.                                          *)
OtaBusy(v) == v.approved \/ v.stage = "work"
KeepAwake(v) == v.page = "OTA" \/ OtaBusy(v) \/ ota.stage = "work"
Eligible(v) == v.locked /\ ~v.suppressed /\ ~v.fault /\ v.phase = "Idle" /\ ~KeepAwake(v)

(* What keeps touches from having an effect.                               *)
Blocked(v) == \/ v.fault \/ v.suppressed \/ v.locked \/ OtaBusy(v) \/ v.slide # <<>>
              \/ v.moving \/ v.phase # "Idle"
EditorGuards(v) == ~v.open \/ v.detail # 4 \/ Blocked(v)

NoTouch(v) == [v EXCEPT !.plot = FALSE, !.tracking = FALSE, !.consumed = TRUE]
DropPending(v) == [v EXCEPT !.pending = None, !.released = FALSE]
RestoreEditor(v) == [v EXCEPT !.editor = None]

(* setBackLightBrightness: from dark to bright the panel waits for the     *)
(* next frame; the lock screen's levels are taken to be dark ones, of at   *)
(* most WakeDimThreshold.                                                  *)
SetLight(v, level) ==
  IF level = "bright" /\ (v.light # "bright" \/ v.due) THEN [v EXCEPT !.due = TRUE, !.applied = level]
  ELSE [v EXCEPT !.due = FALSE, !.light = level, !.applied = level]

Level(v) == IF ~v.locked THEN "bright" ELSE IF v.dim THEN "dim" ELSE "lock"
ClearDim(v) == IF v.dim THEN LET w == [v EXCEPT !.dim = FALSE] IN SetLight(w, Level(w)) ELSE v

Lease(v) == [v EXCEPT !.link = v.page = "Sessions" /\ ~v.locked /\ ~v.suppressed /\ ~v.fault
                               /\ ~KeepAwake(v)]

(* A slip: what was typed stays in its field.                              *)
CloseSheetKept(v, animate) ==
  IF ~v.open /\ ~v.moving THEN DropPending(v)
  ELSE [NoTouch(RestoreEditor(DropPending(v))) EXCEPT
          !.anims = (@ \ {"sheet", "detail"}) \union (IF animate THEN {"sheet"} ELSE {}),
          !.open = FALSE, !.moving = animate, !.closing = animate, !.sheet = animate]

CloseSheet(v, animate) ==
  IF ~v.open /\ ~v.moving THEN DropPending(v)
  ELSE [NoTouch(RestoreEditor(DropPending(v))) EXCEPT
          !.anims = (@ \ {"sheet", "detail"}) \union (IF animate THEN {"sheet"} ELSE {}),
          !.open = FALSE, !.moving = animate, !.closing = animate, !.sheet = animate,
          !.secret = FALSE]

ShowDetail(v, detail) == [RestoreEditor(DropPending(v)) EXCEPT !.detail = detail]

OpenSheet(v) ==
  IF Blocked(v) \/ v.open THEN v
  ELSE [NoTouch(ShowDetail(v, 0)) EXCEPT
          !.open = TRUE, !.closing = FALSE, !.moving = TRUE, !.sheet = TRUE, !.anims = @ \union {"sheet"}]

CancelSlide(v) ==
  [v EXCEPT !.anims = @ \ {"slide"}, !.panels = @ \ (Range(v.slide) \ {v.page}), !.slide = <<>>]

CancelTurn(v) ==
  IF v.fault THEN [NoTouch(CancelSlide(CloseSheet(v, FALSE))) EXCEPT
                     !.anims = @ \ {"turn"}, !.curtain = "black", !.phase = "Idle"]
  ELSE IF v.phase = "Idle" THEN v
  ELSE [NoTouch(v) EXCEPT !.anims = @ \ {"turn"}, !.curtain = "off", !.phase = "Idle"]

(* A slip: the contact goes on acting on the page that comes.              *)
ShowPageUnderHand(v, page) ==
  IF v.fault \/ (OtaBusy(v) /\ page # "OTA") THEN v
  ELSE LET w == CancelSlide(CancelTurn(CloseSheet(v, FALSE)))
       IN Lease([w EXCEPT !.plot = FALSE, !.tracking = FALSE, !.page = page, !.panels = {page}])

(* setPageForDebug, which every change of page goes through.               *)
ShowPage(v, page) ==
  IF v.fault \/ (OtaBusy(v) /\ page # "OTA") THEN v
  ELSE LET w == CancelSlide(CancelTurn(CloseSheet(v, FALSE)))
       IN Lease([w EXCEPT !.consumed = @ \/ w.tracking, !.plot = FALSE, !.tracking = FALSE,
                          !.page = page, !.panels = {page}])

Wake(v) ==
  LET w == ClearDim(v)
      awake == SetLight([w EXCEPT !.locked = FALSE, !.radio = FALSE, !.idle = @ /\ world.asleep,
                                  !.still = w.suppressed \/ OtaBusy(w)], "bright")
  IN IF world.trial THEN v
     ELSE IF v.fault THEN w
     ELSE IF awake.offered THEN ShowPage([awake EXCEPT !.offered = FALSE], "OTA") ELSE Lease(awake)

SetPage(v, page) ==
  LET w == ShowPage(v, page) IN IF w.page = "OTA" /\ page = "OTA" /\ w.locked THEN Wake(w) ELSE w

Lock(v) ==
  IF v.fault \/ v.locked \/ KeepAwake(v) THEN v
  ELSE LET w == NoTouch(CancelSlide(CloseSheet(CancelTurn(v), FALSE)))
       IN SetLight(Lease([w EXCEPT !.still = TRUE, !.locked = TRUE, !.radio = TRUE, !.idle = TRUE]), "lock")

Suppress(v, on) ==
  LET w == Lease(IF on THEN ClearDim([v EXCEPT !.suppressed = TRUE]) ELSE [v EXCEPT !.suppressed = FALSE])
  IN IF on THEN [CancelSlide(CancelTurn(NoTouch(CloseSheet(w, FALSE)))) EXCEPT !.still = TRUE] ELSE w

Navigate(v, step) ==
  IF Blocked(v) \/ v.open THEN v
  ELSE LET here == CHOOSE i \in 1..4 : Ring[i] = v.page
           next == Ring[((here - 1 + step) % 4) + 1]
       IN [ShowPage(v, next) EXCEPT !.slide = <<v.page, next>>, !.panels = {v.page, next},
                                    !.anims = @ \union {"slide"}]

Toggle(v) ==
  IF v.fault \/ v.suppressed THEN v
  ELSE IF v.locked THEN Wake(v)
  ELSE IF OtaBusy(v) THEN v
  ELSE IF v.open \/ v.moving THEN CloseSheet(v, TRUE) ELSE Navigate(v, 1)

-----------------------------------------------------------------------------
(* Touches.  An event goes to what was touched and then, unless that is    *)
(* part of the editor, to the root (touchEvent).                           *)
Readable(v) == ~v.idle /\ ~world.trial /\ ~world.asleep /\ v.healthy

Touchable(v) ==
  IF ~Readable(v) THEN {}
  ELSE IF v.curtain # "off" THEN {"curtain"}
  ELSE IF v.editor # None THEN {v.editor, "key", "control"}
  ELSE {"root"} \union
       (IF v.sheet THEN CASE v.detail = 0 -> {"tile"}
                          [] v.detail = 1 -> {"row"}
                          [] OTHER -> Fields \union {"row", "action", "profiles"}
        ELSE (IF "History" \in v.panels THEN {"cell", "mode", "plot"} ELSE {}) \union
             (IF "OTA" \in v.panels THEN {"ota"} ELSE {}))

Bubbles(v, on) == on \notin {"curtain", "key", "control"} /\ (on \in Fields => v.editor = None)

RootPress(v, on) ==
  LET w == IF v.released THEN DropPending(v) ELSE v
  IN IF Blocked(v) THEN DropPending(NoTouch(v))
     ELSE IF on = "plot" /\ w.page = "History" /\ ~w.open THEN [NoTouch(w) EXCEPT !.plot = TRUE]
     ELSE [w EXCEPT !.plot = FALSE, !.tracking = TRUE, !.consumed = FALSE,
                    !.onEditor = w.open /\ w.detail = 4 /\ on \in Fields \union {"profiles"}]

(* A drag of 32 pixels consumes the contact; one of 96 along an axis is a  *)
(* swipe.                                                                  *)
RootDrag(v, way) ==
  LET w == DropPending([v EXCEPT !.consumed = TRUE])
      end == [w EXCEPT !.tracking = FALSE]
  IN IF Blocked(v) THEN DropPending(NoTouch(v))
     ELSE IF v.plot \/ ~v.tracking THEN v
     ELSE IF w.onEditor \/ way = "some" THEN w
     ELSE IF way = "up" /\ ~v.open THEN OpenSheet(end)
     ELSE IF way = "down" /\ v.open THEN CloseSheet(end, TRUE)
     ELSE IF way \in {"left", "right"} THEN Navigate(end, IF way = "left" THEN 1 ELSE 3)
     ELSE end

RootEnd(v, lost) ==
  LET w == IF lost THEN DropPending([v EXCEPT !.consumed = TRUE]) ELSE v
  IN IF Blocked(v) THEN DropPending(NoTouch(v)) ELSE [w EXCEPT !.plot = FALSE, !.tracking = FALSE]

(* wifiFieldEvent: a press marks the field, its release asks for the       *)
(* editor, which the next update opens.                                    *)
FieldPress(v, field) ==
  LET w == DropPending(v)
  IN IF EditorGuards(w) \/ w.editor # None THEN w ELSE [w EXCEPT !.pending = field]

FieldRelease(v, field) ==
  IF EditorGuards(v) \/ v.consumed THEN DropPending(v)
  ELSE IF v.pending = field THEN [v EXCEPT !.released = TRUE] ELSE v

FieldClick(v, field) ==
  IF EditorGuards(v) \/ v.consumed THEN DropPending(v)
  ELSE IF v.pending = field \/ v.editor = None
    THEN [v EXCEPT !.pending = field, !.released = TRUE] ELSE v

(* What a click does, and whether it was a deed: the new view and 0 or 1.  *)
Did(v) == <<v, 1>>
Nothing(v) == <<v, 0>>

HistoryClick(v, on) ==
  IF Blocked(v) \/ v.consumed \/ v.open THEN {Nothing(v)}
  ELSE {Did(IF on = "mode" THEN ShowPage(v, "History") ELSE v)}

TileClick(v) ==
  IF ~v.open \/ v.moving \/ v.consumed \/ v.locked \/ v.suppressed \/ v.fault \/ v.phase # "Idle" \/ OtaBusy(v)
  THEN {Nothing(v)}
  ELSE {Did([ShowDetail(v, d) EXCEPT !.moving = TRUE, !.anims = @ \union {"detail"}]) : d \in {1, 4}}

RowClick(v) == IF Blocked(v) \/ v.consumed \/ ~v.open THEN {Nothing(v)} ELSE {Did(v)}

(* NEW, OPEN, SAVE and the like: most wipe the typed password.             *)
ActionClick(v) ==
  IF EditorGuards(v) \/ v.consumed \/ v.editor # None THEN {Nothing(v)}
  ELSE {Did([DropPending(v) EXCEPT !.secret = FALSE]), Did([v EXCEPT !.secret = FALSE]), Did(v), Nothing(v)}

ProfilesClick(v) ==
  IF EditorGuards(v) \/ v.consumed \/ v.editor # None THEN {Nothing(v)}
  ELSE {Did([DropPending(v) EXCEPT !.secret = FALSE]), Nothing(v)}

OtaClick(v) ==
  IF \/ v.fault \/ v.suppressed \/ v.locked \/ v.consumed \/ v.slide # <<>> \/ v.phase # "Idle"
     \/ v.page # "OTA" \/ OtaBusy(v)
  THEN {Nothing(v)} ELSE {Did([v EXCEPT !.approved = TRUE]), Nothing(v)}

ControlClick(v) ==
  IF EditorGuards(v) \/ v.editor = None THEN {Nothing(v)}
  ELSE {Did([RestoreEditor(DropPending(v)) EXCEPT !.secret = FALSE]),
        Did([v EXCEPT !.secret = v.secret /\ v.editor # "password"]), Did(v)}

(* Keys are LVGL's own, OK and CLOSE ours.                                 *)
KeyClick(v) ==
  LET w == RestoreEditor(DropPending(v))
  IN {Nothing([v EXCEPT !.secret = @ \/ v.editor = "password"])} \union
     (IF EditorGuards(v) THEN {Nothing(DropPending(v))}
      ELSE {Did(w), Did([w EXCEPT !.secret = FALSE])})

Clicks(v, on) ==
  CASE on \in {"cell", "mode"} -> HistoryClick(v, on)
    [] on = "tile" -> TileClick(v)
    [] on = "row" -> RowClick(v)
    [] on = "action" -> ActionClick(v)
    [] on = "profiles" -> ProfilesClick(v)
    [] on = "ota" -> OtaClick(v)
    [] on = "control" -> ControlClick(v)
    [] on = "key" -> KeyClick(v)
    [] on \in Fields -> {Nothing(FieldClick(v, on))}
    [] OTHER -> {Nothing(v)}

Touch == left > 0 /\ left' = left - 1
Event == left > 1 /\ left' = left - 2

Press(on) ==
  /\ ~hand.down /\ on \in Touchable(view) /\ Touch
  /\ hand' = [down |-> TRUE, on |-> on, stale |-> FALSE, deeds |-> 0]
  /\ LET v == IF on \in Fields THEN FieldPress(view, on) ELSE view
     IN view' = IF Bubbles(view, on) THEN RootPress(v, on) ELSE v
  /\ UNCHANGED <<world, ota, keys, loop>>

Drag(way) ==
  /\ hand.down /\ Readable(view) /\ Touch
  /\ view' = IF Bubbles(view, hand.on) THEN RootDrag(view, way) ELSE view
  /\ hand' = [hand EXCEPT !.deeds = @ + (IF <<view.open, view.page>> # <<view'.open, view'.page>> THEN 1 ELSE 0)]
  /\ UNCHANGED <<world, ota, keys, loop>>

(* The finger is lifted, or reading it became forbidden.                   *)
Release ==
  /\ hand.down
  /\ LET f == IF hand.on \in Fields THEN FieldRelease(view, hand.on) ELSE view
         v == IF Bubbles(view, hand.on) THEN RootEnd(f, FALSE) ELSE f
     IN \E outcome \in Clicks(v, hand.on) :
          /\ view' = outcome[1]
          /\ hand' = [hand EXCEPT !.down = FALSE, !.deeds = @ + outcome[2]]
  /\ UNCHANGED <<world, ota, keys, loop, left>>

Lose ==
  /\ hand.down /\ Touch
  /\ LET v == IF hand.on \in Fields THEN DropPending([view EXCEPT !.consumed = TRUE]) ELSE view
     IN view' = IF Bubbles(view, hand.on) THEN RootEnd(v, TRUE) ELSE v
  /\ hand' = [hand EXCEPT !.down = FALSE]
  /\ UNCHANGED <<world, ota, keys, loop>>

-----------------------------------------------------------------------------
(* What is under a contact, and what becomes of the contact when others    *)
(* change that; a reset of the input device ends it.                       *)
Screen(v) == <<v.page, v.open, v.detail, v.locked, v.suppressed, v.fault, v.turned, v.curtain # "off">>

Under(v) == hand' = [hand EXCEPT !.down = @ /\ v.idle = view.idle /\ v.turned = view.turned,
                                 !.stale = @ \/ Screen(v) # Screen(view)]

SheetMoved(v) == [v EXCEPT !.moving = FALSE, !.sheet = @ /\ ~v.closing, !.closing = FALSE]
SlideCompleted(v) == [v EXCEPT !.panels = @ \ {v.slide[1]}, !.slide = <<>>]
Turned(v) == IF v.fault THEN CancelTurn(v)
             ELSE IF v.phase = "FadeOut" THEN [v EXCEPT !.phase = "WaitBlack", !.curtain = "black", !.noted = FALSE]
             ELSE [NoTouch(v) EXCEPT !.phase = "Idle", !.curtain = "off"]

AnimationEnds(a) ==
  /\ a \in view.anims
  /\ LET v == [view EXCEPT !.anims = @ \ {a}]
     IN view' = CASE a = "slide" -> SlideCompleted(v) [] a = "turn" -> Turned(v) [] OTHER -> SheetMoved(v)
  /\ Under(view') /\ UNCHANGED <<world, ota, keys, loop, left>>

(* A frame is drawn and submitted; light that waited for it follows.       *)
Frame ==
  /\ world' = [world EXCEPT !.drawn = IF view.curtain = "black" THEN "black"
                                      ELSE IF view.locked THEN "lock" ELSE "open"]
  /\ view' = [view EXCEPT !.noted = TRUE, !.due = FALSE, !.light = IF view.due THEN "bright" ELSE @]
  /\ UNCHANGED <<ota, hand, keys, loop, left>>

-----------------------------------------------------------------------------
(* KeyManager::update on what the keys are now: a chord, or a key that     *)
(* stayed alone for the chord window or was let go within it.              *)
Pressed == keys.down \ keys.was

KeyUpdate(late) ==
  LET pend == IF keys.pend # None \/ Pressed = {} THEN keys.pend ELSE IF "A" \in Pressed THEN "A" ELSE "B"
      done == pend # None /\ (pend \notin keys.down \/ late)
      gone == keys.active \intersect (keys.was \ keys.down)
      chord == keys.down = {"A", "B"}
  IN IF chord \/ keys.combo
       THEN [keys |-> [keys EXCEPT !.pend = IF chord THEN None ELSE @, !.active = IF chord THEN {} ELSE @,
                                   !.combo = keys.down # {}],
             toggle |-> chord /\ ~keys.combo, event |-> chord /\ (~keys.combo \/ keys.active # {})]
       ELSE [keys |-> [keys EXCEPT !.pend = IF done THEN None ELSE pend,
                                   !.active = (@ \ gone) \union (IF done /\ pend \in keys.down THEN {pend} ELSE {})],
             toggle |-> done /\ pend = "B", event |-> done \/ gone # {}]

(* onRunning, first lock: a key that finds the display locked wakes it and *)
(* does nothing else until both are up.                                    *)
Poll(late, due) ==
  /\ loop.at = "poll"
  /\ LET idle == [keys |-> keys, toggle |-> FALSE, event |-> FALSE]
         k == IF loop.capture THEN idle ELSE KeyUpdate(late)
         wake == view.locked /\ (k.event \/ Pressed # {})
         held == loop.held \/ wake
     IN /\ view' = IF wake THEN Wake(view) ELSE view
        /\ keys' = [k.keys EXCEPT !.was = keys.down,
                                  !.dark = IF loop.capture THEN FALSE
                                           ELSE IF Pressed = {} THEN @
                                           ELSE view.locked \/ (@ /\ keys.was # {})]
        /\ loop' = [loop EXCEPT !.held = held /\ keys.down # {}, !.event = k.event /\ ~held,
                                !.toggle = k.toggle /\ ~held,
                                !.at = IF k.event \/ due \/ Pressed # {} THEN "run" ELSE "poll"]
  /\ Under(view') /\ UNCHANGED <<world, ota, left>>

-----------------------------------------------------------------------------
(* CodexMicroView::update, part by part.  `other' is a candidate of another *)
(* version or hash than the one copied before.                             *)
Copied(v, seen, other) ==
  IF ~(ota.news /\ seen) THEN v
  ELSE [v EXCEPT !.stage = ota.stage, !.approved = FALSE,
                 !.offered = @ \/ (ota.stage = "offer" /\ (v.stage # "offer" \/ other))]

(* An operation at work takes the screen, lit; an offer waits for it.      *)
RefreshOta(v) ==
  LET freed == NoTouch(CancelSlide(CloseSheet([CancelTurn(v) EXCEPT !.still = TRUE], FALSE)))
      lit == IF v.locked THEN Wake(freed) ELSE freed
  IN IF OtaBusy(v) THEN IF lit.page # "OTA" THEN SetPage(lit, "OTA") ELSE lit
     ELSE IF v.offered /\ ~v.locked THEN ShowPage([v EXCEPT !.offered = FALSE], "OTA") ELSE v

Interacting(v) == hand.down \/ v.slide # <<>> \/ v.moving \/ v.phase # "Idle"

(* updateOrientation: fade out, a black frame, turn, a frame, fade in; a   *)
(* finger, a lock or an update ends it.  Turning may fail, and safely or   *)
(* not.                                                                    *)
FadeOut(v) == [NoTouch(v) EXCEPT !.phase = "FadeOut", !.curtain = "fading", !.anims = @ \union {"turn"}]

Turn(v) ==
  {[NoTouch(v) EXCEPT !.turned = ~@, !.phase = "WaitRotated", !.noted = FALSE], CancelTurn(v),
   CancelTurn([v EXCEPT !.healthy = FALSE, !.fault = TRUE])}

Orient(v, tilted) ==
  IF v.fault \/ ~v.healthy THEN {[CancelTurn([v EXCEPT !.fault = TRUE]) EXCEPT !.still = TRUE]}
  ELSE IF v.locked \/ v.suppressed \/ OtaBusy(v) THEN {CancelTurn([v EXCEPT !.still = TRUE])}
  ELSE LET w == [v EXCEPT !.still = FALSE]
       IN IF v.phase # "Idle" /\ (hand.down \/ v.slide # <<>> \/ v.moving) THEN {CancelTurn(w)}
          ELSE CASE v.phase = "WaitBlack" /\ v.noted -> Turn(w)
                 [] v.phase = "WaitRotated" /\ v.noted ->
                      {[w EXCEPT !.phase = "FadeIn", !.curtain = "fading", !.anims = @ \union {"turn"}]}
                 [] v.phase = "Idle" /\ tilted /\ ~Interacting(v) /\ ~v.tracking -> {FadeOut(w)}
                 [] OTHER -> {w}

RefreshDisplay(v, expired) ==
  LET w == IF v.dim /\ (expired \/ ~Eligible(v)) THEN ClearDim(v) ELSE v
  IN IF ~w.fault /\ Level(w) # w.applied THEN SetLight(w, Level(w)) ELSE w

(* A result that nobody looks at leaves the screen; then the lock.         *)
TerminalReturn(v, busy) ==
  IF /\ v.page = "OTA" /\ ~v.locked /\ ~v.suppressed /\ ~v.fault /\ ~v.open /\ v.slide = <<>>
     /\ ~OtaBusy(v) /\ ota.stage # "work" /\ v.stage = "ended" /\ ~busy
  THEN ShowPage(v, "Command") ELSE v

AutoLock(v, busy) == IF ~v.locked /\ ~busy /\ ~KeepAwake(v) THEN Lock(v) ELSE v

ServicePending(v) ==
  LET w == DropPending(v)
  IN IF EditorGuards(v) \/ v.consumed THEN w
     ELSE IF v.pending # None /\ v.released /\ ~hand.down THEN [w EXCEPT !.editor = v.pending] ELSE v

(* onRunning, second lock.                                                 *)
Run(seen, other, tilted, expired, timeout) ==
  /\ loop.at = "run" /\ (tilted => Event /\ ~world.trial) /\ (~tilted => UNCHANGED left)
  /\ LET awake == IF loop.event THEN Wake(view) ELSE view
         shown == Lease(RefreshOta(Copied(awake, seen, other)))
         busy == Interacting(shown)
     IN \E o \in Orient(shown, tilted) :
          LET lit == RefreshDisplay(o, expired)
              rest == CASE timeout = "result" -> TerminalReturn(lit, busy)
                        [] timeout = "idle" -> AutoLock(lit, busy)
                        [] OTHER -> lit
              done == ServicePending(rest)
          IN /\ view' = IF loop.toggle THEN Toggle(done) ELSE done
             /\ ota' = [ota EXCEPT !.news = @ /\ ~seen]
             /\ hand' = [hand EXCEPT !.down = @ /\ view'.idle = view.idle /\ view'.turned = view.turned,
                                     !.stale = @ \/ Screen(view') # Screen(view),
                                     !.deeds = @ + (IF done.editor # rest.editor THEN 1 ELSE 0)]
  /\ loop' = [loop EXCEPT !.at = "poll", !.event = FALSE, !.toggle = FALSE]
  /\ UNCHANGED <<world, keys>>

-----------------------------------------------------------------------------
(* Users, console, updater, gauge trial and touch controller.              *)
Key(k) ==
  /\ Event /\ keys' = [keys EXCEPT !.down = IF k \in @ THEN @ \ {k} ELSE @ \union {k}]
  /\ UNCHANGED <<view, world, ota, hand, loop>>

(* serial_debug.cpp, from poll at the head of the loop.                    *)
Command(v) ==
  /\ loop.at = "poll" /\ Event
  /\ view' \in {SetPage(v, "Command"), SetPage(v, "History"), Lock(v), Wake(v), ClearDim(v)}
               \union (IF Eligible(v) THEN {SetLight([v EXCEPT !.dim = TRUE], "dim")} ELSE {})
  /\ Under(view') /\ UNCHANGED <<world, ota, keys, loop>>

Capture ==
  /\ loop.at = "poll" /\ Event
  /\ loop' = [loop EXCEPT !.capture = ~@] /\ view' = Suppress(view, ~loop.capture)
  /\ Under(view') /\ UNCHANGED <<world, ota, keys>>

Backend(stage) ==
  /\ Event /\ ota' = [stage |-> stage, news |-> TRUE]
  /\ UNCHANGED <<view, world, hand, keys, loop>>

Trial ==
  /\ Event /\ world' = [world EXCEPT !.trial = ~@]
  /\ UNCHANGED <<view, ota, hand, keys, loop>>

(* The touch controller is put to sleep under the lock, and woken.         *)
TouchSleeps ==
  /\ Event /\ loop.at = "poll"
  /\ \/ ~world.asleep /\ Eligible(view) /\ view' = [view EXCEPT !.idle = TRUE]
     \/ world.asleep /\ view' = [view EXCEPT !.idle = view.locked]
  /\ world' = [world EXCEPT !.asleep = ~@]
  /\ Under(view') /\ UNCHANGED <<ota, keys, loop>>

Hand == \/ \E on \in Touchable(view) : Press(on)
        \/ \E way \in {"some", "up", "down", "left", "right"} : Drag(way)
        \/ Release \/ Lose
Lvgl == Hand \/ Frame \/ \E a \in view.anims : AnimationEnds(a)
Main == \/ \E late, due \in BOOLEAN : Poll(late, due)
        \/ \E seen, other, tilted, expired \in BOOLEAN, timeout \in {"none", "result", "idle"} :
             Run(seen, other, tilted, expired, timeout)
        \/ Command(view) \/ Capture
Others == \/ \E k \in {"A", "B"} : Key(k)
          \/ \E stage \in {"offer", "ready", "work", "ended"} : Backend(stage)
          \/ Trial \/ TouchSleeps
Next == Lvgl \/ Main \/ Others

Spec == Init /\ [][Next]_vars
-----------------------------------------------------------------------------
TypeOK ==
  /\ view.page \in Range(Ring) /\ view.panels \subseteq Range(Ring) /\ view.slide \in Seq(Range(Ring))
  /\ view.phase \in {"Idle", "FadeOut", "WaitBlack", "WaitRotated", "FadeIn"}
  /\ view.curtain \in {"off", "fading", "black"} /\ view.anims \subseteq {"slide", "turn", "sheet", "detail"}
  /\ view.detail \in 0..4 /\ {view.editor, view.pending} \subseteq Fields \union {None}
  /\ {view.applied, view.light} \subseteq {"bright", "lock", "dim"}
  /\ hand.deeds \in Nat /\ keys.down \subseteq {"A", "B"} /\ loop.at \in {"poll", "run"} /\ left \in 0..MaxEvents

(* One thing at a time is on the screen, and nothing is left of what was:  *)
(* the panels shown are the page's and those of a slide under way, a slide,*)
(* a turn or a movement of the sheet lasts as long as its animation, and   *)
(* the curtain hangs only for a turn, or for good after a fault.           *)
OneScreen ==
  /\ view.panels = {view.page} \union Range(view.slide)
  /\ view.slide # <<>> <=> "slide" \in view.anims
  /\ view.moving <=> view.anims \intersect {"sheet", "detail"} # {}
  /\ view.sheet <=> (view.open \/ view.moving)
  /\ view.phase \in {"FadeOut", "FadeIn"} <=> "turn" \in view.anims
  /\ view.curtain = "off" <=> (view.phase = "Idle" /\ ~view.fault)
  /\ view.fault => view.curtain = "black"

(* A locked display is at rest: no sheet, slide or turn, no touch or       *)
(* motion polling, no session lease; the network owner knows, and knows    *)
(* when it no longer is.                                                   *)
LockIsAtRest ==
  /\ view.locked => /\ ~view.open /\ ~view.moving /\ view.slide = <<>> /\ view.phase = "Idle"
                    /\ view.idle /\ view.still /\ ~view.link
  /\ view.radio = view.locked /\ (view.idle => view.locked \/ world.asleep)
  /\ view.link => view.page = "Sessions" /\ ~view.suppressed

(* The panel is never lit over the lock screen's last frame, the lease of  *)
(* a dimmed standby ends with the lock, and the loop leaves the light it   *)
(* wants.                                                                  *)
LightFollows ==
  /\ view.light = "bright" => world.drawn # "lock"
  /\ view.dim => view.locked
  /\ loop.at = "poll" /\ ~view.fault => view.applied = Level(view)

(* What was typed as a password is gone when the sheet is, and the editor  *)
(* stands on nothing but the open Wi-Fi sheet.                             *)
SecretsLeave ==
  /\ view.secret => view.open
  /\ {view.editor, view.pending} # {None} => view.open /\ view.detail = 4

(* The view as a whole (view_mosaico.cpp's callbacks, update, lockDisplay, *)
(* wakeDisplay), with the key rule of onRunning: a key pressed in the dark *)
(* only wakes.                                                             *)
ViewIsWhole ==
  TypeOK /\ OneScreen /\ LockIsAtRest /\ LightFollows /\ SecretsLeave /\ (loop.toggle => ~keys.dark)

(* A contact does at most one thing, and only to the screen it was put     *)
(* down on (touchEvent, the click callbacks, serviceWifiEditorPending);    *)
(* and the panel is turned only behind a black frame with no finger on it  *)
(* (updateOrientation).                                                    *)
GesturesAreHonest ==
  [][/\ hand'.deeds > hand.deeds => ~hand.stale /\ hand'.deeds <= 1
     /\ view'.turned # view.turned => world.drawn = "black" /\ ~hand.down]_vars

=============================================================================
