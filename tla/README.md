# Stopwatch-Micro: specification, model checking and proofs

This directory specifies the parts of the Mosaico firmware of Stopwatch-Micro
(`src/main`) whose correctness depends on the order of events: power cuts,
tasks that call each other's components, storage that fails half-way, answers
that come late. Each module follows the C++ it names; TLC checks small
instances, TLAPS proves the most important properties for every instance.

Contents: [the system](#the-system) · [modules](#the-modules-and-the-code) ·
[runs](#the-runs) · [findings](#two-disagreements) · [proofs](#the-proofs) ·
[abstractions](#abstractions) · [what is not modelled](#what-is-not-modelled) ·
[plan](#plan)

## The system

The firmware runs on one ESP32-S31 under FreeRTOS. The tasks that matter here
are the main loop (`app_main`, which also services touch and buttons), the
network owner (`NetworkQuota`: Wi-Fi, quota requests, updates, settings), the
workers of the system log, the keepalive and the gauge trace, the serial
console, the LVGL screen, the Bluetooth stack's threads, and SDK timers.

| component | state it keeps | operations | what makes it correct |
|---|---|---|---|
| NAND record store (`hal/mosaico/mosaico_nand_store*`) | two slots of two payload pages and a commit page, two marker pages, `cleanupFailed` | load, save, format | a stored record survives anything but a format; a load never returns an older record than an earlier one; success means a fresh boot reads it back |
| NAND page log (`mosaico_nand_log_model.h`, same transaction) | 8192 ring pages, two index pages | load, read, append | what was reported appended stays until it is 8191 pages old; the window promised can be read; the log stays appendable |
| OTA updater (`ota/mosaico_ota.cpp`) | ten-odd atomic flags, the screen's snapshot, hashes of the candidate; otadata, two app slots, NVS journal | check, approve, defer, install, reboot, maintenance requests, chunk writes, health gate | the next boot always starts a whole signed image; what is installed is what was approved; the updater never gets stuck |
| network owner (`host/network_quota.cpp`) | its place in `run`, retry budget, scan, radio, profiles, TWT trial | associates, scans, keeps the tailnet, updates, runs trials, lowers the clock | works on one transaction and notices that it was cancelled; the radio is up only when it may be; debts of a trial are paid first |
| storage lease (`mosaico_ota.cpp`) | recursive mutex, owner, depth | admission, storage lease, radio lease, release | an update and a storage lease exclude each other; a lease is never orphaned |
| touch sleep trial (`host/touch_sleep*`) | fence counters, phase and flags of the trial | request, service, I2C completion, enter/leave OTA | never asleep while an update runs; touch returns only with the controller in normal mode; the trial ends |
| system log (`host/mosaico_system_log*`) | RAM queue, reader cache, backoff | enqueue, collect, flush, read | no record is consumed before it is durable; pages join up |
| power bank keepalive (`host/powerbank_keepalive*`) | schedule, lease, generation, PM lock | request, off, service, pulse | off beats what is under way; pulses keep their distance |
| standby sleep (`host/standby_sleep*`) | permission, recovery lock, vetoes | allow, service, OTA and USB activity | the chip may sleep only while all that allowed it holds |
| gauge trials and journals (`hal/mosaico/mosaico_gauge_*`, `hal_mosaico.cpp`) | write-ahead records in NVS and NAND | step, resume after a restart, restore | nothing of the gauge is changed without a durable record that answers for it |
| discharge trace (`gauge_discharge_trace.cpp`) | ring of rows, saved copy | sample, compact, save, migrate | first observations and what was reported saved are kept |
| settings (`network_quota.cpp`, `mosaico_display_settings*`) | profiles, display settings, revisions | edit, save, restart | stored as acknowledged, by one writer |
| Bluetooth (`hal/ble/codex_micro_ble.cpp`) | link state, advertising, queues of input | connect, handshake, recover, send | Ready means answered; a half-open link is given up; a released control does not stay pressed at the host |
| screen and controls (`view_mosaico.cpp`, `app_codex_micro.cpp`, `key_manager.cpp`) | page, lock, sheet, editor, slide, turn, light, contact, keys | touches, keys, frames, animations, update, console, updater's news | one whole screen, a lock at rest, no stale lit frame, no forgotten secret; a contact acts once, and where it was put down |
| diagnostic console (`debug/serial_debug*`) | two line buffers, reply ring, one asynchronous test | bytes, driver events, polls, commands, tests | a line that runs is one that was sent; replies go out whole and in order; commands pass their gates; late answers go to who asked |

How they interact:

* Every public call of the updater takes a `StorageAdmission`: `try_lock` of one
  recursive mutex, refused inside a lease. Everyone who touches NAND, NVS or the
  gauge takes a *lease* of the same mutex, refused while the updater is `busy()`.
  Nobody waits: a lost `try_lock` is a refusal the caller must live with.
* The updater's work is done by the network owner, which polls for requests and
  calls back into the updater for every chunk. Between two calls the screen or
  the console may cancel, approve or start something else.
* The touch trial reserves the controller with a fence that the updater's tasks
  enter first (`TouchSleep::OtaAdmission`).
* The record store and the page log share one device and one transaction that
  mounts it, does the work, closes it, mounts it again and reads back.
* The trials of the gauge hold the update's lease and the gauge's mutex for a
  whole operation, so that between its steps there are only clocks and reboots.
* The owner alone stops the radio; the screen, the updater, a TWT trial and a
  trial of the gauge only ask, by flags it reads at its own places.

The hard behaviours are power cuts between any two flash writes, torn pages,
checkpoints of the translation layer at times of its own, calls lost to
`try_lock`, stale owners, timeouts racing late answers, failing or garbled I2C
commands and counters at their limits. `PROJECT.json` lists each one at its line
with the property that would catch it.

## The modules and the code

Notation used throughout: one variable per piece of state or one record for the
RAM of a namespace; a set of *flags that are up* where the code has many
booleans; `pc` for where a task stands between two calls of another component.
A section under a lock, or a call that runs wholly under a mutex, is one step.

### Storage

**`AtomicRecord`** is what a client of the record store may rely on: one value,
replaced by the request or not at all; success only when it has been replaced.

**`NandStore`** models `load`, `save`, `format` and the transaction of
`mosaico_nand_store.cpp`. Pages are what their parsers tell apart (blank, torn,
record). `marker`, `half`, `commit` are what the open transaction reads;
`dMarker`, `dHalf`, `dCommit` what a power cut leaves. Each page write is an
action that may fail (`IoError`) or be cut short (`TornWrite`); `Checkpoint`
copies the live pages to the media at any time, `sync` does so on purpose.
After a save, `Reopen` and `Recheck` mount again and read back, `Finish` closes,
and a failed close sets `cleanupFailed`, which refuses everything until restart.

**`AppendLog`** is what the page log promises its writer. **`NandLog`** models
`load`, `read`, `append` and `publish`: the ring with one spare page, the two
index copies written alternately, the page found beyond the index after a cut
(`Adopts`) and its indexing before the spare is spent (`Publishing`).

**`SystemLog`** models the RAM queue, the worker and the page reader of the system
log, and uses `AppendLog` as the log it writes (`Log!Begin`, `Log!Commit`,
`Log!Done`, `Log!Undone`): what `NandLog` is shown to implement is what
`SystemLog` relies on. Records are numbered as the queue accepts them, so queue
and pages are intervals. `wishes` are the flags and clocks that decide whether
the worker flushes; `healthy` says that leases, gates and NAND are in order.

**`GaugeTrace`** models the trace of a discharge: the ring of rows and its
compaction, the boots they are told apart by, the checkpoint worker, and the
migration from NVS to the record store, confirmed by the console.

### Updates and the lease

**`MosaicoOta`** models every state-changing public function of the updater and
the loop of the network owner that drives it. `ota.flags` holds the atomics that
are true; `stage` and `sha256` are the snapshot the screen shows; `approvedHash`
and `expectedHash` pin the candidate. Flash slots are arrays of chunks, otadata
is `imgState` and `bootSlot`. `PowerCut` restarts the device through the
bootloader of the SDK (rollback of an image that was pending), which together
with NVS and otadata is external and modelled by what the code relies on.
`TurnedAway` is the owner's call that loses its `try_lock`.

**`StorageLease`** models the mutex itself for any set of tasks: the stack of
guards of the task inside it (`held`), the owner that `releaseStorageLease`
tests, and the two flags of `busy()` that matter (`working`: only admitted calls
raise it; `booting`: the health gate raises it without one).

**`TouchSleep`** models `AdmissionModel` (the fence) and `Model` (the trial) with
the service loop of the main task; a command and its completion are two steps,
because tasks and timers move in between. It is compiled only with
`CONFIG_MOSAICO_CST_SLEEP_TRIAL`.

### Power

**`PowerbankKeepalive`** models the pulse worker against `request`, `off`,
`serviceAutomatic` and failing power-management calls. Times are distances from
now that `Tick` counts down; a generation is only compared with a copy, so
`current` is the set of tasks whose copy still equals it.

**`StandbySleep`** models every operation of the sleep policy. Each ends in
`refreshRecovery`; the power owner asks, configures the chip and reports in
three steps, and the updater publishes its flag before it calls `otaActivity`.
The console's look at the state is an operation too: `snapshot` closes the
updater's gate and serves the model, but leaves the permission as it is
(`Snapshot`). The USB console arms the bus once the loop has seen the event,
whether or not its callback has run (`UsbArmed`). So two conditions of a granted
sleep may fail before permission is withdrawn, and `SleepIsSafe` says when: the
updater's gate only while the updater is on its way into `otaActivity`, the bus
only while the USB task is on its way into `usbActivity`.

### The network owner

**`NetworkOwner`** models the loop of `NetworkQuota::run` outside updates and
trials: wake windows, attempts, scans, the order of the profiles, the quota and
history requests as steps, the clock of the CPU, and the stop of the radio.
**`TwtTrial`** models the diagnostic trials of target wake time: what a trial
owes (a flow, a power-save mode, keepalives, a probe, a socket), the callbacks of
the driver and the owner's FIFO of them. **`OwnerSettings`** models profiles and
display settings from the edit to flash, their single writer, and the restart
that must wait for them, asked for after a change or after a scan that timed out
(`scanError`).

### The battery gauge

**`GaugeTrial`** models the contrast operation and the one-shot cold trial that
owns one run of it; **`ScaleTrials`** the two scale trials under their two-slot
ledgers; **`GaugeNominal`** the access, capacity and boot-profile transactions
with the journals `access_v1`, `tx_v1` and `cap130_once`; **`GaugeFields`** the
repair of the FCC limit under `fcc_fix_v1` and the full-charge threshold under
`near_v1`. In each, a step may be
the last of a boot, a save may or may not have reached its medium, and an answer
of the gauge may be lost after the write it answers.

### Bluetooth

**`BleLink`** models advertising, connections with their generations, the
handshake, recovery and the latched failure. Four threads share atomics without
locks: a thread's `todo` is what is left of its handler, one entry for each
access. `course` is what a behaviour is about: a host that talks, or stops, and comes back
(`returning`), one that a call to drop it may fail to get rid of (`failing`), or a
silent one while the user switches the radio and calls that advertise may fail
(`switched`).
**`BleInput`** models the three queues from the controls to the host.

### The screen

**`View`** models the view of the board with the loop that drives it. `view` is
`CodexMicroView` with what it has set on the board (light, polling of touch and
motion, the session lease); `world`, `ota` and `keys` are what it reads; `hand`
is LVGL's contact. The guards and parts (`OpenSheet`, `Lock`, `ShowPage`, ...)
are operators from a view to the next one, named as the code's functions, and
the handlers compose them as the code does. There are two threads: LVGL's task
delivers touches, frames and the ends of animations (`Hand`, `Frame`,
`AnimationEnds`); the main loop polls the keys in one hold of LVGL's mutex
(`Poll`) and updates the view in another (`Run`), and between the two anything
may happen. `hand.stale` and `hand.deeds`, `keys.dark` and `world.drawn` are
history variables.

### The console

**`SerialLines`** models the transports of `serial_debug.cpp`: USB, whose lines
run as typed, and the UART, whose lines must be frames with a CRC-32. `poll` is
cut where the UART driver (external: a receive buffer, an event queue, and bytes
lost with or without the news of it) may act in between: it looks at the depth of
the event queue before and after each step (`UsbDone`, `Event`, `Check`,
`Refuse`, `UartByte`) and drops all that was received, up to the next end of a
line, when an error or a full queue is seen (`Invalidate`). `ring` is the
`TxRing` of replies. `driver.gap`, `line[p].damaged` and `ran` are history: they
say where bytes are missing.

**`SerialCommands`** models what a line then does: the commands, by family and in
the order of the parsers, each with what it calls and with the gates it passes
before; the asynchronous tests, of which one runs at a time and which capture
keys and answer in later polls; and the touch trial that the console watches.
Every line sees the board anew, at its worst (`World`): a gate that the code does
not look at before it acts is taken to be closed. `deed`, `late` and the askers
are history.

### Composition

`MC*` modules hold the instances. `SystemLog` composes with the log by the
contract `AppendLog`. `MCRecords`, `MCNandLog`, `MCTouchSleep`, `MCBoard`, `MCSystemLog` and
`MCStandbySleep` hold several components that share nothing but the lease or the gauge's mutex, which
each of them holds while it works; since in the code they meet nowhere else, they
run side by side: the variable `part` is chosen at the start, one component takes
steps and the others stay as they began, or are not there. A property of one is then checked over
all its behaviours, and trivially over those of the others. The specifications
that the theorems are about (`StandbySpec`, `BoardSpec`, `ConsoleSpec`) say nothing of
fairness; the runs that check liveness check `StandbyFairSpec`, `BoardFairSpec` and
`ConsoleFairSpec`, whose fairness binds only the part that runs (`Runs`): a component
that stays as it began owes no step. `*_proofs` hold the
proofs. Definitions whose comment begins "A slip" are not part of any
specification: they are faulty variants that each property is known to reject.

## The runs

| run | instance | properties | what it shows |
|---|---|---|---|
| `records` | store: 2 values, 3 generations; gauge: 3 boots; scales: 2 resets, 6 saves; settings: 2 names, 1 profile, 3 edits; input: queues of 2 and 1 | `StoreInv` `RecordNeverLost` `GenerationNeverFalls` `ImplementsRecord` `GaugeIsOwned` `ScaleIsOwned` `SettingsKept` `NothingStuck` | the two-slot store is an atomic record through every error, torn page, checkpoint and power cut; no trial changes the gauge without a durable record; settings are stored as acknowledged; a released control is released at the host |
| `nand_log` | log: ring of 4 pages, 6 sequence numbers, torn pages that keep their header; trace: 4 rows, 2 boots | `WindowReadable` `ReportedNeverLost` `ImplementsLog` `TraceKept` | the ring is an append-only log, round its end and to its last number; the trace keeps its anchors and what it reported saved |
| `ota` | 2 images in 2 chunks, either one shipped | `BootSafe` `CandidateIsPinned` `OneTransaction` `ScreenIsTrue` `StaleOwnerWritesNothing` | every interleaving of screen, console, owner and health gate, with power cuts |
| `ota_live` | 1 image, automatic installation switched at will, `FairSpec` | `InstallNeedsConsent` `BusyEnds` | an installation needs a standing permission or an approval of the finished image; the updater never stays busy |
| `board` | 3 tasks with 4 nested guards; TWT: FIFO of 2, 2 trials; owner: 1 attempt, 2 profiles | `LeaseExcludesUpdate` `OwnerIsHolder` `TrialIsSafe` `RadioKept` | lease and update exclude each other, no lease is orphaned; radio and net wait for a trial's callbacks and its debts are paid; attempts, scans and the radio stay in bounds |
| `touch_sleep` | 2 tasks, 2 nested guards, fair; gauge: up to 3 commands, 2 resets, 2 arms; fields: 2 requests, a reset of either side | `TrialExcludesOta` `ControllerNormalWhenReleased` `TrialEnds` `NominalIsOwned` | the trial excludes updates, gives touch back in normal mode, and ends; what is written into the gauge has a journal that leads back; the repair sends no command twice, and a record that calls a field verified, active or restored is true |
| `system_log` | 3 records, 2 to a page, queue of 2, log of 2 pages, 2 sequence numbers, fair; console: lines and events of 2, reply ring of 3, 3 bytes | `ConsumedIsLogged` `PagesServed` `ConsoleIsHonest` `WorkEnds` | nothing leaves the queue before it is logged; pages join, and the one served is the one asked for; records are logged and reads answered once storage stays available; the console runs whole lines only, asks nothing out of turn and answers who asked |
| `powerbank` | period 2, pulse 1, lease 2, fresh 2, no lag, `FairSpec` | `OffWins` `NoBurst` `PulsesGoOn` | off beats what was under way; no burst catches up; the lock is given back and pulses keep coming |
| `standby` | sleep: as in the code, fair; view: `MaxEvents` 6 | `SleepIsSafe` `SleepReturns` `ViewIsWhole` `GesturesAreHonest` | sleep only while all that allowed it holds; left alone, the device keeps getting to sleep; the screen stays one whole screen whatever finger, keys, console, updater and animations do, and a contact acts at most once, on what it was put down on |
| `ble_link` | 2 connections, the second after the first broke at any moment; or 1 and a drop that may fail, polling threads fair there | `ReadyIsAnswered` `HalfOpenEnds` | Ready only if the host was answered on this connection, not on the one before; a half-open link is given up |
| `ble_silent` | a silent host, 2 connections, the radio switched off and on by the user | `LockedIsSilent` is violated | see below |
| `twt_fault` | a cancelled Wi-Fi scan may never be done | `RadioQuiet` is violated | see below |

Each module's type invariant is a conjunct of one of its safety properties, or of
the inductive invariant that its proof module uses.

Why the bounds are enough. The record store has two slots, so three generations
already overwrite each slot and reach the exhausted counter; two values tell a
stale half from a fresh one. A ring of four pages with six sequence numbers
wraps, reuses the spare and reaches the refused last number; the arithmetic is
that of 8192 pages. Two images in two chunks give the updater a running image, a
candidate, a rejected release and a half-written slot; a third image adds no
role. Three tasks give a holder and two that are turned away; four guards nest
an admission, a lease, and a lease within it. `MaxGeneration` and `MaxSequence`
stand for `UINT64_MAX`: the code refuses there, and so do the modules. A queue of
two records and pages of two let a record be pushed while a page with the one
before it is under way, fill the queue, and repeat a prefix with one record more.
A gauge trial is armed in one boot, claimed in the next and restored in a third;
two resets let a recovery itself be interrupted. Two names and a capacity of
one refuse a profile; two trials of TWT let a late callback of the first find the
second. Of `Attempts` (3 in the code) and `Profiles` (6) what matters is that
there is a last one. In `View` a touch costs one of `MaxEvents` and
what anyone else does two: with six of them a press and a drag meet two events of
others, while frames, animations and both loops run free. In `SerialLines` three
bytes are a line, a loss within it and its end, or a line too long for its
buffer; queues of two fill while the loop is between two looks at them, and a
reply ring of three wraps and refuses. `MaxBytes`, `MaxRecords`, `MaxAsks`, `MaxFlaps`, `MaxConnections`,
`Samples`, `MaxSaves`, `Budgets` and `FieldBudgets` bound the run only: the last two are
constants of `MCTouchSleep`, sets of budgets of which the run takes four and one.
Of the connections of `BleLink` the second is what an answer of the first could
be mistaken for; that a half-open link is given up takes one. Where a proof exists, the
bounds no longer matter for the safety properties. Symmetry is used only for
images, and only in a run without liveness.

Fairness. `ota_live` assumes that the owner task keeps going round its loop
(`NetworkQuota::run` has no exit and every wait in it has a timeout) and that the
health gate, an `esp_timer` plus the main loop, is eventually served. It assumes
nothing about the screen, the console, the server or success of any call, and
`BusyEnds` must hold whatever they do. `touch_sleep` assumes that the main loop
calls the touch service, that an I2C action returns (the driver has a timeout)
and that clocks advance. `system_log` assumes that the worker goes on (the main
loop wakes it every second), that page writes end, that the clock runs, and that
a try of `queueLock` succeeds now and then (it is held for a few instructions by
tasks that never block inside); `WorkEnds` holds only once storage stays
available, and for the queue only once the console stops asking for pages: a
failed read postpones the flush as well (`failed()` sets the one `nextAttempt`).
`powerbank` assumes that worker, main loop and time go on, `standby` in addition
that the power owner finds the pads ready again and again; `SleepReturns` also has
as a premise that at some point nobody asks for the policy once more, since
`enableAutomatic` withdraws the permission each time. `ble_link` assumes, where the host may
fall silent, that the four threads run and that a deadline once past stays past.

## Two disagreements

* `twt_fault`: a comment at `network_quota.cpp:996` says "Never disconnect/stop a
  STA with a pending setup/teardown callback." Once a cancelled Wi-Fi scan has
  timed out, the owner ends a queued request by `_twt.end(Timeout)` without
  `cleanupTwtTrial` (`:1697`); a trial that was negotiating is then no longer
  live, nothing is owed, and the owner goes on to stop the radio with the setup
  callback outstanding. `board` sets `ScanFaults = FALSE`, where the rule holds.
* `ble_silent`: `docs/idle-power.md:38` promises that advertising is stopped while
  locked. The disconnect callback first reports the end of the connection and then
  clears the advertising flag unconditionally (`codex_micro_ble.cpp:652`); if
  another thread has started advertising in between, the flag is lost and
  `stopAdvertisingForIdle` returns at once.

Both runs are expected to end in a violation.

## The proofs

TLAPS proves the following for every value of the constants that satisfies the
named assumptions, which say that sizes and bounds are numbers (positive, where
the code has room for one), that "none" values are not among the real ones, and
what the constants stand for. Five say more than that: the anchors of a trace are
fewer than half its rows (`TraceConstants`; the code has six and 64 rows), no
configuration is one of the two values that mean that nothing is stored
(`SettingsConstants`), controls are among the three the code has
(`InputConstants`), `Modes` among the three of the code (`TrialConstants`), and
`TrialsAreSafe` takes `~ScanFaults` as its hypothesis, as `board` does;
`twt_fault` shows that it needs it, and `TrialsUntilFault` says what holds without.

| module | theorems | stated for |
|---|---|---|
| `NandStore_proofs` | `TypeCorrect`, `StoreSafe`, `NeverLost`, `NeverFalls`, `StoreImplementsRecord`; `InputIsFollowed`; `SettingsAreStored`; `ScaleUnitsAreOwned` | any values, any last generation; any depth of the queues, any number of tries; any names, room and requests; any resets and saves |
| `NandLog_proofs` | `WindowAlwaysReadable`, `ReportedStays`, `LogIsImplemented`; `TraceIsKept` | any values, ring of three pages or more, any last number; any number of rows and marks |
| `MosaicoOta_proofs` | `AlwaysBootSafe`, `AlwaysPinned`, `OneAtATime`, `ScreenAlwaysTrue`, `StaleOwnerNeverWrites`, `ConsentAlwaysNeeded` | any images, any number of chunks, any preferences |
| `SystemLog_proofs` | `NothingDropped`, `ServedAsLogged`; `ConsoleStaysHonest` | any queue, page, group and log size, any number of records; any size of lines, buffers and rings |
| `StorageLease_proofs` | `LeaseTypeCorrect`, `LeaseAndUpdateExclude`, `LeaseNeverOrphaned`; `RadioIsKept`; `TrialsUntilFault`, `TrialsAreSafe` | any set of tasks, any nesting; any attempts and profiles; any number of trials, events and losses |
| `TouchSleep_proofs` | `TouchTypeCorrect`, `TrialAndOtaExclude`, `ReleasedIsNormal`; `JournalsLeadBack` | any set of tasks, any nesting; any commands, resets and arms |
| `PowerbankKeepalive_proofs` | `OffAlwaysWins`, `PulsesKeepDistance` | any period, pulse, lease, freshness and lag |
| `StandbySleep_proofs` | `SleepAlwaysSafe`; `ScreenIsWhole`, `GesturesStayHonest` | no constants; any number of events |

After a semicolon come the components that an `MC` module runs beside the one the
proof module is named for; their properties are stated there, under `part`.

Every proof has the same outline: an inductive invariant, checked by TLC before
it was proved; a lemma that it holds initially; one lemma per action, and under
it a step per conjunct the action can disturb; the property from it. What each
induction needs beyond the property:

* **`NandStore`**: the properties speak of what a boot would find; the induction
  needs what the open transaction has done so far. `Consistent` (a commit page
  names a payload that both halves of its slot hold, live and on the media),
  `Filling` (the slot being overwritten is not the one `scan` selects, and how
  far it is filled at each `pc`), `Formatting` (the same for the markers),
  `Pending` (how far media and live pages may differ).
* **`NandLog`** has two invariants. `KeptInv` (where an append stands between the
  two index pages and the ring) holds whatever a torn program leaves, and gives
  the window. `CleanInv` adds what the pages of a log are that was only ever torn
  behind a readable header. `ReportedStays` and `LogIsImplemented` rest on it and
  assume `Tears \subseteq {"header"}`: `append()` refuses a spare whose header it
  cannot read and `load()` an index page it cannot, by design (`Corrupt`), so with
  other torn pages the log may stop, though it never promises a page it lacks.
  The refinement is shown step by step: each action is a step of `AppendLog` or a
  stutter.
* **`MosaicoOta`**: every handler is a function of the updater's RAM made of a few
  helpers, so most of the invariant is about such a record and each helper is
  shown to keep it once. `Sound(ota)` says that the flags describe one piece of
  work (`Single`), what is installed is there (`Ends`), a ready candidate is on a
  page that can act on it (`Screen`), hashes agree (`Pinned`), offers are news
  (`News`), and what is ready is in the slot (`Slotted`). `Standing` relates the
  record to the place where the owner stands: what it may still believe of a
  transaction that was cancelled under it. `SlotsOK` is `BootSafe` with the fact
  that the running slot itself can be booted. Neither `CandidateIsPinned` nor
  `BootSafe` is inductive without `Standing`: an owner about to write or to
  install acts on what it read before.
* **`SystemLog`**: what the worker consumes is tied to the log by the newest page
  alone: of this boot's records it ends where the queue begins, or within the
  prefix that the next page will hold (`Edged`, `Pending`, `Reported`). `Place`
  says so for the page under way. The first attempt was not inductive: the page
  under way must end no earlier than the newest page of this boot (`NoShorter`),
  else a retry after an unreported append could log a *shorter* prefix and the
  pages would not join. The code ensures it because the queue only grows between
  copies; that fact had been nowhere in the property.
* **`StorageLease`**: `AdmissionsOutside`: no admission is nested in a lease.
  Without it a task whose innermost guard is an admission might still have a
  storage lease further out.
* **`TouchSleep`**: the fence is safe only together with what each flag says of the
  controller (`FenceInv`, `ControllerInv`), since a reservation outlives the phase
  that made it.
* **`PowerbankKeepalive`**: the copies of the generation that are still current
  bear out what their owners assume (`CopiesTrue`), and an off also inhibits,
  which stops a service that had decided to start. `SlotFar` measures the slot
  from the worker's own, possibly late, now; this proof showed that the earlier
  type invariant had bounded the worker's wait too tightly for a lease longer
  than the period.
* **The gauge** (`GaugeNominal`, `GaugeFields` in `JournalsLeadBack`): what the
  chip may hold is written in terms of the journal that is open. `Accessed` and
  `Attempted` say which access and which pair have a record that still leads back,
  `Rewritten` what an interrupted CFGUPDATE can have left, `Tested` that an arm of
  the one-shot test was used at most once; the fields' invariant says the same of
  `fcc_fix_v1` and `near_v1`, and that a word whose answer was lost is on record
  before another command can be sent.
* **`GaugeTrace`**: compaction chooses its victims by their anchors, so the
  induction is about anchors that are in the ring (`Anchored`), the boot that
  writes them (`Booted`), the copy that is saved (`Living`) and the page being
  moved (`Migrating`). That compaction always finds a row to give up is a
  counting argument: there are fewer anchors than half the rows.
* **`BleInput`**: the events of one control are sorted by generation along UI,
  queue, carrier and host, and the last one under way says what the user holds.
  It follows that the last event of a control that was let go is its release, and
  when nothing is under way the host has it.
* **`OwnerSettings`**: between a commit and the publication of what was committed
  the flash is ahead of the RAM, so `SettingsKept` needs where the writer stands
  (`Stored`, `SettingsServed`) and what a profile list may be (`ProfileSound`); a
  candidate is never the empty name; display settings are ahead of their record
  only while the writer has them.
* **`ScaleTrials`**: units are held only at rest (`UnitsHeld`); while a trial is
  at the gauge its intent is on record and only its own ledger is in use
  (`ScaleAtWork`).
* **`NetworkOwner`**: the attempts made are those of the lock that counts them,
  the slow clock is a locked screen's or about to be raised, a driver's scan has
  its end still to come, and pausing precedes stopping. This proof found that a
  radio that goes down right after a good or bad attempt must forget the history
  of that attempt in the model as it does in the code (`Go`).
* **`TwtTrial`**: the books and the driver are compared event by event: whatever
  the driver still has of a trial that is over is booked as a debt (`Booked`), news
  under way is news of what the books say, each once and in order (`Reported`), an
  active trial that lost its flow has news under way (`Awaited`), a dead trial is
  paid or pending (`Staged`), and `TwtPlaced` says where the owner stands.
* **The console** (`SerialLines`, `SerialCommands`): the bytes in the ring are in
  the order they were put in and the last one ends a reply (`RingSound`), through
  wrapping and partial writes; a USB line is never damaged and a byte over the
  UART damages its line until the line ends; each family of commands passes the
  gates of its calls (a lemma per family), so a deed is in its turn whichever
  command it was, and the port of late answers is the asker's, but for the trace
  that replaces a test.
* **`StandbySleep`**: the tasks see one another only through the state under the
  mutex, so the invariant says what each call leaves there: permission bears out
  its own conditions (`Permitted`), and the recovery lock is free only where the
  chip is not configured to sleep or permission stands (`HeldOff`). The gate of the
  updater and the bus, which others may close under a permission that stands, are
  tied to who is about to withdraw it (`Excused`).
* **`View`**: the handlers are made of a few operators on the view (a slide, the
  sheet, a turn, the light, the lock), so each operator has a lemma that says what
  it keeps, and a handler is a chain of them. `ViewSound` is what they keep: a
  slide comes from another page and its animation runs (`SlideSound`); the sheet
  moves by one of two animations and closes if it is not open (`SheetSound`); a
  locked view is at rest (`RestSound`); the light that was set is the one the view
  asks for, and the panel shows it or waits for a frame to be lit from the dark
  (`LightSound`). `KeysSound` says that keys pressed in the dark are held until all
  are up, so none of them can wake and act at once. That a lit panel never shows
  the lock page's frame is inductive only with the pairs of views a step may go
  between: no step lights a dark panel but through a frame of its own.
* **Touches** (`GestureInv`, over the invariant of `View`): a contact the root still
  follows, or whose editor is asked for, was put down on the screen there is and has
  done nothing yet; a contact on a live control is either followed or consumed.
  Whatever changes the screen under a finger (`Tame` says what such a change does)
  takes the contact away and consumes it, so no handler has to look at where the
  contact began. The black of a turn hangs until a frame has shown it.

Only model-checked:

* liveness (`PulsesGoOn`, `SleepReturns`, `TrialEnds`, `BusyEnds`, `WorkEnds`,
  `HalfOpenEnds`), since the prover decides neither fairness nor `ENABLED`;
* the safety properties without a proof yet: `GaugeIsOwned` and `ReadyIsAnswered`
  (see the plan);
* what would need induction over data, such as what a CRC computes for every
  input. No module uses a `RECURSIVE` operator.

## Abstractions

Storage and updates

* A CRC or SHA-256 is injective: equal checksums mean equal contents. The same
  hash is the same image. An erase of the chip is one step.
* A torn page write leaves an unreadable page, in `NandStore` also on pages whose
  translation layer would hide it, which is stronger than needed.
* The chip of `NandLog` has been formatted (formatting is `NandStore`'s). Its
  first page may vanish when the very first index is torn; afterwards nothing
  may (`AppendLog!Lose`, `ReportedNeverLost`). The digest of trace pages 0..7
  kept beside a log transaction is left out: nothing in the log writes them.
  A log call that only reads changes nothing and appears as `Refuse`.
* Telemetry is read anew by every check of the updater, so its verdict is the
  parameter `power` of each handler. `usbBypass` only alters that verdict and
  implies `automaticMode`. A maintenance grant turns stale when USB unmounts.
* `versionSigned`, download results and I/O results are chosen freely. The
  offset inside the owner's current chunk is omitted: `received` counts chunks.
* A `try_lock` of `snapshotLock` that fails is one of the refusals already there.
* `setAutomaticInstall` and `deferUpdate` have no caller in `src/` today but are
  part of the interface, so they are modelled as calls of the screen.
  `maintenanceRuntimeRestart` is a restart, covered by `PowerCut`.
* A write of the NVS journal may be torn: it then reads as no hash.
* In `SystemLog` a section under `queueLock` or `readLock` is one step, since the
  locks are only tried and the losing side changes nothing but counters; the
  announcement of a critical record (`Urge`) is a step of its own.
* In `StorageLease` every guard is scoped to a block of the task that took it, as
  everywhere in the source, so the guards of a task form a stack.
* In `TouchSleep` the clocks are the facts `due` and `restoreDue`; `touchReserved`
  and its atomic mirror are one flag.
* `GaugeTrace`: a row is its boot and the anchor it is; ties of compaction that
  time breaks are arbitrary; allocation, admission and pace refuse or delay; a
  record in NAND is atomic, which is what `NandStore` is proved to be.

Gauge

* `GaugeTrial` has arm C only; third values, calibration faults and register
  values outside the recipe are left out, the 30 s grace of a handoff and the 60 s
  age of a receipt may pass at any time, and quiet hooks or a lack of memory are
  generic failures.
* `ScaleTrials`: gates of radio, updater and voltage may refuse at any step, NVS
  blobs are atomic per slot, image descriptors are a flag, a power cut leaves the
  factory profile, and the contrast ledger is absent.
* `GaugeNominal`: capacities are 65, 3000, a learned 60, and 130; leases, fences,
  quiet hours and failed reads are refusals; the vendor's driver may stop anywhere
  and leave any security level; an NVS store is confirmed, written but unconfirmed,
  or lost. `boot_factory_reload_scope` is never set in the code and `reload_v1`
  only loaded: both are left out.
* `GaugeFields`: the `Runtime` mode only, since no coordinator runs as `ColdFactory`,
  and no `near_boot_apply`, which only `boot_factory_reload_scope` enables. Quiet
  hours, the 120 s qualification, identity, history and failed reads are refusals;
  the design capacity stays 65; the access that the threshold is written under is
  one step, as `GaugeNominal` has it in full, and a boot's profile gives a reset
  gauge its capacity back in one step.

Network and Bluetooth

* `OwnerSettings`: gates of the updater, contention and unripe edits only delay;
  a secret is 0 or 1; late provisioning repeats `ClaimNetworkOwner`.
* `NetworkOwner`: waits for Bluetooth end at any time, the order of profiles by
  rank is arbitrary, the clock counts the deadline and the next refresh and runs
  only when locked, and power profile 2 is set. The event that ends a scan may be
  lost. What a quota request returns is not looked at.
* `TwtTrial`: the driver answers by events, late or never, and may post an answer
  before the transmit callback has returned.
* `BleLink` and `BleInput`: `RpcDepth` and the queues are scaled down; what the
  host sends is reduced to what the handshake tells apart.

Screen

* `View`: the pages are a ring of four with what can be touched on each; of what
  is drawn only the panels, the curtain and the lock screen are kept. The first
  frame is `Init`. Thresholds of a drag (some, or a swipe) and timeouts are
  choices. The brightness of the lock screen is taken to be at most
  `WakeDimThreshold`, as it is unless a user sets it higher.
* Keys pressed while the console captures the input skip `KeyManager`, and one of
  them may come out as a press after the capture; the rule of the key pressed in
  the dark (`keys.dark`) leaves those out.
* What a click starts elsewhere (a save, a request) is in the module of its
  receiver; here it is a deed and what it does to the screen.

Console

* A line is its length, whether it is too long, and whether bytes of it are
  missing. Arguments of commands are right or wrong by choice, wording and values
  of replies are left out. A damaged frame that passes CRC-32 by chance is left
  out as well.
* `SerialCommands` sees a refusal as a line that does nothing, and a report as one
  that changes nothing. What a command calls is in the module of its receiver.
* A `trace` over USB that replaces a test of the UART is answered on the UART:
  `consumeFrom` sets the port of late answers only when no test ran before.
  `TestsAnswer` states this as the one exception.

## What is not modelled

The component list in `PROJECT.json` names every part with its reason. In short:
register-level I/O and LVGL glue (`hal_mosaico.cpp` apart from the gauge's
transactions and the screen's calls), the drawing of widgets, the view of the
other board (`view.cpp`), numeric decoding of gauge registers, the contents of
BLE reports, quota parsing and the session monitor, the delta codec and other
vendored code, memory reservation policies, boot trace and panic
capture, the host tools.

Hazards seen in the code that no property covers:

* `takeRequest` (`mosaico_ota.cpp:800`) consumes an approval and only then asks,
  and a refusal there is silent; no document says what the screen must show.
* USB provisioning writes the profiles past their owner (`network_quota.cpp:1411`)
  in separate writes that a cut may part (`:1437`), and a commit that failed may
  have written (`:838`).
* A lost `SCAN_DONE` leaves `_wifi_scan_fault` up (`:662`).
* Start-up reads `gaugeScaleTrialActive` twice (`:1603`).
* A contrast apply cut after its proof was bound blocks start-up until the console
  intervenes (`mosaico_gauge_cold_runtime.inc:550`); a policy byte left Pending
  makes the trace unloadable (`gauge_trace_nand_backend.cpp:49`); a first save of
  the store that is torn reads as Corrupt (`mosaico_nand_store_model.h:66`). Each
  is a refusal by design that only a person can end.
* `bootPending` may be raised inside a lease (`mosaico_ota.cpp:1149`): modelled in
  `StorageLease` (`booting`), which excludes only what is admitted.
* `changed()` of the system log may drop a change (`mosaico_system_log.cpp:95`).

## Plan

Done: the modules above, their runs, and the proofs of every safety property but
two.

Next, in this order:

1. A proof of `GaugeIsOwned`: the write-ahead order of the contrast operation and
   the cold trial over it, in the way of `JournalsLeadBack`.
2. A proof of `ReadyIsAnswered`: the order of the entries of a thread's `todo`
   against the generation they were planned for.
3. The session monitor and the quota cache as policy machines.
