# Verification of the Game Bub Dock firmware

TLA+ models of the dock's firmware, the TLC configurations that check them and
TLAPS proofs about them. Paths are relative to the repository; line numbers are
those of the commit the models were written from.

## 1. The system

The dock is an RP2350 board running FreeRTOS on two cores. C++ code talks to
USB, Bluetooth and the pins; a Rust library (`rust/src`) holds the logic. They
meet in C functions: `c_api.rs` in one direction, `sys.rs` in the other.

| Component | Source | State | Operations |
|---|---|---|---|
| Engine | `engine.rs`, `handheld.rs`, `bluetooth.rs` | `handheld` (none, or a `HandheldState` and an LED session), `gamepads`, `bluetooth_pairing`; a queue of 32 messages | one handler per `Message`; `send`, which drops when the queue is full |
| Packet queue | `handheld.rs` | packets for the handheld, under a mutex, unbounded | `push_back` (data replaces data), `pop_front`, `reset` |
| LED controller | `led.rs` | a count per LED state, the state shown; a queue of 8 messages | `set`/`unset` (block when full), the task's loop with its blink |
| USB host: handheld | `usb_host.cpp` | `handheld_device`, `handheldOutPacketBusy` | mount, unmount, configuration, control transfers, packet pump, CDC lines for the log |
| Gamepad drivers | `xinput.cpp`, `hid.cpp`, `bluetooth.cpp` | a slot per USB gamepad (one per driver as configured), an id per Bluetooth device | connect, data and disconnect callbacks |
| Gamepad ids | `gamepad.rs` | `NEXT_ID` | `allocate` |
| Button | `gpio.rs`, `gpio.cpp` | pressed or not, since when, two timers behind the kernel's command queue | edge interrupt, debounce and long-press callbacks |
| Log over USB | `logger.rs`, `usb_device.cpp` | one String and a ring of 2048 bytes, a mutex each; the connection and its age | format, write, drain |
| Requests | `usb_device.cpp` | the reboot asked of the boot ROM | `GetInfo`, reboot, the magic baud rate |
| Identity | `info.rs`, `descriptors.c` | the fuses; one buffer for all string descriptors | `GetInfo`'s block, string descriptors |
| One-time cells | `util.rs` | two flags and the value | `set`, `get`, `maybe_get` |
| The rest | `main.cpp`, `lib.rs`, `led.cpp`, `freertos_rust_shim.c` | none of interest | start-up in order, one pixel, wrappers |

### How they interact

    gamepads  --- rust_event_gamepad_* --->  engine queue (32) ---> engine task
    USB host  --- rust_event_handheld_* -->        ^                  |  |  |
    button    ------------------------------------/                  |  |  |
                                                                      |  |  +-> HDMI pin, Bluetooth scanning
    USB host  <-- pop_front --- packet queue <--- push_back, reset ---+  +----> LED queue (8) --> LED task
    USB host  <-- UsbHandheldControlIn / Out, called in the engine task --+

*Docking*: the host finds a device on the main port, fetches its configuration
and posts `HandheldMount`; the engine asks `GET_INFO` and then `DOCK_BEGIN`; a
completion of the second makes it Active: HDMI on, LED session, every gamepad
announced. `HandheldUnmount` undoes all that.

*Tasks.* The engine and the LED task run at the default priority; Bluetooth, USB
host (pinned to core 1) and USB device above them. Two cores mean that any two
tasks interleave, whatever their priorities.

### What is hard

- Everything goes through a queue that drops silently when full, the messages
  that end a session included.
- The engine learns of the USB side's state late. It calls
  `UsbHandheldControlIn/Out` in its own task, which read `handheld_device`
  without a lock while the USB task may reset it. A quick replug overlaps two sessions.
- Failures that nobody hears of: a refused Control In, a refused configuration
  request, a bulk transfer that does not start.
- The packet queue is filled by one task and emptied by another; packets of one
  handheld must not reach the next.
- LED sessions are Rust values: they must be opened and dropped once on each path
  through mount, error, unmount, pairing and reconnection, or the counts drift.
- `set`/`unset` block, so the engine's liveness depends on the LED task, and so
  does the way into the boot loader.
- The button's interrupt posts to the kernel's bounded timer queue and panics if it
  is full; its timers race with the edges that restart them; the tick count wraps.
- Tasks of both languages log through one String and one ring, which the USB task
  drains under the writers' mutex to a host that may not read.
- A cell may be set and read from any task and interrupt without a lock. In this
  program each is set once before the scheduler and the interrupts start, so nothing races
  for one; `InitCell` checks what the type itself promises.

### What makes it correct

- Engine: HDMI is on exactly while docked; every LED session opened is closed
  once; Bluetooth scans while pairing; no packet is left without a handheld.
- LED: the most important request shows, in its own colour; nobody blocks for ever.
- USB host: what the engine has been told and what the host has agree; a busy
  flag stands for a transfer, or for one refused of this handheld; it never blocks the next.
- Gamepads: the engine's list is the drivers'; no live gamepad is disconnected;
  a docked handheld knows exactly the gamepads there are.
- Button: no interrupt panics; what is reported was pressed, for that long; the
  debouncer ends up with what the pin shows.
- Log: every text comes out as it went in, or cut at its end; nobody who logs is held up.
- Requests and identity: the boot loader's colour shows before the reset, which
  comes; a serial number's string is that of one dock.
- Cells: a reader gets the whole value, and it never changes.
- Conversions: a gamepad feels the same over USB and Bluetooth; the endpoints found are
  those of this device's vendor interface.
- The whole: a handheld that stays plugged in is docked; an engine that waits
  has something to wait for.

`PROJECT.json` lists the hazards, each at its line.

## 2. The modules

| Module | Models |
|---|---|
| `GamepadIds` | the ids, shared by all |
| `EngineQueue` | the engine's messages and `send` |
| `PacketQueue` | `TX_PACKET_QUEUE` |
| `LedController` | the LED task, under clients that do anything |
| `Engine` | the engine with its packet and LED queues, under neighbours that do anything |
| `UsbHandheld` | the handheld's half of the USB host task, and the port |
| `Gamepads` | the three gamepad drivers and the ids |
| `Dock` | everything together |
| `Button` | the edge interrupt, the kernel's timer task with its command queue, both callbacks |
| `ButtonReports` | what the button promises: presses, each reported short, long or not at all |
| `LogRing` | the logger's String, the ring, its writers, the task that drains it and the host |
| `LogFifo` | what the log promises: a bounded queue of characters that cuts the text that does not fit |
| `UsbRequests` | vendor requests, the magic baud rate and the reboot, beside the LED's other clients (EXTENDS `LedController`) |
| `DeviceInfo` | `GetInfo`'s block and the string descriptors, from the fuses |
| `InitCell` | the one-time cell, instruction by instruction |
| `CdcLine` | the handheld's log, assembled into lines |
| `ConfigWalk` | the search of a configuration for the vendor interface's endpoints |
| `PadData` | both conversions of a gamepad's report |
| `MCDock` | symmetry (interchangeable USB instances) for the run `dock_gamepads` |
| `MCLog` | records for the run `log` |
| `MCBoard` | the parts that share no state with the dock, each on its own |
| `LedProofs`, `EngineProofs` | theorems about the LED task and the engine |
| `UsbProofs`, `DockProofs` | theorems about the USB host's handheld half and the whole dock |
| `ButtonProofs`, `LogRingProofs` | theorems about the button and the log, refinements included |
| `BoardProofs` | theorems about the one-time cell, the way into the boot loader and gamepad data |
| `UsbDataProofs` | theorems about the handheld's log, the walk over its configuration and the serial number; induction |

`Dock` EXTENDS `Engine`, `UsbHandheld` and `Gamepads`. `Engine` is also the
abstract specification of the engine inside the dock: there, *any* message may
arrive at any time, *any* packet be taken, *any* out transfer refused, and
`Dock` implements it: `EngineOpen`, which is `EngineInit` and the steps of `Engine` with
arrivals that nothing bounds, is a property of the run `dock_replug` and a theorem
(`DockRefinesEngine`). What is proved of `Engine` therefore holds in the dock
(`DockEngineSafe`). `EngineOpen` uses the same variables, so the refinement mapping is
the identity on them and hides the USB and gamepad ones.

*Other refinements.* `LogRing` implements `LogFifo` with a mapping that reads the
queue out of the ring (`RingIsFifo`). The abstract `text` is the text each task
*wanted* to write, so the refinement fails if the String shared by all Rust tasks
is ever another's. `Button` implements `ButtonReports` but for reports made while an edge is
still on its way to the timer task (`EdgeOnItsWay`): of those the code promises little,
as `button_race` shows.

`MCBoard` puts parts side by side that never meet. Its behaviours pick one `part`;
the others stay in their initial state, and fairness is claimed of the part that
runs. Nothing is composed that way: it is six small checks in one run.

**Steps.** One handler of the engine is not one step. What only the engine sees
(`handheld`, `gamepads`, `pairing`) changes as the message is received; each call
that others can see - a reset or push on the packet queue, the HDMI pin,
scanning, an LED message, a control transfer - is a step of its own, taken from
`todo` in program order. A control transfer is two steps in `Dock`:
`ControlLoad` reads `handheld_device`, `ControlSubmit` starts the transfer with
what was read. A callback of the USB host task is one step: it runs whole in its
task, and the one effect on others is at most one message or one packet
operation, each under its own lock. A gamepad callback allocates at
most one id and posts at most one message.

**State.** `HandheldState::Idle` exists only inside the Mount handler, so
`handheld` is `"None"` or one of the other four. A packet is its request and its
gamepad; device ids and stick positions are left out. `gamepads` is a set: ids
are allocated once, so the Vec has no duplicates. The order in which a docked
handheld is told of the gamepads is left open (`Announcements`).
`lost`, `device.told`, `port.missed`, `port.stuck` and `stale` are history variables: no
action reads them.

**The USB stack** is outside the repository and modelled as `usb_host.cpp` uses
it: one control transfer at a time on the bus (tinyusb's endpoint 0), a callback
for each transfer that starts unless its device is removed, and an unmount callback for
each mounted device removed. A transfer starts if the device is enumerated and
the pipe free; it may also be refused if `Contention` (another device, such as
a hub or gamepad being enumerated, holds the pipe) and fail if `Faults`. With `Faults` the
stack may also refuse a packet although the endpoint is open (`SendNext`): the code ignores
that and leaves the busy flag set, and no packet follows until the next configuration. Of an
empty `optional` the code reads bytes that may be any address (`ControlLoad`).

**Button.** The kernel's timer task is modelled by what FreeRTOS does: commands are
received in order, a start counts from the tick it was posted at, an overdue timer runs
at once. Ticks pass only when the task is up to date, or at most `MaxLag`
ticks behind. A report is an attempt to send a message, which `EngineQueue` may drop.
The subtraction of tick counts wraps, as in the release profile. A report that finds the
queue full is logged, and the log may make the timer task wait; that is part of its
lateness, since the callback does nothing to the button afterwards. That an edge comes at most `EdgesPerTick` times a
tick, and the timer task at most `MaxLag` ticks late, are assumptions on the contact and the kernel: no code bounds them.

**Log.** A record is a call of `puts` or `printf`, which the stdio layer hands on in one or
more texts (a body, the end of the line), a call of `stdio_usb_out_chars` each; other tasks' texts may
come between them. The SDK's stdio layer is taken to hold no lock of its own between two. Waiting for the String
is a step, a byte copied or drained is one, each mutex is held over many.
`OutCharsBegin` computes what fits once, under the mutex, as the code does. The `age` of
the connection starts when the USB task *sees* the port open.

**Requests.** The unit of time in `UsbRequests` is what the LED task needs at most to
handle a message; `Delay` units leave one for every place in its queue and one more.

**Identity and data.** A hex digit has two values in place of sixteen, so that words
keep their digits and bytes and stay small. Sticks and triggers of both sides have their
full width. What XInput and Bluepad32 hand to the drivers is
external: a hand on a pad is turned into each of their formats - eight bits a trigger for XInput, ten for
Bluepad32, which also says of a trigger whether it counts as a button.

The walk over a configuration (`ConfigWalk`) sees descriptors of lengths 1 and 2 that end with the total length. A descriptor of
length 0, on which the loop (`usb_host.cpp:277`) would not end, and a last one that the total length cuts are left out.

**LED.** `StartBehavior` and `ContinueBehavior` are what `do_behavior` writes when
`handle_message` returns true or false. No entry of `STATE_MAP` repeats, uses
`Off` or `Breathe`, so those branches cannot be reached and are left out.

**Mutants.** Definitions marked "Mutant" are plausible bugs, one for each
property; nothing uses them in the specifications. Replacing the definition
that follows by the mutant makes TLC report the property violated, which shows
the property is not vacuous in its run.

## 3. The runs

| Run | Shows | Bounds |
|---|---|---|
| `engine` | `HdmiTracksDock`, `TxEmptyUndocked`, `LedFollowsSessions`, `NoLedUnderflow`, `PairingScans`, `UnmountTurnsHdmiOff`, `EngineComesBack` | 2 gamepads, both queues of 1; connects and disconnects come only while nothing waits (`MaxTx` is 1), all else at any time |
| `dock_replug` | `EngineWillKnow`, `UnexpectedMountAfterLoss`, `ActiveMeansDocked`, `BusyMeansInFlight`, `ConfigHasDevice`, `EngineOpen` | 2 plug-ins of a handheld, contention and faults, 1 gamepad, engine queue of 2 |
| `dock_gamepads` | `GamepadListAgrees`, `NoLiveDisconnect` | 2 XInput, 2 HID and 1 Bluetooth gamepad, one slot each, 3 ids, engine queue of 2 |
| `dock_packets` | `HandheldKnowsGamepads`, `NoAdjacentData` | 1 plug-in, 1 XInput gamepad, 2 ids, no faults |
| `dock_live` | `AnswerComing`, `DockingCompletes` | 1 plug-in, 1 gamepad, 1 press, no faults or contention |
| `button` | `NoIsrPanic`, `SettledAgrees`, `ShortIsBrief`, `LongNeedsHold`, `LongComes`, `ReportsOfPresses` | debounce 2 ticks, short 3, long 6, counter of 11 values, 2 edges a tick, timer task 1 tick late, command queue of 8 |
| `board`: LED, requests | `ShowsTopPriority`, `LitAgrees`, `DfuShownAtReset`, `BootselHappens` | LED queue of 1, other clients' counts to 2, 2 requests |
| `board`: lines | `PrintsLines` | line buffer of 2, reads of up to 3, 6 characters a session, any number of sessions |
| `board`: cells | `ReadsWhole`, `FixedOncePublished` | 3 threads, 2 values |
| `board`: identity | `IdentityAgrees` | 3 words, each fuse any of them; strings at their real lengths |
| `board`: pads | `SamePad` | any 2 of the 18 buttons; 13 positions on both axes of a stick with 5 pulls of its trigger, on either side or both |
| `board`: walk | `FindsVendorEndpoints` | configurations of up to 3 descriptors after the header, buffer of 6 cells, any number of devices |
| `log` | `LoggingReturns`, `RingIsFifo` | 2 Rust tasks and 1 C task, ring of 2, records of one text and of two, of 1 or 2 characters, CDC queue of 1 |

**Why the bounds are enough.** In `Engine` messages are arbitrary, so the length of
its queue changes nothing but how often one is dropped; one place is enough. Two
gamepads make order and identity visible. Two LED states contend in the engine,
and with one place in the LED queue it blocks as soon as it can. A queue of two in `Dock` holds the Unmount and
Mount of a replug together, and is full often enough to lose either. Two
plug-ins let an old session meet a new one. `MaxTransferFailures` is 2 where the
code has 3: a first failure that is survived and a last one that is not.
`Tracked` is every kind of message but data and presses: `lost` remembers
whether one of them was dropped, which several properties exclude. `MaxCount`
belongs to `LedClient` and `MaxTx` to `Engine`'s `Post`; neither binds anything in
`Dock`, whose steps are those of its own senders.

The button's durations keep their order (debounce < short < long), and
the counter wraps within a press. `MaxLag` is below `Debounce`, as the code has 10 ms
against ticks of 1 ms. A ring of 2 is wrapped by any two texts, cuts one of two that
come together, and is full or empty at every other step. Three words for each fuse give docks that share a
serial number, a hardware version or a chip id, in every combination. Three
descriptors are the least in which an endpoint follows the vendor interface and
another; what a longer configuration left in the buffer lies behind a shorter one.

**Fairness.** `LedSpec`: the LED task runs again and again; it has the default
priority and is time-sliced with its equals, and the tasks above it block in
their waits. `EngineSpec` adds the same for the engine's own steps. Nothing is
assumed of those who post. `DockSpec` adds weak fairness of each callback of the
USB stack (mount, unmount, completion of control and bulk transfers) and of the
pump, which the task's loop calls every millisecond. Nobody has to plug in,
unplug, connect a gamepad or press a button.

`ButtonSpec`: interrupts are served, the timer task (the highest priority of all)
runs, time passes. `LogSpec`: strong fairness for each task's call and for the USB device
task, in which a call waits for the String and then, for each text, for the ring: a FreeRTOS mutex goes to the waiter with the highest priority and every
task blocks between two records or in `tud_task_ext`; nothing of the host, which may
open the port and never read. `RequestSpec`: strong fairness of the USB device task's wait
for the LED queue, where it outranks everyone else who waits; weak
fairness of the LED task, and of time with the reset it brings.

**Deadlock** is not checked in `Dock`: ids, plug-ins and presses are bounded, and
a dock with nothing left to do may rest; nor in `board`, where a reset ends
everything, a panic ends a thread, and requests are bounded. It is checked everywhere else.

### What the code does not do

Four runs end in a violation.

- `dock_lost_unmount` (`NoUnexpectedMount`). `handheld.rs` and `engine.rs:53` treat a mount
  with a handheld present as unexpected. If `send` drops the Unmount
  (`engine.rs:127`), the next mount is just that: it is logged and ignored, and
  the new handheld is never asked anything. `UnexpectedMountAfterLoss` shows that
  this is the only way.
- `dock_refused_info` (`AnswerComing`). "Sent info request, waiting for response"
  (`handheld.rs:29`) need not be true: a refused Control In is only logged
  (`usb_host.cpp:186`). In the run, after a quick replug, the old session's
  `DOCK_BEGIN` goes to the new device and holds the pipe when the new session's
  `GET_INFO` is made; the engine then waits for ever.
- `dock_absent_read` (`ControlIfConnected`). The comments at `usb_host.h:10` and `:15`
  say "if connected"; the code does not ask (`usb_host.cpp:136`, `:141`, `:178`).

- `button_race` (`LongIsPressed`). `gpio.rs:40` says a long press is a button "still
  pressed after this time". The release restarts the long timer too, and
  its callback looks only at the pin of the moment: pressed again just as that timer
  runs out, and before the new edge is handled, the button reports a long press that
  has only begun. No lag is needed (`MaxLag` is 0). `LongNeedsHold` and `ReportsOfPresses` hold but for
  this: they exempt reports made while an edge is on its way to the timer task, its
  interrupt pending or its command queued. Else `LongNeedsHold` asks for a button that is down and `Long` ticks
  without an edge (`quietFor`), so down for all of them.

Observations that need no run: the settling time of a connection (`usb_device.cpp:92`
says 50us, the code has 50000) is not kept when a host closes and opens the
port between two looks (`:84`); the version computed "for the device" in
`descriptors.c:121-125` is a local that is never stored, so the descriptor says 0; and
`push_back` lets data of one gamepad replace the last data of another (`handheld.rs:213`).

Two more behaviours no document speaks of are excluded by the properties instead:
packets of an old session that reach a new handheld (`stale`), and packets lost to
failed or refused transfers (`port.missed`, `port.stuck`), in `HandheldKnowsGamepads` and
`BusyMeansInFlight`. An old session's completion may also put the new one into `Error`
(`handheld.rs:101`); `ActiveMeansDocked` excludes only that it docks it. `DockingCompletes` is
run without contention: a refused configuration request (`usb_host.cpp:214`) leaves the
handheld unannounced.

## 4. The proofs

TLAPS proves, for every value of the constants their assumptions allow:

| Module | Theorem | States | Under |
|---|---|---|---|
| `LedProofs` | `LedTypeCorrect`, `LedShowsTopPriority`, `LedColourAgrees` | types, `ShowsTopPriority`, `LitAgrees` | |
| `EngineProofs` | `EngineTypeCorrect`, `HdmiFollowsDock`, `NoPacketsUndocked` | `EngineTypeOK`, `HdmiTracksDock`, `TxEmptyUndocked` | |
| | `EngineLed` | the LED results, with the engine as the client | |
| `EngineProofs` | `TxNoAdjacentData`, `PairingKeepsScanning` | `NoAdjacentData`, `PairingScans` | |
| | `LedNeverUnderflows`, `LedBalances` | `NoLedUnderflow`, `LedFollowsSessions` | |
| `DockProofs` | `DockTypeCorrect` | `DockTypeOK` | |
| | `DockRefinesEngine`, `DockEngineSafe` | `EngineOpen`; the engine's six invariants in the dock | |
| | `DockBusyMeansInFlight`, `DockConfigHasDevice` | `BusyMeansInFlight`, `ConfigHasDevice` | |
| | `EngineAgreesWithUsb`, `MountsAlternate`, `DockedByPort` | `EngineWillKnow`, `UnexpectedMountAfterLoss`, `ActiveMeansDocked` | |
| | `GamepadListFollows`, `NoLiveGamepadDisconnected` | `GamepadListAgrees`, `NoLiveDisconnect` | |
| | `HandheldKnows` | `HandheldKnowsGamepads` | |
| | `DockBeginIsAnswered` | `AnswerComing`, of `DOCK_BEGIN` | |
| | `EngineIsAnswered` | `AnswerComing` | `OnePlugIn` |
| `ButtonProofs` | `ButtonTypeCorrect`, `ButtonShortIsBrief` | types, `ShortIsBrief` | |
| | `ButtonNeverPanics`, `ButtonSettles`, `ButtonLongNeedsHold` | `NoIsrPanic`, `SettledAgrees`, `LongNeedsHold` | `Room` |
| | `ButtonImplementsReports` | the refinement `ReportsOfPresses` | `Room`, `OnTime` |
| `LogRingProofs` | `LogTypeCorrect`, `LogWritesOwnText`, `LogRingIsFifo` | types; a task writes its own text; the refinement `RingIsFifo` | |
| `BoardProofs` | `CellTypeCorrect`, `CellReadsWhole`, `CellFixedOncePublished` | types, `ReadsWhole`, `FixedOncePublished` | |
| | `DfuShowsAtReset` | `DfuShownAtReset` | `DelayCoversQueue` |
| | `PadFeelsTheSame` | `SamePad` | |
| `UsbDataProofs` | `CdcPrintsLines`, `WalkFindsVendorEndpoints` | `PrintsLines`, `FindsVendorEndpoints` | |
| | `SerialNumberIdentifies` | `IdentityAgrees` | `StrMax > 17` |

They rest on the ASSUMEs of the modules, which TLC evaluates in the runs, and on the
library's facts about sequences and finite sets. Those that say more than a type: queues and
rings have a place (`QueueAssumption`, `LedAssumption`, `LogAssumption`); debounce, short and long are
in order and far below the wrap (`ButtonAssumption`); a device is of one driver
(`GamepadAssumption`); `lost` remembers dropped Mounts, Unmounts, completions and gamepads
(`DockAssumption`); hands hold known buttons, with 16 bits an axis and ten a trigger (`PadAssumption`); the line buffer has room for a
letter, which a newline is not (`CdcAssumption`); a digit has two values at least, the fuses hold words, two strings come
before the serial number's, and `StrMax` is in the range that `descriptors.c:137-142` accepts (`InfoAssumption`).

Some theorems have a condition of their own. `Room`: the timer queue holds two commands for each edge
that may come while the timer task is behind. `OnTime`: it is behind by less than the time of
debouncing (10 ms against ticks of 1 ms); with `MaxLag = Debounce = 1` TLC finds a behaviour
without `ReportsOfPresses`. `DelayCoversQueue`: `Delay`, in units of what the LED task needs for a message, is
more than the queue holds (100 ms for 8 messages). `StrMax > 17`: the string buffer has room for a header and 17 characters, as its 20
places do; the least value that `descriptors.c` accepts, 17, would cut the last digit of a chip's id. The configurations satisfy these four. `OnePlugIn`: a handheld is
plugged in at most once and nobody else uses the control pipe, as in `dock_live`; without it `dock_refused_info`
refutes the property.

*LED.* `LedInv` is the conjunction of type, `ShowsTopPriority` and `LitAgrees`; each
action is one step of the proof. `ShowsTopPriority` is inductive only with the
type of `counts`; `LitAgrees` only for the action that continues a blink.

*Engine.* `HdmiTracksDock` and `TxEmptyUndocked` are exempt while their own call is
waiting in `todo`, so neither is inductive. The strengthening says what `todo` may hold: if
it drives HDMI, the call agrees with `handheld` (`CallsDriveHdmi`);
without a handheld, it pushes no packet (`NoPushUndocked`). A handler establishes
both from its message, a call consumes the head and keeps them.

*Sessions.* That set and unset of an LED state balance is a fact about three places at once: the
calls waiting in `todo`, the messages in the LED queue, the count. `SessionInv` says that
along the first two, in order, the messages of a session alternate, and that the first of them fits the
count; no sum over queues is needed for `NoLedUnderflow`. `LedFollowsSessions` is such a sum, and
`Balanced` states it with a count of one owed by each open session: a message appended or received moves
one from a place to the next (the lemmas on `LedBalance` and `LedWithdrawals`). `ScanInv` does for
scanning what `CallsDriveHdmi` does for HDMI. `NoAdjacentData` is inductive by itself.

*Refinement of the engine.* `DockTypeInv` types every variable of the dock and contains `UsbInv`: whatever is in flight
belongs to the device at the port, `handheld_device` is that device, and while its configuration is
being fetched it has neither packets nor an announcement; a stuck packet is that of a device with its endpoint open (`StuckIsOpen`). Under it, each step of the USB host,
the drivers, the button or the user sends at most one message (`Sends`) or takes one packet (`Takes`):
an arrival or a taking of `Engine`. The engine's steps are its own; `ControlLoad` hides. Each invariant
of the engine is proved of `EngineOpenNext`, hence of the dock.

*What both sides know of the handheld.* A queue of messages is a list of switches: `EndsOn(q, on, off, start)` is
the state it leaves behind. `HandheldInv` compares what the engine *will* make of its queue
with what the USB host *has* announced: they are equal unless a Mount or Unmount was dropped (`Agrees`);
Mounts are kept apart by Unmounts (`MountsApart`); the completions that would dock a handheld are those of
one that accepted (`AcceptedByPort`). The proof has one lemma for what a handler makes of the
message it receives, and sorts the USB side's steps into four: stays, announces, withdraws, posts.

*Gamepads.* `PadInv`: no two gamepads, entries of the Bluetooth table that remember an id included, have an id in common,
and all ids are below `NEXT_ID`. `PadListInv` is the same comparison as above, for each id between the
engine's list and the drivers' slots; a departure on its way is that of a gamepad that has left for good.

*What the handheld knows.* For each gamepad the packets in flight, in the queue and in `todo`, in this order, are switches again (`WillKnow`).
`Tracks`: as long as nothing was lost and no old session's packet slipped through (`Unbroken`), the handheld will know
a gamepad only if the engine lists it, and knows all of them once Active. It is inductive with `FlightInv`
(one packet in flight; a handheld the engine has not heard of knows of no gamepad) and `ResetFirst` (a handler that docks or
undocks resets the packet queue before it pushes).

*Answers.* `AnswerInv`: one control transfer at a time, what `ControlLoad` read belongs to the next call, and
(`Coming`) the answer is in `todo`, in flight, in the queue, or the handheld has gone. For `DOCK_BEGIN` this is
inductive, since a refused Control Out is reported. A refused Control In is not, so `GET_INFO` needs the pipe free when it
is asked. `FirstPlugIn` follows the one handheld through plugging in, fetching its configuration and the Mount in the queue: until
the engine has read that, it has no handheld and asks nothing, and when it has, the configuration is over. From there on the
only transfer is the engine's own (`ControlLast`, `PipeFree`), to the device it was told of (`LoadedIsDevice`).

*Button.* `Core` is the type with the places of timers and commands. `FewCommands` counts what the interrupt may
have posted since the timer task was last up to date: at most two commands for each
edge of `MaxLag + 1` ticks. `Room` then
excludes the panic. `EdgesServed` says that an edge not yet debounced has an interrupt,
a command or a running timer to its name, which gives `SettledAgrees`; `HoldInv` ties the long
timer's remaining time to `quietFor`. `TimeInv` ties the tick counts to the length of the press
(`TimeTold`) and bounds that length at the end (`EndsInTime`), so that the wrapping difference is
the duration; this needs no room and no punctuality.
`ReportInv` pairs the two timers that an edge starts: wherever they are, in the queue or running, their times
differ by `Long - Debounce`, so the debouncer of an edge is through when its long timer fires
(`PairInv`). A press reported as long has lasted almost `Short` by then (`LongInv`), and what is
missing passes while its end is debounced (`ReleaseInv`): it is not reported as short as well.

*Log.* `LogInv` says who holds what (`HoldsString`, `WantsText`, `WriterWrites`), that the
call in progress fits (`CallFits`) and that the bytes copied so far lie behind the
ring's last one (`Copied`). With it, `OutCharsEnd` is the abstract `Write`, a byte drained is `Send`, and
every other step leaves the queue as it is.

*Cell.* `CellInv`: between the swap and the publication there is exactly one
writer, and who reads has seen the value published.

*Boot loader.* `RequestInv` extends `LedInv`: nobody withdraws Dfu, and once the ROM is told, either Dfu
is counted or its message stands at a place that the time left covers (`DfuInTime`). A unit of time
passes only when a message was handled, which brings it one place forward.

*Gamepad data.* `Says` lists the eighteen bits with the names of their buttons; each conversion is compared with it bit by bit.
A Bluetooth axis is the USB one rounded down to a multiple of 64 (`TenBits`), the inverted axis with the case of the smallest number.
XInput's trigger is Bluetooth's ten bits without the last two.

*Induction.* The loops over characters and descriptors, the starts of lines and descriptors and the places of a number are
recursive functions. `Induction` and `InductionTo` are induction over sets of naturals, from the library's least element
of a well-founded set (`WFMin`); they need no operator as a parameter. With them a recursive function is shown to exist, and so
to satisfy the equations it is defined by (`TurnsDef`, `LineStartsDef`, `DescStartsDef`, `WalkTurnsDef`, `QuotientsDef`);
all else is proved from these equations.

*The handheld's log.* `CdcInv`: the buffer holds the line that is still open, cut like the others (`Agrees`). One character more
leaves the lines before it as they were; it ends the open line or is appended to it (`LinesAppend`, `OpenAppend`), and
`TakeChar` does the same to the cut ones. A newline is dropped only if it begins a line, which is when the
buffer is empty, however the line was cut (`EndsNonEmpty`). `TurnsAgree` is the induction over a read.

*The walk.* `Saw(c, n, s)` says what the walk has seen after `n` descriptors: whether the next belongs to a vendor interface, and
the last vendor interface and endpoints among them. One turn takes it from `n` to `n + 1` (`SeeKeepsSaw`), since the next
descriptor begins where this one's length says and no two begin at one place (`CellOfDesc`). After the last descriptor
the walk is at the end and stays there, whatever lies behind it in the buffer (`WalkStops`).

*The serial number.* Two numbers with the same places and nothing left above them are equal (`PlacesDetermine`, from the
last division back to the first), and nothing is left of a word above eight digits or four bytes. So eight digits tell the number,
sixteen the chip, and the two kinds of string differ in length; four bytes of `GetInfo`, weighted, give the
number back. `InfoInv` says that the string last asked for can be read from the shared buffer, whatever is behind it.

### Only model-checked

- Liveness (`UnmountTurnsHdmiOff`, `EngineComesBack`, `DockingCompletes`, `LongComes`,
  `LoggingReturns`, `BootselHappens`): fairness is beyond the prover.

Every safety property of the passing runs is a theorem. Two theorems say less than a run may want of them:
`EngineIsAnswered` has the condition `OnePlugIn`, and `WalkFindsVendorEndpoints` speaks of sequences of the five
descriptors in `Descs`, of any length.

## 5. Not modelled

See `components` in `PROJECT.json`. `led.cpp` writes one pixel. `reset_interface.c` is
not part of the build. Of `freertos_rust_shim.c` only the timer calls appear; the
rest wraps the kernel, whose queues and mutexes are modelled by what they promise.
`main` and `rust_init` run before any task or interrupt exists, in one order, and appear
as the initial states. The device and configuration descriptors are constant tables. Formatting, the
Bluetooth discovery filter and the event counter are left out. A configuration longer than the buffer of
256 bytes is not modelled: the one device asked for it is the handheld.

## 6. Plan

What is left: the two hazards no property covers (a refused configuration request, and the connection's age between two
looks), which need a property of the host's side that the code does not promise; and the liveness properties, which stay with TLC.
