# CleverCoffee firmware: TLA+ models, checks and proofs

The repository is the firmware of an espresso machine controller for the ESP32:
a hardware-independent control core (`crates/core`), drivers and protocols
(`crates/*`), and the firmware around them (`firmware/src`), one asynchronous
executor with a task per job. This directory holds TLA+ models of the parts
whose correctness depends on the order of events, TLC runs that check them on
small instances, and TLAPS proofs for every value of the constants.

## The system

| Component | Source | State it keeps | Operations | Modules |
| --- | --- | --- | --- | --- |
| Machine | `crates/core/src/machine.rs`, `state.rs` | state, timers, requests, PID flags, backflush cycle, emergency counter, outputs | `tick` every 10 ms, `command` between ticks | `Machine`, `States` |
| Standby, brew timer | `crates/core/src/timers.rs` | start, remaining time | `reset`, `arm`, `expire`, `update` | `Timers`, `Display` |
| Switches | `crates/core/src/switch.rs` | last level, since when, pressed | `update`, `is_long_press` | `SwitchDebounce` |
| Scale | `crates/core/src/scale.rs` | averages, tare, calibration, weight of the shot | `on_reading`, `track_brew`, calibration | `Scale` |
| PID | `crates/pid` | gains, limits, integrator, output | `compute`, mode and limit changes | `Heating` |
| History | `crates/core/src/history.rs` | ring of samples | `offer`, `copy_from` | `History` |
| Settings | `crates/core/src/config.rs` | one record of parameters with limits | `set`, `set_from_str` | `Machine`, `ConfigFile` |
| Shared state | `firmware/src/shared.rs` | the one lock with settings and machine; pending readings; signals `PERSIST`, `RESTART`, `SCALE_TARE` | `with`, `publish`, `take_pending` | `SettingsStore`, `Sensing`, `Scale` |
| Control loop | `firmware/src/control.rs` | pins, watchdog | takes readings, ticks, drives the pins, dispatches events | `Sensing`, `SwitchDebounce` |
| Storage task | `firmware/src/storage.rs` | the map in flash, what it believes is in it | `load`, `save`, `erase`, provisioning, restarts | `SettingsStore` |
| Firmware update | `firmware/src/ota.rs`, `flash.rs` | upload session, progress, `ota_active` | `begin`, `write`, `finish`, `abort` | `Ota` |
| Web API | `crates/web`, `firmware/src/net/web.rs` | workers, open event streams | settings, commands, uploads, restarts | `HttpPool`, `Api`, `Multipart`, `ConfigFile` |
| Log | `crates/web/src/logring.rs`, `firmware/src/logbuf.rs` | ring of bytes | `push`, `read_since` | `LogRing` |
| MQTT | `crates/mqtt`, `firmware/src/net/mqtt.rs` | session, keep-alive, filter of changes | publish, discovery, commands | `Mqtt` |
| Network | `firmware/src/net/mod.rs` | station or access point, clients | connect, fall back, restart when idle | `Wifi` |
| Sensors | `firmware/src/sensors.rs`, `crates/{tsic,onewire,hx711,abp2}` | decoder, filters, errors | publish a reading or a fault | `Zacwire`, `Sensing` |
| Bluetooth scale | `firmware/src/ble_scale.rs`, `crates/blescale` | session, its clocks | look, connect, keep alive, give up | `BleSession` |
| Display | `firmware/src/display.rs`, `crates/{display,oled}` | frame last sent | choose a screen, send it | `Display` |
| Stack monitor, user interface, tools, vendored network stack | `firmware/src/stackmon.rs`, `ui`, `tools`, `firmware/vendor` | | | none |

They interact through the lock (settings and machine), through the signals, and
through the events `tick` and `command` return: the control loop and the web
and MQTT tasks turn `ConfigChanged` and `ShotCounterChanged` into `PERSIST`, on
which the storage task saves; `Reboot`, the web API and the WiFi task set
`RESTART`, on which it saves and resets. Sensor tasks leave their latest reading
for the control loop, the machine asks the Bluetooth task for a tare through
`SCALE_TARE`. `PROJECT.json` lists every component with what is modelled of it,
and under "hazards" what is hard to test, each at its line and with the
properties that cover it.

What makes the code hard is the long memory of the machine (requests, pending
presses, latched sleep, the runtime PID flag beside the stored one), the
unordered arrival of switches, commands and sensor faults, the overlap of saves
with changes, restarts and power cuts at any step, and, around it, buses, links
and peers that fail in the middle of anything.

## Modules

| Module | Models |
| --- | --- |
| `States` | the classification of the machine's states (`state.rs`) |
| `Timers` | ages of instants, the standby countdown (`timers.rs`) |
| `Machine` | `tick` and `command`, whole (`machine.rs`) |
| `MachineHistory` | history variables over `Machine`, its properties, the inductive invariant |
| `MachineProofs` | TLAPS proofs about the machine |
| `MCMachine` | instances of the machine for TLC |
| `SettingsStore` | RAM, flash, signals, storage task, boot, restarts, power cuts |
| `Durable` | what the settings store promises: the abstract specification `SettingsStore` implements |
| `SettingsStoreProofs` | TLAPS proofs about the store |
| `MCSettingsStore` | instances of the store for TLC |
| `Ota` | firmware uploads by several HTTP workers, the interlock, the restart and the boot |
| `Update` | what an update promises: the abstract specification `Ota` implements |
| `OtaProofs` | TLAPS proofs about updates |
| `MCOta` | an instance of the update for TLC |
| `SwitchDebounce` | a switch, the hand and the bouncing contact behind it |
| `Zacwire` | the decoder of the TSIC 306: what a captured frame of pulses means |
| `Sensing` | the sensor tasks, the pending readings, how a tick takes them |
| `Heating` | the PID controller as `control_temperature` drives it in each tick |
| `Scale` | averages, tare, calibration, the weight of a shot |
| `BleSession` | the Bluetooth task and the session with a scale |
| `Display` | which screen a status gets, and the way of its frame to the panel |
| `Device` | these seven side by side, in behaviours in which the steps of one happen |
| `DeviceProofs` | TLAPS proofs about `SwitchDebounce`, `Sensing`, `Heating`, `BleSession` and `Display` |
| `SensorProofs` | TLAPS proofs about `Scale` and `Zacwire` |
| `MCDevice` | the values of its constants for TLC |
| `HttpPool` | the HTTP workers, the networks they wait on, the event streams |
| `Wifi` | the home network, the fallback access point, the way back |
| `Api` | one request to the web API: checks, change, answer, restart; forms pair by pair |
| `Mqtt` | the MQTT session over a link that may die |
| `ConfigFile` | the config file written and read, token by token |
| `Multipart` | the parser of uploads, fed in chunks |
| `MultipartProofs` | TLAPS proofs about the parser |
| `LogRing` | the log, and what its followers are told |
| `LogRingProofs` | TLAPS proofs about the ring |
| `History` | the chart of temperatures, and what a page gets of it |
| `Connections` | these eight side by side, in behaviours in which the steps of one happen |
| `ConnectionProofs` | TLAPS proofs about `HttpPool`, `Wifi`, `Mqtt`, `Api`, `Multipart`, `LogRing` and `History` |
| `MCConnections` | the values of its constants for TLC |

### Machine

One `Tick(inp)` is one call of `tick`: its conjuncts follow the calls
(`follow_pid_setting`, `read_sensors`, `handle_switches`, `update_state_data`,
`next_state`, `transition`, `control_temperature`, `compute_outputs`). A value
that several of these write within one tick passes through an operator for each
stage (`PidFollowed`, `PidSwitched`, the flag after the transition). Each command
is an action. Both run under the lock, so nothing interleaves inside them; the
order of ticks and commands is free.

- *Time* is counted in ticks, and an instant is kept as its age, which stops one
  past the largest threshold it is compared with. `MachineAssumption` and
  `HorizonAssumption` state what the thresholds must satisfy for that.
- *Readings* are the classes the code compares them with: implausible, safe
  (to 100 °C), warm, in the hysteresis band, over the emergency temperature.
  *Weights* are the two predicates the code asks of the scale.
- *Heater* means that the heater output may be on: the PID's duty is any duty.
  `Heating` has the duty itself.
- *Settings* that `tick` itself writes are `pidEnabled` (the power switch) and the
  factor of the scale (`Calibrates`: an input says what a calibration that ends in
  this tick has found). `ConfigPushed` is where the code pushes `ConfigChanged`; it
  is not derived from what changed.
- *Levels* of switches are the debounced ones (`SwitchDebounce` says what they
  promise); their kinds are constants, as they are read at boot only.
- The shot counter saturates at `MaxShots`, for `u32::MAX`.

`MachineHistory` adds variables that only watch, so that a property does not
speak of a timer with the same timer: how long this shot, this stretch of hot
water has lasted; the fillings of this backflush run; whether anybody has asked
for anything since the machine fell asleep; a sensor fault not yet recovered.

### SettingsStore

Each action is the code between two awaits of the storage task: boot (`Load`,
`Provision`), one parameter of a save (`SaveParam`), the counter (`SaveShots`),
the two signals of the `select`, the delays (`Save`, `Stop`, `SoftwareReset`).
Users and the machine change settings and counter and set signals in between.
What may fail in a behaviour (`faults`: reads, writes, erases, power) is chosen
at the start and constant, so that a property can name what it assumes. A
provisioning record that cannot be read stays for the next boot. The map
in flash is external: an entry is stored or, on an error, it is not; a missing
one reads as the default.

*Promise*: `Durable` says what the store is for, with the entries in force, those
in flash and the copy a save began with: who changes an entry is owed a save; a
save leaves each entry at its old or its new value if it is cut short, and all
of them as they were at one moment if not; a restart stores first what its kind
says. `ImplementsStore` is the refinement: how far the task has got, what it
believes to be in flash, its delays and its two signals are not seen.

### Ota

Each HTTP worker may be in an upload: `Begin` and `Abort` are the calls of that
name, `Read` is one read of the request's body with the start of the `write` that
follows, `WriteSome` one turn of its loop, `Finish` takes the session and flushes
its last sector, `Activate` writes otadata, `Reply` answers and asks for the
restart. An action ends where the code awaits. Every error path is an action of
its own (`ReadFails`, `WriteFails`, `FinishFails`, `ActivateFails`).

- *Data* are units that know their upload and their number, so that a property
  can say that a slot holds what one client sent, in order. A unit stands for
  any part of a sector.
- *Flash*: of a slot the model keeps what the last upload has put into it, and
  whether it holds a complete image. The bootloader starts the slot otadata names
  if that is complete, else the other; its library gives for an update the slot
  that does not run. Both are external, and `RunsComplete` rests on them.
- *Interlock*: `otaActive` is the flag that `Machine` reads in every tick (`Halt`);
  the storage task's restart writes it too.
- *Promise*: `Update` says what all this is for, with the slot that runs, the slot
  otadata names and the complete slots only: the device goes over to a complete
  image, by a boot, or stays with the one it has. `ImplementsUpdate` is the
  refinement; sessions, workers, sectors and the interlock are steps that `Update`
  does not see.

### The hardware around the machine

These modules share no state that they keep: what goes from one to the other is
a value the receiver's module takes as an input of any kind. Each is complete by
itself; `Device` has an instance of each and lets the steps of one happen, so that
one run and one module of proofs speak of all. `DeviceConstants` is what they
assume of their constants.

- `SwitchDebounce`: `Move` is the hand, after which the pin reads anything for
  up to `Bounce`; `Sample` is what the control loop does with a pin in each tick,
  at irregular times. The contact remembers where it has been since the last
  edge, so that `EdgesAreMoves` can say that no edge is invented.
- `Zacwire`: `Receive` captures a frame that the sensor sent, for several clocks
  of the sensor, whole or with one disturbance (a capture that begins within the
  frame, a lost or extra pulse, a wrong bit), and decodes it.
- `Sensing`: one action per round of the TSIC task (`GoodFrame`, `NoFrame`), of
  the DS18B20 task, of the load cells' and of the pressure task, and `Tick` for
  `take_pending`. Frames are right or wrong, and from before an outage or not.
- `Heating`: `Tick` is `control_temperature` with any state, permission and
  reading of the machine; the controller computes once per sample time.
  Floating-point numbers are small integers. The gains of the regular mode are
  a setting (`regular`), which a write changes at any time.
- `Scale`: `CellsTick` and `BleTick` are a tick with a reading, `Clock` the time,
  `Place` and `Pour` what happens on the pan; commands as in `Machine`. Whether the
  settings want a shot to begin with a tare is chosen at each tick.
- `BleSession`: `Advertised` is the radio's callback, the other actions are the
  task's, each up to its next await; `Deadline` is the timer that heartbeat and
  silence share. `RunnerEnds` is the Bluetooth runner that the task is raced with:
  when it returns, nobody looks for a scale again, and what is shown stays.
- `Display`: `Pass` is one round of the task. An operation on the panel is a set
  of outcomes, one for each write that may be the first to fail.

### The network side

`Connections` and `ConnectionConstants` do the same for these.

- `HttpPool`: a worker picks a network, accepts, serves, and may hold a stream.
  `Take` and `Refuse` are the two atomic operations of `StreamSlots::take`.
- `Wifi`: one action per step of the task; phones join and leave at any time, but
  the task hears of it only while it waits in `wait_for_station_retry`, and then of
  every one: the driver's queue of events is external.
- `Api`: `Begin` is the handler up to its first await, `Setpoint`, `ConfigUploaded`,
  `FirmwareUploaded` and `Clone` what follows the body, `Sent` what follows the answer.
  In between others change settings, the credentials among them, and take memory.
  A form is `apply_form` pair by pair: `Clone` copies the settings, `PairTaken`,
  `PairSkipped` and `PairRefused` go on with the copy, `FormCommitted` puts it in force.
  `Handled` is what the handlers match, `ROUTES` the table that is kept beside them:
  two literals, as in the code.
- `Mqtt`: `Pass` is one turn of the loop. The broker, external, drops a silent
  client and publishes its will; a dead link swallows packets for a while.
- `ConfigFile`: the writer's and the reader's calls, in terms of lexemes; `Read` is
  one token for `import_config`. Files are those the machine writes, edited in
  one place or cut.
- `Multipart`: `Feed` gives a chunk of any size, and the parser's phases consume
  it, one character in each step; of what comes next the sender's `item` and `at`
  say where it is. The headers of a part are its name and an empty line.
- `LogRing`: `Log` pushes a line; the properties ask for every offset a follower
  may have. A line begins with its line break.
- `History`: `Tick` offers a sample, `HistoryCopy` and `WriteHistory` are the
  request, with ticks between the arrays.

## Runs

| Run | Question | Bounds |
| --- | --- | --- |
| `MCShot` | Are shots and hot water capped, whatever the switches do? | 8 inputs, 2 settings, caps of 4 and 2 ticks |
| `MCBackflush` | Backflush, manual flush and shots on one momentary switch, with an emptying tank; is a changed counter announced? | 8 inputs, 2 settings, cycles 2 and 3 |
| `MCSleep` | Standby against faults, recovery, emergency, empty tank, updates | all readings, timeout 1, recovery 2, standby 2 |
| `MCPid` | Who may switch the PID, is it ever lost, and is every changed setting announced? | 14 inputs, 3 settings |
| `MCStore` | Is at rest everything saved, do resets do what they say, does it always come back, is it a durable store? | 2 parameters of 2 values, counter to 1, four cases of faults |
| `MCOta` | Is an upload under the interlock, whole when activated, and does every one end and give the machine back? | 2 workers, 2 slots of 2 sectors of 2 units, uploads up to 5 units |
| `MCDevice` | Is what the machine is told true, does what it asks for happen, is what it shows so? | per part, below |
| `MCConnections` | Does the device stay reachable, refuse what it should, and does what is sent arrive whole or not at all? | per part, below |
| `MCBugRecovery`, `MCBugPendingSave`, `MCBugNoRestart`, `MCBugPonm` | counterexamples, see below | |

The properties of `MCDevice`:

- `SwitchTells`: an edge is a move of the hand, a contact at rest is reported in
  time, a long press has lasted. Debounce 2, long press 5, bounce 2, gaps to 2.
- `FramesDecode`: a whole frame gives its value and a disturbed one never another
  (4 values, 3 clocks, every place of a disturbance).
- `ReadingsTrue`: one wrong frame in three does not reach the machine, an outage is
  shown, readings from before it are not used, none is used twice (2 right and
  2 wrong values, silence 3, 2 errors).
- `WeightTells`: no shot is stopped before its weight is in the cup, and calibrations
  use their own tare. 2 samples, gain 2, loads to 1.
- `SessionKept`: heartbeats come in time, and a scale can be found while the task
  looks. Heartbeat 2, silence 3.
- `HeatEnds`: a sample that finds the boiler so hot that P outweighs the integrator
  turns the heater off. Temperatures 0, 3, 4; outputs to 3.
- `WaitsEnd`: waits for a tare end, a calibration ends, a silent scale is given up
  unless the Bluetooth runner has returned, and an overheated boiler is soon no
  longer heated, as long as the controller has an integral part (`Holds` says when
  it has none: `pid.regular.tn` is 0, and then the integrator stays where it is).
  Integral gains 0 and 1, changed at any time.
- `PanelTrue`: the panel shows what was rendered as long as its initialisation
  went through; an alarm that lasts is soon seen. One template, 4 statuses.

The properties of `MCConnections`:

- `SlotsKept`: streams are counted right and leave half of the workers. 2 workers.
- `PhonesCounted`: the task does not count phones on its access point that are not
  there, which would keep it from the home network. 2 phones.
- `Reachable`: a connection on the only network gets a worker; by home network or
  access point, which is retried and closed; and the broker gets to know each value,
  or that the device is gone.
- `RequestsChecked`: a form is applied whole, over the settings as they are just
  then, or not at all (`FormsWhole`); what it changes is saved (`ChangesSaved`); what
  is refused has changed nothing, and an update that failed does not restart
  (`RefusedChangesNothing`); only who had the credentials changes anything, also
  when those change meanwhile (`OnlyAuthorized`); the hand-kept table of routes tells
  a wrong method from an unknown path (`WrongMethodIsTold`). Every path and method,
  two settings of two values, all forms of up to two pairs.
- `BrokerTold`: the broker keeps a session that lasts, and has heard what the client
  takes for known. 2 values.
- `UploadsWhole`: uploads whose data has every beginning of the delimiter, after
  no preamble or one that begins like it, in chunks of 1 to 4 characters.
- `FilesRestore`: config files of three settings with shared and nested keys, two
  values, one to escape, every edit in one place and every cut.
- `AnswersTrue`: an offset the ring still has gets what was logged since; any other
  gets the log from its start, or, once a byte is gone, from the first line that
  begins after the oldest byte kept, and from no later one. A log of up to 10 bytes
  in a ring of 4, lines shorter and longer than the ring, every offset; a chart of
  3 points, every second sample.

The bounds are small but every threshold is passed: timers run past each limit
they are compared with, backflush takes at least two cycles so that one can be
left out, a save has two parameters so that something comes between them, the
counter has a value to lose, reads of an upload straddle sectors, an upload
may be one unit too large for its slot, and rings wrap twice. Settings of the same
kind behave alike, so two parameters, one of them a credential, stand for all.

*Deadlock* is checked, but for `MCConnections`: a config file is read to its end,
an upload is fed to its end, and the log stops at its bound.

*Fairness.* The control loop is woken by a ticker, so some tick always comes
(`WF` of the tick, with any reading, in `Machine`, `Heating` and `Scale`); no user
ever has to do anything. The storage task is polled whenever one of its futures
is ready (`WF` of its steps), and so are the HTTP workers, the WiFi, MQTT and
Bluetooth tasks. Timers fire (`WF` of `Clock`). Power cuts are never fair. A
worker in an upload goes on (`WF` of its steps): a client that falls silent is
met by the deadline of the upload, a failed read; an event stream may last for
ever. Two assumptions are about others: a WiFi driver that is asked again and
again to open the access point does it once (`SF` of `OpensAp`), and a broker
notices a client that is lost (`WF` of `Drops`).

## Proofs

`MachineProofs` proves, for every set of switches, thresholds, settings and
inputs, type correctness and the safety properties the runs check. The
properties are not inductive by themselves: `Inductive` adds how the machine's
own state agrees with the history. The cap's timer is the age of the shot and
is set exactly in a shot (`ShotTimed`); water has not flowed longer than the
timer says (`HotWaterTimed`); the setting last noted is the one the machine runs
with outside standby and emergency (`PidKept`); a sleeping machine is in
standby or in an error that goes back to it (`AsleepWhere`); the cycle counter
never runs ahead of the fillings (`FillsCounted`). One lemma per part says that
a tick keeps it; `CommandFrame` says once what no command touches.
`EveryChangeAnnounced` compares the places that push an event with the fields that
each tick and each command writes.

`SettingsStoreProofs` proves that, while the flash makes no errors and however
often the power is cut, flash and settings agree whenever the task rests, and
that resets leave what they should. The invariant says how far a save has got
(`SavedUpTo`), that the task's picture of the flash is right (`PictureRight`),
that its copy is current or the signal is set (`CopyCurrent`), and what a reset
under way will leave (`ResetUnderWay`). `CounterAlwaysKnown` allows writes and
erases to fail as well: the counter's picture is written after the flash only.
`StoreImplementsDurable` holds with every fault: each step of the store is one of
`Durable`'s or is not seen there; only that a save which ends has written all it
began with needs the invariant and a flash that makes no errors.

`OtaProofs` proves for any number of workers and any size of slots that uploads
exclude each other, although the session is unlocked between two reads
(`Ownership`: the mark has an owner, who alone has session and lock); that the
interlock is up while one writes and is not left up by one that failed; that
the slot that runs is never written (`TargetApart`) and stays complete; and that
an image that is activated is the one sent (`InOrder`: every unit taken so far
is in its place, in flash or in the sector being filled). From the same invariant
follows that `Ota` implements `Update`: each step writes the slot that does not
run, activates a complete one, boots, or leaves all three alone.

`DeviceProofs` is about the specification that `MCDevice` checks, for any values of
its constants that fulfil `DeviceConstants` and `SwitchConstants`:

- `SwitchAlwaysTells`, for any bounce that the debounce outlasts, any gaps between
  samples and length of a long press. What makes it inductive is `Bouncing`: a
  level that would be an edge and is not where the contact has been since the last
  one is younger than the last move, so it cannot outlast the debounce.
- `PanelIsTrue`: after an initialisation that went through, the task knows what the
  panel shows, unless it marks its last frame as torn (`PanelKnown`). It is proved
  for every way the bus may fail in a pass, by lemmas about the three operations.
  That alarms are seen has an invariant of its own (`AlarmInv`): what was hidden so
  far and what the brew timer and the result of a calibration may still hide
  stay together within `HiddenMax`.
- `ReadingsAreTrue`: the filter holds only frames from after the last outage, and
  none while the sensor is out (`SensingInv`); a lemma about medians of three says
  that a value which is not below one nor above another of the right ones is
  between right ones, and that one wrong frame cannot be more than one of the
  three. What is left for the next tick is fresh (`PendingInv`).
- `HeartbeatAlwaysKept`: the packet before the last heartbeat and the time on the
  clock together stay within the period (`SessionInv`), although each packet sets
  the timer anew.
- `TooHotAlwaysOff`, for any gains, limits, setpoints and readings: output and
  integrator keep to their ranges and a limit is in force (`HeatInv`), so that P and
  the derivative leave nothing of the output.

`SensorProofs` is about the same specification. `WeightAlwaysTells` holds for any number
of samples, any gain, any times and loads, for both kinds of scale:

- A calibration that waits for its tare has one pending or has had its own, and goes
  on with its own only (`ScaleInv`).
- With load cells, every reading of the average is between what stood on the scale at
  the start of the shot and what stands there now, and the tare is that of the start
  or a later one (`CellsTrue`). A later tare can only make the weight smaller.
- A Bluetooth scale may do the tare it was asked for at any time, and a weight from
  before it may be read after it. `BleTrue` follows the weight at the start through
  what the scale would send, what it has sent and what is shown: either it is gone
  from all of them, or the weight of the shot counts from no less.

The average is a sum by recursion over the window; that it lies between the bounds of
its readings is proved by the least number of readings for which it does not
(`NoLeastFailure`, from the well-foundedness of the naturals), which does what the
library's induction theorems would do.

`FramesAlwaysDecode`, in the same module, holds for all 2048 raw values, every start
bit the decoder takes and every stub of a pulse; TLC checks 4 values, 3 clocks and
a few stubs. The invariant is inductive as it stands, and what it takes is to
say what the decoder computes:

- A packet is a word of nine bits. What has been shifted in after some of them is
  the word without the others (`ShiftsIn`); its ones are the sum of its bits
  (`OnesOfWord`), even as it is sent (`SentWord`), odd with one bit flipped
  (`FlippedWord`).
- `AtBit` says what the decoder knows at each rising edge: the bits so far, or its
  verdict, after which it waits for a gap that no pulse of a frame is long enough
  for. `FirstBit`, `NextBit` and `EveryBitIsRead` carry it from bit to bit, the last
  again by `NoLeastFailure`, so that a capture of twenty lows and highs decodes to
  `Verdict` of the two words its lows read as, or to a framing error when the start
  bits differ (`FrameDecodes`).
- The lows of a value read as its words (`LowsRead`), whatever the clock. Each
  disturbance makes of them a frame of other lows (a flipped bit: odd parity, or
  a start bit whose low and high are equal anyway; a first low that was cut: too short
  for a start bit, too different from the second one, or still longer than every
  one and shorter than every zero), a capture that begins high, or one of a wrong
  length.

`ConnectionProofs` is about the specification that `MCConnections` checks, from
`ConnectionConstants`:

- `SlotsAlwaysKept`, for any number of workers, by cardinalities: each step moves
  one worker into or out of the counted ones, or none.
- `WifiNeverOvercounts`, for any number of phones and any times: the task leaves
  the wait in which it hears of phones only with none counted
  (`CountedWhereHeard`), so what it misses elsewhere can only make its count too
  low.
- `BrokerIsTold`: the broker has not been silent longer than the client remembers,
  and that is half of what it promised at most; what the filter knows, the broker
  was told in this session (`MqttInv`).
- `RequestsAreChecked`, for any names, values and forms of any length: what waits
  for its body has been allowed, and no answer but 200 is given where settings
  change (`WebInv`). In the middle of a form (`DraftInv`) the copy is what the
  settings become by the pairs taken so far, none of which was bad (`ResultTo`,
  `FormsWhole` for a beginning of the form); and if no pair has changed anything, the
  copy is the settings, so that nothing is left unsaved by leaving the signal out.
- `FilesAllOrNothing`: the part of `FilesRestore` that holds for any text: settings
  change only when the outermost object has closed, and then all at one time. The
  importer keeps a path of its own and is not told of closed arrays; `InStep` says
  that the path and the reader's stack agree while no array is skipped, and how a
  skipped one lies on top of them.
- `UploadsAlwaysWhole`: the parser from `MultipartProofs`, in the same way as the
  log.
- `AnswersAreTrue`: the log from `LogRingProofs`, by a correspondence between the
  module and its instance; the chart because its points are evenly spaced and
  end with the last sample due, and the arrays come from one copy (`HistoryInv`).

`LogRingProofs` proves for any size of the ring and any lines that `read_since` gives
what was logged. `Holds` says where in the ring the byte is that was pushed a number
of bytes ago; `push` keeps it in each of the cases of wrapping, and from it follow
the two slices and the first line that begins after the oldest byte. Those lemmas, and that a set of
numbers has a smallest, are stated for any ring, not for this one's states.

`MultipartProofs` proves for any boundary, any upload whose data do not hold the
delimiter, and any chunks that the parser gives each part once and whole. That a
character is given late, with those that were held back, is what makes this hard:
`Placed` says for each phase where the sender is, and that what is held back is
both the end of what was read and the beginning of the delimiter (`Partial`), by
which what was given and what is held back are what was read. `SearchGoesOn` is
why one character of a mismatch is enough to try again: the delimiter begins with
a character it does not hold a second time. `UploadInv` adds that what a chunk has
given, what is held back and what is left of the chunk fit the buffer together.

What proving has changed in the models. The range of the sensor's error count in
`Sensing` was right only where the DS18B20 gives up no later than the TSIC. In six
modules a `CASE` had arms that overlap: TLC takes the first that holds, TLA+ any,
so the proofs could not be had until each said what the code does. `Multipart` took
a chunk at a time, with folds; it takes a character at a time now, so that its
steps can be reasoned about, and may have a preamble. `Scale` sums with a recursive
function instead of a fold, and its "no weight" was a number that a scale could show
when loads are large. `FramesDecode` and `FilesRestore` became properties of their
own, because they rest on what a recursion computes. `Zacwire` folded over the pulses;
it has a recursive function now (`FeedAll`), by which the states of the decoder
along a capture can be named.

Only model-checked: everything with fairness (`PumpingEnds`, `FallsAsleep`,
`StorageGoesOn`, `UploadEnds`, `WaitsEnd`, `Reachable`), which TLAPS
cannot prove; and that a file the machine wrote comes back as it was, in
`FilesRestore` (the writer folds over the settings).

## Disagreements between source and documentation

Shown by a run:

- `MCBugRecovery`: a sensor fault that comes and goes during an emergency stop is
  not followed by the recovery time (`machine.rs:987` against `:29`).
- `MCBugPendingSave`: a change during the last save before a restart is lost
  (`storage.rs:162` against `:5`).
- `MCBugNoRestart`: a connection that breaks after a complete upload, before it is
  answered, keeps the device from restarting, with the actuators off
  (`crates/web/src/lib.rs:798` against `docs/api.md:23`).
- `MCBugPonm`: with proportional on measurement the integrator is clamped to the
  limit of the other mode in every tick (`machine.rs:1128` against
  `crates/pid/src/lib.rs:127`).

Seen while modelling, without a run. The machine:

- A sleep command sent in standby puts the machine back to sleep right after
  the next wake (`machine.rs:489`, ADR 0004).
- The power switch writes `pid.enabled` without noting it (`machine.rs:747`), so
  a write of the old value before the next tick is not applied (ADR 0004).
- "Keep heater on" heats with an empty tank also when the PID is off
  (`machine.rs:1131`, `config.rs:572`).
- Readings in the hysteresis band do not interrupt the count of "three readings
  in a row" (`machine.rs:157`, ADR 0006).
- Backflush mode switched on during a shot: the next tap does not stop the shot
  (`machine.rs:675`, `docs/bench.md:73`).
- In backflush mode a held press that wakes the machine may go on to run the pump
  (`machine.rs:658`, ADR 0004).
- Steam has no time cap (`machine.rs:940`, `README.md:37`), nor has manual flush.
- `pid.regular.i_max` may be set to 0, which `set_integrator_limits` ignores: the
  old limit stays (`crates/pid/src/lib.rs:129`).
- With proportional on measurement and `pid.regular.tn` at its minimum of 0
  (`config.rs:375`) the integrator stays where it is, so a boiler that is steady
  above its setpoint goes on being heated, up to the emergency temperature.
- A shot begun with a scale below zero, and tared then, has a weight that counts
  early (`scale.rs:242`).

Storage, updates and restarts:

- After a failed write a setting that was changed back is not written again,
  although the save then ends without an error (`storage.rs:100` against `:87`).
- The provisioning record is erased before it is saved (`storage.rs:148`,
  `docs/firmware.md:51`).
- A read error at boot makes defaults of stored values and notes them as saved
  (`storage.rs:73`). Without a settings partition nobody performs restarts
  (`main.rs:345`).
- A restart asked for around a factory reset takes its place (`shared.rs:102`,
  ADR 0005).
- A second upload between the end of the first and the restart goes into the slot
  that is already active (`ota.rs:99` against `ota.rs:1`).
- An upload that fails after the storage task has raised the interlock for a
  restart lowers it again (`ota.rs:221` against `storage.rs:165`).
- A reboot by the power switch drives the outputs off, and the next tick drives
  them again (`control.rs:152`).
- ADR 0005 counts the 2 s before a save from the last change, the code from the
  first (`storage.rs:158`).

Network and display:

- `read_small_body` passes on a body that was cut off, so a form is applied as far
  as it came, though "all-or-nothing" (`crates/web/src/lib.rs:936`).
- `ROUTES` leaves out `/api/ota/filesystem` and `/api/ota/url`, which have a handler:
  a wrong method is answered with 404 there (`crates/web/src/lib.rs:886`).
- When the Bluetooth runner returns, the task ends: a scale that was connected is
  shown as connected, and none is looked for (`ble_scale.rs:89`).
- A network that gives no address holds the WiFi task without a limit, and no
  access point opens (`net/mod.rs:164`).
- A follower of the log who has missed something is not told a line that is kept
  whole, when it begins with the oldest byte (`logring.rs:74`); the comment at `:73`
  says that the cut line is dropped.
- A follower of the log with an offset from before a restart is not noticed once
  the new log is longer (`logring.rs:61`).
- After a comma in an array the JSON reader does not check for the end of the text
  (`json.rs`); text after the outermost object of a config file is ignored.
- A tare that a Bluetooth session did not take is executed by a later one
  (`SCALE_TARE`).
- After an error on the display's bus, if the initialisation that follows stops
  after it has switched the panel off, the panel stays dark until the next error
  (`firmware/src/display.rs:97`). The screens of brew timer, calibration and
  update hide alarms for a while.

## Not modelled, and why

- Rounding of floating point, in the PID, the averages of the scale and the
  history: `Heating` and `Scale` calculate with integers.
- Rendering (display, LEDs, fonts), topics, payloads, headers and the layout of
  answers, provisioning records, the bits of the 1-Wire, I2C and HX711 buses and
  of Bluetooth frames: pure conversions without a state that anything here
  depends on. Where strings and numbers of a config file end is not modelled.
- In `Scale`, what only the status shows (`last_reading`, `is_faulty`); in `Mqtt`,
  a change of the hostname or the base topic within a session, collisions of the
  filter's 32-bit hashes, and a message whose body stays away while a ping is
  due.
- In `Wifi`, events of the access point that the driver itself loses while the task
  waits for them.
- The configuration registry: a generated table; the fields the control reads
  are modelled where they are read.
- The captive portal and mDNS: they answer each packet by itself.
- The panic handler and the watchdog: they end every behaviour at once.
- The user interface, the tools, the stack monitor: other programs, or no state.
- The vendored network stack: third-party code but for its patched listener.

## Plan

Abstract specifications to state, as `Update` and `Durable` are: a heater guard
(off in emergency, in an error, in sleep), implemented by `Machine`; the level that `Machine` takes for a switch,
implemented by `SwitchDebounce`.

Models: the outputs of a tick together with the interlock's two owners
(`control.rs:152`), and the backlog of the patched TCP listener.
