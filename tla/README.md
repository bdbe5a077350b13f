# Kingfisher HALs: specifications, model checks and proofs

This directory holds TLA+ specifications of the hardware abstraction layers (HALs) of the
Kingfisher device tree: Bluetooth (`src/hal/bluetooth`), broadcast radio (`src/hal/radio`) and
sensors (`src/hal/sensors`). The rest of the repository is build and boot configuration.

Contents: [1 The system](#1-the-system) · [2 Modules](#2-the-modules-and-the-code) ·
[3 Runs](#3-the-runs) · [4 Fairness](#4-fairness) · [5 Proofs](#5-what-is-proved) ·
[6 Limits of the code](#6-where-the-code-does-less-than-one-would-think) ·
[7 Not modelled](#7-what-is-not-modelled) · [8 Plan](#8-plan)

To repeat: `tlc -config MCAsyncFdWatcher.cfg AsyncFdWatcher` (each run's module and configuration
are in `PROJECT.json`), `tlapm BluetoothHciProofs.tla`.

## 1. The system

Three independent services. Each is a process with binder threads that take calls from Android and
threads of its own that talk to the hardware.

### Bluetooth

| component | state | operations | who calls it |
|---|---|---|---|
| `BluetoothHci` | the death recipient (`has_died_`, `unlink_cb_`) | `initialize`, `close`, `sendHciCommand/AclData/ScoData`, `serviceDied` | the Bluetooth stack, on the one binder thread |
| `VendorInterface` | the singleton; `internal_commands`; the LPM variables `lpm_wake_deasserted`, `lpm_timeout_ms`, `recent_activity_flag`; `sco_cfg_status` | `Initialize/Open`, `Shutdown/Close`, `Send`, `OnTimeout`, `HandleIncomingEvent`, `OnFirmwareConfigured`, the library's callbacks | `BluetoothHci` on the binder thread, `AsyncFdWatcher`'s thread, the vendor library |
| `H4Protocol`, `MctProtocol`, `HciProtocol` | packet type, one or two packetizers | `Send`, `OnDataReady`, `OnPacketReady` | `VendorInterface` to send, `AsyncFdWatcher` to receive |
| `HciPacketizer` | `state_`, bytes read and remaining | `OnDataReady` | the transports |
| `AsyncFdWatcher` | watched descriptors, timeout, `running_`, a thread, a pipe | `WatchFdForNonBlockingReads`, `ConfigureTimeout`, `StopWatchingFileDescriptors`, `ThreadRoutine` | `VendorInterface` |

Down the stack go calls (`sendHciCommand` → `VendorInterface::Send` → `H4Protocol::Send` →
`writev`); up come callbacks on the watcher's thread (`select` → `OnDataReady` → `OnPacketReady` →
`HandleIncomingEvent` → the stack). Both directions meet in `VendorInterface` under
`wakeup_mutex_`, in the watcher's pipe, and in a number of static variables without any lock.

What is hard: two threads, three mutexes and unlocked statics; a wake-up that may get lost between
a test and a `select`; a stop that races callbacks; packets cut anywhere by `read`; answers to the
library's and to the stack's commands on one line; a client that dies at any moment.

Correct means: stops and timeouts are not slept through, no callback outlives its registration, and
a stop completes (`AsyncFdWatcher`); packets go in and out whole and in order (the transports); the
controller is awake when written to and gets to sleep, answers reach whoever asked
(`VendorInterface`); a session is ended once, by or for the client it belongs to (`BluetoothHci`).

### Broadcast radio

| component | state | operations | who calls it |
|---|---|---|---|
| `BroadcastRadio` | `mSession` (weak), the AM/FM configuration, `mMut` | `openSession`, `getAmFmRegionConfig`, property and image getters | clients, on four binder threads |
| `TunerSession` | `mIsClosed`, `mIsTuneCompleted`, `mCurrentProgram`, `mCurrentBand`, `mMetadataThreadExit`, `mMut`, a worker thread with a queue of delayed tasks | `tune`, `scan`, `step`, `cancel`, `close`; the tasks; the destructor | clients; `BroadcastRadio::openSession` calls `close`; `step` calls back into `BroadcastRadio::getAmFmConfig` |

What is hard: every call only leaves a delayed task, and later calls cancel or overtake earlier
tasks; the metadata task re-schedules itself without a lock; two objects with a mutex each call each
other; sessions are dropped with tasks in hand.

Correct means: the driver is in the band of what is tuned to, and a step stays in its range; the
session says that a tune is complete when, and only when, it is; closing comes to rest; there is one
open session; and calls return.

### Sensors

| component | state | operations | who calls it |
|---|---|---|---|
| `Sensors` | per sensor an object, per group a device, threads, three ready flags, the event queue | `initialize`, `activate`, `batch`, `flush`, `injectSensorData`, `setOperationMode`; the poll threads of hardware and of virtual groups | the sensor service, on two binder threads; own threads |
| `IIOSensor` | enabled flag, rate and ticks, `mEventBuffer` and `mInjectEventBuffer`, `mTimestamp` | `activate`, `batch`, `flush`, `injectEvent`, `pushEvent`, `transformData`, `getReadyEvents` | `Sensors`, the poll thread of its group |
| `VirtualSensor` | enabled flag, `mNeedFlush`, `mAdditionalInfoNeeded`, `mInjectEventBuffer`, a condition variable, `mTimestamp` | `activate`, `flush`, `injectEvent`, `getReadyEvents`, `notifyEventsReady` | `Sensors`, its poll thread, the poll threads of hardware groups |
| `FusionSensor` | three lists of samples | `activate`, `pushEvents`, `getFusionEvents` | `Sensors`; the poll threads of the hardware groups and of the virtual ones |
| `GravitySensor`, `RotationVector`, ... | filter state | one formula each | `VirtualSensor`, on its poll thread |

A sample goes: device → poll thread of the group → `IIOSensor::transformData` (due? newer than the
last?) → `mEventBuffer` → `outEvents` → `FusionSensor::pushEvents` → ready flag →
`notifyListeners` → poll thread of the virtual sensor → `getFusionEvents`, `process` → event queue.

What is hard: a hardware sensor is used by the client and by virtual sensors, several of them share
one device and one sampling rate, and all of it hangs on one flag per sensor; flags are handed
between threads one by one, and tested before locks are taken; the condition variable has no
predicate; the rate of a sensor is derived from ticks that survive a change of the rate; samples of
different sensors are paired by their place in lists that are emptied one without the other; the event
queue to the framework may be full, and the HAL then drops what it would post.

Correct means: what the client activated is switched on and triggered fast enough; listener lists
agree with flags; every sensor gets its samples at its rate; a flush is answered or dropped once; a
sample is fused once; what was asked for is not lost with a notification, and virtual
sensors keep computing.

## 2. The modules and the code

Operators whose name ends in `Bug` are broken variants of the definition below them (a dropped
guard, a missing reset, a wrong bound). Nothing uses them in the specifications; `PROJECT.json`
("mutants") pairs each property with a variant under which TLC finds it violated. Each module has a
type invariant, `TypeOK` or one with the name of the module; it says little about the code, so the runs
are spent on the other properties. It is proved where section 5 says so, and holds in every run when it
is added to its configuration. Two modules that one proof module extends have no name in common, which
is why some write `WatcherInit`, `RadioNext` or `VirtualSpec` for `Init`, `Next` and `Spec`.

### AsyncFdWatcher (proofs in BluetoothHciProofs)

Two threads, by program counter. `opc` is the owner's place: `WatchFd`/`AlreadyStarted`/
`StartThread`/`StartFails` are `WatchFdForNonBlockingReads` and `tryStartThread`; `OwnerConfigures`/
`OwnerConfigured` are `ConfigureTimeout` (store under `timeout_mutex_`, then `notifyThread`);
`Stop` … `StopClose` are `StopWatchingFileDescriptors` and `stopThread`, one action per step that
another thread can see. `wpc` is the place in `ThreadRoutine`: `TestRunning`, `Collect`, `Arm`,
`SelectReady`/`SelectTimesOut`/`SelectInterrupted`, `Drain`, `FetchTimeoutCb`, `Dispatch`,
`CallbackReturns`. Callbacks may call `ConfigureTimeout` themselves (`CallbackConfigures`), as
`OnTimeout` and `Send` do. `internal_mutex_` is not a variable: the code holds it across the read
callbacks and nowhere else for longer than a step, so it is held exactly when `wpc = "callback"`.
The pipe is a count of bytes with a capacity, at which the non-blocking write loses its byte. When
`pipe2` fails, `running_` stays set without a thread and the `join` of the next stop aborts the
process (`JoinAborts`), after which init starts the service anew (`ServiceRestarts`).

Abstractions: a timeout is 0 or positive; `readable` is level-triggered as in `select`; a callback
reads all of its descriptor's data or leaves some; the scheduling class of the thread is left out.

### PacketLink, HciPacketizer, H4Protocol, MctProtocol, HciTransports, HciTransportsProofs

`PacketLink` is the promise of a transport to its user: packets arrive once, whole, in order, and,
while the line is up, in the end. `HciPacketizer` has `OnDataReady` as operators on the object's
fields (`Wanted`: what `read` asks for; `AfterRead`: the fields afterwards; `Completes`,
`Completed`: when, and what, `packet_ready_cb_` gets). `H4Protocol` has the type byte
(`ReadType`), the body (`ReadPacket`, with any number of bytes a `read` may return), `ReadNothing`
for the branch that takes 0 bytes as the end of the file, and `ReadFails`. `MctProtocol` has two
channels with one packetizer each. Both are shown to implement `PacketLink` by the refinement
mapping `INSTANCE PacketLink` (per channel for MCT), liveness included; `LinkSpec` and `LinksSpec`
add that `read` returns 0 only when the line is down (`EofOnlyWhenDown`), which holds for packets
with a payload.
`HciTransports` composes them, and `HciProtocol`, as `VendorInterface::Open` does: one descriptor makes
an `H4Protocol`, more make an `MctProtocol`. `OnDataReady` and `Send` share no field, so a behaviour has
one `direction` and the other rests.
A byte is a number below `ByteMod`, and the ACL length is really put together from two of them.

### HciProtocol

The sending side of both transports: `H4Protocol::Send` is one `writev` that is retried only on
`EAGAIN`; `MctProtocol::Send` is `HciProtocol::WriteSafely`, which goes on after a partial write
(`AfterWrite`). A descriptor holds `UartCapacity` bytes until the controller takes them. One `Send` at a
time, because the caller has `wakeup_mutex_`. `transport`, chosen once, is which of the two it is.
`WriteFails` is every other error. MCT's `LOG_ALWAYS_FATAL` on SCO packets is `fatal`.

### VendorInterface, VendorInterfaceProofs

Threads `hidl` (`hpc`: `Initialize`, `Send`, `Shutdown`) and `watcher` (`wpc`: `HandleIncomingEvent`,
`OnTimeout`, the library's callbacks). `transmit_cb` and `Send` may be in progress on both:
`sendPc[t]` goes through `Push` (onto `internal_commands`), `SendLocked` (`wakeup_mutex_`, assert
wake) and `SendWrites`. `ReadInternal` is the match with the head of `internal_commands` and its
callback, `ReadEvent`/`ConfigureSco`/`ScoConfigured`/`ScoWakesByChance`/`Forward` is the way of
another event, with the SCO wait. `OnFirmwareConfigured`, `EnableLpm`, `StartWatchdog` end the
configuration; `TimerFires`, `OnTimeout` are low power mode. `Close`, `StopWatching`, `CleanUp` are
`Close`; the static variables survive it (`Forget` resets the others only), so a second session
starts with the values of the first.

External, modelled from how this file uses them: the vendor library (sends its firmware commands one
after the other, each from the callback of the one before; may send a command when the LPM mode is
set; sets the wake line when told; calls `scocfg_cb` inside the operation, with success or failure, or
later) and the
controller (answers commands in order, sends events of its own). The transport is the pair of queues
that `PacketLink` and `HciProtocol!OutgoingWhole` justify (`scoReport`: how the library reported the
last SCO operation; `ScoStatus`: what `sco_config_cb` makes of it); the watcher's stop, timeout and dispatch
are those of `AsyncFdWatcher`, here one step each where that module shows that the steps between do
not matter to the user. ACL and SCO data pass through and are left out.

### BluetoothHci, BluetoothHciProofs

`inbox` is the work of the single binder thread: calls and death notifications in the order in which
the driver queued them. `CallsInitialize/Send/Close`, `Dies` and `Restarts` are the clients
(external); `InitializeOpens`, `InitializeRefused`, `CloseHandled`, `SendHandled`, `ServiceDied`,
`DeathIgnored` are the handlers, each with all of its effects: linking, `unlink_cb_`, `has_died_`,
and the life of `g_vendor_interface` (which exists, `"broken"`, also when `Open` failed). `overlapped`
is history: a client came before the HAL had done with the one before.

### TunerSession, TunerSessionProofs

`queue` holds the worker's tasks with the ticks left to their deadlines, `running` the task the
worker has taken: `cancelAll` clears the first and does not reach the second. `Tune`, `Scan`, `Step`,
`StepRefused`, `Cancel`, `Close`, `Destroy` are the client's calls, each with `CancelLocked`
(`cancelLocked`) and what it schedules; `DoSwitchBand`, `DoTune`, `DoSeek` are the tasks under `mMut`;
the metadata task, which takes no lock, has three steps (`MetadataRead`, `MetadataTest`,
`MetadataSchedule`) between which calls may come. `deviceBand` is the modulation the driver
was last told. `tune` does not look at the ranges, nor does the driver when it reports what a seek has
found: `Programs` may have frequencies of none, for which `StepRefused` has the branch "Can't find
current band". `GetBand` is `utils::getBand`, external and left open.
`Destroy`/`Joined` are the destructor, then the destructors of the members. `disturbed` is history: a
call came while a tune was pending, or the driver refused a band or reported a frequency of another.
External: `WorkerThread` of `broadcastradio@common-utils-lib`.

### BroadcastRadio (proofs in TunerSessionProofs)

Binder threads with the two kinds of mutex. `Open` … `OpenNew` are `openSession` (the module's lock,
promotion of the weak `mSession`, `close` of the old session under its own lock, the new session),
`GetConfig…` is `getAmFmRegionConfig(false)`, `SessionCall`/`CallLocked` a call of a session, and
`StepFindsRange`/`StepConfigLocked`/`StepConfigRead` the way of `step` into the module's lock. What a
session does beside locking is in `TunerSession`.

### Sensors, SensorsProofs

`Activate`, `Batch` and `Initialize` as atomic calls over flags, listener lists, buffer switches
(`switch`: what was last written to `buffer/enable`), rates (`odr`) and triggers (`trigger`: what was
last written to `sampling_frequency`). `ActivateVirtual` is `activateGroup` for a virtual group:
`FusionActivate` first, then `activate` of each hardware sensor with the same value. `written` is the
set of groups whose sysfs files can be written during a call; `failed` is history: a write, or the
event flag, has failed. `leftOff` is history: the groups whose switch was off when `initialize`, which
writes none, enabled all sensors, and that no `activate` has reached since.

`Available` is the table of rates as `getAvailFreqTable` filters it from what the driver lists
(`Sysfs`) by the limits of the descriptor, with the default the constructor puts in an empty one;
`ClosestOdr` and `SamplingPeriodNsToODR` are the conversions of `IIOSensor::batch`. `ReadBuffer` is
the part of a poll thread that decides which sensors are due: `addTicks`, the test against the highest
rate of the group, the reset. Ticks wrap at `TickModulus` (2^32 in the code) and start with whatever
is in `FirstTicks`, because nothing initialises `mTicks`. `counted` and `waited` are history: a sensor
that has been due, and the buffers read since.

### SensorCalls, SensorCallsAlone, SensorCallsProofs

The calls of `Sensors` in full: each step of a thread is one load or store of an `activate` or a
`batch`, through the nested calls of virtual sensors. `at[t]` is the place of thread `t` in its call:
the stage, the hardware sensors it has still to go to (`left`; the one it is at is the `First`), and
those of the group it has still to look at (`looks`). `EnableVirtual`, then `Use` and `Listen` per
hardware sensor, are `VirtualSensor::activate` with `FusionSensor::activate`; `AskVirtual` is
`isActiveGroup` of the virtual group; `SetHw`, `LookAtFlag`/`LookAtList` sensor by sensor until one is
active, and `WriteSwitch` are `activate` of a hardware sensor; `OldRate`, `StoreRate`, `NewRate`,
`WriteTrigger` are `HWBatch`, with the maximum taken rate by rate. So the calls of the binder threads
may meet anywhere. `local` is what a call has read. A list that two threads are about to change at once
may come out as anything (`Listen`). Groups, uses and rates are those of `Sensors`, by `INSTANCE`;
sysfs can always be written here. `shared` and `doubtful` are history: calls that met in a group, and
the groups they left.

`SensorCallsAlone` adds to the history the state when last no call was running, and shows
`[][Next]_vars` of `Sensors` of it until two calls have met (`ImplementsSensors`): when calls come one
at a time, what is said and proved of the atomic calls is true between them.

### IIOSensor, IIOSensorProofs

One hardware sensor between three threads: two binder threads, either of them in any call, and `reader`
(the poll thread). `pushEvent` is two steps, `PushTests` (`mIsEnabled`) and `PushAppends` (under the
lock of the buffer, with the oldest event dropped at `MaxSize`); `left` counts what a thread still has
to push. `activate` is `ActivateStores`, then for `false` the test of the flag it has just stored
(`ActivateTests`), and from there `ActivateEmpties` (both buffers, if the other thread has enabled the
sensor in between) or `ActivateStamps` (`mTimestamp` and the additional events); `activating[b]` is its
place. `transformData` is `Check` and `Store` with `mTimestamp` read in the one and written in the
other, `getReadyEvents` is `Drain` into `out` (`outEvents`) in the mode of the moment. `Post` is
`postEvents` if the sensor is active; the event queue may be full, and `outEvents` is cleared all the
same. Events are `"flush"` or `"other"`; of the injected ones only whether there are any. `mTimestamp`
is a `float`: `Float` rounds to the nearest multiple of `Granule`. `lost` (flush events dropped), `late`
and `last` are history. `listened` and the mode change in one step, while a binder thread is free.

### SensorPoll, SensorPollProofs

The two threads in `pollIIODeviceGroupBuffer`: `TestTerminate`, `ReadSucceeds`/`ReadFails` (with
`retryCount` and `mTerminatePollThreads`), then for each sensor of the group `TakeSample` or
`SkipSample`, `FuseAndFlag` (`FusionSensor::pushEvents`, `setReadyFlag`), `notifyListeners` flag by
flag (`TestAccel`, then per virtual group `TestMagn` and `TestGyro`, then `ResetReadyFlag` per group)
and `Post`. `out` holds for each sample in `outEvents` how often it has been fused. A hardware group
has mode 9AXIS here because its descriptor gives none and that is the first of the enumeration.
`interrupted` is history.

### FusionSensor, VirtualSensor (proofs in SensorPollProofs)

`FusionSensor` has operators on the three lists: `PushEvent` (a full list drops its oldest),
`GetFusionEvents` (as many as the shortest has, the first with the first). A sample is `"new"` or
`"old"`: whether its timestamp is after the `mTimestamp` of the virtual sensor, by a second at most,
which is all that `process` looks at; `Used` is what is old afterwards. Of a sample that comes later
than that (`Samples`) no event is made, and the next counts from there. `LERP` leaves out the last.

`VirtualSensor` has `flush`, `activate` and `injectEvent` against the poll thread
(`pollVirtualDeviceGroupBuffer` and `getReadyEvents`), each flag its own step. `Notify` wakes the poll
thread only when it waits. `pollMode` is the mode passed before the wait and used after it.
`NotifyEventsReady` is `notifyListeners`, and `HardwareSample` `pushEvents`, on the thread of a
hardware group. `interpolate` is chosen at first and kept: `mCurrODR` of a virtual sensor is never
set. `ActivateVirtual` makes what is in the lists old (`Stamped`), and `ActivateEnables` empties those that
nobody has been listening to. `fed` says that the hardware sensors it uses are enabled: its own
`activate(false)` disables them, and so may others that share them (`OtherActivates`). `Process` posts
what it has, or loses it to a full event queue.

## 3. The runs

Eleven runs pass; one ends with a counterexample, against a sentence of the code (section 6).

| run | question | bounds |
|---|---|---|
| MCAsyncFdWatcher | Can any interleaving lose a wake-up, run a removed callback, leave a thread behind, or fire the zero timeout? No. Does every stop complete, and is data served? Yes, but for a descriptor added while the thread is at its `select`. | two descriptors (MCT has two), a pipe of two bytes, so that it is empty, partly full and full; `pipe2` may fail; 24 037 states |
| MCHciTransports | Do the transports implement `PacketLink`? Yes. Do packets go out whole and in order while no `Send` is short? Yes. | one to three descriptors; bytes modulo 5, so that an ACL payload of five bytes needs both length bytes and payload bytes look like types and lengths; two packets of five kinds in, so that every packet comes after every other; three out, over descriptors of four bytes, shorter than a packet; 35 216 states |
| MCVendorInterface | Is the controller awake when written to, do answers reach who asked? Yes. Does the configuration end, an idle controller sleep, `Close` return? Yes, unless the watcher waits for ever for a success of the SCO configuration that was not reported inside the operation (`ScoStuck`). | two firmware commands, of which the stack also sends one, and a command of the library when LPM is enabled; one command of the stack and one unsolicited event per session, any number of sessions; `Open` with one descriptor or refused; `scocfg_cb` with success or failure inside the operation, or with either later; 190 516 states |
| MCBluetoothHci | Is a session ever left with nobody to end it? No, as long as the process lives. Do clients that come one after the other, and die at any time, make the HAL abort or end another's session? No. | two clients (the one that has the session and the one that is refused), linked at most twice each, that may die and start again; 6 563 states |
| MCTunerSession | Does a step stay in the range it was begun in? Yes, for a client that waits, and in one of the ranges for any. Is an incomplete tune pending, do metadata chains not pile up, does a closed session rest? Yes. Is a channel reported as tuned in its band? Yes, for a client that waits. | four calls, an FM range that steps wrap in, a range of two AM bands, a frequency outside both; a driver that may refuse and reports what it likes; 108 658 states |
| MCTunerSessionDestroyed | Does the destructor wait for the worker? No. | counterexample |
| MCBroadcastRadio | Is there at most one open session? Yes. Does `openSession` return? Yes, unless it has met a `step` of the session it closes. | three threads, three sessions (the one being closed, the one being made, one that a client still holds); 21 834 states |
| MCSensors | Do listener lists follow the flags through failures and a second `initialize`? Yes. While nothing fails, do triggers follow? Yes. Do switches? Yes, but for a group that a second `initialize` finds off, until one of its members is activated or deactivated. Does every sensor get its samples at its rate, whatever rates the others of its device have? Yes, from its first sample on. | two virtual sensors, one that uses two and one that uses three hardware sensors; periods of 0 (the highest rate) and 20 ms; tables with rates outside the limits, and one that cannot be read; ticks about to wrap; two `initialize`; 106 681 states |
| MCSensorCalls | Do `activate` and `batch`, access by access, do what the atomic calls of `Sensors` do? Yes, until two of them meet. Is a wrong switch or trigger always the work of two calls that met in its group, and do calls that are alone put it right? Yes, a trigger only when they change the highest rate. | two threads, either in `activate` or in `batch` (the two share no variable); ACC and MAG, which share a group, and ROTV, which reaches all three sensors; two periods; any number of calls; 338 523 states |
| MCIIOSensor | Is a flush reported exactly once unless its event was dropped, and dropped once? Yes. Does one of the two happen? Yes, in normal mode. (Events are dropped by a full buffer, a full event queue, a sensor that is disabled while they are pushed, and two `activate` that meet.) How many events does a disabled sensor still get? At most two. Do accepted timestamps go back? Not between two activations, as far as a float can tell. | a buffer of two, which a flush with its additional event fills; two flushes; timestamps 0 to 4 with a granule of 3, so that times round both up and down; both binder threads in any call; 925 282 states |
| MCSensorPoll | Is a sample fused once and gone from `outEvents` in the same turn? Yes, unless a sensor is disabled on the way. Can the flags that one thread resets while the other sets them silence all virtual sensors? No. Does one thread go on without the other? No. | both threads, each of which may not start; two virtual groups, one that needs the magnetometer; the second failed read of a device ends; one deactivation, any number of activations; 240 821 states |
| MCVirtualSensor | Are flush events only those asked for, and are injected events taken for posting in spite of lost notifications? Yes. Does an enabled virtual sensor keep computing new events from lists nobody keeps in step? Yes, as long as nobody disables the hardware sensors it uses. | all three hardware sensors, lists of two (one that is full, and one sample in place of another), with and without interpolation; one flush, two activations or deactivations of this sensor or of others that share the hardware, a buffer of one; 678 904 states |

The bounds that stop a run (`MaxPackets`, `MaxCalls`, `MaxLinks`, `MaxInits`, `MaxFlushes`,
`MaxActivates`, `MaxDeactivates`, `MaxStamp`, `MaxCommands`, `MaxEvents`) are constants named in the
modules. `MaxCommands` and `MaxEvents` are per session and sessions repeat, so the state that survives a
session is met in every combination. Deadlock is checked except where the system may stop: the process
has ended (`LOG_ALWAYS_FATAL`, abort), the session is closed or destroyed, all packets are sent, or
threads wait for each other in the one way `OpenSessionReturns` names.

## 4. Fairness

* `AsyncFdWatcher`: weak for the owner's steps inside a call and the watcher's loop (the threads are
  scheduled); strong for the return of a callback, because a callback may reconfigure the timeout any
  number of times in between. Calls, data, timeouts and signals are never owed.
* Transports: weak for `OnDataReady`, which is `AsyncFdWatcher!DataServed`. The controller owes
  nothing. Nothing is claimed about the end of a `Send`: both loops spin until the controller reads.
* `VendorInterface`: weak for both threads, for `TimerFires` (`select` times out), for answers of the
  controller and for a `scocfg_cb` that comes later. A spurious wake-up of the SCO wait is possible and never
  owed: POSIX allows it, nothing grants it.
* `TunerSession`: weak for time, the worker, the join.
* `BroadcastRadio`: strong for each thread, so that a mutex goes to each of those who want it in turn.
  It is an assumption in favour of the code; the deadlock with `step` remains in spite of it.
* `IIOSensor`: weak for the threads inside their calls and for the poll thread; strong for the sensor
  being due while it is enabled. The device delivers as long as its buffer is on, which `SwitchFollows`
  says of an enabled sensor, but for a failed write or a group that a second `initialize` has left off:
  in such a group nothing is due, and `FlushAnswered` claims nothing for it. Among the buffers there is
  always one at which the sensor is due: that is `SampledAtItsRate`.
* `SensorPoll`: weak for each thread; strong for successful reads (a device may fail in between) and
  for the samples of each sensor, as above.
* `VirtualSensor`: weak for the poll thread, for the rest of a call, for samples while the hardware
  sensors are enabled (`fed`: their devices are triggered periodically, far more often than once a second,
  so that a sample is late only after a time without any), and for notifications while the sensor
  itself is enabled. The last is an assumption. The poll threads of the hardware groups notify also
  when the sensors are only listened to, but they reset the ready flags of all modes, and
  `SomebodyNotified` says no more than that some virtual sensor is notified again and again, not each.

## 5. What is proved

The first part of `BluetoothHciProofs` is about `AsyncFdWatcher` and proves, for every set of
descriptors and callbacks and every pipe capacity (`FdsAssumption`, `CbsAssumption`, `PipeAssumption`),
that `WatcherTypeOK`, `NoLostWakeup`, `StopIsFinal`, `CallbacksValid` and `ZeroTimeoutNeverFires` are
invariants. They are not inductive as they stand. `WatcherSafe` adds `PhasesAgree`, which phases of the
owner and the watcher can coexist (a thread that runs has a pipe; an owner that is stopping has cleared
`running_`; a byte that is being drained is there), and `PairStored`: the zero callback never sits next
to a positive timeout. The argument of `NoLostWakeup` is that of the code: the flag is stored before the
byte is written, and read after the byte is drained, so a thread between the two sees either the flag or
the byte; a byte that is dropped at a full pipe is not needed, because the pipe is not empty
(`NotifyFills`).

Its second part proves of `BluetoothHci`, for any clients and any number of links (`ClientsAssumption`),
`NoOrphanedSession`, `NoFatal` and `EndedByItsClient`. The first needs no more than types: a close or a
death that takes a link away also ends the session. The other two need `Orderly`, the life of a client
that is alone: it is asking, or it has the session, one link and `unlink_cb_`, at one of the stages of
`Stage`, or it died behind its handled close and only the notification is left; and everybody else has
no link. That is why the assertion in `Shutdown` is not reached: a close and a death of the same client
are never both handled with a link.

`HciTransportsProofs` proves, for any well-formed packets, any cut of their bytes into reads and writes,
any number of packets and any capacity (`ByteModAssumption`, `PacketsAssumption`, `FdCountsAssumption`,
`SenderAssumption`), `TypeOK`, `OutgoingWhole` and the safety half of both refinements: every step of
the receiving side of H4, and of each channel of MCT, is a step of `PacketLink` or a stutter
(`H4Refines`, `MctRefines`). The invariant is about the stream, all that the controller has sent one
behind the other (`Laid`). A reader has delivered some packets and read `r` bytes of the next; this
number tells what the packetizer holds (`HasRead`), and the wire holds what follows (`OnWire`). Since
the length field is right (`LengthIsRight`: the two bytes of an ACL length are put together as they
were taken apart), a read never asks for a byte of the next packet (`ReadInBounds`), and so the byte
that H4 takes for a type byte is one, whatever the payloads look like. Sending, a descriptor has the
packets but for the rest of the one under way (`Whole`). `HasRead`, not `TypeOK`, is what is inductive:
that the packetizer's counters fit each other does not say that they fit the packet.

`TunerSessionProofs` proves, for any ranges, bands of frequencies, delays and number of calls
(`RangesAssumption`: a range is all FM or all AM and does not begin within a step of 0;
`BandsAssumption`, `DelayAssumption`, `CallsAssumption`), that `IncompleteIsPending` and
`AtMostTwoChains` are invariants and `StepStaysInRange` holds of every step. `IInv` replaces the last by
`ChainsBounded`, which counts the metadata tasks together with the tasks that will begin a chain: a
tuning task becomes a metadata task, so only the sum is kept. The lemmas on `Schedule` say that it
inserts one entry and changes none, and on `Tail` that the worker takes one. For `TunedInItsBand` the
order of the queue matters (`Ordered`, by what is left to the deadlines): a call schedules the switch
of band with no delay and the tune with some, so the switch runs first. `BandInv` says what that is
worth to a client that waits: a task that waits to tune finds its band, the one that is running is in
it, and when nothing is under way so is the program (`TunesInBand`, `RunsInBand`, `RestsInBand`).
`StepStaysInRange` is part of this: until the step is made nothing changes the program it was computed
from (`StaysInRange`); and any client's step is scheduled to a frequency of a range only.

The last part of `TunerSessionProofs` is about `BroadcastRadio` and proves, for any
number of threads and sessions (`RadioAssumption`), that each mutex is held exactly by the thread
between taking and releasing it (`RadioTypeOK`), and that at most one session is open (`OneOpenSession`).
`RadioIInv` adds `SessionsKnown`: while a thread is closing the old session, it has hold of exactly the
session `mSession` names, and while one makes the new session none is open.

`VendorInterfaceProofs` proves, for any firmware commands of the library, any commands of the stack and
any number of sessions (`LibraryAssumption`, `OpcodeAssumption`), `TypeOK`, `WakeAssertedOnWrite` and
`RoutedToOrigin`. The wake line needs that a flag that says awake is right (`WakeAgrees`) and who may be
sending in which phase (`SendsWhenUp`): the flag and the line are changed under `wakeup_mutex_`, and
`Send` looks at them and writes without letting it go. The routing needs that the library does one thing
at a time (`LibraryInStep`: it is in a callback, about to push, or waits for the answer to the command
at the head of `internal_commands`), and that this command is in one place (`InOnePlace`: being sent, on
its way out, or on its way back). `AllAwaited` relates every command and answer under way to that head;
with the client's commands held back until the firmware is configured, an opcode that both use is then
never ambiguous.

`SensorsProofs` proves, for any virtual sensors, rates, periods and sequence of calls
(`SensorsAssumption`), `ListenersFollow` and `SwitchFollows`. The calls are compositions of
`ActivateHw` and `FusionActivate`, so the lemmas say what each of these does to flags, lists and
switches and the proof of a step chains them. `HalInv` adds that before the first `initialize` the
switches are on (`SwitchesOn`), which is why the first `initialize`, which writes none, leaves them right
and no group is in `leftOff`. A later one may find switches off; `SwitchFollows` says that these groups
and no others are off with active members, and that an `activate` that reaches the group ends it.

A second invariant, `RateInv`, gives `TriggerIsMax` and `SampledAtItsRate`, and with the first one
`TypeOK`, for any tables, limits and counter width (`2 * MaxODR[h] <= TickModulus` is part of
`SensorsAssumption`; no descriptor has more than 190, and `mTicks` is a `uint32_t`). The maxima of the
library are used by their definition as a choice, so the lemmas first show that a finite set of rates
has a greatest member (`FiniteHasMaximal`). Each `batch` keeps the trigger at the maximum because it
compares the maximum before and after its own store (`HWBatchTriggers`). `Ticking` relates the time
since a sensor was last due to its ticks: they are at least the reads it waited times its rate, and too
few to overflow.

`IIOSensorProofs` proves, for any buffer, granule and number of calls (`IIOSensorAssumption`), `TypeOK`,
`FlushesKept` and `LateOnlyInHand`. The argument of the first is conservation: a flush event is to be
pushed, in the buffer, in `outEvents`, posted or counted in `lost`, and each step moves it from one of
these to another. `IInv` adds where a binder thread may be while its `activate` is not done
(`CallsAgree`: it pushes nothing then) and that of the threads inside `pushEvent` and the events pushed
late at most two are of a sensor that is disabled, because the thread that has disabled it is not in
`pushEvent`. `TimestampsInOrder` follows from what `mTimestamp` is between the test and the store of the
poll thread.

`SensorPollProofs` proves, for any virtual groups and any number of calls (`SensorPollAssumption`),
`FusedOnce`. `IInv` adds, for each place of a thread, how often the samples in `outEvents` have been
fused there, and that what is in `outEvents` outside the turn of its sensor comes from an interrupted
round (`OutOfTurn`).

The second part of `SensorPollProofs` is about `VirtualSensor` and proves, for any number of calls and
any size of the buffer and of the lists (`VirtualSensorAssumption`, `FusionSensorAssumption`),
`VirtualTypeOK` and `FlushEventsAsked`. `VirtualIInv` adds `EventInHand`: the poll thread has a flush
event in hand only between the test of `mNeedFlush` and `postEvents`, so that testing the flag never
overwrites one.

`SensorCallsProofs` proves, for any number of binder threads, any virtual sensors and rates
(`SensorCallsAssumption`), `CallsPutRight` and `ImplementsSensors`. `CallsPutRight` speaks of a group
nobody is in; to keep it, `IInv` says what a call is worth while it is under way. `Typed` is where a
call can be and what it then remembers. `Met`: two calls of a kind in one group know of each other and
have marked it doubtful. `Alone`: to a group that no other call has touched since this one began, the
call has still to write what is wrong in it, or has read enough to know. In `isActiveGroup` that is what
the sensors already looked at were like, in `HWBatch` that `old` was the maximum and `new` is that of the
sensors looked at. A step of another thread changes nothing there (`TouchesItsGroups`, `MetStays`), so
each step of the call keeps it (`ActivateStaysAlone`, `BatchStaysAlone`), and `Return` finds the group
right (`PutsRight`).

For the refinement, the atomic state `rest` does not move while a call runs. `OneAtATime` adds to `IInv`
that until two calls have met `Ends` holds: the state the call is heading for, the rest of its
`activate` or `batch` done atomically from where it stands (`ActivateEnds`, `BatchEnds`), is the state
the atomic call would have reached from `rest`. At the start the two are the same (`BeginEnds`), no
access changes the first (`ActivateEndsStay`, `BatchEndsStay`), at the end nothing is left to do, so
that `Return` is the atomic call (`SameActivation`, `SameBatch`). The nested calls of a virtual sensor
come out in the order of the code, so the lemmas take the atomic form apart sensor by sensor.

Each proof has one step per action for `IInv /\ [Next]_vars => IInv'`, and the theorems follow by PTL.

Only model-checked: liveness under fairness (all of section 4), and with it the liveness half of
`H4ImplementsLink` and `MctImplementsLinks`, which are out of the prover's reach. Every invariant of a
passing run, and every refinement as far as it is about steps, is a theorem.

## 6. Where the code does less than one would think

The first is a run that TLC ends with a counterexample; `PROJECT.json` quotes the line. The others
are in the models as the code has them, and the properties that they would break are stated beside
them, with the condition under which they hold.

1. **The destructor does not wait** (`TunerSession.cpp:84`), and members are gone before the worker is
   joined (MCTunerSessionDestroyed).
2. **An active sensor with its buffer off** (`Sensors.cpp:309`): nothing in the HAL keeps its two
   binder threads apart. One deactivates the last sensor of a group and finds nothing active; the other
   activates a sensor there and writes 1; the first writes its 0. What such calls leave, the next
   `activate` in the group that is alone repairs. The trigger is written only when a call sees the
   highest rate change, so a stale one stays until then. `CallsPutRight` says that there is no other
   way. A client that makes one call at a time does not meet this; the HAL does not make sure of it.
3. **An empty payload stops the line** (`hci_packetizer.cc:81`): `read` of 0 bytes returns 0, which is
   taken for the end of the file, for ever. `H4ImplementsLink` and `MctImplementsLinks` are about
   packets with a payload.
4. **The SCO wait may not end** (`vendor_interface.cc:116`): `sco_config_cb` sets the status only for a
   success and notifies nobody. After a failure, or a success that comes later, the watcher waits on
   `cv` for ever (but for a chance wake-up) and `Close` with it. The liveness properties of
   `VendorInterface` say `<>[]ScoStuck \/ ...`.
5. **A second descriptor is not selected on** (`async_fd_watcher.cc:42`): one that is added while the
   thread sleeps in `select` is not in its set and nothing notifies it (`Overlooked`, left out of
   `DataServed`).
6. **A refused client ends another's session** (`bluetooth_hci.cc:93`): `initialize` links it and takes
   over `unlink_cb_` before it is refused. `EndedByItsClient` and `NoFatal` say `~overlapped`.
7. **A channel tuned in the wrong band** (`TunerSession.cpp:191`): the band compared with is the one of
   the last task that ran, not of the last that was scheduled. `TunedInItsBand` says `~disturbed`.
8. **`openSession` and `step` deadlock** (`BroadcastRadio.cpp:115`, `TunerSession.cpp:374`): opposite
   lock orders. `OpenSessionReturns` says that this is the only way not to return.
9. **Writes are not repeated** (`HciProtocol`, `Sensors`): H4 does not go on after a short `writev` and
   no caller looks at the result (`OutgoingWhole` says `~shortSend`); a sysfs write that failed leaves
   switch and flags apart (`SwitchFollows` and `TriggerIsMax` say `~failed`); events that the queue to
   the framework has no room for are dropped, the report of a flush among them (`lost`).
10. **At `Close`** the library pushes onto `internal_commands` on one thread while the other pops:
    `RoutedToOrigin` is about an open interface.
11. **A disabled sensor gets more samples fused than it has** (`Sensors.cpp:158`): `outEvents` keeps
    the events of a sensor that is not active, and they go to `FusionSensor` with the next ones again.
    `FusedOnce` says that this is the only way.
12. **A flush waits for the normal mode** (`IIOSensor::getReadyEvents`): in data-injection mode only the
    other buffer is drained; on the return up to 50 old samples are posted with the flush.
    `FlushAnswered` says `mode = "NORMAL"`.
13. **One device's failures end both threads** (`Sensors.cpp:168`): `retryCount` is never reset, and the
    sixth failed read, however far from the first, sets the flag of all. The virtual threads do not
    look at it while they wait, and stay. `BothEnd`.
14. **A second `initialize` enables what stays off** (`Sensors.cpp:345`): it calls `activate` of the
    sensors, not of `Sensors`, and so writes no switch. A group that was off stays off with all its
    sensors enabled, until one of them is activated or deactivated (`leftOff` in `SwitchFollows`).
15. **Two `activate` that meet empty the buffers** (`IIOSensor.cpp:174`): the branch under "Flush event
    queues when sensor is deactivated" asks the flag it has just cleared, and runs only if another
    thread has set it again: then it drops the events, flush reports included, of a sensor that is
    enabled (`ActivateEmpties`; `FlushesKept` counts them in `lost`). Without the second thread nothing
    is emptied.
16. **A step queued before a tune may end in the old range** (`TunerSession.cpp:278`): for a client that
    does not wait, the tune that is running comes first and the step then leaves its range.
    `StepStaysInRange` says `~disturbed`. After a tune or a seek to a frequency of no range `step` fails
    ("Can't find current band").
17. **Virtual sensors share one flag per hardware sensor** (`Sensors.cpp:519`): deactivating one disables
    the hardware sensors the others use, and those that the client has activated itself; a client that
    deactivates a hardware sensor starves the virtual ones that listen to it. `DataComputed` says `~fed`.
18. **Uninitialised**: `mTicks` may delay the first sample (`SampledAtItsRate` starts after it);
    `mTerminatePollThreads` may end the threads before they have begun (`Init` of `SensorPoll`);
    `mCurrODR` of a virtual sensor decides whether it interpolates (`VirtualInit`).

Met while modelling, and no property:

* `Open` refuses the four descriptors that `bt_vendor_lib.h:91` documents (`vendor_interface.cc:279`);
  the fake answer replaces any event with the bytes of the capabilities opcode in that place, whatever
  its code (`vendor_interface.cc:439`).
* A flush between the test of `mNeedFlush` and the reset of `mAdditionalInfoNeeded` is not answered
  before the next one (`VirtualSensor.cpp:105`).
* `mTimestamp` is a `float` of nanoseconds: after 39 hours its steps are 16 ms, longer than the period
  of a sensor at 100 Hz. The model of a hardware sensor has this as `Granule`; that of a virtual sensor
  takes samples to be further apart. From 104 days on (2^53 ns) the spacing is more than a second, and
  `process` makes no event of anything (`GravitySensor.cpp:22-32`).
* `FusionSensor::activate` empties its lists without the lock the poll threads take; a list that starts
  anew makes the pairs of its samples with those of the others late by as many places.
* The group of GEOMAG has the mode without magnetometer, while `common.h:90` describes that sensor as
  "use accel mag (geomag rotation)".
* A period under 15 259 ns, which the framework does not ask for, is a conversion of a `double` that
  does not fit `uint16_t`.
* `preActivateActions` of `OrientationSensor` and `GameRotationSensor` sets `mAngleX` twice and
  `mAngleY` never.

## 7. What is not modelled

* `BluetoothAddress`: a sequence of property and file reads without state, which no other file calls.
* `bdroid_buildcfg.h`, `radio/resources.h`: constants and an image.
* The fusion formulas (`GravitySensor`, `RotationVector`, `GeoMagRotationVector`, ...), the median
  filter and the resolution of `IIOSensor`: floating point on one sample after the other. The loop the
  formulas share, which takes data by its timestamp, is modelled.
* The contents of events and of `ProgramInfo`; property and image getters of the radio.
* `Sensors::stopPollThreads`: only the destructor calls it, which the service does not reach.
  `VirtualSensor::batch` and `FusionSensor::batch` are never called.
* `service.cpp` of the three HALs: they register the services; what matters is the number of binder
  threads, which the models take from them (1, 4, 2).
* Product configuration, init scripts, media profiles, permissions, overlay, SELinux policy:
  declarative data.

## 8. Plan

Done, in the order of importance: `AsyncFdWatcher` and its proofs; `PacketLink`, the packetizer, both
transports, the sending side; `VendorInterface`; `BluetoothHci` and `TunerSession` with their proofs;
`BroadcastRadio` and its proofs; `Sensors` with rates and ticks, and its proofs; `IIOSensor`,
`SensorPoll`, `VirtualSensor` with `FusionSensor`, and their proofs; `SensorCalls`, the calls on two
threads, and its refinement of `Sensors`; the proofs of `VendorInterface`, of the transports and of
`SensorCalls`.

Left, models:

1. `initialize` a second time against posting threads: the event queue is replaced without `mWriteLock`.
2. The push on `internal_commands` against the match at `Close`, and the order of two `transmit_cb`.
3. Two sessions on one tuner descriptor: `TunerSession` composed with `BroadcastRadio`.
