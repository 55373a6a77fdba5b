# A TLA+ model of Remora-RT1052

Remora-RT1052 turns an Ethernet CNC board into a motion controller of LinuxCNC.
LinuxCNC computes frequencies in a 1 kHz servo thread; its driver
(`LinuxCNC/components/Remora-eth`) sends them in UDP datagrams; the firmware
(`Remora-RT1052-cpp/source`) makes step pulses of them and reports counts and
inputs back. This directory models the parts that carry that logic, checks them
with TLC and proves the central properties with TLAPS.

Paths below are relative to `Remora-RT1052-cpp/source/` unless they begin with
`LinuxCNC/`.

## 1. The system

| Component | State | Operations | Interacts with |
|---|---|---|---|
| Main loop (`remora-rt1052.cpp`) | `currentState`, `threadsRunning`, `DMAthreadRunning`, `rxData` | one iteration: the switch (SETUP, START, IDLE, RUNNING, RESET), `EthernetTasks`, the service of the DMA thread, the check of a new configuration | polls the watchdog, runs the network stack, starts, serves and stops the DMA thread |
| UDP server (`ethernet.cpp`) | `txData.header`, `rxData` | `udp_data_callback`: read and write requests; `udp_mpg_callback` | called from the main loop; tells the watchdog; disables interrupts for its copy |
| Watchdog (`modules/comms`) | `data`, `status`, `noDataCount` | `update` (servo interrupt), `dataReceived` (main loop), `getStatus` | shared between an interrupt and the main loop |
| DMA thread (`thread/dma.cpp`, `thread/pruThread.cpp`) | two descriptors linked in a ring, two buffers of 1000 slots, `stepgenDMAbuffer`, `DMAtransferDone` | `configDMA`, `startDMA`, `stopDMA`, `updateBuffers`, `run`, `EDMA_Callback` (interrupt) | the eDMA controller copies a slot per microsecond into `GPIO1->DR_TOGGLE` |
| DMA step generator (`modules/DMAstepgen`) | `isStepping`, `stepLow`, `dirChange`, `prevRemainder`, `rawCount` | `makePulses`, `makeStep` | fills the active buffer, reads the direction pin back |
| Base step generator (`modules/stepgen`) | `DDSaccumulator`, `rawCount` | `makePulses`, `stopPulses` (base interrupt) | reads `rxData` whenever it interrupts the main loop |
| Encoder, QDC, digital pins, PWM, pendant (`modules/*`) | counts, pulse counters, bits of `txData.inputs`, serial buffers | `update` in the base or the servo thread, the index interrupt | share `txData` and `rxData` |
| Configuration upload (`tftpserver.cpp`, `remora-rt1052.cpp:168-299`) | block number, two areas of flash, `newJson` | write request, data block, `checkJson`, `moveJson`, system reset | stops all threads |
| Driver of LinuxCNC (`LinuxCNC/components/Remora-eth/remora-eth-3.0.c`) | `status`, `resetOld`, `errCount`, `rxData.header`, a socket | `pru_read`, `pru_write`, `pru_transfer`, `update_freq` | the firmware, over an unreliable network |
| Pendant driver (`LinuxCNC/components/NVMPG`) | `posOld`, the last state of the buttons, `selectedAxis`, `updateFlag` | `update`: every few hundred cycles, sample and send | pins of LinuxCNC; a datagram to the board, without an answer |
| lwIP, NXP drivers, CMSIS, ArduinoJson, board files | | | vendored; modelled from their use |

What is hard here:

* **Interleaving.** Three interrupts (base 40 kHz, servo 1 kHz, end of a DMA
  buffer every 1 ms) run between any two steps of a main loop that shares
  `rxData`, `txData`, the watchdog's flags and `DMAtransferDone` with them.
* **Two clocks for one buffer.** The controller moves to the other buffer by
  itself; the main loop must find out which one is free, clear it and fill it
  before it is played.
* **Continuity.** A pulse, a turn or a remainder crosses from one period into
  the next, across two buffers and a pin that is only ever toggled. One lost
  toggle inverts the pin for good.
* **Loss.** Either side must notice a dead link, tolerate a lost datagram and
  recover, and nothing may move on stale commands.
* **Failure half-way.** Blocks of an upload come twice or not at all, pages fail
  to program, and the power may fail while a configuration is moved in flash.
* **Units and widths.** Slots and counts, 16 and 32 bits, wrap-around.

What makes each component correct: the watchdog's status means recent data; the main
loop moves nothing without it; the DMA thread plays each fill once, whole and in
order; a step generator makes exactly the steps it reports, with the times the drive
needs; the driver keeps its status in line with the link and feeds back what was
answered to its requests, sends nothing beyond its limits and settles where it is
sent; an encoder keeps its count and shows every index with the count that belongs
to it; a display shows whole frames and ends up right; an upload is stored as it was
acknowledged, and the board boots the old or the new configuration. `PROJECT.json`
lists the hazards one by one, each with its line and the properties that watch it.

## 2. Modules

```
PulseStream   <- - implemented by - -  DmaService --+
                                                    +--> DmaThread
DMAstepgen  <-- StepOutput <-- MCStepOutput --------+        ^
RemoraComms <-- Firmware ------------------------------------+
     ^- - instance - -  Link --> HostLink
Stepgen      <-- MCStepgen
UpdateFreq   <-- MCUpdateFreq
Inputs       <-- MCInputs
Pendant
ConfigUpload <-- MCConfigUpload
```

(`A <-- B`: B extends A.) `FirmwareProofs` (with the proofs about `RemoraComms` and
`DmaService`, which it extends as well), `StepOutputProofs`, `StepgenProofs`, `UpdateFreqProofs`, `InputsProofs`, `LinkProofs`,
`PendantProofs` and `ConfigUploadProofs` extend the modules of their names.

### DmaThread, DmaService, PulseStream

`DmaThread` is the DMA thread as a component: the state and its operations,
without an order. A buffer is the *set* of what was ORed into it; `memset` is
the empty set. `tcd` is the descriptor in the channel, `active` is
`stepgenDMAbuffer`, `done` is `DMAtransferDone`. `MajorComplete` is the hardware
at the end of a buffer together with `EDMA_Callback`; `UpdateBuffers`, `Run`,
`ClearDone`, `RunAndStart` and `StopThread` are the calls of the main loop. A
start clears nothing and a stop leaves buffers, active index and flag as they
are, as in the code (`dma.cpp:69-75`, `remora-rt1052.cpp:593-598`).

`DmaService` calls them in the order of the main loop: `BeginSession` or `EndSession`
in the switch, the test of the flag, and `updateBuffers`, `run` and the reset of the
flag (`:655-660`) as three steps, `ServiceUpdate`, `ServiceRun` and `ServiceClear`. Each fill has a
number. A buffer lasts 1 ms, and the main loop should have served a completed one
before the next completes. The constant `Prompt` makes that an assumption, by
restricting `MajorComplete`. `DmaService` does without it: an end is *late* when it finds the
flag still set. It may come before the test, so that a period is skipped; between
`updateBuffers` and `run`, so that the fill goes to the buffer that has just begun to
play; or before the reset of the flag, which then wipes it out, so that a buffer is
played twice. `Firmware`, `StepOutput` and their runs have `Prompt = TRUE`.
`onTime` and `base`, ghosts, count the ends in time since the last late one.

`PulseStream` is the promise without buffers: what is accepted in a period is
played in the next, and nothing is lost, repeated, merged or overwritten, unless a
period ends late (`Slip`), and then until the next that does not. A
session begins with anything in its first two periods, because the code does not
clear the buffers. `IsStream` is the refinement: `current` is the loaded buffer,
`queued` the other one, unless its completion is still to be served, and `late` is a
session without an end in time since it began or was late.

### RemoraComms, Firmware

`RemoraComms` is the watchdog: `CommsUpdate` translates `update` with its counter
of width `CountMod`, `DataReceived` the call of the network handler. `silent` is a
ghost that counts the updates since the last data, without the code's restart.

`Firmware` composes it with `DmaThread` and the main loop. `pc` splits an
iteration into switch, ethernet and the steps of the DMA service; the servo tick
and the end of a buffer come between any two. Each case of the switch is one
action, with every assignment of the case (RESET clears `rxData`, stops the
thread and goes to IDLE in one; the clearing byte by byte is in `Stepgen`).
ST_STOP and ST_WDRESET are never entered and are left out. Commands are abstracted
to "zero" or "move". `MaxLag` is how many servo ticks one iteration may take;
`LagAssumption` limits it to the watchdog's own time-out, and the bound is exact:
with `MaxLag = DataErrMax + 2` TLC finds a status that rises and falls unseen and
a command that stays.

### DMAstepgen, StepOutput

`DMAstepgen` is `makePulses` and `makeStep` of one joint, as arithmetic on times
within a period: `AddValue`, `DirPos`, `FirstStep`, `StepTimes` and `HighSlot`
are the lines 133-239 and 270-312, and `Toggles` is the set of slots they write.
Two ORs into one slot are one toggle, which the set gives for free and which is
what the hardware does. `stepPos` has its width (`StepPosMod`), `prevRemainder`
its units.

`StepOutput` plays the buffers. The main loop serves a completed buffer when
`FillSlots` slots of the next have been played; `PlayTo` toggles the pins, and a
drive counts the rising edges by the level of the direction pin and records which
of the four times of the diagram (`DMAstepgen.cpp:110-123`) were too short. The
last edges are remembered across buffers. `Serve`, `ServeDisabled`, `EndBuffer`,
`Abort`, `StartRunning` and `StartDisabled` are the main loop and the hardware
acting on both. `DisableWhen` restricts when a joint may be disabled.

### Stepgen

The step generators of the base thread for several joints. `BaseTick` is
`makePulses` of every joint (`stepgen.cpp:68-110`), which comes between any two
steps of the main loop. `WritePacket` is the copy with interrupts off;
`BeginReset` and `ClearByte` are ST_RESET's loop with interrupts on
(`remora-rt1052.cpp:631-635`), from the last byte down. A word is two halves
here: enough to be torn. The step is seen as the change of one bit of the
accumulator, as in the code, while `CountIsWholePart` speaks of quotients. Left out are
the rounding of the float product, the levels of the pins and the `setPoint` and
`outputs` fields. The commands are within `BaseFreq`; the driver is
configured for that.

### HostLink

`pru_read` and `pru_write` with their `pru_transfer`: send, then either take the
next datagram from the socket (`Taken`) or give up after 200 ms (`GivenUp`). The
firmware answers in the order of the requests, the network loses datagrams while
it is "lossy", and becomes "good" or "dead" for ever at some point. `old` marks
the datagrams that belong to earlier transfers. `MayBeLate` says whether an
answer may come after it was given up; `ErrMax` is the 2 of `errCount > 2`.
`fed` and `misses` are ghosts. The payload, the spike filter, PRU_ERR and
PRU_ESTOP (which this firmware never sends) are left out.

### Link

Both ends in one time. `Link` extends `HostLink` with ticks of a millisecond, each an
update of the watchdog (an instance of `RemoraComms`, `up` for its `status`) and a
cycle of the driver; the driver waits `Timeout` ticks for an answer, the watchdog
`DataErrMax` for a request. Within a tick the network delivers or loses what it was
given. `Request` is the board's handler: every request feeds the watchdog, a write
brings a command (`ethernet.cpp:102-160`). `Acted` is the main loop, which drops the
command when the status falls; its steps are in `Firmware`, and here it takes no
time. `age`, a ghost, is how long ago the command came. `HostLink` by itself serves
the run in which answers may be late.

### UpdateFreq

`update_freq` for one joint, in the cycle of the servo thread as the shipped `.hal`
files order it: read, motion controller, update, write. `MaxAccel`, `Error`,
`VelCmd` and `NewVel` are its limits, its deadband, its command in either mode and
its limit of the change. Everything is whole numbers, of units that are finer than the
code's: `Count` of them make a count, and `Hertz` of the frequency that pgain makes of one
unit are one Hz. So there are commands between two counts and frequencies below one Hz.
`WholeHertz` is the assignment of the float `freq` to an `int32_t` in `pru_write`
(`remora-eth-3.0.c:831`, types at `:64` and `:100`), which drops the fraction on both sides of
zero: a joint may come to rest with a `freq` that is not zero, outside its deadband by the
error that pgain makes less than one Hz of. `Feedback` is whole counts.
`pos_scale` cancels out, since the code
multiplies the velocity by it and the limits by its size. `maxvel` stays 0, because
the driver never exports it (`:325-333`), and the test for a disabled joint is not
there, because it tests a pointer (`:691`). The firmware follows the last write;
a transfer that fails takes so long that its watchdog stops it (`Fails`), which
`Firmware` justifies. The gains pgain and deadband are constants, ff1gain is 1.
`standing`, `following` and `losses` are ghosts.

### Inputs

A position encoder with its index: `Encoder::update`, which decodes two channels in
the base thread, or `QDC::update`, which reads the hardware's counter and learns of
the index from an interrupt. `BaseTick` is one tick of the base thread with the
motion of the axle before it: `Counted` and `Decode` are the decoder, and `Latch`,
`Maintain` and `Release` the three branches of the index (`encoder.cpp:91-118`,
`qdc.cpp:290-312`). A tick interrupts what has a lower priority between its two
steps, once: the servo thread, which loads and stores the same word for another
pin (`ServoLoad`, `ServoStore`); the index interrupt, which raises its flag before it
saves the count (`IndexFlag`, `IndexSave`); and the main loop, which copies the count
and then the bits into a reply (`ReplyCount`, `ReplyBits`). `Levels` are the channels of
an axle at a position. The constructor leaves `state` uninitialised, hence any `old`.
`offset`, `latch`, `edge`, `mark`, `stale` and `sampled` are ghosts.

### Pendant

The buttons from the serial port by `NVMPG::update` to the pins of LinuxCNC (`Poll`,
`Feedback`), and the display back: `Sample` is the component's `update` when its counter
has run, with `Stepped` for the axis buttons and `Report` for the datagram;
`ReceiveHalf` and `ReceiveRest` are `udp_mpg_callback`, whose copy the servo thread may
interrupt; `Forward` is `NVMPG::update`, which copies the payload into the buffer of the
serial DMA in any case but starts it only when the line is idle, and `Line` is that
DMA, which takes each half of the buffer when its turn comes. A payload is a position
and an axis; halves that come from different payloads make a torn frame. Values of
`Positions` outside `Exact` are doubles that no float equals: the component compares
the double with the float it stored, so they always count as moved. `lost` is a
ghost.

### ConfigUpload

The TFTP server with the main loop's check and move, against a client like tftpy,
which `upload_config.py` uses. `Begin`, `Repeat`, `GiveUp` and `TakeAck` are the
client, `Lose` the network, which is a set of datagrams, received in any order; a
repeated one may arrive after it is wanted. `WriteRequest` is the request with its
control block out of a pool, the erase of the sectors and the answer; `DataBlock` a
block, of which `InOrder`, `Carries`, `IsLast`, `Answer` and `Closed` are the
decisions. `Check` is `checkJson`; `Move` and `MoveStep` are `moveJson`, a sector or
page at a time, with `MoveFails` for its early returns; `Boot` is the restart. A
page of flash can be programmed without an erase, with a content that is good for
nothing, and may fail to program; the power may fail at any step. `AreaBlocks` and
`StorePages` are the sizes of the areas that the files may take. Abstracted: the CRC
tells any two contents apart; the upload area after a loss of power is erased before
it is read again; a port is used once between two restarts; the metadata is part of
the content; the index interrupts of the QDC are left out. `failures`, `disturbed`
and `cut` are ghosts.

## 3. Runs

Passing:

| Run | Question | Properties | Bounds |
|---|---|---|---|
| `dma_sessions` | Is every fill played once, whole and in order while the main loop keeps up, whatever the sessions before left? What does a late service cost? | `ServiceTypeOK`, `InOrder`, `NotMerged`, `IsStream` | `Prompt = FALSE`: ends at any point of the main loop, any number of them late; 12 fills, 3 sessions: both parities of the active index at a restart, after a stop with the flag set and not set |
| `firmware` | Does the machine run on recent data only, and stop in bounded time without it? | `TypeOK`, `StatusMeansData`, `StopsInTime`, `PlayingBufferStable`, `RunsOnData`, `SilenceStops`, `DataRuns` | time-out after 2 updates instead of 5; up to 3 ticks per iteration, the most the assumption allows; a counter of 8 values, so that a counter that is not restarted is seen to wrap |
| `step_output` | Are the steps made those reported, with the times asked for? | `TypeOK`, `CountIsPosition`, `StepPinKnown`, `DriveTimes` | 8 slots of 2 counts; frequencies from less than one step per period to the limit, both signs, and 0; pulses of 2 slots, which cross buffers; one session, any length |
| `stepgen` | Does the base thread lose steps or follow torn commands? | `TypeOK`, `CountIsWholePart`, `EnabledFollowsPacket`, `SlowJointsStep` | 2 joints, words of 2 halves of 2 bits, 4 units per step: the accumulator and the count wrap; a positive, a negative and a zero command |
| `link` | Do both ends tolerate loss, notice death, move on recent commands only, and recover? | `LinkTypeOK`, `CommandFresh`, `ToleratesLoss`, `DeadLinkNoticed`, `FailureStops`, `LinkWorks` | 3 errors and 5 updates as in the code; 14 ticks for the 200 of the driver's time-out, the least beyond the bound of `CommandFresh`; no late answers |
| `inputs` | Is no edge lost, and every index shown with its count? | `TypeOK`, `PhaseKept`, `IndexSeen`, `ReportedCount`, `CatchesUp` | an axle of 5 positions with a mark at either end; moves of up to 2 edges per tick, one of them of 2; a pulse of 2 ticks and a reply at least every 3; all kinds |
| `pendant` | Does the display show whole frames, and does it end up right? | `TypeOK`, `WholeFrames`, `CatchesUp` | 3 positions, one of them no float; 3 axes; frames of 3 ticks, datagrams at least 4 apart; 4 moves, buttons and losses in any order |
| `update_freq` | Does a joint keep to its limits, and settle where it is sent? | `TypeOK`, `KeepsAcceleration`, `Settles` | both modes; a gain of 1/3; two units in a count, in a Hertz and in the deadband; no limit of the acceleration, half a Hertz, and a too high one, changed in every cycle, as are enable and three commands, one of them beyond the limit, one between two counts and two whole Hertz; one failed transfer anywhere |
| `config_upload` | Is what is acknowledged stored, and a broken configuration never booted? | `TypeOK`, `BootsWhole`, `AckedIsStored`, `Completes` | two files of 2 blocks, the second with an empty block at the end; 1 and 2 pages, sectors of one page; 2 control blocks, 2 sessions, 2 datagrams under way; one failure of the flash or the power |

The constants of these runs stay within what the code handles; three runs step
outside, one constant at a time, and TLC shows what happens:

| Run | What the code does | Against |
|---|---|---|
| `step_restart` | a second session replays pulses left in the buffers; the count is off by them | `DMAstepgen.h:54` "current position raw count" |
| `upload_long` | a file beyond the two sectors that are erased is acknowledged and refused, unless the flash was clean | `README.md:7` "dynamic configuration capability via TFTP upload" |
| `host_late` | one late answer shifts requests and answers for ever; the status stays up, the feedback stands still | `remora-eth-3.0.c:727`, `:791` |

Some properties hold within the constants of their runs only, as TLC shows when
they are changed:

* `CountIsPosition` fails at 500 kHz in real sizes (`Slots` 1000, `Half` 500, `ServoFreq`
  1000, all four times 1, `StepPosMod` and `CountMod` 65536, `FullSpeed` and `RealFills`
  of `MCStepOutput`): a step at the end of a period is put back into the slot where the
  one before ends, and both vanish. `README.md:11` of the repository says "Stepgen running
  at up to 500khz via DMA".
* `StepPinKnown` fails with `DisableWhen = "any"`: a joint that is disabled while pulses
  are queued ends with inverted pins (`DMAstepgen.cpp:260`). The run disables a joint
  only when nothing is left to play.
* `DriveTimes` fails with a hold of two slots and a remainder carried over, because the
  code compares counts since the rising edge with slots from the falling edge
  (`DMAstepgen.cpp:177`), which makes no difference for a hold of one slot; and with a
  setup beyond 65 slots in real sizes (with `RealFrequencies`), where 16 bits overflow
  (`:212`).
* All three fail with `Prompt = FALSE` (`dma_sessions` shows what a late end does to the
  periods, and that it is over after two ends in time; the pulses skipped or played twice
  are not what the count says), and with `PowerUpFlags = {TRUE}`: no constructor
  initialises `isStepping` and `dirChange` (`DMAstepgen.h:50-51`).
* `RunsOnData` fails with `PowerUpStatus = BOOLEAN`: no constructor initialises `status`
  (`RemoraComms.cpp:4`).

And some bounds are exact: TLC violates the property one beyond.

* `LagAssumption` of `Firmware` (see there).
* `CommandFresh`: a command is followed for at most `2 * DataErrMax + 2` ticks, 12 on
  the board. Twice the watchdog's time, because a read feeds it as well
  (`ethernet.cpp:131`): a driver that is disabled after a write and reset in time sends
  one read, and then either a write or nothing for 200 ms.
* `Gap <= IndexPulse + 1` of `Inputs`: a pulse of three servo periods, 120 ticks, stands
  against a reply every 40, so two replies may be lost.
* `MinGap > FrameTime` of `Pendant`: 52 bytes at 115200 Bd are 4.5 ms, and the shipped
  `remora-nv-mpg.hal` samples four times a second. The code itself protects neither
  the payload nor the transfer.

Notes on bounds. `step_output` needs `StepPosMod` only larger than a small period.
`CountMod = 4` tells any two counts apart that differ by less than a period's steps.
`DriveTimes` concedes one slot of the step space, because a step at the very end of a
period is put back by one slot by design (`DMAstepgen.cpp:222-225`). `FillSlots` says that
the direction pin is read after the turn of the playing buffer: with a fill at slot 0
the turn is made twice. On the board the buffer is cleared first, which takes longer
than the first slots, but nothing in the code orders the two; it is listed as a hazard.
The shipped `LinuxCNC/ec500-rt1052-DMA.txt` has 8681 bytes and is a file such as
`upload_long` speaks of. In `update_freq` one failure is enough, because the loop closes
again within the run and a failure may come at any phase of it; a gain this high makes
the joint overshoot, which a real gain of 1/1000 does not. `Settled` allows a joint at
rest an error of the deadband and what is less than one Hertz, exactly: with one unit
less, or with `freq = 0` instead of `speed = 0`, TLC finds a joint that stays where it is.
In `link`, what matters about
200 ms is that they are longer than anything the watchdog allows; the proof covers
every larger value. In `inputs`, the positions are a little more than one period of the
channels; every transition of two bits and every order of interrupts occurs, and the
safety properties but `ReportedCount` are proved for any axle.

What the properties leave out, by a ghost that names exactly the case:

* `BootsWhole`, by `cut`: the power or the flash failed during the move, when the old
  configuration is erased and the new one not written. The code has no provision for it.
* `InOrder` and `IsStream`, by `onTime`: the periods after a late end, up to two ends in
  time. `NotMerged` covers them.
* `KeepsAcceleration`: the first write after an outage or an enable, since the driver
  limits the change of what it computed last and not of what the joint did.
* `ReportedCount`, by `stale`: a tick came between the flag of the index interrupt and
  its count (`qdc.cpp:318`), so the index is shown with the count of the index before. And
  `IndexSeen`, by `lost`: the servo thread stored a word over the bit that the base
  thread had just set (`encoder.cpp:100`); an index that is latched before the lost one
  has been taken back is not told apart from it.
* `CatchesUp` of `Pendant`, by `lost`: the last datagram of a machine at rest on a float
  was lost. It is not sent again. A position that is no float is sent with every sample,
  which repairs a loss. Releasing one axis button while the other is held steps the
  axis again (`LinuxCNC/components/NVMPG/nvmpg.c:513`); no property speaks of it.

The hazards of `PROJECT.json` that have no property are such cases, or what a constant of
a run excludes as the lists above say, or details that are not modelled; their notes say which.

No run switches off the check for deadlock. `StepOutput` has an `Idle` step, the
main loop in ST_IDLE; `DmaService` has `Pass`.

### Fairness

* `Firmware`: weak fairness of the main loop (nothing in it blocks; `printf` goes
  to a debug console) and of the servo tick (a periodic timer). None of the
  network: packets may stop at any time.
* `Stepgen`: weak fairness of the base tick, and of the byte loop once begun.
* `HostLink`: weak fairness of the servo thread (every transfer ends by the 200 ms
  time-out), of the firmware's answer and of arrival, which is what "good" means.
  Loss, repair and death are never forced; the liveness properties say under
  which network they hold.
* `Link`: the same of the driver, of the board's handler and of arrival, and weak
  fairness of the tick, which is enabled once the tick's traffic is done.
* `Inputs`: weak fairness of the base tick (the axle may stand still), of the end of a
  servo thread's store, of the index interrupt and of the replies.
* `Pendant`: weak fairness of the sample, of the handler, of the servo tick and of the
  feedback, all periodic. Moves, buttons, losses and the status are never forced.
* `UpdateFreq`: weak fairness of the cycle. That transfers fail for ever is
  excluded by the bound on their number.
* `ConfigUpload`: weak fairness of the main loop and of the client's repetitions; it
  is never forced to begin or to give up; strong fairness of receiving a datagram
  and an acknowledgement, a network that does not lose all of them when it is
  given them again and again.

## 4. Proofs

TLAPS proves these for every value of the constants that satisfies the named
assumptions.

* **FirmwareProofs, of `DmaService`.** `ServiceTypeCorrect`, `InOrderCorrect`,
  `NotMergedCorrect` and `StreamRefinement`, with or without `Prompt`. `InOrder` speaks of
  the loaded buffer only and is not inductive: `ServiceIInv` says where the main loop must be
  when a flag is set (`Serving`); that the active buffer is empty when `run` begins and, unless
  an end was late, is not the one that is played (`Cleared`); and, from the first end in
  time on, which numbers the fills have and what both buffers hold, by whether the completed
  one has been served (`Counting`, `NextPeriod`). After a late end these start again at the
  next that is in time. The refinement maps an end to `Advance` or, if it is late, to `Slip`,
  a fill to `Accept`, or to `Slip` before an end was in time, and every other step
  to a stutter; its proof goes action by action.
* **FirmwareProofs.** Of the watchdog alone, `StatusMeansDataCorrect`: the inductive
  invariant relates `noDataCount`, which restarts at a time-out, to `silent`, which does
  not. Of the composition, `TypeCorrect`, `StopsInTimeCorrect` and `RunsOnDataCorrect`. All
  assume that `status` starts as FALSE (with another value `RunsOnData` is
  false). The watchdog's invariant is reused. `Age` bounds `silent` by the state and
  the ticks of the iteration: in SETUP and START the command is zero, in START
  unless data is pending; in IDLE a command is there only if its data has not yet
  been seen by the watchdog, or was in this iteration; in RUNNING `silent` is at
  most the time-out plus this iteration, in RESET one iteration more. `DmaStates`
  says that the channel runs exactly when `DMAthreadRunning` says so, and only in
  RUNNING and RESET. `LagAssumption` is what makes the step from IDLE inductive. Assuming
  `Prompt`, `BuffersApartCorrect` is `PlayingBufferStable` under the whole main loop; its
  invariant `Apart` says that a service runs on a completion only, and that between
  `updateBuffers` and `run` the active buffer is the one that is not played.
* **StepOutputProofs.** `TypeCorrect`: the toggles of every fill lie within the buffer,
  for all sizes of a period that hold a step, its hold and its setup (`Fits`). And for
  one session of the thread (`OneSession`) `CountIsPositionCorrect`,
  `StepPinKnownCorrect`, `StepTimesCorrect` and, with a hold of one slot,
  `DriveTimesCorrect`, for all frequencies and times that it allows and any number of periods.
  The proof first shows `makePulses` right about one fill. In counts: the steps lie in the
  period, a step time apart, after the rest of the last one and after a turn's setup
  (`FirstStepIs`, `StepTimesAre`). In slots: each step has one of its own, and they keep
  their distances (`HighsGap`, `HighsCount`, and `HighsAfter` for what fell in an earlier
  period, by what of it is in `prevRemainder`). Then on the pins: the level in every slot of
  a buffer that only holds toggles (`LevelIs`, by the least slot where it would be
  another, as induction is out of reach), hence its edges and the moves of the
  drive (`FillEdges`, `FillMoves`). `CountIsPosition` speaks of all that is queued and
  `CountInv` carries that through every step (`Tracked`: a fill adds behind the queue,
  playing moves the border inside it, the end of a buffer moves the queue up). For the
  times `Spaced` puts all edges on one line, those the drive remembers, those left of
  the loaded buffer and those of the next: any two keep their time (`Apart`, `Held`), and
  what the joint remembers keeps the next fill away from them (`Before`).
  `OneSession` has five parts, each needed:
  `Prompt`; one start, since a second replays what is left (`step_restart`); `isStepping`
  and `dirChange` starting as FALSE, which no constructor says; a joint disabled only when
  its pins are at rest (section 3); and `Roomy`: `Fits`, no overflow of `stepPos`, steps
  that are two slots longer than their length, and a fill after the turn of the playing
  buffer. With the sizes of the board, all four times of one slot and steps up to
  333 kHz, `Roomy` holds.
* **StepgenProofs.** `TypeCorrect`, `CountIsWholePartCorrect` and
  `EnabledFollowsPacketCorrect` for any number of joints, any word and step sizes
  that divide each other, with no further assumption. `CommandWhole` strengthens
  the invariant: while jointEnable is not cleared, all commands are whole. The
  arithmetic lemmas (quotients of a sum by a step unit change by at most one,
  and by one exactly when the parity changes, also across the wrap) are stated
  once, before the model.
* **UpdateFreqProofs.** `TypeCorrect`, which says that no frequency is beyond
  PRU_base_freq, as `Stepgen` assumes of its commands, and
  `KeepsAccelerationCorrect`, for any gain, limits and commands. The invariant is
  `OneUpdateBehind`: the firmware follows the whole Hertz of the last frequency until the next has
  been computed, which is then within the limit of it. The conversion to whole Hertz adds
  less than one to a difference (`WholeHertzKeeps`). That the limit is written
  back to `maxaccel` before the write leaves it as it is (`MaxAccelBounds`).
* **InputsProofs.** `TypeCorrect`, `PhaseKeptCorrect`, `IndexSeenCorrect` and
  `ReportedCountCorrect`, for any axle, marks and motion, any pulse and any gap within
  the assumption.
  `DecoderInv` says that after the first tick the old channels are those of the
  position; that a move changes the count by as much modulo 4, and by exactly as
  much for an edge at most, is a lemma about the table of transitions. `LatchInv`
  says that an index not yet shown has its bit set and that the pulse left is
  longer than the gap that remains. `CountShown`, `IndexInv` and `ShownInv`
  follow the count into a reply: until an index is latched the last count is reported;
  the axle stands at its mark when the index interrupt begins, so an event that no tick
  interrupts has the mark's count; and a latch that was not shown has frozen it, up to one
  edge in a reply that was under way. A new latch comes never over one not shown
  (`NewLatch`), for the same reason as `IndexSeen`.
* **LinkProofs.** `TypeCorrect`, `CommandFreshCorrect`, `FailureStopsCorrect` and
  `ToleratesLossCorrect`, for all time-outs and error limits within the assumption,
  when answers are not late and `status` starts as FALSE. Without late answers
  there is at most one datagram in all the queues, which belongs to the transfer
  under way (`Queues`); while the driver waits for one that was lost, nothing
  feeds the watchdog, so that it is silent as long as the driver has waited
  (`Silence`), and moves only while fed (`Moving`). `Ages` is the heart of
  `CommandFresh`: the command is as old as the last datagram, or that was a read,
  and then the driver is about to write or waits. `Errors` makes the driver's
  count of errors that of the transfers without an answer.
* **PendantProofs.** `TypeCorrect` and `WholeFramesCorrect`, for every length of a
  frame and every longer distance of the datagrams. The invariant says when the
  line is about to be idle: after a datagram has been copied it waits for one tick
  at most (`Copying`, `Waiting`), and what is left of a frame and the time since
  its datagram add up to at most the frame and two ticks (`Sending`), so the next
  datagram finds the line idle.
* **ConfigUploadProofs.** `TypeCorrect` and `BootsWholeCorrect`, for any set of
  files, any geometry of the flash and any number of ports, clients and failures;
  and `AckedIsStoredCorrect` for files that fit the two sectors that are erased
  (`Fits`; `upload_long` shows why). For the first two, `Moving` says what the
  move has erased and programmed after each step and that its source is intact,
  `Kept` that the storage area holds nothing or a whole file otherwise. For the
  third, `AckInv` follows the connection of the client while nothing disturbs it:
  it is open at the block that the client sends or at the one before, with those
  blocks in place and the rest blank (`Open`), or closed with the whole file there
  (`Done`); and no datagram under way is of a client to come (`Fresh`), so that
  the pairing starts clean (`Requesting`).

Only checked, not proved: everything about liveness (`SilenceStops`, `DataRuns`,
`SlowJointsStep`, `DeadLinkNoticed`, `LinkWorks`, `Settles`, `Completes`, `CatchesUp` of
`Inputs` and of `Pendant`), which is out of reach of the prover. Every invariant and
action property that the passing runs check is a theorem, under the assumptions above.
`DriveTimes` is proved for a hold of one slot only: for longer ones it is false, as
section 3 says, when a remainder is carried over; the run has one slot as well.

## 5. Not modelled

* Nearly all lines of the repository are vendored: lwIP, the drivers and headers of NXP
  for every peripheral of the chip, CMSIS, ArduinoJson, board files. The program's own code
  is some thousand lines. Of the vendored code the models have what the program uses,
  from its calls: the eDMA channel, the flash, UDP. Machine configurations and images
  are data.
* The rounding of floating point in `update_freq`, in the step generators and in a count
  beyond 2^24 that is sent as a float; the spike filter; set points and outputs in the
  payload. That a frequency is sent as an integer is modelled (`WholeHertz`).
* `SoftPWM` and `Blink`, which no configuration can create. `SpindlePWM` writes the
  registers of a timer when the duty cycle changes, and forces the output at 0 and 100 %;
  what the timer makes of the order of these writes is the hardware's. A digital output
  has no state: it copies a bit of `rxData` to a pin.
* The names of pins and their masks: a table without state.
* What a write request of TFTP does to the running threads. It stops the DMA thread
  only if its flag is set, and the status of the watchdog stays as it is; it also
  gates the clock of the eDMA (`EDMA_Deinit`), and what later accesses to its registers
  by `updateBuffers` and `stopDMA` do then is not determined by the source. A model would
  have to guess.
* Of the pendant, the multiplier (handled like the axis), the layout of a frame, and
  what happens to a datagram for a board whose configuration has no NVMPG module.
* The parsing of the configuration and the creation of modules; what they choose
  (frequencies, times, which threads exist) are constants here.

## 6. Plan

Done, in this order: the DMA thread, its service and its promise, with proofs; the
watchdog and the main loop, with proofs; the step generators of both threads, with
proofs for the base thread; the driver's link; the upload, with proofs;
`update_freq`, with proofs; the encoders with their index, with proofs; both ends of
the link in one time, with proofs; the pendant, with proofs; the proofs of the step
generator of the DMA thread. Left:

1. The write request of the upload with `Firmware`, if what the eDMA does without its
   clock can be settled from a manual.
2. Proofs: the hold time for more slots than one, with the condition on the frequencies
   that it needs; bounded forms of the liveness properties (so many ticks after the last
   loss the status is up), which are safety and can be proved.
3. Several joints of the DMA thread in one buffer, which share slots but no pins.
