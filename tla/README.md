# Verification of the LoRaWAN device library

TLA+ models of the MAC layer in `src/src/ldl_mac.c` and of the parts of the library it
drives, checked with TLC on small instances and, for the core, proved with TLAPS for
every value of the constants. `PROJECT.json` lists the components, the runs, the lines
each definition stands for, the hazards, the findings and the theorems.

## The system

LDL is a LoRaWAN end device: an application calls it, it drives one radio chip. It has
no threads of its own and no persistence of its own.

| Component | State | Operations | Talks to |
|---|---|---|---|
| MAC state machine, `ldl_mac.c` | `state`, `op`, `trials`, `opts`, `tx`, timers WAITA, WAITB, BAND, `inputs` | `LDL_MAC_process()`, `otaa`, `unconfirmedData`, `confirmedData`, `cancel`, `forget`, `radioEvent` | all the others; pushes responses to the application from inside its calls |
| Timers and seconds counter, `ldl_mac.c` | three 32 bit deadlines, `polled_time_ticks`, `time` | `timerSet/Check/Clear/TicksUntil*`, `timeNow` | `LDL_System_ticks()` |
| Duty cycle bands, channel selection, `ldl_mac.c` | `band[]` in ms, `polled_band_ticks`, `chConfig`, `chMask`, `dlConfig` | `registerTime`, `processBands`, `selectChannel`, `msUntilNextChannel`, mask and channel calls | regions, state machine |
| Network commands and session, `ldl_mac.c`, `ldl_mac_commands.c` | `ctx` (rates, delays, counters, `pending_cmds` and the answers) | `processCommands`, the set/get calls, `pushSessionUpdate` | application (saves the session), OPS |
| Adaptive data rate, `ldl_mac.c` | `adrAckCounter`, `adrAckReq`, `ctx.rate/power` | `adaptRate` | state machine, channel masks |
| Frame security (OPS), `ldl_ops.c` | counters in `ctx`, nonces | `receiveFrame`, `prepareData`, `deriveKeys`, `syncDownCounter` | frame codec, security module |
| Radio driver, `ldl_radio.c` | `dio_mapping1`, the handler | `transmit`, `receive`, `collect`, `sleep`, `clearInterrupt`, `entropy*`, `reset`, `interrupt` | chip interface; calls `LDL_MAC_radioEvent()` |
| Chip and system interface | the chip's mode and flags, the clock | supplied by the integrator | driver, MAC |
| Regions, `ldl_region.c` | none (tables) | rates, bands, default channels | MAC |
| Frames, streams, commands codec | none | encode and decode | OPS, MAC |
| Security module, AES, CMAC, CTR | keys | `mic`, `ecb`, `ctr` | OPS |

**Concurrency.** `LDL_MAC_process()` and the calls of the interface run in one thread.
`LDL_Radio_interrupt()` is called from an interrupt handler between any two of their
steps; it reaches `LDL_MAC_inputSignal()`, which latches one event, with its time, if it
is armed. Responses are pushed synchronously, so an application may call back into the
MAC from its response handler.

**What is hard.** The receive windows must open at a fixed time after the end of the
uplink although the interrupt, the timer and the main loop are all late; the chip may
never answer; a request is retried, cancelled or overtaken by a reset in any state;
the tick counter wraps; off-times are kept on a coarse grid; the session is saved by
the application some time after it changed; network commands arrive in one frame, must
be applied whole or not at all, and be answered in a later one.

**What makes each component correct.**

- State machine: no state is waited in for ever; the radio is on only where it is used;
  no interrupt is lost; the windows open on time; a request ends with one report and is
  transmitted at most `nbTrans` times.
- Timers: a deadline less than 2^31 ticks ahead is reported when it is reached, not
  earlier, whatever the tick counter's value; `ticksUntilNextEvent` agrees with `check`.
- Bands: after an uplink a band stays closed for its off-time; a closed band opens.
- Session: the frame counter sent never repeats under one key, also after a restart.
- Commands: a LinkADR block is applied whole or not at all; at least one channel stays;
  each command is answered; sticky answers are repeated until a downlink.
- ADR: the back-off reaches full power, lowest rate and default channels, in this order.
- OPS: a down counter is accepted once.
- Codec and ciphers: what is written reads back, a key is derived for its name, no key stream is
  used twice, a MIC covers its message.
- Regions and windows: a downlink in its slot is heard whatever the clocks' error; every join
  attempt has a channel; the time on the air never counts too short.
- Driver: the chip does what was asked in whatever state it was left, and the MAC is told the
  outcome of its own operation, once.

Where the code does not keep one of these, "Runs" and "Differences without a run" say so.

## Modules

| Module | Models | Theorems |
|---|---|---|
| `Mac` | the MAC state machine over chip, interrupt and clock (the core) | `Mac_proof` |
| `RequestService` | abstract: what a request promises the application | |
| `MacService` | `Mac` with the refinement mapping to `RequestService` | `Mac_proof` |
| `Timers` | the timers and the seconds counter on a counter that wraps | `Timers_proof` |
| `Bands` | off-times, retries and the choice of a channel | `Bands_proof` |
| `Commands` | commands of a downlink, their answers, channel masks, ADR | `Commands_proof` |
| `Session` | sessions, counters and nonces over joins, restarts and a bad network | `Session_proof` |
| `Streams`, `Frames`, `CommandCodec`, `Security` | pure: bytes of streams, frames and commands; keys, MIC and key stream | |
| `Codec` | the device and a network that exchange those bytes | `Codec_proof` |
| `Aes` | pure: the block cipher and the subkeys of CMAC | |
| `Regions` | pure: the tables of `ldl_region.c` | |
| `Windows` | rates, channels and the arithmetic of the receive windows, over `Regions` | `Windows_proof` |
| `Radio` | the driver, register by register, over the chip and its interrupt lines | `Radio_proof` |
| `MC...` | constants for TLC | |

The modules share no variables, except that `Codec` and `Windows` are built on the pure ones.
`Mac` keeps of the others what its control tells apart: a timer is the time left, a band is open
or not, a downlink is accepted or not, a driver call is one step. `Timers` justifies the first,
`Bands` says when a band opens, `Session` and `Codec` which downlink is accepted, `Commands` what
is in it, `Windows` where the slots are, and `Radio` that a driver call does what one step of
`Mac` takes it to do. There is no single composition of all: its states are their product.

### Mac

One disjunct of `Process` is one case of the switch in `LDL_MAC_process()`, or one of its
branches when they differ in what wakes them; the handler is taken whole, with the driver
calls and the responses it makes.

| Code | Model |
|---|---|
| `self->state`, `self->op`, `self->trials` | `state`, `op`, `trials` (modulo `TrialsMod`) |
| `opts.nbTrans`, `ctx.nbTrans`, `ctx.joined` | `optNb`, `ctxNb`, `joined` |
| `band[LDL_BAND_RETRY]`, `band[LDL_BAND_GLOBAL]` | `retryOff`, `globalOff`: above 0 or not |
| `timers[WAITA]`, `timers[WAITB]` | `waitA`, `waitB`: armed, and the time left, negative once late |
| `inputs.armed`, `.state`, `.time` | `inputs`: `armed`, `state`, and the `age` of the event |
| the chip, its flags and lines | `chip`: mode, time left, event it will raise; `irq`: a raised line |
| `self->handler(...)` calls of a step | `out` |

`lag` counts how long `LDL_MAC_ticksUntilNextEvent()` has been 0 without a call of
`LDL_MAC_process()`; `Tick` lets it grow to `MaxLatency`, so each run says how late the
main loop may be. `since` (time since the end of the uplink) and `sent` (transmissions
of the request) are history variables: no guard reads them.

Abstractions, each one adding behaviours, or outcomes the code does have:

- Frame contents: a received frame is accepted or rejected (`ProcessRxReady`); a frame
  accepted for a data request may set `ctx.nbTrans`.
- Channel selection succeeds or fails. `selectChannel()` and the bands behind it appear
  as the refusals of `Otaa` and `Data`, the early end of an unconfirmed request and the
  end of joining in `DownlinkMissing`.
- Off-times end by `RetryOver` and `GlobalOver`, in either order (`Bands` has the times).
- The timer BAND only wakes the main loop; it is part of the fairness.
- The interrupt handler runs before time passes on, and each driver call is atomic.
- The chip fails only by staying silent (`ChipMayFail`).
- Rejoin states and operations of `ldl_mac.h` are not reached by this version of the code.
- An application may call `LDL_MAC_cancel()` from its response handler. Where the handler is
  called last in a step that is the step followed by `Cancel`, which is a behaviour of the
  model. After a handler called earlier in its step (DOWNSTREAM, JOIN_COMPLETE,
  LINK_STATUS, DEVICE_TIME, DATA_COMPLETE, DATA_TIMEOUT, CHIP_ERROR) the code sets state and
  op again, as if it had not been called. A *new request* made inside one of those is accepted
  and then overwritten, so it ends without a report: that is not modelled.

### Timers

`ticks` is the tick counter, `UMax + 1` values wide, `IMax` the largest positive signed
one; the history variables hold the true time. `TimeNow` is `timeNow()`, which
`LDL_MAC_process()` and others call at most `MaxPoll` ticks apart; `self->time` is held
as the ticks it does not count yet. `timerDelta()` is one short across the wrap, and so
are the error reported by `timerCheck()` and the seconds counter: `ErrorNearlyExact`
allows one tick, `ClockKeepsUp` two ticks per turn of the counter.

### Bands

`band` is in ms, `phase` the ticks since `polled_band_ticks`, the last mark of the grid
of whole seconds on which off-times run down. `due` is history: the true ticks until a
band may open, negative once it is open too late, and not counted beyond `Late`. The
main loop runs at most `MaxLag` ticks after the BAND timer; a channel is its frequency;
what is not about off-times is left out of a request, so every action of the MAC is
there, but states between two uses of the bands are one. `SetChannels` stands for what
commands, ADR and joins do to the usable channels, at any time, which is more than they do.

### Commands

A turn of the loop in `processCommands()` is a step in the state COMMANDS (no other code
runs between two turns); `next` is what `LDL_MAC_peekNextCommand()` sees, so a block of
LinkADRReqs is recognised as it is in the code, and `cache`, `adr_state` are the local
variables of the function. `Data` is `externalDataCommand()` as far as answers, the length
of the frame and channels go; `Missing` is `adaptRate()`.

| Code | Model |
|---|---|
| `ctx.rate`, `power`, `nbTrans`, `chMask` | the same; `chMask` as the set of masked channels |
| `ctx.chConfig`, or the region's table | `chConfig`: rates each channel can be used at |
| `ctx.pending_cmds`, `link_adr_ans` | the same, a set and a record |
| `adrAckCounter`, `adrAckReq`, `adr_ack_limit`, `adr_ack_delay` | the same |
| the responses, the answers in a frame | `told`, `sent` of the last step |

`owed` (what the network has to find in the next uplink), `asked` (the block of requests)
and `quiet` (only the ADR changed the settings since the last downlink) are history.
Settings taken over unseen and read nowhere else in the module (receive windows, duty
cycle, battery level) are left out, and a channel set by NewChannelReq may become
unusable: its frequency in units of 100 Hz is taken for Hz, which is in no band of
EU_863_870 (EU_433 has one band for all).

### Session

`ctx`, `joinNonce`, `devNonce` and `keys` are the MAC's and the security module's; `store` is
what the application saved at the last `LDL_MAC_JOIN_COMPLETE` and `LDL_MAC_SESSION_UPDATED`,
as porting.md asks; `Restart` comes between any two steps and restores it. A request is a
beginning (`Otaa`, `Data`) and an end (`JoinAccept`, `Downlink`, `Missing`, `BadFrame`,
`Abandon`, `Forget`): its transmissions are those of `Mac`. The network keeps the rules of a
network (join nonces grow; it answers a devNonce it has not seen before) and its messages
are lost, repeated, reordered and delayed without bound, also over restarts. Keys are the
values they are derived from, and a MIC is right when it was made over the same values.
`frames`, `accepts` and `joins` remember all that was ever sent. `pushSessionUpdate()` is a step
of its own (`updated`), so that a restart can come between it and what it reports.

### Codec, with Streams, Frames, CommandCodec, Security and Aes

Here frames are bytes, one number per byte; what is not looked at again is a mark (a MIC, a
block of key stream). A coder returns what it wrote and where (`OffData` is the offset the data is
enciphered at); a reader threads a position and an error through its fields as
`LDL_Stream_read()` does. A key is its root, number and join; `ArduinoSlot` is the layout of the
wrapper with three slots for all names, and `DeriveKeys` writes the keys one by one in the code's
order. `Security` makes a CMAC of marked blocks, with the count of its bytes modulo 256, `Aes` is
the cipher itself with the round functions as `ldl_aes.c` arranges them; it is compared with the
published definitions (the S-box computed from its field, the whole cipher on known vectors).
The readers the frames are checked with are written from the layout of LoRaWAN and share
nothing with the coders.

### Regions and Windows

`Regions` holds the tables of the four regions as functions. In `Windows` time is in ticks since
the end of the uplink and the state machine is reduced to the way from one request to its
second window, so that every number the code computes there (time on the air, guard, extra
symbols, margins, both timers) is computed as in the code, with its divisions and widths.
`OpenedInTime` says a window opened no later than three symbols, which is what the margin
allows; whether the main loop is that punctual is the subject of `Mac`. The clock drifts by
at most `eps` per second, as `LDL_System_eps()` promises, in either direction.

### Radio

A call of the driver is the list `todo` of its register accesses, worked off one a step; the
chip may finish an operation and the interrupt handler may run between any two. What a register
means is read back by an independent reading of the chip (`ChipSf`, `ChipFreq`,
`ChipPower`...). The two kinds of connectors of the Arduino wrapper are in `board`: one takes
interrupts, one polls for rising edges. The MAC is reduced to the order of its calls. A restart
of the controller (`Restart`) forgets the MAC and leaves the chip as it is. Chip, lines and
connector are external: from their data sheets as the driver uses them. Assumed of them: a
polling board polls between two calls and faster than one operation of the chip takes; a masked
flag is not raised; a restart does not fall between the two writes of one setting.

## Runs

**Mac.** `Sec`, `RX1Delay`, ... are in ticks. A second is 3 or 4 ticks: enough for an
uplink, a window and a late main loop to fall before, on and after the deadlines between
the slots. The lockouts of 10 ms and 60 s are 1 and 3 ticks: only their order matters,
nothing else happens in them. `trials` is 32 bits wide in the code; `TrialsMod` is 16,
the smallest for which it cannot wrap below `nbTrans`, which four bits bound to 15; joins
do wrap it. `NbTransSettings` has 0 (use the next setting) and 2, so the first and the last
trial differ; the theorems cover the other values.

**Timers.** 16 values of the counter and two turns, from every start value; timers of 0,
1, 3 ticks and the longest interval, looked at up to `MaxLate` < `IMax` ticks late: later
than that a deadline is taken for a future one, as in the code.

**Bands.** A second of three ticks and three ms, two bands with a channel each; off-times
of one to three ms and retries cross the marks of the grid in every phase. All channels are
usable or none, and a retry's off-time is not shorter than its band's: the precondition of
`SentInOpenBand` and `RetryGoesOn`.

**Commands.** A fixed plan of two narrow channels and a wide one with a rate of its own, a
dynamic plan of two channels. Five requests: some channels; narrow ones off; wide ones off
(with the one before: all off); all on with a rate there is none of; all off. Two commands
per downlink make a block of two or two commands. The counter of the ADR stops at 6, with
room for the three steps of the back-off and one; in the code it stops at 255, and with
the default limits only five steps have room (see below).

**Session.** Counters of which a 16 bit field tells 2 apart (`Epoch`), so an epoch ends within
the three frames sent; three joins of which the network answers two, in both versions; two
restarts. Two joins are needed for keys to be mistaken, the third for a join accept to come
back two joins later; one restart to restore a session, another to restore one that was
restored.

**Codec.** Buffers and payloads of the program's own size. Lengths of frames around every
boundary (an empty frame, a block, 15 bytes of options, the longest payloads, 240 bytes, where
the digest's count wraps), join accepts of nine sizes, downlinks cut short by up to 12 bytes,
each command alone (whole or cut by one byte) and every pair, all answers at once. Of the
constants it is assumed (`CodecAssumption`, `DownlinkAssumption`) that a packet has at most 255
bytes and a payload at most 250, that requests and answers have the types of the code's
parameters, and that what a network sends fits its fields: 15 bytes of options, 255 of a frame.
Requests longer than the rate allows are among those made (243 bytes): the code sends the answers
without them.

**Windows.** All regions; clocks of 32 kHz (0.1 %), 10 kHz (0.5 %) and 500 kHz (0.2 %), the interrupt
on time and 3000 ticks late; every offset 0 to 7, RX2 rates 0 and 8, delays of 0 and 15 s, eight
attempts to join. A clock of 1 MHz exceeds the 32 bits of TLC's own numbers. Preconditions, in
the properties: `ExtraFits` leaves out windows whose extra symbols exceed the code's 8 bits (an
error above 0.22 % at 15 s, SF7 and 500 kHz), the offset is one the region has. `EmptyWindowEndsFirst`
holds for errors up to 0.5 %; near 1 % at 15 s and SF12 an empty RX1 would last into RX2.

**Driver.** Both chips, both amplifiers, polling and interrupts, in four builds; every
modulation of the regions is sent, at the lowest and highest power and one between two steps;
windows with the settings that differ most (250 kHz, SF11, SF12, and the fastest); frames of 0,
17 and 65 bytes for a buffer of 64; a signal below the noise and one above.

| Run | Instance | Checks | Result |
|---|---|---|---|
| `prompt` | main loop up to one tick late (= margin), failing chip, cancels, fairness | `Mac` implements `RequestService`; both slots on time; every data request reported and ended; no false chip error; IDLE asks for no wake-up; start-up and recovery complete; joins are retried | holds |
| `late` | main loop up to seven ticks late, past both slots | the inductive invariant, RX1 on time or not at all | holds |
| `timers_wrap` | counter wraps twice | deadlines found when due, sleep never passes one, seconds counter | holds |
| `bands_served` | see above, fairness | off-times served, bands open, retries sent, in open bands | holds |
| `commands` | both plans, lost downlinks, setters at any time | answers arrive, LinkADR blocks whole or not at all, a fixed plan keeps a channel, payload announced is accepted, the ADR backs off | holds |
| `session` | restarts, late and repeated messages | keys and sessions fit and are fresh, the network knows them, counters are distinct, the session is saved, an acknowledgement is for its frame | holds |
| `codec` | both layouts of keys, all lengths | frames and commands read back, one key stream byte per byte, keys as named, MIC over the whole message by AES-CMAC | holds |
| `windows` | four regions, three clocks | windows agreed are heard, an empty RX1 ends before RX2, joins find a channel, time on the air serves guard and off-time | holds |
| `driver` | four builds, cancels, resets, restarts | LoRa mode, settings and power as asked, the outcome reported is that of this operation | holds |
| `rx` | both plans | data in a downlink is handed to the application | violated |
| `mic` | MIC of every frame | a MIC covers its message | violated |
| `rx2` | RX2 at rate 3 | RX2 hears a downlink at its rate | violated |

Properties that need several parts are conjunctions of them, each stated with its comment:
`FramesReadBack`, `CommandsReadBack` and `FramesProtected` in `Codec`, `SignedWithAES` in `MCCodec`,
`SlotsAsAgreed` and `AirtimeServes` in `Windows`, `AsAsked` and `OutcomeIsOwn` in `Radio`. `IInv` of `Mac`
holds the types, `OpMatchesState`, `NeverStranded`, `RadioMatchesState`, `InterruptNotLost` and what
bounds the transmissions.

The three violations are differences between the code and its documentation; `findings`
in `PROJECT.json` quotes both sides. In short: the response for received data is in a branch that is
never taken; a message of 256 bytes (block B0 and a frame of 240) makes the byte that
counts the digest 0, so its last 16 bytes are not covered by the MIC; the second window is
computed for a rate, `ctx.rx2Rate`, that is never assigned, and opened at another, and is too
short whenever the network chose a faster one than rate 0.

The bound on the longest frame in `prompt` and `late` (`ShortFrames`, shorter than the time between
the slots), the latency in `prompt` (the margin), the whole number of ticks per ms
in `bands_served` and the fixed plan of `FixedPlanKeepsChannel` are preconditions of the properties
they check, not conveniences; "Differences without a run" says what happens without them.

`RunDown` of `Mac` stops a timer that has been expired for longer than `MaxLatency` and the
age of an input stops there too: no guard tells larger values apart, since whatever is due
is processed, or looked at by no state, by then.

**Fairness.** `Mac`: `LDL_MAC_process()` is called again and again: weak fairness of
`Process`; the BAND timer, set at the end of every call, is what wakes it in states that
wait for no other timer. Time passes, a raised line is handled, off-times run down. No
fairness on the application or on the chip: a chip may fail in each of its uses. `Bands`:
the clock, and the main loop only when the BAND timer is due, so that liveness shows the
timer is set whenever it is needed. `Commands`: none; `BacksOff` is about behaviours in which
uplinks go on unanswered with the ADR on, and nothing else changes the settings.

### Differences without a run

Read in the code while it was modelled. The models contain the first list; where a bound or
a property is named, TLC shows the difference when the bound is lifted or the property is
added to the module's run.

- A main loop later than RX2's margin: the request ends without any report
  (`ldl_mac.c:622`, against `ldl_mac.h:679`; `MaxLatency` above `Margin`).
- A frame still being received in RX1 when WAITB runs out makes a working chip be reset
  (`ldl_mac.c:839`; a longer frame in `ShortFrames`).
- `LDL_MAC_cancel()` before the first reset makes the MAC idle without one (`ldl_mac.c:279`,
  against `ldl_mac.h:764`; `ResetBeforeReady`). `Radio` shows that the chip is then still used in
  LoRa mode only.
- `LDL_MAC_cancel()` leaves WAITA, WAITB and the inputs armed, WAITB even over a reset, so
  `LDL_MAC_ticksUntilNextEvent()` may be 0 until the next request (`QuietWhenIdle` is about requests
  that end by themselves).
- Off-times run fast unless there is a whole number of ticks per ms (`ldl_mac.c:2558`; `WholeMs`).
- A retry waits for its own and the global off-time, not for its band's; the limit on deferred
  off-time is tested before the last one is added.
- The test whether all channels are masked is never true in a region of 16
  (`ldl_mac.c:2462`; `KeepsChannel`).
- A command stream that ends within a LinkADRReq leaves the block's channels set (`MayTruncate`).
- `ctx.up` is saved with the next session update only: a restart in between uses a counter
  again (`ldl_mac.c:1399`, against `porting.md:111`; `CounterNeverReused`).
- The down counter never enters a second epoch: after 65536 downlinks the device is deaf
  (`ldl_ops.c:421`, against `history.md:128`; `NextDownlinkHeard`; proved as `OnlyFirstEpochHeard`).
- A request that ends on a frame that is no answer does not push the session (`unsaved`).
- Joining ends when a join rate has no channel.
- `LDL_MAC_mtu()` does not count TXParamSetupAns.
- `adrAckCounter` stops at 255 and a join does not reset it: with the default limits of 64
  and 32 there is room for five steps of back-off, fewer than rates and power of some
  regions need, and ADRACKReq is then not sent again. `power` and `nbTrans` outlive a join.
- Offsets 6 and 7 of RX1 (4 to 7 in US_902_928) read the next row of the table
  (`ldl_region.c:631`); RXTimingSetupReq with 0 is kept as 0, and RX1 is then never opened
  (`ldl_mac.c:2049`); the extra symbols wrap at 256 (`ldl_mac.c:1725`).
- `setChannel()` loses the lowest rate (`ldl_mac.c:2402`); channels of EU_433 never set have
  frequency 0, which is in its only band, so they count as usable; a list of masks in a
  join accept has no effect (`readme.md:74` lists it).
- The decoder of RXParamSetupReq takes its whole first byte for the offset and leaves the rate unset
  (`ldl_mac_commands.c:237`); initA() puts only 16 bits of the counter into its block.
- `LDL_Stream_seekCur()` past the end raises no error, so options may overlap the MIC.
- The SNR of a frame below the noise is read without its sign (`ldl_radio.c:275`), so
  DevStatusAns reports the largest margin; the power at the RFO pin of an SX1276 is fixed.
- A power between -1 and 0 dBm, which the gain of an antenna can ask for (`ldl_mac.c:397`), is
  rounded up to 0 dBm (`ldl_radio.c:531`) at the RFO pin of an SX1272. At 250 kHz the optimisation for slow symbols is
  never set; SF12 would need it, and no region uses it there.

Outside the models:

- With `LDL_LITTLE_ENDIAN` the readers of a stream copy into the pointer (`ldl_stream.c:266`); no test
  builds it. With `LDL_MAX_PACKET` smaller than the payload of the rate, putData returns 0 and the
  MIC is made over 252 bytes.
- DlChannelReq is acknowledged and not stored; LDL_MAC_DATA_NAK is never pushed; confirmed
  downlinks are not acknowledged.
- The response handler: a request made inside LDL_MAC_DATA_COMPLETE and its like is overwritten.
- Arduino: `disableADR()` calls `LDL_MAC_enableADR()`; the constructor of `Radio` enables the
  pin change interrupts before `LDL_MAC_init()`, which `ldl_chip.h:45` forbids, and
  `LDL_Radio_setHandler()` sets the handler before its receiver; `handle_event` is not initialised.

## Proofs

All theorems hold for every value of the constants that satisfies the module's ASSUME.
Each module's invariant is `IInv`; the lemmas prove one step per action.

`Mac_proof` (durations are natural numbers, `nbTrans` has four bits, the trial counter is
wider):

- `TypeCorrect`: `TypeOK` is an invariant. It is inductive by itself, one step per action.
- `ControlCorrect`, `OperationCorrect`: `NeverStranded` and `OpMatchesState`. Together they are
  inductive with the types: only a handler that arms a timer enters a state that waits for it.
- `RadioCorrect`, `RadioModeCorrect`: `InterruptNotLost` and `RadioMatchesState`. They need
  `RadioConsistent`: what is armed in each state, that a sleeping chip owes no event, that the
  event the chip will raise is one of those armed, and that only armed events are latched.
- `TransmissionsBounded`: from `TrialsCounted`, which ties the history variable `sent` to
  `trials`; `ModFacts` keeps the counter from wrapping while a trial is left.
- `Rx1OnTime`: an action property, from `Rx1Scheduled`: in WAIT_RX1 the timer and the time
  since the uplink add up to the slot, which in TX needs the age of the latched event
  to be that time, and that TX_COMPLETE makes the main loop due.
- `QuietCorrect`: `QuietWhenIdle`, from the same invariant, for every latency.
- `InvariantHolds`: all of these, `IInv`, the invariant run `late` checks.
- `ErrorsAreReal`: `ChipErrorIsReal`, for every latency, when frames end in time (`EndsInTime`:
  every frame, and an empty window, is shorter than the guard and, with the latency, than the
  time between the slots; without it the code resets a working chip, see "Differences without
  a run"; the instance of `prompt` satisfies it). From `Answering`: the chip's time left and the
  timers that guard the state run down together, and start with the chip ahead.

`Mac_proof`, of `MacService` (a main loop within the margins, `Punctual`: twice the latency at most
the margin, and less than the time between the slots):

- `Implements`: `Mac` implements `RequestService`. Initial states map to initial states, every
  step of `Mac` to a step of the service or a stutter, one lemma per action. It needs
  `Rx2Scheduled`, the counterpart of `Rx1Scheduled` for WAITB: only with it is RX2 never missed.
- `EveryRequestReported`: `DataRequestReported`, from the same.
- `BothSlotsOnTime`: `SlotsOnTime`, for `Prompt`, which adds that the uplink's interrupt is
  served before the second slot.

The instance of `prompt` is outside `Punctual` (its margin is one tick, its latency too): it is at
the edge, where short frames make the same hold; the theorems take the punctual ones.

`Timers_proof` (any width of the counter, intervals of at most half of it):

- `FiresOnTime`, `ErrorCorrect`: from `DeadlineHeld`, which says that a stored deadline is
  the true one modulo the counter; the distance is then decided by cases on the wrap.
- `WakesInTime`: `NeverOversleeps`, from the same and the least of the timers' rests.
- `ClockCorrect`: from `ClockHeld`, the same for the polled time, and a bound on the ticks
  lost that grows by two with each turn.

`Bands_proof` (any bands, factors, retries; a whole number of ticks per ms, `WholeMs`):

- `OffTimesServed`, `BandsOpen`: a band's ms, taken to ticks and less the phase, are never
  less than what is due and never more than a second and a ms above it. Each step
  moves both by the same amount, but for a registration, which the phase accounts for.
- `SentWhenOpen`: `SentInOpenBand`, under the run's precondition (`RetryOutlasts`: a retry's off-time
  is not shorter than its band's, and all channels are usable or none; the code takes neither
  into account). From `BandReady`, what each state has made sure of the band of its channel: the
  retry's own off-time is registered with its band's, both run down alike, and the channel
  `selectChannel()` may turn to instead is one that opens no later.

`Commands_proof` (any plan, masks and requests; no command cut off, but for the types):

- `TypeCorrect`: the types of all variables, the local ones of the loop included.
- `AnswersReachNetwork`: pending answers and `owed` differ at most in LINK_ADR, and only
  while a block goes on (`Pending`).
- `ChannelKept`: the mask to fall back on has a channel, and so has the mask in force
  once the block was accepted or as long as none began (`Fallback`); a block cannot
  begin while an answer is pending, which needs that an uplink has cleared it.
- `BlockAppliedWhole`: `WholeBlockOrNothing` for blocks of any length: the requests seen so far
  were applied to what the block found, or one of them failed and is remembered in the
  answer, and the end of the block decides by that answer.
- `LengthHonoured`: `MtuHonoured`. What the application is told it may send and what is then added
  to its data count the same answers. `Bytes`, the length of a set of answers, is written as
  numbers of answers of one, two and three bytes, so that the length of a part of the set, and
  of the set without TXParamSetupAns, can be compared without a sum over data.

`Session_proof` (any epoch, versions, numbers of joins, frames and restarts):

- `KeysFit`, `SessionGranted`: a joined session, in hand or saved, is that of the newest keys
  (`SessionKnown`), nonces and keys are saved as they change (`NoncesSaved`), and nothing
  joined is saved while a join is in progress (`StoreFollows`), which is why a restart between
  the two events of a join does no harm.
- `KeysFresh`: device nonces only grow (`NoncesGrow`), and they are part of what keys depend on.
- `CountersFresh`: the frames of a session are numbered one by one (`FramesNumbered`), in a
  session no restart has restored.
- `AckCorrect`, `SavedCorrect` (from `SavedUnlessData`), `TypeCorrect`.
- `OnlyFirstEpochHeard`: no downlink outside the first epoch is ever accepted (`FirstEpoch`).

`Radio_proof` (any settings, frames, signals and builds of the widths in `RadioAssumption`):

- `InvariantHolds`: `IInv`, in named parts. `TypeInv` has the types, `LoraInv` when the chip is in
  LoRa mode and when it will be, `LinesInv` which lines the chip may raise, `RestInv` that between
  operations the chip sleeps or is told to. Where an operation is prepared (`Prepare`), each
  thing it needs is done or still in `todo`, and in the order that counts; once it is under way
  (`Operate`), the chip is still running or has reported the one outcome that is waited for.
  `Collecting` and `FrameCollected` are about the frame on its way to the MAC. The invariant is
  about the accesses still to be made, not about which call made them, so one lemma for each
  access, each call, the chip and the interrupt handler is enough; TLC checked it on the
  instance of `driver` before it was proved.
- `LoraModeIsOn`: `LoraModeOnly`, from `LoraInv` and `Prepare`: a chip left in any mode by a reset, a
  restart or a call cut short is put to sleep, switched and woken before it is written to.
- `OwnOutcome`: `OutcomeIsOwn`, from `Operate` and `FrameCollected`: an interrupt left over from an
  earlier operation is neither armed nor unmasked nor on the line the handler maps.
- `AsIsAsked`: `AsAsked`, for settings that are `Askable`: a frequency the synthesiser's registers
  hold, and neither of the two cases below that the driver gets wrong. From `SettingsInv`: every
  register an operation needs is right already, or a step still to be made will write it and
  makes it right whatever it held (`MakesRight`), which matters because `setPower()`,
  `setModemConfig()` and their like change part of a register and keep the rest; nothing
  writes a setting while the chip operates; and the address of the FIFO is reset before a frame
  is copied (`Filling`). `SettledMeans` reads the registers back as the chip does. TLC evaluates
  `Askable` on the settings of `driver`.

`Windows_proof` (any error, latency and frequency list; any clock of 10 kHz to 1 MHz, the range
`ldl_system.h:85` requires):

- `SlotsAgreed`: `SlotsAsAgreed`. From `ScheduleInv`: whatever time the uplink's interrupt was
  processed at, the timers hold the true slots less the extra symbols, and the radio's window
  starts between the slot less those and its margin. `Hearing` is the arithmetic: the extra
  symbols cover twice the clock's error (`ExtraFacts`, as long as they fit eight bits), and
  rounding a symbol down to ticks loses less than the three spare symbols of the eight
  (`SymbolFacts`), which needs a symbol of two ticks or more: a clock of 10 kHz has that.
- `EmptyWindowEnds`: `EmptyWindowEndsFirst`, from the same, for an `Accurate` clock: 61 times the
  error per second and the advance are at most half a second, an error below 0.8 %. The
  margin, the window and the extra symbols of both windows then fit the second between the slots,
  at the longest symbol the regions have. The instance of `windows` satisfies it.
- `JoinsFindChannels`: `JoinFindsChannel`, from `ChannelsInv`: a session that ended has left the
  channels of the region's plan, each of which was compared with `JoinRate()` for all trials.
- `AirtimeIsServed`: `AirtimeServes`, for `FineClocks`: where uplinks cost off-time, rounding a symbol to
  ticks loses no more than three hundredths of it. The guard of a transmission outlasts its frame
  on every clock; the off-time that is registered is shorter on a coarser clock, which is why
  this is assumed. TLC evaluates `FineClocks` on the clocks of `windows`.
- `InvariantHolds`: `IInv`, which TLC checked on the instance of `windows` before.

`Codec_proof` (any keys, joins, requests, downlinks and answers of the types in `CodecAssumption`):
the frames and commands are folds over sequences of any length, so these proofs need induction
over data. The induction theorems of the library take a predicate, which the provers do not
instantiate; the proofs use sets instead (`Least`: a set of numbers has a least one; `UpTo`), unroll
folds and `FlattenSeq` by it once (`Recursion`, `Flattened`), and then work with a few terms:
`HasAt(b, p, c)`, c stands at place p of b; `Strm`, a stream with its place and its error. A writer
is proved to put each piece where the pieces before it end, a reader to find at a place what
stands there.

- `KeysNamed`: `KeysAsNamed`, from `KeyInv`: `DeriveKeys` leaves each slot with the key last written to
  it, and in the layout with three slots the names that share a slot are names of one key.
- `JoinAcceptsWhole`, `JoinRequestsReadBack`: a join accept is taken only in its two sizes, each byte but
  the first deciphered once, and its fields are then those sent; a join request has its parts at
  their places (a packet has room for it).
- `MicsOverMessage`: `MicOfOtherMessage`. `CmacAbsorbs` and `CmacFinishes`: the state of a CMAC that
  was fed block and message apart is that of the whole, whatever part of a block was left over,
  and only a count of 256 bytes takes the last block for an empty one.
- `UplinksReadBack`, `DownlinksReadBack`, `AllReadBack`: `FramesReadBack`. An uplink has one of three forms
  (data with options, options alone, answers as data on port 0), each with `Room`; of a downlink
  the parts are found by its lengths alone. `Room` says that the buffer holds the payload a rate
  allows and a frame of answers, which it does with the program's sizes.
- `KeyStreamsOnce`, `FramesAreProtected`: `FramesProtected`. Options take block 0 of their key stream and
  data the blocks from 1 on, and no place of the packet is enciphered twice; the sets are counted
  by a bijection from their places.
- `AnswersAreReadBack`: each answer starts where the sizes before it end and shows its flags, when
  the answers of a request fit `macs` (`AnswersFit`: the comment at `ldl_mac.c:1351` says that they do;
  all of them together have 21 of its 30 bytes, and none is pending twice).
- `CommandsAreAsSent`, `AllCommandsReadBack`: `CommandsReadBack`. The payload of a command is one of four
  forms (no number, one, two, three; `Formed`), which is read back number by number, and a
  number that is cut latches the error. The invariant of the loop is `WalkAt`: the stream stands
  behind the commands read, those are the first ones sent, and when it stops, none that is
  whole is left. A peeked identifier does not move it.

TLC evaluates `Room` and `AnswersFit` on the instance of `codec`.

Only model-checked:

- Liveness: `DataRequestEnds`, `BecomesReady`, `JoinRetried`, `RetryGoesOn`, `BacksOff`.
- `SignedWithAES`: that the block cipher, its tables and subkeys are the published ones; a statement
  about finite tables, which TLC evaluates.

Every other invariant and action property of the passing runs is stated by a theorem.

## Plan

Done: the core, sessions and counters, the codec and its ciphers, regions and windows, the
driver, and the theorems above. Left, in this order:

1. A request made from a response handler, in `Mac`.
2. A theorem: that `Radio`'s calls refine the atomic driver of `Mac`.
3. Sessions with a network that rejoins, when the code can send rejoin requests.

## Not modelled

- `LDL_Frame_putRejoinRequest()` and the operations and states of rejoining: nothing calls them.
  `LDL_AES_decrypt()`: declared, defined nowhere.
- `LDL_Radio_minSNR()` and the functions for radio tests; accessors that return one field; the getters
  of the wrapper; `LDL_MAC_getRetryDuty()` as such (its values are `RetryDuties` of `Bands`).
- The Arduino wrapper's methods that forward one call, its pin set-up and debug printing.
- Tests, examples, documentation and the vendored test framework.
- `src/wrappers/arduino/output`: a generated copy of the sources. It is nearly half of all lines
  of implementation, and most of the headers is documentation, so the definitions stand for
  a quarter of all lines; of the C files of the library they stand for more than four fifths.
