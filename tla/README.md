# Verification of the flight-computer hardware test

Models in TLA+ of the OpenFlightComputer manufacturing test: the firmware that
runs on the board under test and the board tester that drives it from a
computer. The models are checked with TLC on small instances; the theorems in
the `*_proofs` modules are checked with TLAPS for every value of the constants.
Paths below are relative to the repository; `FW` stands for
`firmware/manufacturing_test` and `PY` for `board_tester/fc_test`.

## The system

```text
 operator ── stdin ──> PY/tests/*            FW/components/*  ── hardware
                          │  handlers            ▲ start/process/stop
                       PY/runner.py         FW/application/component_test_runner.c
                          │                      ▲
                 PY/protocol/*session.py    FW/application/session_protocol.c
                          │                      ▲ read_line / queue_line
                 PY/protocol/connection.py  FW/protocol/usb_cdc_transport.c
                          └──── USB CDC, JSON lines ────┘   ▲ interrupt
```

| Component | State | Operations | Hard about it |
|---|---|---|---|
| Newline framer (`FW/protocol/newline_framer.c`) | line, `discarding`, overflow count | initialize, consume a byte, discard the line | limit of 4096 bytes, CR before LF, discards that begin twice |
| USB receive path (`FW/protocol/usb_cdc_transport.c`) | ring with head and tail, overflow flag, line queue of two | interrupt `cdc_receive`; main loop `process_received_bytes`, `read_line` | interrupt against main loop, overflow, no flow control |
| USB transmit path (same file) | queue of two lines, `transmit_active`, `transmit_completed` | `queue_line`, `finish_completed_transmission`, `start_pending_transmission`; interrupts `cdc_transmit_complete`, `cdc_initialize`, `cdc_deinitialize` | interrupt between any two steps, bus reset in a transfer |
| Session protocol (`FW/application/session_protocol.c`) | none of its own besides the runner | one request: refuse, start session, run, stop; report of the component | backpressure, order of answers and reports |
| Component test runner (`FW/application/component_test_runner.c`) | active definition and command id | start, process, stop | one test at a time; end of a test against a stop |
| Components (`FW/components/*`) | a small state machine with timers each | start, process, event, stop | failures at each stage, sampling timers, card handling |
| Drivers (`FW/drivers/*`) | card type, clock, device handle, last failure | initialize, read and write, sample, shut down | SD initialization sequence, clock switch, a failure at every stage |
| JSON protocol (`FW/protocol/json_protocol.c`, `jsmn.h`) | tokens and flags of one call | parse a request, build a message | which lines are accepted as which request, lines made of two requests |
| Tester session and handlers (`PY/protocol/component_session.py`, `PY/tests`) | command id, prompt, answers queue, reader thread | run, stop, handle an event | answer threads, acknowledgement against events in flight, timeouts |
| Tester runner and report (`PY/runner.py`, `PY/reporting`, `PY/summary.py`) | outcomes, report file | session, test after test, error, Ctrl-C, finalize | partial failure, agreement of report, summary and exit code |
| Tester connection and framing (`PY/protocol/connection.py`, `framing.py`) | framer buffer, queued lines, serial port | wait for port, read and write a line with a deadline | port discovery, timeouts, agreement with the firmware's framer |
| Configuration, flashing, command line (`PY/configuration.py`, `PY/flashing`, `PY/firmware.py`, `PY/main.py`) | files, the probe selected | validate, build, flash, reset | external tools that fail half way; a board named by its probe and then by its port |
| Board support and HAL (`FW/board_support`) | registers | external to the models | — |

What makes each part correct: the framer and the receive path hand on the
host's lines whole, in order, or count what they lost; the transmit path loses
and overwrites nothing; the session answers each request once and in order,
never drops a message and has at most one component switched on; the tester
passes a test only if nothing failed, records what the operator decided, and
leaves the board quiet between tests; the card test is right about the card it
passes; the sensor tests sample on time at every value of the tick counter; the
parser takes a line for what its author meant or refuses it; report, terminal
and exit code of a run tell the same truth however the run is broken off, and
they tell it of the board that was flashed.

The hazards, each at its line and with the properties that watch it, are listed
under `hazards` in `PROJECT.json`.

## Modules

| Module | Models | Composes |
|---|---|---|
| `NewlineFramer` | the framer as operators on a record, one byte at a time | |
| `UsbReceivePath` | interrupt, ring, overflow flag, framing, line queue; the host sends numbered lines | `NewlineFramer` |
| `OutgoingLines` | abstract: what the transmit queue promises | |
| `UsbTransmitPath` | main loop and interrupt on the transmit queue and flags | refines `OutgoingLines` |
| `ComponentBehaviours` | the steps of the six component tests as the runner sees them | |
| `SessionProtocol` | dispatch, backpressure, runner and reports, between bounded queues | `ComponentBehaviours` |
| `TestSession` | the tester's main thread, its reader threads and the operator against the firmware | `SessionProtocol` |
| `SdCardDriver` | the microSD driver command by command on its SPI context, and the card | |
| `ComponentLifecycle` | abstract: what the runner sees of one component | `ComponentBehaviours` |
| `SdCardTest` | the automatic card test, card-detect contact and the operator's hand | `SdCardDriver`; refines `ComponentLifecycle` |
| `SensorTest` | the IMU and the barometer test with their drivers, on a tick counter that wraps | refines `ComponentLifecycle` |
| `JsonRequest` | tokenizer and parser of requests, and the host that writes the lines | |
| `ReportFile` | abstract: what a reader of the results directory may find | |
| `RunReport` | `runner.run` with the report writer, the summary and the exit code | refines `ReportFile` |
| `BoardRun` | the preparation of a run on a bench of several boards: build, probe, programming, reset, port | `RunReport`, and refines it |
| `MC…` | values of the constants for TLC | |
| `UsbReceivePath_proofs`, `UsbTransmitPath_proofs`, `SessionProtocol_proofs`, `TestSession_proofs`, `SdCardTest_proofs`, `SensorTest_proofs`, `JsonRequest_proofs`, `RunReport_proofs` (with `BoardRun`) | theorems | |

Definitions marked `Fault:` are wrong variants of the definition that follows
them. No specification uses them; each shows, put in the place of the right
definition, that a property notices the mistake.

### Receive path

`raw_receive_buffer`, `raw_receive_head`, `raw_receive_tail` and the flag are
the variables of the C file under their names. `CdcReceive` is one byte of a
packet in the interrupt: a packet whose bytes interleave with the main loop is
more than the hardware does (an interrupt is not preempted by the main loop),
so every real behaviour is included. `ReceiveByte` is one turn of
`process_received_bytes`: the pop is a critical section, and what follows (the
framer and `completed_line`) touches no variable of the interrupt, so the whole
turn is one step. Bytes carry the host line they belong to, which the firmware
never reads; the properties use it to tell a whole line from a damaged one.

### Transmit path

Each step of `finish_completed_transmission` and
`start_pending_transmission` that does not commute with the interrupts is an
action, with `phase` as the program counter and `completed` as the local
variable. The USB Device library is external: `ClassOpen`, `Suspend`, `Resume`
and the busy answer follow from how the C file uses it. `Initialize` does not
happen inside a call of `start_pending_transmission` that also saw the device
configured before: enumeration needs milliseconds of bus traffic.

### Session and runner

`phase` orders one turn of `application_run`: transport, requests, component.
`AnswerRequest` is the whole of `process_line` for one request, `ReportStep`
one call of the component's `process()` with the message for its result. The
transport is abstracted to what the two models above establish: lines arrive
whole and in order, the oldest message reaches the host at any time after its
transfer began and leaves its slot in a later turn. `component` records for
each component whether it was started and how far it is; timers and hardware
answers are the choice between its steps.

### Tester

`test_order` is the configuration of the run, one of `TestOrders`. `tester` is
the place of the main thread in `runner.run` and the handler:
`begin`, `await_first`, `listening`, `prompting`, `await_stop`, `cancelling`
and the three ends. `readers` holds the threads (and the main thread) that
wait in `input()`. CPython serializes them with a lock, so a typed line goes
to the one that came first. A line of a reader of an earlier test goes into a
queue nobody reads. `Cancel` is Ctrl-C while a handler runs; a second Ctrl-C
during the cancellation is left out.

### Card test

`at` is the place inside a call of the driver: each command with its selection,
answer and payload is one step, because only the card and the operator's hand
can come between two of them. `Exchange` is a command whose answer lets
the driver go on; `ExchangeFails` is any other answer and, when `Faults` is on,
a failure of selection, transfer or answer on a disturbed line. `Call`, `Fail` and
`Continue` carry `last_failure` as `fail` and `fail_if_unset` do.
`prescaler` and `ready` belong to the SPI context of the board support, which
outlives a test. `socket` is the card with its own mode; what it answers and
stores is external, reduced to what the driver tells apart. The contents of a
sector are the pattern of a test block, zeros or older data. `SdCardTest` has
one action per state of `sd_card_test_process`; a call that needs the driver
ends with `ProcessReturns`. `contact` is the card-detect pin, which may bounce
until `Settle`.

### Sensor tests

A call of `process()` reads the tick counter once, when it is entered
(`Enters`); the stages of the driver and the reading of a sample are steps
between which the counter runs on (`Tick`), and so does a main loop that stays
away. `Later` and `Signed` are the arithmetic of `uint32_t` and the cast to
`int32_t`, at the width `TickRange`. `next_sample_at` keeps its value from one
test to the next, as the static variable does, and a test starts at any value of
the counter. An access to a sensor that fails may have had its effect. The
Bosch library is that access and nothing else; the sensor is asleep or measures.
`since_normal`, `since_sample` and `faulted` are histories for the properties.

Two things the code does that the model keeps: the settling time counts from
the entry of the call that initialized the sensor, so what `SettledBeforeSampling`
promises is the settling time less the length of that call; and
`bmi270_driver_shutdown` does not put the IMU to sleep, so `AsleepAfterTest`
speaks of the barometer.

### Requests

A line is a sequence of lexemes: braces, keys, texts, numbers, and the half of a
string that a write broken off leaves. `Compose` begins a request of the tester,
`Edit` makes something else of it (a pair exchanged, replaced, left out),
`Abandon` leaves a beginning of it in the framer, and `WriteLine` ends the line.
`Jsmn` is the tokenizer of `jsmn.h` as the firmware builds it, without
`JSMN_STRICT`: it counts tokens and looks at braces and quotes, and never asks
for a colon or a comma. `ParsePair` is one turn of the loop of
`json_protocol_parse_request`, `ParseColour` one of `parse_rgb_parameters`,
`CheckFields` the decision at the end. Numbers keep their width in `MaxUint32`
and `MaxUint8`; uuid and type are texts that pass or fail the character checks.

A line whose object closes early, or that lacks colons, is accepted when its
tokens are right, although `FW/README.md` line 130 speaks of a strict parser:
`AcceptedAsMeant` asks that such a line still means what its author wrote. The
flags for keys that were seen are redundant with the exact number of tokens, and
the branch of `process_line` for unsupported types is never reached.

### Report

`pc` is the main thread's place in `runner.run`, `updating` the update of the
report under way and what follows it. The four writers share the steps of
`_write_report`: read (`ReadReport`), open the temporary file, fill it, replace
the report; each may raise (`WriteFails`), and its `finally` clause removes the
temporary file. `leaving` is how the `with` block is left, by return or
exception; `ClosePort` may turn it into an error; `Finish` prints the summary
and chooses the exit code. `CancelTest` is Ctrl-C in a handler, `Interrupt`
Ctrl-C anywhere else (or an exception nobody expects), `Kill` the end of the
process without any clause. A test passes, fails or raises: its messages are
the subject of `TestSession`.

### Board and bench

`BoardRun` replaces the first two steps of `RunReport` by what they do and lets
each take its step where the preparation ends. `preparing` is the place in
`load_configurations`, `build_and_flash_firmware` and `flash_firmware`; `probe` and `port`
are the boards behind the two selections. `Matches` is the rule both follow:
the named one, or the only one. `image` is what each board has in its flash and
`listed` the ports the operating system reports; a board leaves the bus under
reset, at once or when the operating system notices, and comes back when it
likes. External tools succeed or fail; programming that fails or is interrupted
leaves any image behind. `--port` names a board here: that a device path can be
given to another board after a reset is left out.

## Runs

| Run | Instance | Shows |
|---|---|---|
| `UsbReceive` | ring of 4 slots, line limit 2, three lines of 1 to 3 bytes with CR or not, from hosts that overrun the ring and hosts that do not | order, accounting, locality of damage; whole lines when nothing was lost; a host that respects the capacities is heard in full |
| `UsbReceiveOverflowDoc` | as the first | the README's promise about overflowed lines is broken (below) |
| `UsbTransmit` | two slots, four lines, two resets | no loss, no overwrite, order, repeats only after resets, the abstract service, progress |
| `SessionRequests` | three requests of every kind and type, all component behaviours | one component on, no message dropped, answers in order, a stream the host can follow, an answer to each request although the component reports for ever |
| `TestRun` | barometer and RGB LED, status LED and SD card, IMU and barometer; Ctrl-C and missed deadlines | clean start of each test, no pass of a failed component, cancelled means off, every run ends if the operator answers |
| `TestRunDecisionDoc` | one barometer test | an accepted test recorded as failed (below) |
| `TestRunAnswerDoc` | IMU, then barometer | an answer swallowed by a finished test (below) |
| `SdCardRun` | two tests, three moves of a card, two blocks, every family of card and a counterfeit one, disturbed transfers | a test that passes was right about the card, swaps are found out, the insertion is debounced, failures are named, cards get only commands of their state and in their unit, a test whose card stays ends, the runner's view is implemented |
| `SdCardClockDoc` | two tests, one block | the second initialization runs at the fast clock (below) |
| `SensorRun` | counter of 20 ticks, settling time 5, intervals 3 and 2, calls of up to 1 and stalls of up to 3 ticks, any number of tests | samples keep their distance and come in time wherever the counter wraps, the barometer has settled, it sleeps afterwards, the runner's view is implemented |
| `RequestRun` | the four requests of the tester, two edits, two abandoned writes in a line | the parser takes a line for what was meant, or refuses it, and reads no token that was not written |
| `RunReport` (of `BoardRun`) | two boards on the bench, two enabled tests, every failure, Ctrl-C and kill at every step | report, terminal and exit code agree and are true; the file is a whole report at all times; a report is about the board that was flashed |

The bounds: queue depths are those of the code. The ring and the line limit
are scaled from 512 and 4096 to values that keep their relation (a ring smaller
than a line) and let the ring wrap and overflow several times in three lines.
Two bus resets and four lines let a repeated line be retired and followed by
another one in each phase. Three requests cover a start, a refusal or a stop
and a second start, and fill the queue. Two tests in a row are what an
answer, a message or a component left over from one test needs to meet the
next. Two blocks (of eight) are a first and a last one; a counterfeit card of one
place confuses them. Three moves let a card be removed, inserted and swapped,
within one test or over two. `SD_CARD_STABLE_POLLS` is the code's. Two tests of
a run are a result before and after each way to break off; the theorems hold
for any number. Two boards are one to flash and one to confuse it with. The
counter of 20 ticks is the smallest that leaves every delay below half its range
(`TimerConstants`, 24.8 days on the board) and wraps every few samples. Two
edits of a request can undo or hide each other, and two abandoned writes put
three requests into one line; `MaxUint32` 5 and `MaxUint8` 3 are numbers beyond
the type, at its edge and within.

Fairness. The main loop of the firmware never blocks, so its steps are weakly
fair. Reading a line and receiving one are enabled again and again but not
without interruption, and strong fairness stands for a loop that visits them
each turn. `DataIn`, `HostReceives` and `Deliver` are weakly fair for a host
that reads. In `TestRun` the operator answers each prompt in the end, and a
component that can report does so in the end (strong fairness of `Report`:
timers run out although a single call may find one running; the operator
handles the card). Nothing is assumed about resets, suspension, Ctrl-C or
missed deadlines. In `SdCardRun` the calls of `process()`, the poll timer
and the settling of the contact are weakly fair; strong fairness of
`InitializationEnds` stands for the time limit of the loop of CMD55 and ACMD41,
whose clock is left out.

Deadlock is checked in the models of the firmware's main loop, of the sensor tests, of the
parser and of the test session. The card test may stop between two tests, when the bounded number of
tests and moves is used up, and a run of the tester ends; their configurations
say so.

## What the runs found

1. `UsbReceiveOverflowDoc`. The overflow flag is taken with the *oldest* byte
   of the full ring, a whole ring before the gap it reports
   (`process_received_bytes`, line 178). The discard that follows ends at the
   next LF, which may lie before the gap, and the line with the gap, or a line
   made of the head of one and the tail of another, is accepted.
   `PendingMeansFull` says why this always happens, and is proved; the discard
   after the loop (lines 191-193) is never taken (`NoOverflowAtEmptyRing`).
   `FW/README.md` line 126 promises the contrary. `DamageIsCounted` and
   `DamageIsLocal` are what does hold.
2. `TestRunDecisionDoc`. `stop_component_test` reads one line and requires it
   to be TEST_STOPPED. A sample queued before the firmware saw the STOP comes
   first, the tester raises, and the accepted test is recorded as failed.
   (`PassedMeansHealthy` shows the benefit of the strictness: no failing
   component passes.)
3. `TestRunAnswerDoc`. A live test that the firmware ends leaves its reader
   thread in `input()`. The next line the operator types goes to that thread,
   and the prompt of the next test stays unanswered until a second line.

4. `SdCardClockDoc`. `initialize` of the SPI context (line 55) returns at once
   when the context is ready, and nothing sets the prescaler back after
   `set_prescaler`. From the second card test after a reset on, the initial
   clocks and CMD0 to CMD9 run at 21 MHz; `docs/hardware-reference.md` line 83
   says 328.125 kHz, which cards need to enter SPI mode.

Three more observations have no run of their own. `sd_card_test_start` reads the
card-detect contact once, so a card whose contact bounces open at that moment is
tested without having been removed, which `DEVELOPMENT.md` line 53 excludes;
`InsertionIsStable` shows the later debouncing sound. `wait_for_cdc_port` takes
the only port that matches, and with two boards on the bench that is the other
one's for as long as the flashed board is away in its reset: the second exception of
`ReportIsOfFlashedBoard`, where `board_tester/README.md` line 42 promises an error
for ambiguous ports. Session validation compares names and capabilities, which
two boards of a batch share. A component that was running when the tester met a
protocol error stays on until the next session.

## What is proved

The proofs assume what `ReceiveConstants`, `MaxLineLengthIsPositive`,
`TransmitConstants`, `SessionConstants`, `TestConstants`, `DriverConstants`,
`TimerConstants`, `NumberWidths`, `RequestsAreWhole` (the requests of the tester are
pairs of a key and a text, a number or an object, as `json.dumps` writes them),
`ReportConstants` and `BenchConstants` say of the constants, nothing about their size
beyond that. Two theorems, `FailedNeverPasses` and `AcceptedMeansMeant`, ask for more
and say so.

- `UsbReceivePath_proofs`, the first part: `TypeCorrect` (indices stay inside
  the ring, the framer and the queues keep their types);
  `OverflowReportedAtFullRing`, that `PendingMeansFull` is invariant, by
  induction together with the type invariant: the interrupt raises the flag only
  at a full ring, only a pop moves the tail, and a pop takes the flag;
  `NoOverflowAtEmptyRing`.
- `UsbReceivePath_proofs`, the accounting. The ring with its two indices is first
  shown to be a queue (`RingIsQueue`: wherever the indices wrap, a store appends
  to `RingBytes` and a pop takes its head), and every step of the program to be
  one of five kinds (`StepKinds`): the host begins a line, a byte is stored,
  a byte is dropped, a byte is taken, nothing happens. The inductive invariant
  `ReceiveInvariant` is proved kind by kind. `Flow` says that the ring holds
  stored bytes in the host's order, behind all that was taken; `Framing`, that
  the framer holds what was taken behind the last LF, or discards; `Lines`, that
  accepted lines follow each other and lie before that LF; `Counted`, that each
  LF taken is in one of the three counts; `Reported`, that there are no more gaps
  than discards begun, one of them still to begin at most; `Prefix`, that a line
  under construction without a gap is the beginning of its host line; `Damaged`,
  that there are no more mutilated lines than gaps left behind. None of the checked properties is
  inductive, for each speaks of lines long accepted and not of the bytes still
  on their way.
  `BytesKeepOrder`, `EveryLineCounted`, `DamageCounted` and `DamageStaysLocal`
  follow for every capacity, depth and limit, and for lines of every length.
- `UsbTransmitPath_proofs`: the inductive invariant `TransmitInvariant`
  relates the program counter, the flags, the transfer and the queue: while a
  transfer is in flight `transmit_active` is set or about to be, its line is
  the head of the queue, and a completion seen or pending belongs to the head.
  `StoredUntilComplete` alone is not inductive, for it does not know which line
  the buffer pointer names in the middle of a start. `LineStoredUntilComplete`,
  `LinesAreNotLost` (with the history of the host in a second invariant) and
  `TransmitRefinesService` follow from it. `HostSeesFewRepeats` needs a third,
  `HostInOrder`: the last line the host has is the last one retired or the
  one being sent, and a repetition that is yet to come (`Pending`) has its
  bus reset counted already.
- `RunReport_proofs`: the inductive invariant `IInv` says where in an update
  the files are: while one is under way the report on disk is the one before it
  (`Before`), the draft is what the update makes of that report, and the
  temporary file holds nothing, a part or the draft as the step demands;
  elsewhere there is no temporary file. `PassedMeansAllPassed` is not inductive
  without it, for it does not know that the results in the file are the
  outcomes the loop has counted. `TypeCorrect`, `PassedReportIsTrue` (also for
  a configuration without enabled tests), `TemporaryIsRemoved` and
  `ReportFileImplemented` follow, for any number of tests.
- The second part of `RunReport_proofs`: on top of `IInv`, the invariant
  `EndInvariant` follows the outcomes, the summary and the way the block is left.
  Its core, `ReportTrue`, says that the report holds the outcomes but for an update under way or given
  up, and that a result other than "passed" has decided it; `CompletedTrue`
  ties `component_run_completed` to a decided report with every outcome. The
  three properties speak of the end alone, where the report, the outcomes and
  the summary come from different steps, and so are not inductive.
  `TerminalTellsReport`, `EndedReportIsDecided` and `ExitCodeTellsRun` follow.
- The third part of `RunReport_proofs`, on `BoardRun`: `BoardRunIsRun`, every
  step of the preparation is a step of `RunReport` or leaves its variables alone,
  so that the theorems above hold with the preparation in full
  (`PassedBoardPassedAll`); and `FlashedBoardReported` from the invariant that a
  port is looked for only when the image is verified and that without a port
  there is no report.
- `SessionProtocol_proofs`: `TypeCorrect`, `OneComponentOn` and
  `BackpressureHolds` for every depth of the queues and every sequence of requests.
  They are proved together: a message is only queued in a step whose guard asked for room, and
  `OnlyActiveComponentOn` needs the type of the runner to know which component
  a stop switches off. Two more invariants of the same steps follow from them:
  `HostFollows` (what the host has seen, carried through the messages on their
  way, is the present state of the runner) and `AnswersKeepOrder` (what the
  host waits for is what is answered and not delivered, then what is received and
  not answered). They rest on lemmas about `ViewAfter` and `AnsweredIds`, which
  are recursive over a sequence: what these return for an appended or a removed
  message is proved by induction over a set of lengths (lemma `Induction`,
  from the least element of a set of numbers).
- `TestSession_proofs`: between the tester and the session there are only two
  queues, `Reqs` (what the firmware received and what is on the wire) and `Msgs`
  (the inbox of the tester and what the firmware has yet to deliver): the
  transport moves the cut in each and changes neither. The inductive invariant
  `Inv` says, in the cases of `Exchange`, what the two queues can hold for every
  point of the tester's handler; that a failure the component has seen is still
  announced, in the queue or told to the operator (`FailureAnnounced`,
  `FailuresKnown`); and that the results recorded are those. None of the three
  properties is inductive alone, for they compare the two ends across everything
  that may be in flight between them. `TestsStartClean`, `CancelledIsOff` and
  `FailedNeverPasses` follow. The last needs `TransmitDepth > 1` (the code has 2,
  `cdc_configuration.h`): with one slot a component can fail in a turn that has
  no room to report it while the operator's decision is on its way, and TLC shows
  the property violated at depth 1.
- `SdCardTest_proofs`: the inductive invariant `Inv` follows a command through
  the driver's calls (`CallAgrees`, `BlocksAgree`, `PollsAgree`), says how far the
  initialization has brought the card in the slot if it is still the one that
  was initialized (`CardReached`) and what that card holds (`ContentsKnown`). The
  card may be pulled and exchanged at any step, so every part speaks of the card
  under the condition that it is the same. Its core for `PassedMeansStored` is
  the lemma `AllBlocksFit`: blocks that read back their own pattern cannot share
  a place. `TypeCorrect`, `CardSeenStable`, `FailuresAreNamed`,
  `CardsGetLegalCommands`, `SameCardThroughout` and `PassedCardStores` follow
  for every number of blocks, and `LifecycleImplemented` shows the refinement of
  `ComponentLifecycle` step by step.
- `SensorTest_proofs`: `After(deadline, e)` says that the counter is `e` ticks
  past a deadline modulo one turn. The inductive invariant `Inv` ties each
  deadline to a history through it: in `sampling` the counter is `since_sample - Interval`
  past `next_sample_at`, in `settling` it is as far past it as the sensor has
  measured, less the call. `SamplesInTime` alone is not inductive, for it does
  not know what `next_sample_at` holds. `ReachedInTime` then shows that the
  signed comparison decides `e >= 0` for every `e` below half the range.
  `SamplesKeepDistance`, `SamplesNeverCease`, `SettlesFirst` and
  `SleepsAfterTest` follow for the full width of the counter.
  `LifecycleImplemented` shows the refinement of `ComponentLifecycle`:
  `StepSeenByRunner` maps each step of the test to a start, a stop, a step of
  the component's table or a stutter.
- `JsonRequest_proofs`, the first part, assumes nothing of what jsmn leaves in the
  array of tokens, so its theorems hold of every line of every program.
  `TurnsReadWritten`: the number of tokens is odd and the index even, so that a
  turn always finds the value behind its key among the tokens written.
  `AcceptedIsComplete`: the invariant `Holds` ties each field of the request to
  the flag that says it was seen, and the checks after the loop then leave only
  requests the dispatcher can carry out.
- The second part of `JsonRequest_proofs` is about the tokenizer. `Jsmn` is a
  recursive function over the lexemes; `ScanAllConcat` lets it be followed through a
  line in parts, and lemma `Induction` (from the least element of a set of numbers)
  carries what one lexeme does to all of them. For abandoned writes the invariant is
  `Remains`: what is left of a cut request is a token that no turn of the parser
  takes (`Doomed`: a garbled string or primitive, or an object in the place of a
  key), or the brace of the next request makes it one (`OpenDooms`).
  `DoomedStays` shows that nothing that follows repairs it, and `Continues` carries
  the token through the turns of the parser: it stays ahead of the index until the
  line is refused. `RemainsRefused` follows, for any number of abandoned
  writes, each cut anywhere. For requests in one piece, `Extends` says that a scan
  adds closed tokens behind those that were there and touches none of them, and
  `FrameScanned` finds every pair at the offset that the widths of the pairs before
  it give (`Layout`), the end of an object before the start of what follows it.
- The third part follows the parser through these tokens: `Progress` says that after
  k pairs the keys are distinct, each of the k fits as far as a turn can tell, and the
  request holds what they say (`Read`); a turn takes a pair exactly if it fits
  (`ScalarTurn`, `ObjectTurn`), `parse_rgb_parameters` stops where its object
  does (`InObjectWhile`), a pair that is refused is in no request (`RefusedPair`,
  `RefusedColour`, `RefusedColours`, `RefusedCount`), and the checks after the loop decide
  the rest (`FitIsRequest`, `RequestFits`, `FitMeans`). `RequestsUnderstood`:
  `AcceptedAsMeant` holds of every line whose pairs have a value, whatever the keys,
  the values, their number and their order. `AcceptedMeansMeant` is the same
  without the condition, if the other programs write JSON too. The condition is not idle: jsmn
  takes a comma in the place of a colon, and a line that holds
  `"type","STOP_COMPONENT_TEST"` among its pairs is accepted although it is no JSON.

Only model-checked: `AcceptedAsMeant` of lines with a key whose value is missing
(`RequestRun` has some of them), and the liveness properties `EveryLineDelivered`,
`LinesReachHost`, `EveryRequestAnswered`, `RunEnds` and `TestEnds`. Out of the
prover's reach: liveness under fairness, `ENABLED`, and what folds with an operator as
parameter compute for every input.

## Left out, and the plan

Not modelled: a JSON message too long for its buffer (`response_ready` false),
the refusal of over-long outgoing lines, the reset of the receive side in
`cdc_initialize`, contents of events and of the CSD, a temporary file whose
removal fails, vendor code, registers, formatting.

Of the firmware also the output side of `json_protocol.c` and the builders next
to it (formatting), `usb_descriptors.c` (constants) and `usb_device_port.c`
(registers and glue); of the tester the schema checks of `configuration.py`
(sequential, without state), the commands that only build or only flash, the
search for the programmer executable, and the framer of incoming lines.

In order of importance for the next steps:

1. Reception across a bus reset: what `cdc_initialize` keeps and clears.
2. `FramingAgreement`: the tester's framer against the firmware's, lines split
   over reads.
3. A theorem: that `NewlineFramer` fed byte by byte gives the lines of its input.
4. The configuration as a decision procedure, and capabilities from the
   configuration through validation to the request.
