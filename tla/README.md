# A verification project for laureline-firmware

Laureline is a GPS-disciplined NTP server on an STM32F107. This directory holds
TLA+ models of the parts of its firmware where order, timing and failure matter,
the TLC runs that check them on small instances, and proofs checked by TLAPS.
`PROJECT.json` lists the components, the runs, the source lines each definition
models, the hazards of the code, what the models found, and the theorems.

## The system

Threads run under FreeRTOS (tick 100 Hz, no time slicing), highest priority first:
the *vtimer* thread (`vtimer.c`), the *main* thread (`main.c`), the *tcpip* thread
(`net/tcpip.c`). Interrupt handlers serve TIM3, the Ethernet MAC, the serial ports,
DMA and I2C. A separate bootloader runs before the application and updates it
from an SD card.

| Component | State it keeps | Operations | Talks to | What makes it correct |
|---|---|---|---|---|
| Monotonic clock, `ppscapture.c` | TIM3, `mono_epoch`, `mono_capture`, `sleep_epoch`, `sleep_flag` | timer interrupt, `monotonic_now`, `_get_capture`, `_sleep_until` | called by vtimer and every thread that reads the time | no rollover or pulse lost or misdated; sleeps end, not early |
| Disciplined clock, `vtimer.c`, `pllmath.c`, `status.c` | `vt_last`, `mono_last`, `vt_rate`, `utc_next`, corrections, PLL state, status flags | the round of `pll_thread`, `vtimer_now`, `_set_utc`/`_gps`, `_set_correction`, `kern_freq` | pulses from the monotonic clock, messages from the GPS parsers, flags to the NTP server | stratum 1 only with the right time; holdover as configured; convergence; arithmetic without drift; corrections meet their pulse |
| NTP server, `net/ntpserver.c` | none | answer a request | lwIP callback; status flags, then `vtimer_now` | the stratum tells the truth about the time beside it |
| TCP/IP API, `net/tcpapi.c` | `semlist`, `api_mutex`, messages on callers' stacks | `api_call`, `api_accept`, callbacks | callers block until the tcpip thread answers | each call answered once, with its result |
| tcpip thread, `net/tcpip.c` | `tcpip_queue`, interface flags, `did_startup` | loop, `tcpip_checks`, link and address callbacks, frame input and output | Ethernet driver, PHY, lwIP, log | keeps running; the interface follows the link |
| Logging, `logging.c` | `log_mutex`, format buffer | `log_write`, `log_sethostname`, `syslog_send` | serial port, TCP/IP API | returns |
| Ethernet driver, `lib/stm32/eth_mac.c` | RX and TX rings, MACCR, `mac_flags` | interrupt, `maczero_transmit`, housekeeping, `mac_*_rx_descriptor`, `smi_poll_link_status` | DMA, PHY, tcpip thread | order, no buffer used after free, none lost; mode as negotiated |
| GPS relay, `net/relay.c` | `relay_client`, `rbuf` | push, flush; accept, receive, error | main thread against tcpip thread | bytes in order, to the client there is |
| Serial, DMA, `lib/stm32` | queues, USART and DMA registers | write, drain, get, interrupts | main thread's queue set, log, relay | bytes whole and none forgotten |
| Command line and settings, `lib/cmdline` | line buffer, `cl_enabled`, `cfg` | `cli_feed`, `set`, `save`, `exit` | serial port, EEPROM | what is shown is what runs; what is listed is what is set |
| EEPROM and I2C | configuration, bus state | load, save, serial number, event interrupt | main thread | a boot finds a whole configuration |
| GPS parsers, `gps/`, `epoch.c` | parser states over one buffer | a byte arrives | main thread; `vtimer_set_utc` | a time is the true one, or none; damage is overcome |
| Watchdogs, `main.c`, `iwdg.c` | two counters, the IWDG | feed, count down | main, tcpip, vtimer | a hang resets, nothing else does |
| FreeRTOS, `queue.c`, `tasks.c`, `list.c` | queues, lists, tick count | send, receive, select, delay, switch, tick | everything | no lost wakeup, priorities hold, time is kept |
| Bootloader, `bootloader/src`, `flash.c`, `ihex.c`, FatFs, `mmc.c` | flash, `jump_token`, page buffer, file system object, card state | reset, mount, read, program, boot | SD card, flash | survives every power failure; programs what the file says |

What is hard to test here: hardware that moves between two instructions (timer,
DMA engines, USART, PHY), interrupts against masked or scheduler-suspended
sections, three threads that block on each other through queues, mutexes and
semaphores, messages on stacks, timeouts that race answers, counters that wrap,
clock offsets that take minutes to appear, bytes lost on four protocols, and power
failure in the middle of a write. `PROJECT.json` lists these as hazards, each at its
line.

## Modules

A module `...Proofs` holds the theorems about the components of one part of the system
(see Proofs below); `MC...` is the root of a TLC run. Operators marked
`\* Fault:` are plausible mistakes; no specification uses them, they exist to see
that a property notices them.

Components that do not share state run side by side: an `MC` module extends several
of them and a variable (`part`, `half`, `duty`) says, from the initial state on, which
one moves; the others keep their first state. Such a run is the union of the
components' behaviours and not their product. Components that do interact are
composed by EXTENDS: `Logging` on `TcpApi`, `NtpServer` on `Vtimer`. Where they interact
through a promise, one module shows what the other assumes: `Fat` reads
nothing after a failed `disk_read` (`FailureStops`, proved), which `Mmc` relies on;
`Vtime` allows the stale readings that `NowExactOrStale` of `PpsCapture` allows.

### The clock

**PpsCapture** (`ppscapture.c`). `base + cnt` is true time: the hardware counter
extended without end. `Tick` and `PpsEdge` are the timer; `uif`, `ccif`, `ccr` its
registers. `TIM3_IRQHandler` is three steps, because the hardware can raise a flag
between them: `ReadSR` (in `IrqEnter` or `NowRetry`), `ClearSR`, `HandlerBody`.
`monotonic_now` is `NowEnter`, `NowTmr1`, then `NowReturn` or `NowRetry`, with interrupts
masked. `GetCapture` and `SleepUntil`/`SleepWake` are critical sections and a semaphore.
Timing assumption: a raised flag is handled within `IrqLatency` counts and
`2 * IrqLatency < MONO_PERIOD`, which the half-period test at line 77 needs. At
72 MHz a period is 910 us. The counter is assumed to move between the two reads in
`monotonic_now` (a bus access takes several cycles). `stale`, `since`, `pulse`, `result`,
`got` and `target` are history variables.

**Vtimer** (`vtimer.c`, control part of `pllmath.c`). Time is cut into `K` slots a second,
and an offset into whole slots: one slot or more is past `STEP_THRESH`. Everything
is kept relative to the GPS second, so the state space is finite without a bound on
time. A round of `pll_thread` is two actions: `JudgePulse` or `JudgeNoPulse`, then
`Apply`; between them other threads run. Floating-point comparisons of the PLL
filter go either way, so every path through `pll_math` is possible. GPS messages
arrive between the pulse and slot `K-1` of their second, and the oscillator does not
drift by a slot during the instance.

**NtpServer** adds `ntp_recv`: stratum first (`JudgeReply`), time later (`StampReply`), with
rounds of `pll_thread` in between. Packet layout and digests are left out.

**Vtime** is the integer arithmetic below Vtimer's slots: `vtimer_updateI`, `vtimer_now`,
`kern_freq`, `vtimer_step`, the length of `pll_thread`'s sleeps. Ticks are counted from
`mono_last` and fractions from `vt_last`. Assumed: a round is longer than what a stale
reading is off, and the watchdog ends a round before the product of rate and ticks
outgrows 64 bits. The first round, which sets the base, is over in its Init.

**Quant** is `vtimer_set_correction` and `vtimer_get_frac_delta`: which pulse a quantisation
correction is applied to. `CorrectionBelongs` holds after two ordinary seconds; after a
missed round or a late message the code may use a correction for another pulse for
up to two pulses, and the model shows that too.

**Watchdog**: the two counters, `pll_thread`'s count down, and an IWDG whose oscillator
is anywhere between its limits.

### The network

**TcpApi** follows a message from `api_call` through the queue to `api_accept` and to the
callbacks of asynchronous operations. A message is named by its caller, since a
thread has one call at a time. **Logging** extends it: `log_write` takes `log_mutex`, calls
the API and gives the mutex back; the tcpip thread logs from `link_changed`,
`interface_changed` and `relay_accept` and runs its own API calls inline.
`WatchdogReset` is what ends a mutual wait in reality.

**EthTx**, **EthRx**: the rings as functions from descriptor numbers; the DMA is an action
of its own that may run between any two accesses by the thread. Frames are model
values (transmit) or numbers modulo a window (receive). `EthTx` keeps lwIP's
reference counts. `GetInvalid` gives a descriptor back without waking the DMA, as
the code does; a suspended DMA tries again with the next frame.

**Link**: `smi_poll_link_status`, register by register, with the latching status bit of
the PHY, against links that change at any moment and against the info command,
which reads the PHY from the main thread through the same two MAC registers.
Registers are sets of bits, so that a register taken for another is read as the code
would read it. `tcpip_checks`, `link_changed` and `interface_changed` follow, with the
startup message and the manycast group.

**Relay**: the main thread runs until it blocks in an API call; meanwhile the tcpip
thread accepts, displaces and drops clients, and lwIP reuses pcbs.

### Console and configuration

**Serial**: the USART's data and shift registers, TC, TXE and RXNE, one DMA channel, and
the transmit and receive queues; two threads write. **Cli**: `cli_feed` by key, CR LF
included, with the byte behind the buffer. **Settings**: `set` by character: find, parse,
store at its width, list. **Eeprom**: the I2C event and error interrupts, the chip with its
write cycle, `eeprom_do` with retries, page writes with readback, and the commands that
save; power may fail at any step. A master cannot see OVR. Checksum cells
are chosen so that no mixture of two configurations has a valid sum by accident;
the sum itself could not promise that.

### GPS and pure algorithms

**Gps**: `gps_byte_received` and all four parsers over the shared buffer, with packets as
short as the checks allow; a date is one byte. Satellite counts and setup messages
are left out. **Epoch** compares both directions of the calendar with one that is turned
day by day; it is proved about too. **Ihex** is `ihex_feed` by character with damage. Gps
and Ihex compute with folds (Gps with Bitwise too) and are for TLC only.

### FreeRTOS

**Kernel**: `queue.c` and the blocking half of `tasks.c`. A step is a critical section, or what
runs with the scheduler suspended between two of them; interrupts come between any
two steps. Among ready threads of the highest priority any may run. A finite wait
may end at any tick. Callers keep the rules of the API (a mutex is given by its
holder; a member of a set is read after a select) and take mutexes as the firmware does:
one at a time, except that `log_write` holds `log_mutex` (`Outer`) around the calls that take
the serial port's mutex or `api_mutex` (`MayTake`, `MayGive`); `Nests` are the threads that
log, `Direct` those that write to a port or call the API without logging too. A thread that
inherits a priority while it waits keeps its place in the event list, and
`InsertByPriority` walks such a list as `vListInsert` does. Not in it: the state inside
`vListInsert`, a member queue that is locked.
**QueueSpec** is the abstract queue; `QueuesImplemented` says that `Kernel` implements it
under the mapping that reads a ring from `pcReadFrom` on.
**Ticks** has the time Kernel leaves open: the wrapping count, both delayed lists, pended
ticks, `vTaskDelay` and a receive with a timeout. Threads have one priority there, and a
ready thread runs before the count has come round (`AllInTime`). **Lists** is what both use
of `list.c`: removal from a list.

The firmware is built with `heap_3.c`, queue sets, mutexes, 32-bit ticks and without
software timers; `event_groups.c`, `croutine.c`, the other heaps and the write half of
FatFs are not compiled.

### The bootloader

**Bootloader** (`main.c`, `bootloader.c`, `flash.c`): a cell is a flash word, blank, zero or
code. `PowerCycle` may strike at any step; what was being erased or programmed is then
arbitrary, and the card may have been changed. `calm` marks the last power cycle,
after which nothing fails: `Recovers` speaks about that boot. `Image` says what flash
should hold after a file, independently of pages: a cell is what the last record that
holds it says, and else what it was.
**Fat**: mount, search and read as the bootloader's configuration compiles them, on FAT12,
FAT16 and FAT32 volumes, whole and damaged, scaled to sectors of 8 bytes.
**Mmc**: bringing up four kinds of cards and reading from them, with commands and answers
lost and the processor reset while the card is not.

## Runs

| Run | Instance | Checks |
|---|---|---|
| `pps` | period 5, latency 2, pulses 7 apart, 3 rollovers, sleeps up to 6 ahead | `EpochTracksTime`, `CaptureExactOnce`, `NowExactOrStale`, `SleepNotEarly`, `SleepWakes` |
| `pps_now` (violation) | period 6, pulses 5 apart | `NowMonotonic`: a reading goes back by one period |
| `vtimer` | NtpServer: 5 slots, offsets to 8 slots, holdover 7 s, PLL timers 10 and 8. Watchdog: 5 rounds, IWDG of 3 to 9. Vtime: 40 fractions a second, rate 16 halves. Quant | `SynchronisedHonest`, `HoldoverExact`, `Converges`; `NoFalseReset`, `HungResets`; `ClockRight`; `CorrectionBelongs` |
| `tcpip` | 2 callers, one of them logs, queue of 1, syslog and DHCP on | `AnsweredRight`, `CallReturns`, `LogReturnsUnlessStuck` |
| `tcpip_stuck` (violation) | same | `ApiThreadNeverStuck`: the mutual wait happens |
| `eth` | 3 transmit descriptors, 4 frames; 4 receive descriptors, pool of 2; two partners, two modes of the PHY | `TxRingExact`, `TransmitReturns`; `RxRingExact`, `AllTaken`; `LinkExact` |
| `console` | 2 ports of different kinds, 2 writers, queues of 1; line of 4; 2 clients, relay buffer of 2 | `PortsExact`; `EnterRunsShown`; `RelayRight` |
| `eeprom` | 3 pages of 4 cells, 2 tries of 2 retries, 3 commands, a fault, a power failure | `BootConfigGood`, `ConfirmedStored`, `SaveEnds` |
| `eeprom_serial` (violation) | same | `SerialIntact`: a retry writes over the serial number |
| `parsers` | 4 protocols and a plain one, one fault; 1900 to 2110; lines of `set`; hex files with one damaged character | `FixFaithful`; `DatesAgree`; `ListingRestores`; `IhexTrue` |
| `kernel` | vtimer, main, tcpip and idle at their priorities, queues of 2 and 1, `log_mutex` and a port's mutex, a queue set; tick count modulo 5, delays 1 and 3 | `NoLostWakeup`, `PrioritiesHold`, `QueuesImplemented`; `WakesOnTime` |
| `bootloader` | 4 pages of 2 cells, 2 of them the application's, 7 files; 16 volumes; 4 kinds of card, 2 faults | `BootloaderIntact`, `UpdateExact`, `Recovers`; `FileExact`, `FatReturns`; `SectorsRight` |

**Why the bounds are enough.** A period of 5 is the least for a latency of 2, so that
the half-period test is at its limit; pulses 7 apart fall in every phase of the
counter; three rollovers let a sleep span two of them. Four frames for three
transmit descriptors let the ring be empty, full, and wanted by one more; the
receive ring fills up and overruns, and a pool of 2 runs dry. A queue of one slot
is full and empty in turn. Offsets of more than a second reach both kinds of step,
and holdover outlasts the PPS timeout. An IWDG of 3 to 9 rounds is shorter and
longer than the counters. A tick count modulo 5 wraps within every second delay. Two
threads of different priority and an interrupt are enough for every pair of steps
of the queue code to meet; a queue, a mutex with a queue, a set, and `log_mutex` around
the port's mutex each have a workload of their own. In the last all three threads log
and two also write to the port, so that a holder of `log_mutex` is lifted while it waits
for the port, a give does not lower its giver, and both kinds of last give occur. A configuration of two pages can be torn between them. A line of 4 fills up.
One fault in a burst, with a clean one before and after, reaches every state of a
parser; a second fault only starts that anew. The bootloader's pages have a neighbour
on each side, and files that cross pages, revisit them, leave the application's
area, are damaged or cut short are among its inputs; volumes have files that are
fragmented, in and not in a partition, in a directory of two clusters, with FAT12
entries across a sector's end. A partner of 10 half and one of 100 full, with and
without negotiation, use both values of every mode bit.
Named bounds: `MaxEpoch`, `SleepHorizon`, `MaxOff`, `AgeCap` (ages beyond every timeout
are the same), `Late`, `Horizon`, `MaxOps`, `MaxFaults`, `MaxResets`, `MaxWrites`, `NBytes`,
`MaxPackets`, `MaxWaiting`, `MaxLock`, `MaxPended`, `MaxDamage`, `MaxLba`, `MaxCount`, `LastYear`.

**Deadlock** is checked in `pps`, `vtimer`, `tcpip`, `eeprom` and `kernel`. In the others
a part may stop: the bootloader halts after an error and a file ends; with every
frame leaked nothing can be sent any more (a finding below); the writers, users,
clients and receivers of `console` and `parsers` run out of input.

**Fairness.** The timer counts; an unmasked interrupt is taken; a runnable thread
runs (strong fairness where it waits for a mutex, a queue slot or a masked
section that others may take in between: FreeRTOS queues waiters by priority and
arrival, and no thread here holds the processor for ever); timeouts expire. The
DMA is given no fairness, so `TransmitReturns` holds with a dead link. In Vtimer
the receiver sends its message in the second it belongs to. The bootloader's and
FatFs's steps are executed. The I2C controller raises the events it owes. lwIP's
name lookup reports success or failure in the end. The IWDG expires.

## Proofs

The theorems hold for every value of the constants that meets the modules' ASSUMEs;
TLC evaluates those for the instances of the runs. The lemmas about operators come first,
then one for each action or group of actions; the last step of a theorem is temporal logic
only.

| Module | Theorem | States |
|---|---|---|
| PpsCaptureProofs | eight, on the monotonic clock | the safety properties of run `pps`, and types |
| | `DatesAlwaysAgree` | `DatesAgree`, of the calendar |
| TcpApiProofs | `ApiAnswersRight`, `FirmwareAnswersRight` | `AnsweredRight`, of the API alone and with logging |
| | `FirmwareSemlistSafe`, `LogLinesWhole` | semaphores and `log_mutex` do their work |
| EthProofs | `ReceiveRingExact`, `TransmitRingExact`, `LinkStaysExact` | `RxRingExact`, `TxRingExact`, `LinkExact` |
| VtimerProofs | `SynchronisedIsHonest`, `HoldoverIsExact`, `ClockTyped` | `SynchronisedHonest`, `HoldoverExact`, types |
| | `ClockIsRight`, `CorrectionsBelong`, `NeverFalselyReset` | `ClockRight`, `CorrectionBelongs`, `NoFalseReset` |
| BootloaderProofs | `BootloaderStays`, `UpdatesAreExact`, `LoaderTyped` | `BootloaderIntact`, `UpdateExact`, types |
| | `SectorsAreRight` | `SectorsRight`, of the card driver |
| | `CardFailuresStop` | `FailureStops`, the last conjunct of `FileExact` |
| KernelProofs | `QueuesAreImplemented` | `QueuesImplemented`: Kernel implements QueueSpec |
| | `NoWakeupIsLost`, `ThreadsWakeOnTime` | `NoLostWakeup`, `WakesOnTime` |
| | `PrioritiesAreKept` | `PrioritiesHold`, with `log_mutex` held around other mutexes too |
| EepromProofs | `ConfirmedIsStored` | `ConfirmedStored` |
| ConsoleProofs | `LineOnScreenIsRun`, `PortsAreExact`, `RelayServesRight` | `EnterRunsShown`, `PortsExact`, `RelayRight` |

**The monotonic clock.** `IInv` joins the properties with: `FlagsInv`, what
the handler's copy of SR says about the flags in each of its steps; `AgeInv`, how
old an outstanding flag can be, which is the latency assumption carried from step
to step and is why no flag is raised twice; `EdgeInv`, the relation of `ccr` and
`pulse`, which says on which side of the last rollover an unhandled edge lies, also
when only one of the two flags was read; `CaptureInv`, that an outstanding edge is
later than everything handed out; `ReaderInv`, what `monotonic_now` has read in terms
of true time; and `SleepInv`, that `sleep_epoch` is the sleeper's target, or zero with
the semaphore given only once the target has come. `CaptureExact` after the handler
follows from `EdgeInv` and the assumption that the latency is below half a period;
with `CaptureFresh` it makes `CaptureExactOnce`. `NowExactOrStale` follows from
`ReaderInv`, `SleepNotEarly` from `SleepInv`.

**TCP/IP API and logging.** `ApiInv` says where each caller's message is: in the queue, with
a receive or a lookup, or answered, and in one of these places only (`PlaceInv`). So an
answer cannot come twice, nor after the caller has left. `LogInv` ties `log_mutex` to the
program counters. Logging's steps that are steps of the API are proved once, and the
others are shown to leave it alone.

**Ethernet.** A ring of any size is read from a moving origin: `RxInv` counts the frames not
yet taken from the oldest one on, `DmaInv` the frames queued from the DMA's descriptor on,
and both say which descriptors own what in between. Remainders are replaced by one
conditional subtraction (`WrapMod`). `RefInv` says that descriptors in use hold frames of
their own. `TransmitRingExact` assumes `Singles`, one buffer a frame, which is what `eth`
uses; for chains the code is wrong (`WireWhole`, below). `PollInv` says, for a poll met by
a steady PHY, what each register read so far has brought. `LinkAssumption` leaves out the
partners for which the code guesses the duplex mode wrong.

**The disciplined clock.** `ClockInv` follows the seconds after a step: with one pulse
accepted the rounds come in the last slot, with two the messages fall between rounds,
with three the time is right (`PulsesInv`), and the PLL cannot be in a state that sets
`PLL_OK` with fewer (`PllInv`, which needs `DL0 >= DesyncLimit`). `HoldInv` bounds the age of
the last pulse. `VtInv` bounds the drift between two readings by the rates of the rounds
between them and one fraction a round. `QInv` says which correction waits after one and
after two ordinary seconds. `WdInv` says that a counter loses at most one a silent round.

**The bootloader.** `ContentInv` is the heart: flash and page buffer together hold what the
file's records have said so far, cell by cell; where the buffer is not written back,
flash does. With `RecInv`, which says that all earlier records were data, it makes flash the
`Image` at the end of the file. `UntouchedInv` says that firmware that is already there is
never erased. `FilesAssumption` bounds records by the flash's end, as the code's address
arithmetic needs. For the card, as long as no loss went unseen: sectors are counted as the
card counts them (`ModeInv`), a card in the middle of a transfer is not taken for an idle one
(`IdleInv`), and the buffer has the sectors asked for (`StoredInv`). FatFs hands a failed
`disk_read` up from wherever it happens, through `move_window` and the values of `get_fat`, and
`try_flash` reads no more (`FailureStops`, which is inductive); the driver's proof starts from that.

**The EEPROM.** A retry after a failed readback sends what was read as if it were address
and data, so pages that are already confirmed can be overwritten. A save is still never
confirmed wrongly: either the pages before the present one are stored and only this one is
written (`Intact`), or the retry goes elsewhere, and then the present page keeps its wrong
contents, the next readback fails again, and the save ends with an error (`Misdirected`).
`DoInv`, `BusInv` and `ReadInv` follow a transfer interrupt by interrupt: a readback is complete,
and from a chip at rest, whenever `eeprom_do` returns OK. That the checksum is a number,
which a misdirected address needs, is an induction over the cells; it is done with a least
counterexample (`LeastNat`).

**FreeRTOS.** The refinement of QueueSpec is proved step by step for every set of queues,
lengths, containers and workloads: each step of Kernel maps to a step of the abstract
queues or leaves them alone. `Rings` says that the write pointer is behind the last item;
`CallsOK`, that a call names a queue. `WorkloadAssumption` says the same of the inputs.

`NoLostWakeup` counts, and so does its invariant: `WokenFor` says that while a thread sleeps on
a queue, or is about to, the items there (or the free places) are no more than the threads
woken for them and the wakeups that the queue's lock still owes. That a woken thread is
counted once needs `WaitersRight` (every list has a thread at most once, a thread is on one
list at most, and only while it is asleep in a call on that queue); that a thread which has
looked at the queue and not yet gone to sleep misses nothing needs `SchedulerRight` (while the
scheduler is suspended only the thread that suspended it runs) and `CallsRight` (only that
thread's queue is locked). The assumption that a member of a queue set is received from
without waiting is `main.c`'s loop.

`PrioritiesAreKept` is for threads that take mutexes as the firmware's do: one at a time, or
one more inside `log_mutex` (`log_write` holds it around the serial port's mutex and
`api_mutex`). `PrioInv` says: a mutex is free or has one holder, and a thread holds none, one,
or `log_mutex` and one more (`HoldersRight`); a thread that asks may (`AsksRight`); no thread on
an event list has a priority of its own above that of one before it, and no tick wakes the
threads that wait for a mutex (`OrderRight`); the holder has at least the own priority of
all that wait, and while a mutex is free and somebody still waits, the thread that was woken
for it has (`InheritRight`); and nobody who is ready is better than the running thread unless
a switch is requested (`CurrentRight`). `OrderRight` speaks of own priorities because a list is
not sorted again when a thread on it inherits one.

The delicate step is a give. `xQueueGenericSend` yields for the thread it wakes and not for the
giver's own drop in priority, and the priority drops with the last mutex only. So whoever
gives its last mutex with more than its own priority must wake a better thread than it then
is, and that is `LiftedRight`: a thread has more than its own priority only while one that has
as much waits first for a mutex it holds, or while it still holds `log_mutex` after giving such
a thread the inner one (`Rival`). In the second case the last give is that of `log_mutex`, and
`PriorityAssumption` makes it right: the giver is the lowest of the threads that log, so
whoever waits for `log_mutex` is better. The firmware meets it (app_config.h:23-25: of
vtimer 4, main 3 and tcpip 2, main and tcpip take the inner mutexes without logging too). The
NTP client has priority 1 and would break it if it were started: it is a second thread that
logs below the main thread, and tcpip could then be the one that is lowered with
only the NTP client waiting. `MutexAssumption` says that every take waits without a limit,
that interrupts use no mutex, and that none is in a set.

What the theorem does not say: the priority a thread inherits while it waits for a second
mutex is not passed on to that one's holder, as `vTaskPriorityInherit` lifts one thread only.
`Inheritance` compares with the own priority of the waiting thread, which is what the code
does; for a thread that holds nothing else the two are the same.

`WakesOnTime` has `TicksInv`: both delayed lists are sorted, a thread is on one of them at
most, and an entry of the current list is due before the wrap and one of the other after it
(`ListsRight`); a thread's entry is as far away as its call has still to wait (`ThreadsRight`);
and for a receive, the ticks spent are the count's distance from the time noted at its start,
plus one round if `xNumOfOverflows` has moved (`TimeoutsRight`). The list operators and
the run of pended ticks are recursive functions; what they compute is shown by a least
counterexample (`Least`).

**The calendar.** `EpochInv` says that `elapsed` is the day's number by the sums of `epoch.c`. The
way back takes a number apart into cycles of 400, 100, 4 and 1 years; `YearsSplit` shows that
the quotients, with the correction for the last day of a long cycle, are the ones the year was
made of. `LastYear` is arbitrary: TLC's run ends in 2110.

**The console.** For the command line, the screen shows the buffer, except after `exit`
(`LineInv`), and `EnterInv` follows a CR LF through it. For a port, everything handed
over is, in this order, on the wire, in the shift register, in the data register, with DMA
or queue, or still with the writer (`FlowInv`); `CarrierInv` says who waits for what. A
receive queue has as many entries in the set as bytes (`ReceiveInv`, by cardinality). For
the relay, the buffer is later than what any client has (`OrderInv`), the present client has
or will get everything since it was accepted unless it was refused memory (`CoverInv`), and
its number tells it from those it replaced, in a half-done callback too (`ClientInv`).

**Checked by TLC only.**
Liveness needs fairness and ENABLED, which the prover does not know: `SleepWakes`,
`CallReturns`, `LogReturnsUnlessStuck`, `Converges`, `HungResets`, `Recovers`, `FatReturns`,
`AllTaken`, `TransmitReturns`, `SaveEnds`.
What a parser computes over a whole input, `ListingRestores`, `FixFaithful`, the rest of `FileExact`, is an
induction over data with folds, which the prover takes no operator for; Gps uses Bitwise
besides. `IhexTrue` is for one damaged character: two that cancel in the checksum are accepted,
so no theorem for every `MaxDamage` is true.
`BootConfigGood` depends on the values: a mixture of two configurations may have a valid
sum by accident, so no theorem for all of them is true.

## Findings

With a run of their own:

- `monotonic_now` returns a time one period in the past if the timer rolls over
  between masking interrupts and the first read (`pps_now`).
- `log_write` holds `log_mutex` across an API call while the API's thread logs too;
  both can block until the watchdog resets the device (`tcpip_stuck`).
- A failed readback makes the retry of `eeprom_write_page` send what it read as if it
  were an address and data; the serial number can be overwritten (`eeprom_serial`).

Found by TLC when the property named is put into the configuration of the run, in
place of its own:

- `NothingLeaked` (`eth`): `maczero_transmit` can overwrite a descriptor whose frame was
  not freed yet.
- `WireWhole` (`eth`, with `Segments <- Chains`): all buffers of a chain go into one
  descriptor.
- `SmiReadsOwn` (`eth`): the info command can slip its own register into a poll.
- `SetWakesSelector` (`kernel`): an interrupt that adds to a queue set just before the
  selecting thread sleeps does not wake it.
- `GapResyncs` (`parsers`): a gap does not reset the parsers; one burst more is lost.
- `ExitLeaves` (`console`): `exit` with CR LF turns the command line on again.
- `BaudApplied` (`eeprom`, with `SetChoices <- MCSetBaud`): the GPS port is opened
  before the saved baud rate is loaded.

Seen while modelling: `client_recv` acknowledges a chained segment of which it
forwards the first buffer only; the duplex mode is guessed wrong for a partner
that offers full duplex at 10 Mbit only (`LinkAssumption` leaves it out); some settings
act at once although the manual says they need a save. `PROJECT.json` has the lines.

Also in the models, and no contradiction of any text: a DMA write of length zero would
never complete (no caller makes one); a byte that completes between the two
register reads of the serial interrupt is lost; a wrong quantisation correction may
be used for up to two pulses after a missed round.

## Plan

1. (done) The clock: PpsCapture with proofs, Vtimer, NtpServer, Vtime, Quant, Watchdog.
2. (done) Network: TcpApi, Logging, EthTx, EthRx, Link, Relay.
3. (done) Console, EEPROM, parsers, calendar, hex, FreeRTOS, bootloader with FatFs and card.
4. (done) Proofs: TcpApi and Logging, EthTx, EthRx, Link, Vtimer, NtpServer, Vtime, Quant,
   Watchdog, Bootloader, Mmc, Fat's failures, Eeprom, Kernel against QueueSpec, for lost
   wakeups and for priorities, Ticks, Epoch, Cli, Serial, Relay.

## Not modelled, and why

- Packet and text formats, SNMP (`snmp_app.c`), digests, UDP echo: no state of their
  own, or third-party. lwIP is a submodule and not in the repository; the modules
  take it as their environment.
- The values of the PLL filter: floating point; its comparisons go either way instead.
- `setup_clocks`, pins, interrupt priorities, linker and startup code: straight-line
  register setup (the jump into the application is in Bootloader).
- IPv6 address bookkeeping of `tcpip_checks` and the IPv6 type of `set`; SNMP counters;
  address filters; baud rate arithmetic.
- The NTP client, `mac_stop`, the queue and profile utilities: never called.
- Of FreeRTOS: creation and deletion of objects, software timers, event groups,
  co-routines, heaps, trace and run-time statistics. Of FatFs: everything the
  read-only configuration leaves out.

The map covers about a seventh of the repository's lines, and most of what remains
is of a kind no model would translate: register definitions (`stm32f10x.h` alone is
8300 lines, `core_cm3.*` 2600), headers of FreeRTOS that are mostly manual pages, and
the parts of FreeRTOS and FatFs that are not compiled. Of the firmware's own sources
under `src/src`, `src/lib` and `src/bootloader` most operations that change state are
actions of a module.
