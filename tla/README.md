# A verification project for the MP3 player drivers

This directory models the drivers and programs of an MP3 player on a Raspberry
Pi: a character device for a VS1003/VS1053 audio decoder, a rotary encoder with
a key, a small OLED display, and the program that ties them together. The
modules are TLA+; TLC checks them on small instances, and TLAPS proves every safety
property that holds on them for all instances.

Paths below are relative to `src/`.

## 1. The system

### Components, their state and their operations

| Component | State | Operations |
|---|---|---|
| vs10xx transmit path: `mp3_decoder_github/vs10xx_main.c` (write), `vs10xx_queue.c`, `vs10xx_iocomm.c` (wtready, data_tx) | per chip: 2048 buffers of 32 bytes in two spinlocked lists, `tx_pool_q` (free) and `tx_data_q` (filled), the wait queue `tx_wq`; the chip's DREQ line | `write()` of any number of processes: fill buffers, then drain the data queue into the chip |
| vs10xx control path: `vs10xx_main.c` (ioctl), `vs10xx_device.c`, `vs10xx_iocomm.c` (ctrl_xf) | per chip one `spi_message`, two transfers, `tx_buf[4]`, `rx_buf[2]`; the chip's registers | `ioctl(VS10XX_SET_VOL)`, register reads and writes, initialisation of the chip |
| vs10xx lifecycle: `vs10xx_main.c` (init, exit, probes, open) | device numbers, class, cdevs, the `spi_ctrl`/`spi_data`/GPIO pointers of a chip | load, unload, control probe, data probe, open, release |
| rotary encoder: `rotary_encoder_vol/rotary_encoder.c` | globals `counter`, `prev_s1`, `prev_s2`, `key_press_event`, `debounce_timer`, three interrupt numbers | `open` (claims GPIOs, timer, interrupts), `read`, `release`, two knob interrupt threads, one key interrupt thread, the timer |
| rotary encoder with LEDs: `rotary_encoder/rotary_encoder.c` | as above, with `direction`, `key_state` and seven LED pins instead of `key_press_event` | as above without `read`, plus `update_led` from threads and timer |
| rotary test module: `test/rotary_test.c` | the same globals | everything in the timer callback; loads and unloads with the module |
| OLED driver: `oled/oled.c` | one frame buffer, one I2C client | `write` of a `struct mp3_ui_data` redraws and flushes the buffer; load, unload |
| player: `user_space/music_vol_ctrl/change_music.c` | `player_state`, `request_track_change`, `keep_running_threads`, a mutex and a condition variable | playback, control and UI threads, main |
| older player: `ioctl_vol_ctrl.c` | `is_paused`, a mutex and a condition variable | playback loop, volume thread |
| older queue: `mp3_decoder/vs1003_queue.c` | two lists and a counter of free entries | alloc, flush, getslot, gethead, enqueue, dequeue, free |
| `oled_test.c`, `hello_driver.c`, `*.mod.c`, `vs10xx-overlay.dts` | none of interest | |

### How they interact

The player's playback thread reads a file block by block and hands each block to
the decoder's `write()`; the control thread polls the encoder's `read()` every
50 ms, turns the count into a volume (`ioctl`) and the clicks of the key into
pause, next and previous; the UI thread copies the shared state every 100 ms to
the display's `write()`. Data and control of the decoder meet at the chip: both
wait for the same DREQ line. The three interrupt threads and the timer of the
encoder meet `read()` in a handful of unlocked globals.

### What is hard, and what makes each component correct

* **Transmit path.** Processes sleep for free buffers that only a draining
  process returns, and a process drains only after it has queued everything it
  has. The buffer that meets a stalled chip is put back without the queue's
  lock. Correct means: buffers are never leaked or shared; a sleeper is told
  when a buffer becomes free; what was accepted reaches the chip once, in order
  and unmixed; writes return; nothing stays behind.
* **Control path.** One unlocked SPI message per chip; results ignored. Correct
  means: each command reaches the chip as it was issued, and a caller is told
  if not.
* **Lifecycle.** The device exists before its queues; the two probes come in
  either order; partial failures. Correct means: no operation meets
  uninitialised state, and unloading frees everything once.
* **Rotary encoder.** Two threads decode one state; a timer runs after its
  interrupt; nothing serialises opening and closing. Correct means: the count is
  exact when the knob is turned slowly and recovers when it is not, one process
  at a time has the device, every click is reported at most once.
* **Player.** Three threads and a condition variable. Correct means: the song
  that plays is the chosen one, a change is prompt and carried out, a pause
  ends when it is ended, the display is consistent, and the program ends.
* **OLED driver.** A shared frame buffer; correct means that a picture is the
  picture of one write.

`PROJECT.json` lists the individual hazards with their lines.

## 2. Plan

In order of importance. Everything in it is done.

1. `Vs10xxTx` - the transmit path, with the abstract channel `TxChannel` and the
   refinement `Vs10xxFifo`; proofs in `Vs10xxTx_proofs` and `Vs10xxFifo_proofs`.
2. `RotaryKnob` - sampling and decoding by openers and two interrupt threads; proofs in
   `Panel_proofs`. `RotaryTurns` - the same with a history of the turns.
3. `RotaryKey` - opening, reading, closing, key and timer; proofs in
   `RotaryKey_proofs`. `RotaryEncoder` - the driver composed of the two.
4. `MusicPlayer` - the threads of the player; proofs in `MusicPlayer_proofs`.
5. `Vs10xxControl` - ioctl, register access and the shared SPI message of the
   decoder. Abstract specification: `VolumeRegister`, a register whose writes are
   atomic; proofs in `Vs10xxControl_proofs`.
6. `IoctlVolCtrl` and `VolumeControl` - the older player, and its composition with
   the register; proofs in `Chip_proofs`.
7. `Vs10xxLifecycle` - load, probes in either order, use, unload call by call, with the
   buffers allocated on the way; proofs in `Chip_proofs`.
8. `OledDriver` - concurrent writes down to the I2C bytes, the layout of the screen;
   proofs in `OledDriver_proofs`. `ModuleLoading` - the unwinding of failed loads; proofs in
   `Panel_proofs`.
9. `RotaryLeds` - `update_led` in threads and timer, and the test module; proofs in
   `Panel_proofs`.
10. `Vs1003Queue` - the older queue; proofs in `Chip_proofs`.

What could be added: a network of `MusicPlayer`, the display and the encoder in one
specification; each meets the others through one value at a time (a count, a block, a
copied record), so that the composition says little the parts do not.

## 3. The modules

### `Vs10xxTx` - the transmit path

One chip; chips share nothing. The state is the two lists as sequences of
buffer numbers, what each buffer holds, and for each process its place in
`vs10xx_write`, the buffer it holds and how far it has got.

| Action | Code in `vs10xx_main.c` |
|---|---|
| `Begin` | entry of `write()`, 37-43 |
| `TakeFree`, `Sleep`, `Signal` | `wait_event_interruptible`, 48-50: the condition itself takes the buffer |
| `CopyAndQueue`, `CopyFault` | 53-60 |
| `TakeData`, `Return` | the head of the draining loop, 64, and 86 |
| `Ready`, `GiveUp` | `vs10xx_io_wtready`, 66 |
| `Requeue`, `RequeueTorn` | the unlocked `list_add`, 68-70 |
| `Send` | `vs10xx_io_data_tx`, 74 |
| `Recycle`, `Wake` | 80, 83 |
| `ChipReady`, `ChipBusy` | the chip's DREQ line |

`get_head` and `put_tail` run under the queue's spinlock and are one step each.
`list_add` is two: it reads the head's successor and then links the buffer. If
the first element has changed in between, the stores of two list operations mix.
What the list looks like then depends on how the compiler and the processors
order them, so the model notes `damaged` and stops there: everything is claimed
up to that point and nothing after it. Theorem `OneWriterListIntact` shows that one
writing process never gets there.

The content of a buffer is a chunk, named by the call and its index; a block has
a front and a back because a short last chunk overwrites only the front, and all
32 bytes are sent. `Env` says which of the surroundings' faults a run admits:
stalls of the chip longer than the polling, short writes, unmapped user buffers,
failed transfers, signals, control commands. `accepted` and `sent` are histories.

So is `late`: for each process the blocks it has sent to a chip that did not ask for data,
since the chip asked last. Between the test of DREQ (66) and the transfer (74) another
process' block or a control command can fill the chip, and the programs do set the volume
beside `write()`; so this happens, and the question is how often.

### `TxChannel` and `Vs10xxFifo` - what the transmit path promises

`TxChannel` is a lossy FIFO: a chunk is accepted at the end, and the oldest chunk
not yet dealt with is either transmitted or lost. `Vs10xxFifo` maps the driver to
it: `wire` is the front of what was sent, `taken` the number of accepted chunks that
are neither in the data queue nor in a process' hands. `FifoChannel` is the channel's
specification under this mapping. It holds for one writing process and fails for
two (run `tx_reordered`).

### `RotaryKnob` - sampling and decoding

`Turn` is the knob: a quarter turn either way, any time, or, if the knob is
`patient`, only when the driver has handled the last one. The driver starts loaded and
closed, with the knob anywhere. `Open`, `ReadFirst`, `Keep`, `ReadSecond`, `Keep` are `my_open` as far as
line 79: it reads one line and stores it in `prev_s1`, then the other. `Request` and `Free`
are `request_threaded_irq` and `free_irq` (87-88, 107-108), and an edge on a line that is not requested is
never delivered. So the model has the turn between sampling and requesting, the turn
between the two samples, and the open that is going to fail but overwrites `prev` first.
Each signal line has an
interrupt thread; `Enter`, `ReadS1`, `ReadS2`, `Compare`, `LoadCounter`, `StoreCounter`, `Remember` are
the accesses of `irq_handler` (131-155) in the order in which the compiled driver makes
them: both old levels are loaded together, the counter is loaded once per
decision. Contact bounce is a turn back and forth.

Two histories say when something can be promised. `unsure`: since somebody last looked at
the lines alone, an edge was not heard or another has looked as well. `exact` is what the
count should be, from an opening that began at peace; it becomes unknown with an edge
that is not heard or meets somebody sampling.

`RotaryTurns` adds the `path` of the knob since it was last at rest, for the one property that
says what a turn is.

### `RotaryKey` - the device file, the key and the timer

`Open`, `Sample` (the four accesses of lines 78-79), `SetupTimer`, `RequestIrq` (once for each interrupt),
`Opened` are `my_open`; `Fetch`, `Clear`,
`Copy` are `my_read`; `Close`, `StopTimer`, `FreeIrq`, `Closed` are `my_release`; `HandleKey` is the
interrupt thread and `Expire` the timer's callback. The interrupts are not shared, so
the claim of the first one acts as a lock. Claiming the GPIOs is left out: the code
ignores whether it succeeds.

### `RotaryEncoder` - the whole driver

`RotaryKey` and `RotaryKnob` share `my_open` and `my_release`. A step of a process is a step of both
where it opens, samples, requests or frees (`Process`); the interrupts that are on in `RotaryKnob`
are those that have an owner in `RotaryKey`. Everything about the knob is checked on this
composition.

### `MusicPlayer` - the player

The places of the four threads are the fields of `at`. Each critical section is one
step, because nothing inside one waits for another thread; `pthread_cond_wait` releases
the mutex, may wake spuriously (`WakeSpuriously`), and a signal with no waiter is lost
(`Decide`). Times are reduced to what the properties tell apart: the song a playback
time was measured in, the song a total time belongs to. The click window is the
flag `expired`, set by `TimePasses` and cleared by a click. The volume, which no
thread but one touches, is left out (see section 7).

### `Vs10xxControl` and `VolumeRegister` - the control path

A caller is the data probe, which starts the chip, or a user's `ioctl`. Each has a list
of register accesses left (`todo`) and a place in the current one (`pc`).

| Action | Code |
|---|---|
| `Ioctl`, `DeviceInit` | `vs10xx_main.c` `vs10xx_ioctl`; `vs10xx_device.c` start of the chip with its reset |
| `Ready`, `TimeOut`, `Settle` | `vs10xx_iocomm.c` `vs10xx_io_wtready`, before and after a transfer |
| `Clear`, `Renew`, `Build` | `vs10xx_io_ctrl_xf`: memset of the transfers, `spi_message_init`, the copy into `tx_buf` with `spi_message_add_tail` |
| `Submit`, `Transfer` | `spi_sync`: waiting for the bus, then sending what is in the message by then |
| `DataRequest` | the chip's DREQ line, which `write()` moves too |

The four steps of one message are separate because nothing keeps a second caller out
between them. When the message changes while it is on the bus, is linked twice or is
sent half cleared, the kernel's list is corrupt: `damaged` is set and nothing is
claimed after it. `VolumeRegister` is the abstract register: `Ask`, `Set` once, `Return`, with a
`trust` that ends at the first failure or at the first two calls at once. `AtomicVolume`
is its specification under the mapping at the end of `Vs10xxControl`.

### `IoctlVolCtrl` and `VolumeControl` - the older player on that register

`IoctlVolCtrl` is the program: main feeds the song (`Fetch`, `Test`, `Wake`, `Write`, `Join`), its
thread polls the encoder (`Loop`, `Read`, `StartIoctl`, `IoctlReturns`, `Key`). `VolumeControl` joins it
to the driver: `StartIoctl` is the register's `Ask` and `IoctlReturns` its `Return`; a second
run of the program with the command `setvolume` is another caller. Because
`Vs10xxControl` implements the register, the composition uses `VolumeRegister` in its
place. Between the start and the return of an ioctl the thread is inside the driver, and
main goes on.

### `Vs10xxLifecycle` - load, probe, open, unload

One of the driver's devices. `Load`, `CreateClass`, `AddCdev`, `CreateDevice`, `InitQueues` and
`Register` are the steps of `vs10xx_init` with their failures, noticed or not; `ProbeCtrl` and
`ProbeData` come when the bus finds the devices, in either order; `Open`, `Write`, `Ioctl`, `Close` may
come as soon as `cdev_add` is through. `vs10xx_exit` (233-248) is a step per call, in the code's order: `Unload` and
`Unregister` for the two SPI drivers, `Undo` for the device, the cdev and the class, `FreeQueues`, `GiveBackRegion`.
`fault` is set where a pointer or a list that was never set up is used.

The buffers are counted: `stock` in `tx_pool_q`, `queued` in `tx_data_q`, `memory` allocated and not freed. A
write ends with some of its chunks queued when the chip stalls, a signal comes or the
user's buffer is not mapped (`Fill`, `FillAndSend`). `FreeQueues` frees the pool only, as line 241 does, so that
what is queued then is lost; the history `unsent` counts it.

### `Vs1003Queue` - the older queue

One action per operation of `vs1003_queue.c`, and `Fill` for the user who fills the slot
that `getslot` returns. The user is outside the repository; the model calls one
operation at a time, as its interface asks.

### `OledDriver` - the display

A writer goes through `Clear`, `Load`/`Store` for each field, `Copy`, `Command` for each of the six
bytes of the addressing window, and `Data`. A field is drawn by reading, or-ing and
storing the bytes it lies in, so that it is two steps. A picture is, for each field, the
set of writes whose ink is in it: pixels are left out, but where the fields lie is
translated in `Layout`, which depends on the volume, the length of the title and the length
of the track field: `oled.c:231` prints two unsigned ints into 16 characters, so that it has 5
to 15 of them. The display (`Received`) takes the bytes after a command as its
arguments whoever sends them.

### `RotaryLeds` - the LEDs

`variant` tells the driver `rotary_encoder` ("threads") from the module under test
("timer"). `LoadLeds` reads counter, key and direction at once into `led_data`, `SetPin` sets one pin at a time. Decoding is one
step; its parts interleave in `RotaryKnob`. `Opening` is the order of the opening's steps, which is
not the same in the two: the driver samples the lines (`Read`, `Keep`), sets up the timer and requests
the interrupts (`Request`); the test module requests first and samples afterwards. The driver's
globals are as an earlier user left them. `Reopen` is another process that opens the
driver and is refused, after it has sampled the lines again and set up the timer.

### `ModuleLoading` - what the modules claim

Sequences of claims, each with what is released when it fails, read off the three
loading functions; `Succeed`, `Fail` and `FailUnnoticed` walk them.

### `MCVs10xxTx`, `MCChip` and `MCPanel` - the instances

`MCVs10xxTx` gives `Vs10xxTx` its constants. `MCChip` and `MCPanel` put components that share no
state side by side. The variable `subject`, chosen once in the initial state, says which
of them a behaviour is about; the others do not move. The state space is thus the sum of
theirs, not the product, and each property is about one subject. The parts' liveness is
checked under the fairness of that part; a part at rest has no enabled fair step.

## 4. The runs

| Run | Instance | Shows |
|---|---|---|
| `tx_safety` | 2 processes, 2 buffers, 1 call each of up to 2 chunks, 1 signal, all faults but failed transfers, control commands | type invariant, conservation of buffers, every accepted chunk sent exactly once or still waiting, whole chunks unmixed; until the chip asks again it gets at most one block too many from each process |
| `tx_fifo` | 1 process, 2 buffers, 3 calls, all faults but control commands | the driver implements `TxChannel` |
| `tx_liveness` | 2 processes, 3 buffers, 1 call each of up to 2 chunks, failed transfers | no lost wake-up, somebody always drains, every write returns, everything queued is taken out |
| `tx_stalled` (violation) | 1 process, 2 buffers, stalls | a write after a stall sleeps for ever |
| `tx_left_behind` (violation) | 1 process, stalls | chunks put back after a stall stay in the queue |
| `tx_reordered` (violation) | 2 processes, no faults | blocks overtake each other |
| `rotary_whole_turns` (violation) | 1 process, limit 2, 4 quarter turns | a knob rocked at rest counts as a turn |
| `player` | 3 songs, one missing, 4 clicks | the song played is the chosen one; changes prompt and carried out; waits only paused; the program ends |
| `player_display` (violation) | 3 songs, 3 clicks | a track change in a pause mixes two songs on the display |
| `chip`, subject control | the probe and 2 users at once, one argument with bits above the two bytes | the chip is at the volume asked for when calls come one at a time and nothing fails; only two callers damage a message; every call returns; the path implements the register |
| `chip`, subject program | songs of up to 2 chunks, counts 0 and 15, a second setter | at most one chunk after a pause; the volume follows the knob; a resume is heard; the program ends |
| `chip`, subject life | 2 loads, 2 open files, 2 buffers | a driver that is not loaded has given everything back but the buffers left in the data queue; once queues and `spi_data` are set nothing faults |
| `chip`, subject queue | 3 entries, 4 fillings, 2 allocations | entries neither lost nor doubled; the counter never ahead; order until the first flush |
| `panel`, subject key | 2 processes, 3 opens, 3 presses | one opener, who owns all interrupts; every click accounted for |
| `panel`, subject knob | 2 processes, 2 opens, limit 1, 3 quarter turns from any position | limit respected; patient knobs counted exactly; position recovered |
| `panel`, subject leds | 1 counter pin, 3 edges or reopenings, both drivers | the LEDs show what the driver knows, and that is where the knob is |
| `panel`, subject display | 2 processes, 2 fields, 2 writes | a write alone shows its picture; no ink of finished writes; the layout's fields apart, and cut off only where the code cuts them |
| `panel`, subject loading | 3 modules, 2 loads, every claim failing | nothing kept, nothing released twice |
| `test_pins` (violation) | 2 loads | the test module claims a pin it has already |

**Why the bounds are enough.** Two buffers are the smallest pool in which a
process can be between two buffers of one call while another drains; two writers
are the smallest number that can race on the queues and the wake-ups. Three calls
of one writer let a stall's leftovers meet a full pool. `tx_liveness` needs three
buffers: with two, two calls of two chunks each can take the whole pool and both
wait (see the findings). In the driver the same relation holds between 2048
buffers and the sum of all writes in progress. In `tx_safety` the second process or a control
command is what makes a reading stale, and two chunks of a call are what a process could
send without looking again. The knob starts in each of its positions, so that one to three
quarter turns are enough to step into the rest position either way, to be missed before
the interrupts are requested, and to be heard afterwards; with a limit of 1 the counter
is at 0 and at its limit. The second opening is the one that is refused and overwrites
the samples, or follows a release. The theorems have any number of them. Three opens and two processes include opening while another
opens, uses or closes the device. Four clicks give all of pause, next and previous and a
track change on top of another. Three songs tell next from previous.

On the control path two users and the probe give all the ways in which two messages meet,
and a third caller at the bus; a fourth would only queue. The counts 0 and 15 are the
loudest and the quietest the knob can ask for, and two different ones are all a change
needs. Two open files let one process open while another writes; two loads show what an
unloading leaves behind; of two buffers one can be free while the other is queued. One counter pin makes the LED data four bits, which two threads can
tear at each place; more pins add places of the same kind. Of the fields one is always
drawn and the other only while the music plays, which are the two kinds of field there
are; two writes overlap or follow each other. `FieldsApart` is about the real screen: it
looks at every level and title length the record in `oled.h` can hold, and at every length of
the track field.

`Users` and `Writers` are symmetric in `panel`: no definition singles one out, and the run has
no liveness property. `CHECK_DEADLOCK` is off everywhere: the bounded runs end when the
callers have made their last call, and a decoder driver after a fault stops for good.

**Fairness.** `FairSpec` of `Vs10xxTx` assumes weak fairness of each process' steps inside
`write()` - the scheduler runs a runnable process - and of `ChipReady`: a decoder with data
plays it and then asks for more. Nobody has to call `write()` and no fault has to
happen; a sleeping process has no step, so its wake-up must come from another
process. In `MusicPlayer` the threads are weakly fair and time passes; nobody has to
click. `ChangeIsTaken` therefore rests on the driver's `write()` returning, which is what
`EveryWriteReturns` says under its conditions. Playback writes 4096 bytes, 128 chunks of
2048, so the condition on the pool holds while the chip does not stall.

In `Vs10xxControl` each caller's steps are weakly fair and `Submit` strongly fair: the bus is
granted to its waiters in turn, as a mutex of the kernel does. The chip is not fair at all:
`CallsReturn` holds although DREQ may stay low, because the polling is bounded. In
`VolumeControl` main and the volume thread are weakly fair; an ioctl returns as long as it
had the driver to itself, which is what `CallsReturn` gives where nothing is `damaged`. Nobody has to
turn the knob or press the key: `ResumeIsHeard` allows the pause to last for ever.

Every property of a passing run has a mutant in `PROJECT.json`: a changed definition
(a missing reset, a dropped test, a wake-up left out) under which TLC finds the
property violated. The mutated definitions stand before the originals, marked
`Mutant`.

## 5. Proofs

All proofs are checked by TLAPS, with the assumptions named in the modules: for
`Vs10xxTx` finitely many processes (at least one), at least one buffer, `Blank` not a
chunk; for `RotaryKey` finitely many processes, of which `Nobody` is none; for `MusicPlayer` at least one
track; for `Vs10xxControl` that `Nobody` is no caller, the probe is one, and the arguments are
numbers; for `OledDriver` that the fields are a sequence; for the others that limits and bounds
are natural numbers and the encoder's counts between 0 and 15. They hold for any number of
processes, buffers, entries, calls, chunks, presses, tracks, clicks, callers, arguments,
quarter turns, edges, LEDs, writes and loads.

Each theorem is the usual three steps: the initial states, one step per action, and
the temporal conclusion. What follows says which invariant is inductive and why the
property alone is not. Every safety invariant and safety action property of the passing
runs is stated by a theorem. What the code keeps only under a condition on its
surroundings has this condition as its hypothesis.

`Vs10xxTx_proofs`:

* `TypeCorrect`: `Spec => []TypeOK`.
* `BuffersConserved`: `Spec => []Conservation`, under all faults. `Conservation` is close to
  inductive, but that a process in the right place holds a buffer needs the type
  invariant. `Counted` (a process inside `write()` is in one of its numbered calls and has
  queued less than the call's size) keeps the history of accepted chunks well typed.
* `WakeupNotLost`: `Spec => []NoLostWakeup` if no user buffer faults. The inductive
  invariant adds `SleepersFill` (only processes at the wait are asleep): without it a
  process could be asleep at its own wake-up.
* `OverrunBounded`: `Spec => []OneLateBlock`, for any number of processes and all surroundings. What is
  inductive is that a process which has found DREQ high and not sent yet has no late
  block (`NextLate`): it found the line high after the chip had asked, which cleared the count, and it has to
  poll again before the next block.

The inductive invariant of the others is `IInv == TypeOK /\ Counted /\ SleepersFill /\ Conservation`. Lemmas
about the queues (`PutTailElems` and its neighbours) say what appending, prepending and removing
do to the elements and to their distinctness.

`Vs10xxFifo_proofs`:

* `OneWriterFifo`: with one process, `Spec => FifoChannel`, through stalls, faults, signals and
  failed transfers. The argument: the backlog (the buffer in hand, then the data queue)
  holds exactly the accepted chunks that were not taken, in order; a stall returns the
  buffer to the front, so nothing overtakes it.
* `OneWriterListIntact`: with one process the unlocked `list_add` never meets another list
  operation.
* `ChunksSentOnce`, for any number of processes: `Spec => []EachChunkOnce`. The invariant `Balance`
  compares, chunk by chunk, what was accepted with what was sent and what waits. Every step is one of three kinds seen
  from the backlog (the filled buffers, in the queue or in hand): it leaves the backlog
  as it is, a buffer joins it with a chunk accepted last, or a buffer leaves it with a block
  sent last. Two buffers of the backlog may hold the same chunk (a signal restarts a
  call), so that the invariant counts and does not name them.
* `ChunksUnmixed`: `Spec => []WholeChunksUnmixed`, from `AllWhole`, the same statement about the
  backlog and about what was sent.
* `DrainsGoOn`: `Spec => []SomeoneDrains` if no stall, unmapped buffer or signal ends a write early and
  `N > Cardinality(Writers) * (MaxChunks - 1)`. The invariant `Queued` says that every buffer in
  the data queue holds a chunk of a call that has not returned, and no two the same one. If all
  of these calls slept, the pool would be empty and each would have queued all but one of its
  chunks at most, so that by the pigeonhole principle two buffers would hold the same chunk.
  The bound is the exact one: with one buffer less all of them can sleep for ever (section 6).

`RotaryKey_proofs`:

* `TypeCorrect`: `Spec => []TypeOK`.
* `OwnerOpens` and `OneProcessOpen`: `Spec => []OpenerOwnsIrqs` and `Spec => []OneOpener`, for any number
  of processes. The inductive invariant `Owned` says what a process holds half-way:
  in `open()` the interrupts it has passed while no request has failed, in
  `release()` those it has still to free. `OneOpener` then follows because two owners of
  one interrupt are the same process.
* `EveryClickAccounted`: `Spec => []ClicksAccounted`. The strengthening `Counted` says where a
  read that holds a click is; with `Owned` it follows that at most one read is inside the
  device (`ReaderAlone`), so that each step moves at most one click from one term of the
  sum to another.

`Vs10xxControl_proofs`:

* `SerialCallsExact` and `DamageTakesTwo`: `Spec => []SerialExact` and `Spec => []DamageNeedsTwo`. The
  inductive invariant is `TypeOK`; `Placed`, a caller in an access has one to do; while no two
  calls have met, `Alone`, one caller at most is at work and the message and the bus are as
  its place says; and while nothing has failed either, `Exact`, the command in hand and
  those to come end in the volume asked for. `Alone` is needed because `SerialExact` says
  nothing of the states inside a call.
* `ImplementsRegister`: `Spec => AtomicVolume`, through failures and overlapping calls. The transfer of
  the volume is the register's `Set`, a time-out or failed transfer its `Fail` or a failing
  `Return`, everything else a stutter.

`Chip_proofs`, about the other parts of `MCChip`. A behaviour of `MCSpec` is one of each
part, as all but the subject stand still (`Parts`); the player alone, which is started only
where it is the subject, is proved about with `subject` in the invariant:

* `NothingElseLeaks` and `NoFaultOnceUp`: `MCSpec => []LeakIsUnsent` and `MCSpec => QuietOnceUp`. `LifeInv` has the
  balance of the buffers, `memory = stock + queued + unsent`, at every place and through every write, so that
  freeing the pool leaves just those that are queued; what the loading has taken and the
  unloading has given back at each of their places; that nobody has the device open while it is unloaded; and
  that the DREQ line is set only by a control probe, which has set
  `spi_ctrl` before, so that an access that finds the line high has its SPI device.
* `QueueAccounts`: `MCSpec => []EntriesAccounted`. `EntriesInv` states it of the two lists one by one,
  and that no entry's filling is later than the last one made, so that a new
  filling at the tail keeps the order.
* `OneChunkLate`: `MCSpec => []PauseHolds`. `PauseInv`: the one chunk written in a pause is the one for which
  main had passed its test; with `late = 1` it is not at the write again.
* `KnobIsFollowed`: `MCSpec => []VolumeFollowsKnob`. `KnobInv` follows the last count through the ioctl
  in progress: the count passed on, or being passed on, is what the register is
  asked for, and a register that nobody is in has it.
* `ChipTypes`: `MCSpec => []TypesOK`.

`OledDriver_proofs`, for any list of fields and any processes:

* `NoGhostIsSent`: `Spec => []NoGhosts`. The strengthening `Fresh` says for
  each place which ink the buffer, the byte read and the copy can hold: before a writer
  has cleared the buffer any, afterwards only that of writes since the last rest.
* `LastPictureIsShown`: `Spec => []SerialPicture`. The property speaks of the driver at rest only;
  `Serial` says for each place of the one writer how much of its picture
  is in the buffer, in the copy and on the display, and how many of the window's bytes
  the display's registers have taken (`Undisturbed`).
* `LayoutFits`: `FieldsApart`, kind of box by kind of box, and `TypeCorrect`.

`Panel_proofs`, about the parts of `MCPanel`, which are taken apart as in `Chip_proofs`:

* `KnobCaughtUp`: `MCSpec => []CaughtUp`, for any openers. `CatchUpInv`: while `unsure` is not set, one at most is looking, a
  thread or an opener, and what it has read of the lines (`Looks`, `Glances`) is where the knob is, or an
  edge is pending that will have it looked at again. An opening that begins alone ends the doubt
  as a handler does, because the edges on lines that are not requested set `unsure`.
* `PatientKnobIsCounted`: `MCSpec => []PatientKnobCounted`, for any limit. `PatientInv` says for each place
  of the thread at work what the count is going to be (`CountsTo`), and that samples taken meanwhile are
  of a knob that has not moved.
* `LedsHaveCaughtUp`: `MCSpec => []LedsCatchUp`, for both drivers and any number of LEDs. The thread at
  work has the present data and has set the LEDs below its pin (`Sets`); what the driver does
  not know yet of the knob is awaited by a thread, by the armed timer or by the opening, or `unsure` is set (`Noticed`).
* `EveryClickAccounted` and the other theorems of `RotaryKey_proofs` hold of the encoder as it stands in the
  panel, since every step of `RotaryEncoder` is one of `RotaryKey` or leaves it alone (`Parts`).
* `LoadingIsBalanced`: `MCSpec => []LoadingBalanced`. `Accounted` says at each claim what a module holds: all
  it has asked for, but for the adapter, which it has given back, and a
  device that was not created unnoticed. That each error path releases just that
  (`UndoesAll`) is read off the three loading functions, claim by claim.
* `NoGhostsSeen`, `LastWriteIsShown` and `FieldsStayApart` carry the display's theorems over to
  the panel; `PanelTypes` is `[]TypesOK`. The LED data is cut into bits with powers of two, of
  which the prover knows no property without an induction; that they are
  positive (`PowersPositive`) is a hypothesis of `PanelTypes` and of nothing else.

`MusicPlayer_proofs`:

* `TypeCorrect`: `Spec => []TypeOK`. The clicks counted in a window are bounded only together with the
  clicks made, which `ClicksBound` adds.
* `SharedAgree`, `WaitIsForAPause`: `Spec => []SongIsCurrent` and `Spec => []WaitsOnlyPaused`, for any
  playlist.
* `ChangePrompt`: `Spec => []ChangeIsPrompt`. The strengthening `Leaving`: after a block written
  against a request the playback thread is past its write and must leave the song.
* `ChoicePlayed`: `Spec => ChoiceIsPlayed`, from `ChoiceStands`: until the song has ended, the track the
  clicks chose is the current one.

Only model-checked:

* the liveness properties (`EveryWriteReturns`, `BacklogDrains`, `ChangeIsTaken`, `CallsReturn`, `ResumeIsHeard`
  and both `ProgramEnds`): they rest on fairness, that is on `ENABLED`, which the prover does not handle;
* the disagreements of section 6, each a counterexample on an instance;
* inductions over data, of which `PowersPositive` is the one that is needed. No module declares
  a RECURSIVE operator.

## 6. Findings

Disagreements between the code and what the repository says, each with a
counterexample:

1. **A write after a stall can sleep for ever** (`tx_stalled`). A stall leaves the call's
   buffers in the data queue. The next call counts on free buffers before it
   drains, and if the leftovers and its own chunks exceed the pool, it sleeps while
   nobody is left to drain.
2. **Data stays behind after a stall** (`tx_left_behind`). The comment says that the driver
   waits; it returns.
3. **Blocks of two processes overtake each other** (`tx_reordered`), because taking a block
   from the queue and sending it are not one step.
4. **The decoder counts half turns** (`rotary_whole_turns`): rocking the knob out of its rest
   position and back counts as a turn, against the cycle in the comment.
5. **The display mixes two songs** (`player_display`) when the track is changed in a pause:
   nobody wakes the playback thread, so the total time stays that of the old song.
6. **The test module can never be loaded** (`test_pins`). Its seven LEDs, from pin 12 on,
   include pin 13, which it has just claimed for the encoder; the comment above the pins
   says they are unlikely to conflict.

The models contain more behaviour of this kind for which no text of the
repository promises otherwise; no run states it:

* a single write larger than the pool, or several that exceed it together, sleep
  for ever, since nobody drains before he has queued everything;
* a write that fails with EFAULT returns its buffer to the pool without waking a sleeper;
* with two processes, or a control command beside a write, the chip can be full when a block is
  sent, on a reading of DREQ that the other has made stale (at most one block for each process: `OneLateBlock`);
* a signal restarts a call of which chunks are already queued, and they are sent
  twice;
* a failed open of the encoder keeps the interrupts it has claimed, and the device
  cannot be opened again; it also overwrites the samples of the lines and forgets the armed timer of the
  process that has the device open;
* a turn of the knob between the sampling of the lines and the requests of the interrupts is missed,
  and the next one is decoded from a position where the knob no longer is;
* a press between stopping the timer and freeing the interrupt
  starts the timer of a closed device;
* a click that arrives just after the click window of an earlier one, before the
  control thread has acted on it, discards the earlier clicks;
* two ioctls at once, or one beside the start of the chip, can mix their commands, or put the
  one message on the bus twice; a volume change that timed out is reported as done;
* a write or an ioctl before the queues are set up, or a data probe before the control
  probe, faults while the driver is being loaded; unloading leaks the buffers that still wait in
  the data queue, and faults if the queues of a device were never set up;
* a track field longer than six characters (numbers above 99) is cut off at the edge of the display;
* a failed `device_create` or `i2c_new_client_device` of the display's module is not noticed;
* two writes to the display at once can leave its window registers shifted, and its next picture
  with them: the bytes of two windows mix;
* two interrupt threads that update the LEDs at once can leave an older state on them;
* `vs1003_queue_flush` does not add what it frees to the counter and keeps the lengths, so
  that a flushed entry can be queued again unfilled.

## 7. Not modelled

* The count in the message of the encoder's `read()`: it is one load of `counter`, which `RotaryKnob` has,
  and no property relates it to the click beside it.
* Times longer than five characters on the display: the strings of the record have six bytes, which
  the programs fill with at most five characters (`snprintf`, `strncpy`: `change_music.c`, `oled_test.c`). A record without
  terminating zeros, which another program could write, is outside the model.
* The volume in `change_music.c` (194-207): one thread sets it, in one critical section, so that
  there is no state between. The same protocol in the older player is modelled.
* Claiming and freeing the GPIOs in the encoders' `open` and `release`: the results are ignored, and
  the interrupts decide who has the device. The test module's claims, which do matter, are in `ModuleLoading`.
* Whether the kernel accepts the interrupt requests of the test module (they have no
  handler and no IRQF_ONESHOT): a rule of the kernel. As the test module can never be loaded
  (finding 6), its variant of `RotaryLeds` is the code with that pin conflict removed.
* A second decoder: the driver has arrays of two chips that share nothing but the loading
  and the SPI drivers. `Vs10xxLifecycle` has one of them.
* The pixels of the font's glyphs, the bytes of the bitmap and of the display's initial sequence, the contents of
  songs and pictures, the values of clocks, and the layout of C objects: no property is about them.
* `oled_test.c` (a loop of identical writes) and `hello_driver.c`: no state worth a model.
* The build records, the generated `*.mod.c` files and the device tree overlay: data.

## 8. Running

    tlc -config TxSafety.cfg MCVs10xxTx.tla
    tlc -config Chip.cfg MCChip.tla
    tlapm Vs10xxTx_proofs.tla

`PROJECT.json` names the module and the configuration of each run.
