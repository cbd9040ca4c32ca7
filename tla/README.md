# A TLA+ model of the YC11xx headset firmware

This directory holds TLA+ modules that model the Cortex-M0 firmware under
`src/cm0/` (a Bluetooth true-wireless headset on a Yichip YC11xx), TLC
configurations that check them on small instances, and TLAPS proofs of what
holds for every instance. Paths below are relative to `src/cm0/`.

## 1. The system

The chip has two processors. The *core* runs the Bluetooth stack from ROM; the
repository has an assembly listing of it with its patch (`patch/program.lis`), which
`McuState` translates where the two processors agree on sleep. The *M0* runs the rest
of the code modelled here: user interface, audio prompts, power and the policy of the
headset. They share memory: two byte rings (one for each direction), a state register
`IPC_MCU_STATE`, and a register of low-power locks `M0_LPM_REG`.

The M0 has no operating system. `main()` (Example/headphone/main.c 107-176)
loops for ever: it kicks the watchdog, and while the state is RUNNING it takes
one packet from the core's ring, walks the software timers, takes one key event, one
LED event and one prompt event, and polls the rest. The only interrupt with a
handler of its own is SysTick, and `OS_ENTER_CRITICAL` turns it off; keys are
scanned in the main loop. So handlers of the main loop never interleave with each
other. What interleaves is the main loop with the SysTick interrupt, with the core
and with the DAC; and handlers come in any order, because events from the core and
timer expiries do.

### Inventory

| Component | State | Operations | Talks to | Hard part | What makes it correct |
|---|---|---|---|---|---|
| IPC rings `drivers/bt/yc11xx_bt.c` | bytes, read and write pointer of each ring | `IPC_TxCommon`, `IPC_TxPacket`, `IPC_TxControlCmd`, `IPC_HandleRxPacket` | everything; the core | two processors, no lock, room not checked by senders | packets whole, once, in order; reader never out of step |
| Ring queue `drivers/keypad/yc_queue.c` | array, `pRead`, `pWrite`, `current_queue_len` | init, clear, insert, preinsert, delete | keys, LED, prompts | three cursors kept by hand; pointers into released slots | bounded FIFO; returned element stays readable |
| Timers `drivers/timer/yc_timer.c` | linked list of callers' nodes, two tick counters, a flag | set, reset, release, poll, two ticks | everybody; SysTick; the core's clock event | callbacks change the list during the walk | every due timer served once, none lost, list stays a list |
| Voice prompts `drivers/voicePrompt/` | event queue, data queue, player globals, DAC registers | `VP_snd_voiceEvt`, `VP_play_voice`, `VP_CheckGetData`, `VP_polling_Queue` | power, HFP, timers, flash, DAC | five ways a prompt ends, each with its own idea of the lock and the queue | lock held while playing, queue never blocked, power-off prompt heard before hibernation |
| Keypad `drivers/keypad/yc_keypad.c` | key bitmaps, press type and timer of each key, multi-tap count, event queue | scan, expiry, event poll | timers, queue, low-power lock, key functions | debouncing, multi-tap and long press on one timer; counter shared by keys | events of a press come in a sensible order; lock released after the last key |
| OTA update `Example/headphone/Drv_bt.c` 439-716 | packet id, length, checksum, flash address, timer | START, DATA, END, RESET over BLE or SPP; delayed code switch | flash, IPC, timers | lost or repeated packets, restarts, crash between erase and write | only a verified image becomes the boot image |
| Main loop, MCU state `Example/headphone/main.c` | `IPC_MCU_STATE` | RUNNING, LMP, HIBERNATE, STOP | core | both sides write one register, the core acts on what it read before | nothing sent is lost by going to sleep; the M0 is switched off standing still; power-off completes |
| Low-power flags `drivers/hal/yc_drv_common.c` | `M0_LPM_REG` | lock, unlock, check | everybody; core | the core reads it before it asks for sleep, and writes one bit of it | the first turn after a wake-up is protected |
| Bluetooth state, power `Example/headphone/Drv_bt.c` | `gBRState`: topState, secondState, thirdlyState, twsState, timers | `Bt_EvtCallBack`, A2DP/HFP/TWS callbacks, commands, reconnection, auto power-off | core, prompts, LED, timers | event order, time-outs racing late answers | power-off completes, reconnection stops |
| TWS pair `Drv_bt.c`, `yc_RemoteCtr.c` | roles, switch and reconnect timers | pair, switch master, remote keys, audio reset | the other headset | two headsets, lost messages | one master; both sides act once |
| Hands-free `Example/headphone/bt_hfp.c` | SLC state, indicators, call state | OK, CIND, CIEV, CLIP results | phone, prompts | order of results | SLC reaches the end; call state follows indicators |
| Reconnection record `Drv_bt.c` 1125-1181 | RAM copy, flash sector | load, check, update | flash, core | crash between erase and write; the core changes it during a save | a torn record is rejected, the last change is saved |
| Key functions `yc_RemoteCtr.c` | tables | lookup by key, event and state | keypad, Bluetooth | table bounds | each key event has at most its function |
| LED `drivers/led/yc_led.c` | current and background pattern, event queue, one timer | foreground and background events, expiry, poll | timers, queue, lock | two patterns share a timer and a lock | background comes back; lock follows pattern |
| Battery `drivers/battery/yc_battery.c` | charge status, two timers, ADC average | poll, charger in/out, full | power, TWS, LED | unplugging during a role switch | lock released, headset powers off once |
| Media `Example/headphone/Drv_media.c` | buffer levels | poll | core, DAC | thresholds | never starves or overruns |
| Flash `drivers/qspi/yc11xx_qspi.c` | flash pages, lock byte | read, erase, write | OTA, record, prompts | page split, core reads too | reads return what was written |
| Device list, pool `libcore/sys/` | free list, list | alloc, free, register | applications | no failure test | no block twice |
| Delay queue, SBC player `applications/audio/` | delta list | apply, alarm | pool, systick | delta arithmetic | frames on time and in order |
| Drone `applications/flyC/` | scheduler, stick flags | tasks | sensors | tick wrap | every task runs |

`PROJECT.json` lists every part, also those that are not modelled (codecs,
register drivers, third-party signal processing, generated files), with the
reason, and the hazards with the line where each one bites.

## 2. Modules

| Module | Role |
|---|---|
| `BoundedFifo` | what users of `yc_queue.c` rely on |
| `YcQueue`, `MCYcQueue` | the ring queue, its TLC instance |
| `IpcChannel` | what the two processors expect of one direction of the IPC |
| `IpcRing`, `MCIpcRing` | the byte ring with its two processes |
| `Rings_proofs` | proofs about both rings |
| `TimerService` | what the firmware expects of the timers |
| `YcTimer`, `YcTimer_proofs`, `MCYcTimer` | the linked list and its walk |
| `VoicePrompt`, `VoicePrompt_proofs`, `MCVoicePrompt` | prompts, with power-off, the PA timer and call indicators |
| `LedIndicator` | what the rest of the firmware expects of the LEDs |
| `Led`, `Led_proofs`, `MCLed` | patterns of the LEDs against requests from core, battery and charger |
| `SleepService` | what M0 and core expect of the power states they share |
| `McuState`, `McuState_proofs`, `MCMcuState` | the handshake over `IPC_MCU_STATE`, the locks, and both processors' main loops around it |
| `KeyGestures` | what the keypad promises the application: events that come in gestures |
| `Keypad`, `Keypad_proofs`, `MCKeypad` | sampling, debouncing, the keys' timers, clicks, the queue and the lock |
| `QspiFlash` | the flash and its driver as commands, with what a power failure leaves of one |
| `Ota` | the update of the program against a phone that repeats, gives up or loses the link |
| `RecInfo` | the pairing record, changed by the core and saved by the M0 |
| `ABUpdate` | what an update with two places for the program promises |
| `FlashUsers`, `FlashUsers_proofs`, `MCFlashUsers` | composes `Ota` and `RecInfo` on one flash, with resets and power failures |
| `HeadsetPower`, `HeadsetPower_proofs`, `MCHeadsetPower` | power on, power off and charging of a headset that may be half of a pair |

Operators ending in `Late`, `Ahead`, `Again`, `Stuck` and the like, introduced by
"Faulty variant for mutation", are wrong versions of the definition that follows
them. No specification uses them; `PROJECT.json` pairs each with the property that
catches it.

### YcQueue

Pointers are slot indices. The three cursors are separate variables, updated as the
code updates them. `held` is the pointer the last `Delete_Queue` returned and
`reserved` the one `preinsert_Queue` returned, as both point into the array after
the call. `ImplementsFifo` says the queue is a bounded FIFO whose contents are the
slots from `pRead` on; a reserved slot joins when it is filled.
`DeletedElementReadable` makes precise what the callers assume: an element may be
read through the returned pointer as long as fewer insertions happened than there
were free slots besides it. A queue that was full gives no such grace.
The element being filled is owned by one caller at a time because everything runs in
the main loop; a queue is not cleared while a slot is reserved (`VP_CheckGetData`
reserves and fills in one go).

### IpcRing

One direction of the IPC. `TxByte` and `RxByte` are single iterations of the copy
loops, so every interleaving of the two processors at byte grain is explored. A byte
is `<<packet, index>>`: the reader learns the length from the byte at index 2 and
nothing else, exactly as `IPC_HandleRxPacket` does; a reader out of step goes to
`"garbage"`. `CallerWaits` selects the protocol: TRUE is the sender that calls
`IPC_WaitBufferEnough`, which the file offers and no caller uses, or equally a
sender whose packets happen to fit because the reader keeps up; that is what the
safety theorems assume. As the sender of the other ring the core is of that kind: it
checks for room (`ipc_check_tx_buf_is_enough`) and waits (`p_wait_rxbuffer`) or drops the
packet. FALSE is `IPC_TxCommon` as written. Not modelled: pointers read
byte by byte (`HR_REG_24BIT`). The core as the reader publishes its pointer once, at the end of a
packet (`ipc_rx_block_read_end`); the model's reader, after the header and after the
payload as `ipcRx` does, frees the bytes no later. The `IPC_MCU_STATE` register is in
`McuState`.

### YcTimer

Each `SYS_*` call is an action, enabled between polls and inside a callback. The
walk is split at the points where something else can happen: the flag test, the
flag reset, each node, the callback, and the read of `pNextTimer` afterwards. The
SysTick interrupt is enabled at every point outside critical sections. `due[t]` is
the distance from the counter to `mTimerValue`. `owed` is a history variable: the
timers that were due when the walk began and that nobody served, rearmed or released.
`WalkServesAll` says it is empty at the end of each walk.
The list is not a sequence: `Listed` is the least set of nodes that holds `pheader` and is
closed under `pNextTimer`, which is what a search of the list comes to. A node that is
unlinked keeps its link, as in the code, and the walk may be standing on it.

### VoicePrompt

`player` gathers the globals and registers of the player. The functions of
`yc_voiceprompt.c` are operators from player to player, since they call each other
within one handler: `VP_play_voice` ends in `VP_CheckGetData`. The handlers that call
them are the actions. The DAC (`Dac`) runs at its own pace. Uninitialised `tempind`
in `VP_snd_voiceEvt` is a nondeterministic Boolean. `error_handle()` sets `hung`,
after which only the watchdog moves: on a full queue, and on a digit of a phone number above 9
(`Drv_bt.c` 396-399). `QueueServed` counts a restart by the watchdog as served. Levels count quarters of the 3600 byte ring: one
300 byte block becomes 1800 bytes, two quarters, and the threshold 0x700 lies just
below two quarters.

Assumed of the hardware: a stopped DAC has its read pointer at the start address
written to it. Left out: other writers of register 0x8980 (battery, core), and a
restart of the core alone, which would run `VP_init` on a player in mid-prompt.

### Led

`led` gathers the globals of `yc_led.c`, the two low-power locks it takes and which
LEDs are lit. The functions of the file are operators from driver to driver; the
handlers of the core's events, of the battery check and of the charger are the
actions. A pattern is the row of `gTwsLedFunc` for an event. The build has
`TWS_USER_INTERFACE_HSC_I9S` (`Drv_bt.h` 11), whose three tables, one for each role,
have the same rows.

Time passes in units of 100 ms, the unit of `gLed_Timer` and of the battery check, and
a turn of the main loop is assumed to take less: `Tick` waits for a timer that is due
and for an alert that can begin. Without time `QueueNeverFull` would say nothing,
since it depends on alerts being shorter than the interval between two of them.

`topState` holds what of the Bluetooth state decides which event reaches the LEDs.
A restart of the core alone (`BT_EVT_RESTART` while M0 runs) is left out, as in
`VoicePrompt`. `M0_LPM_REG` is assumed cleared by the reset that ends hibernation.
`Bt_SndCmdPwroff` waits for the two locks of the LEDs only.

### McuState

Two processors, each a small program counter (`m0`, `core`), and the registers and
rings between them. The M0 is `main()`; what its handlers and polls do is reduced to
what the core can see: take or give back a lock, send a command, go down, ask
for power-off. The core is one turn of its main loop in the order of the listing: `check_51cmd`
executes commands, `p_hp_idle` looks for an M0 that is stopped (`p_check_m0_state`)
and takes one packet from the ring, `lpm_dispatch` decides about sleep. A step is one
access to something shared. `p_lpm_check_wake_lock` reads the command queue, the locks
and both rings one after the other and acts later on what it read; that is where the
races are. `ImplementsSleepService` says that sleep loses no command and no event,
that `wakeup` is the first event after it, and that hibernation is the last command
executed.

Taken from the listing rather than assumed: the core drops an event when the ring has
no room (`ipc_check_tx_buf_is_enough`), clears the rings at a wake-up (`ipc_init`), and
starts the M0 from its reset vector (`init_m0`).

Assumed, each in the module where it is used:

* The ring to the M0 has room for the packets of one turn of the core's loop
  (`MaxRing > MaxEvents`, in the `ASSUME`). The ring has 432 bytes and an event three. Without
  this, the `wakeup` that enables interrupts could be among the packets dropped.
* The M0 has fewer commands underway than the core's queue has slots, with one kept for
  hibernation (guard of `IPC_TxControlCmd`). `fifo_in` asserts otherwise; no code of
  the M0 counts them.
* The M0 does nothing between the beginning of sleep and `init_m0`, as it has no power.
* The reset out of hibernation clears `M0_LPM_REG`.

Left out: SPP and BLE packets, which reach the core's handler by the same path;
`main()`'s case HIBERNATE, because the only sender of that command, `Bt_SndCmdPwroff`,
never returns to `main()`; the reasons of its own for which the core does not sleep,
which are a nondeterministic choice (`CoreStaysUp`).

`down` is `gBRState.topState <= BR_CHARGER_IN` (off, waiting to go off, charging). It guards
`Bt_EvtCallBack` (`Drv_bt.c` 230-233), so that a headset that is down ignores the `wakeup` which
would enable its interrupts. `MaskedOnlyUntilWakeup` therefore speaks of a headset that is up, and
the model reaches the other case: the core reads the locks, finds none and asks for sleep; the idle
time-out sets `BR_WAIT_POWER_OFF` in the same turn and takes `HIBER`; the M0 stops with interrupts
off; the core stays up after all; its `wakeup` is taken from the ring and dropped. Interrupts are then off
until some other critical section ends: a read of the power-off prompt from flash
(`yc_voiceprompt.c` 165, 376), any `SYS_SetTimer`, a save of the record. Meanwhile the timers on
SysTick stand still, the 50 ticks of the power-off wait among them; those of 100 ms run on the core's packets.
It can happen once in each power-on, because `HIBER` is not given back. `HeadsetPower` and
`VoicePrompt` do not have it: they assume a SysTick that goes on. After a real sleep
the M0 comes from reset with interrupts on.

`Lpm_LockLpm` reads the register and writes it back, here in one step: the core writes its own
bit only in `wake_for_lpm`, before it starts an M0 that has no power, so nothing comes in between.
`BT_EVT_RESTART` while the M0 runs is left out.

Not promised by the code, and not stated here: a lock taken after the core has read the
register does not stop that sleep. The M0 stops if its TX ring and log are empty; the
case LMP of `main()` does not look at the locks.

### Keypad

A key's gesture is its `press_type` and the ticks left on its timer; the click counter,
the queue and the lock are shared by all keys, as in the code. `keypad_keyevtScan` is
split into one step per key, in the order of the keys, since each may send two events.
Pins are sets. A sample compares low halves only, as `keypad_check_keypress` does: it reads both 16-bit words twice and compares the first, so
that a key on GPIO 16 and up is never debounced. Timers that are due are served before the turn goes on to
the queue, in any order. The order of `YcTimer`'s list is one of these.

`overlapped` is a history variable: the keys whose gesture another key's overlaps. Two
keys overlap in the field, because the charger's plug is a key and the power key
may be down while it is pushed in. The click counter and the lock are then shared by
two gestures, and nothing better than `KeyGestures` holds: `NON` may be reported, or
too many clicks. `ClicksCredited` and the second half of `GestureKeepsAwake` are about
gestures that are not overlapped.

Assumed: a turn of `main()` ends within `TicksPerTurn` ticks, for `NoEventLost` within
one. `BT_EVT_WAKEUP`'s extra sample (`WakeupSample`) comes when the lock is not held, which is so when the
chip has slept. It is narrower than the code: the event also comes from `p_check_m0_state` when the M0 stopped and the chip
did not sleep (`McuState`), and then a key pressed after the core's look at the locks may
already hold `KEY_LPM_FLAG`. That is one more sample at most each time the lock is taken.
No property here covers it, `NoEventLost` and its theorem in particular: their count of events per
tick has no room for it in a queue of nine.
Left out: combination keys, with `comboKeyNum` 0 in the headset's table.

### Flash users

`work` is what a handler of the main loop still has to do, as a sequence of commands. The
main loop starts no other handler before it is empty; the phone, the core and the power
do not wait for it. A command is one sector or page erased, one page programmed, one byte
summed or copied. Programming clears bits only (`And`), so a page that was not
erased spoils what is written. `QSPI_WriteFlashData` reads the page up to the address,
erases it and programs it again, then the pages after it.

*Assumed of the flash*: a power failure finds an erase not begun or finished,
and the bytes of a page programmed in order.

*Assumed of the phone* (external): it waits for each answer and may then repeat its
message, give up with RESET, or lose the link with what is on the way; it sends no
START in the 1.1 seconds after an END that was answered well. The hazard at
`Drv_bt.c` 488 is what happens otherwise: the START erases the slot the
timer is about to boot. `SlotSectors` leaves room behind the image, because the code
compares no length with the size of a slot, and a repeated packet of id 0 is written
behind the one before: in a slot with no room to spare it would reach the next slot.

*Assumed of the core* (external): it changes the record byte by byte, at any time while
the headset is on, and reports each change when it is complete.

*The layout* is what the named assumptions say, and the firmware's has it: pages divide sectors and
sectors the flash (`QspiAssumption`); the pointer, the record and the two slots share no sector, a slot's
address does not end in an erased byte, and what START erases has room for the image
and for as many repeats of its first packet as the phone sends (`OtaAssumption`,
`FlashUsersAssumption`); the record fits in its sector and its sum in two bytes
(`RecAssumption`).

Left out: `Bt_BleCallBack` differs from `Bt_SPPCallBack` in the header only, and in
writing `data[5]` and `data[6]` beyond its array; unknown messages, packets without
data; `mem_lock_qspi`, a flag for the core.

What the model shows and no property forbids: a DATA answer that is lost cannot be
made good by repeating the packet, as its id no longer follows (the phone must
give up and start again); an END repeated after a good one fails, and the image is given up
although it was verified; switching images erases the pairing record's sector; and a
record saved while the core changes it can be a mixture, with a sum taken of another
mixture, which by chance can pass at power-on if no later save replaces it.

### HeadsetPower

`gBRState`, the charger's globals and the three timers that count in ticks are one state
machine, since `Bat_polling`, the reports of the core and the timers' callbacks
call into each other and share `CHARGER_LPM_FLAG`, `LINK` and `HIBER`. One call out of the main loop is one
step. What the core reports is not restricted, so the other half and the phone
answer anything at any time. `busy` stands for the locks of keys, prompts and
LEDs, which come and go.

`Tick` waits for timers that are due, which is the assumption that a turn of the main loop
ends within a tick. Without it the timer of the hand-over (44 ticks) and the one
of power-off (50) could expire in one walk, in the order of the list.

`BT_EVT_RESET` and `BT_EVT_RESTART` come only when the core starts (`wake_from_power` in
`patch/program.lis`), so `Bt_Reset` is the first step after a wake-up, where all
statics and the register of locks are fresh. `stranded` is a history variable
for the case `Bt_Reset` leaves: it finds the charger, `BT_EVT_RESTART` waits 1.1 seconds,
the charger is unplugged, and `Bt_PowerOn` sets `POWER_ON` with `CHARGER_LPM_FLAG` still
held. Such a headset never sleeps and never goes off by itself; `ChargerLockAccounted`
and `PowerOffFinishes` name it as the exception.

Left out: what only sends a command to the core (reconnection, sniff mode, transmit
power), prompts and lights, which are in `VoicePrompt` and `Led`. The idle time-out is
armed or not, without its minutes. A BLE link releases it and nothing sets it again
(`Drv_bt.c` 406); the model has this, and no property says that an idle headset goes off.

## 3. Runs

| Run | Question | Bounds | Why they are enough |
|---|---|---|---|
| `yc_queue` | are the cursors consistent, is it a FIFO, are returned pointers good | 4 slots, 2 values | the smallest queue of the firmware has 4 slots; every alignment of the cursors, full and empty, is reached; two values tell a stale element from a fresh one |
| `ipc_ring` | do packets cross whole, once, in order, and do they arrive | 7 bytes, packets of 2 (no payload), 3 and 4 bytes | packets straddle the end of the ring at every offset; two packets fill it, so a sender has to wait |
| `ipc_ring_nowait` | does `IPC_TxCommon` block as `ipc.h` says | same | expected violation, see findings |
| `yc_timer` | does the list survive its callbacks, is every due timer served | 3 timers (two single on the M0 tick, one cyclic on the core's), delays 1 and 2, `TicksPerWalk` = 1 | a callback can unlink the visited node, its successor or a predecessor, and push one back to the front; the bound keeps interrupts from outpacing the walk for ever |
| `voice_prompt` | lock, queue, ramps and power-off in every order | 3 prompts of 1 or 2 blocks, numbers of two digits, event queue of 3, data queue of 1 | the queue overflows, prompts need several refills, the DAC is on or off at each send |
| `voice_prompt_poweroff` | does power-off complete | same | expected violation, see findings |
| `led` | do alerts and background share one timer, one lock and the LEDs as they should | queue of 2, the code's rows and its 8 s between battery checks | a queue of two is the smaller target for overflow, the code has ten; all durations are the code's own, so every event meets every phase of every pattern |
| `mcu_state` | do M0 and core agree on sleep and power-off whatever they interleave | one lock, two commands, one event; 4 slots for commands, 3 packets in the ring, 2 actions and 2 events a turn | a command or an event can come at every point of the handshake, the ring fills and drops events, commands queue up before hibernation; two commands tell whether their order is kept |
| `keypad` | do the events of two keys come in gestures, is the lock held through them, are clicks credited to the right key | two keys, one active low and one active high, one in each half of the pins; polled every 4 ticks, 25 and 10 ticks for clicks, 4 to 6 for each stage of a hold, lock given back after 10, queue of 10, one tick a turn | the first key has time for three clicks, so every count is reported; every stage of a hold is reached by each key while the other is in any of its own; the queue has the code's length, and the timing is what `NoEventIsLost` assumes at its shortest |
| `flash_update` | what does the headset boot whatever is repeated, lost or broken off | bytes of 4 bits, pages of 4, sectors of 8, 48 bytes of flash, slots at 9 and 25; packets of 2, 3 and 1 bytes, two images of one sum, first packet id 0 or 1, two repeats | packets end inside a page, on its boundary and beyond it; neither slot begins on a page; the sum cannot tell the images apart, so that it is not trusted more than it deserves; two repeats let one message be doubled twice or two once |
| `flash_record` | is a torn save ever taken for a pairing, is the last change saved | the same flash, one short image, one record of two bytes and its sum, one report of the core and one repeat | the record is changed at every point of sum, copy and program; the power fails at each; the update erases the record's sector meanwhile |
| `headset_power` | are charger, hand-over and power-off in step | timers of 6, 2, 8, 5 and 2 ticks for the code's 50, 3, 125, 44 and 10, four looks for full, one rise of the voltage | the properties depend on which timer runs out first, and the small values keep the order of the large ones; a rise resets the looks once at every count |

Every property of a passing run is broken by a faulty variant of a modelled
definition, named in `PROJECT.json` under `mutants`.

Deadlock is checked in every run but the two of the flash: there a power failure
while the pointer is replaced may leave a headset that never boots again.

### Fairness

* `IpcRing`: weak fairness of the sender's step and of the reader's step. Both
  processors keep running; no request has to come.
* `YcTimer`: weak fairness of the poll. `main()` loops for ever and callbacks
  return; neither ticks nor calls have to come, since `DueTimerServed` starts from a
  timer that is already due and the interrupt that made it due has raised the flag.
* `VoicePrompt`: weak fairness of the poll (`main()`), of the DAC while it runs, of
  the watchdog when the loop hangs, and of `Bt_SndCmdPwroff`, which a timer retries
  every three ticks until no lock is held. Events from phone, core or user are
  never assumed to come.
* `Led`: weak fairness of the timer callback and of the queue poll (`main()`), of
  time, of the battery check (a cyclic timer) and of `Bt_SndCmdPwroff`, which
  `Bt_CheckWaitPwroff` tries in every turn. No request for a pattern has to come.
* `McuState`: weak fairness of the M0's steps and of the core's loop, since both
  processors run and nothing in either loop blocks except on the other's answer; weak
  fairness of the core's wake-up, which its sleep timer causes; strong fairness of
  `CoreExecute`, because a command may hold up the ones after it (`mem_hci_cmd`) in some
  turns of the loop but not for ever. No event, command, lock or cold boot has to come.
* `Keypad`: weak fairness of the timers' walk (`Serve`), of the queue poll and of time. No
  sample has to be a good one; `LockGivenBack` supposes only that the keys are let go.
* `FlashUsers`: weak fairness of the handler that is running, of the handler of
  messages, of `gOTATimer` and of the phone's taking an answer. The phone need
  not go on, the core need not change the record, and the power need neither fail nor come back.
* `HeadsetPower`: weak fairness of time, of the three timers, of the battery poll and of the charger's
  cyclic timer. `PowerOffFinishes` supposes that `busy` ends for good, which
  `Keypad`, `Led` and `VoicePrompt` are about; `ChargingEnds` rests on `MaxRises`, since a
  voltage that rises for ever is never full.

### Findings

* `IPC_TxCommon` never blocks (`drivers/bt/yc11xx_bt.c` 109-124), although
  `drivers/bt/ipc.h` 219, 226, 233 and 240 say "Cpu will block when TxBuffer is not
  Empty". Run `ipc_ring_nowait`.
* `HFP_handle_result_ciev` (`Example/headphone/bt_hfp.c` 231-242) silences the player
  without `Lpm_unLockLpm(VP_LPM_FLAG)`. During the power-off prompt this leaves
  `Bt_CBAutoPwroff` setting its timer for ever. Run `voice_prompt_poweroff`. With the
  unlock added to `HFP_handle_result_ciev`, TLC finds the property to hold.

## 4. Proofs

All proofs are checked by `tlapm` to the last leaf and hold for every value of the
constants that satisfies the module's named `ASSUME`.

* **`Rings_proofs`, `YcQueue`.** `QueueIInv` is `QueueTypeOK`, `CursorsAgree` and a statement about the
  slot in a caller's hands: while `slack` insertions are left, the write cursor is
  that far from it, so the element cannot be overwritten. `DeletedElementReadable`
  alone is not inductive because it does not know where the write cursor is.
  `RefinesBoundedFifo` maps every step to `Put`, `Get`, `Clear` or a stutter; the
  lemmas on `Contents` compute the mapped sequence after each operation without
  `%`, by the two cases of the wrap.
* **`Rings_proofs`, `IpcRing`.** Under `CallerWaits`. The inductive invariant describes the
  bytes between `rptr` and `wptr` as a concatenation of whole packets, the bytes the
  writer has copied beyond `wptr` as a prefix of its packet in free slots, and the
  reader's buffer as a prefix of the first packet on its way. From it follow type
  correctness, `ReaderInStep`, `UnreadNeverOverwritten` (the writer's slot is never
  among the unread ones) and the refinement of `IpcChannel`.
* **`VoicePrompt_proofs`.** `IInv` adds to `TypeOK` a property `Good` of the player
  (enabled implies locked, held back implies enabled, and the DAC level leaves room
  when a block is fed), and that a queued POWEROFF is first in the queue behind its
  ramp. Each operator from player to player has a lemma that it preserves `Good`; the
  actions follow from the lemmas.
* **`Led_proofs`.** `IInv` is `Good`, `Locked` and `Timed` of the driver. `Good` adds to
  the types that only alerts are queued, that no background is an alert, that an invalid pattern has a
  cleared state and leaves nothing lit, and that an alert over a dark background lights
  its own colours only. The last is why `LitHoldsLock` is inductive: such an alert
  gives the lock back and lights nothing more. Every operator from driver to driver
  has a lemma, `CallbackGood` being the centre: it runs with the timer disarmed and
  restores `Timed`, and either keeps the pattern or ends the alert. The mapping lemmas
  turn what a request leaves into a step of `LedIndicator`.
  `QueueNeverFills` needs a second invariant, `Roomy`, which counts time: an alert that
  waits under another one came with a measurement of the battery, and what is `Left` of
  the alert on the LEDs (its phase, the dark phase after it and the blinks to come) is
  over at least `BatteryPeriod - Longest` units before the next one. So two wait at most for the moment it takes
  to begin the first. The theorem assumes what the code has, `QueueCap >= 2` (10) and
  `BatteryPeriod > 24` (80): 24 units are the three blinks of `LOW_POWER`, the longest row of the
  table.
* **`McuState_proofs`.** None of the four safety properties is inductive: each depends on
  where the other processor is. `IInv` therefore says which places go together
  (`PlacesAgree`), what `IPC_MCU_STATE` tells about them (`StateTells`), that nothing is
  left in the queue or the rings from the moment the core has checked them to the sleep
  (`NothingWaits`, the heart of the handshake: a sender takes back `LMP` before it sends,
  and the M0 stops only over an empty TX ring), that a slot is left for hibernation and
  that nothing follows it (`SlotKept`, `HibernateLast`), and that the ring has room while
  the `wakeup` is due (`RoomForWakeup`). One lemma for each action; the refinement has one
  step lemma for each action that is not a stutter.
* **`Keypad_proofs`.** `IInv` is `TypeOK`, `GestureKeepsAwake` and three parts: `Shape` says
  in which stage a key is held and its timer runs,
  `Overlap` that two gestures in progress are both marked as overlapped, and `Counted` that
  the shared counter is the clicks of the key that is not. `Overlap` is what makes the
  other two inductive: from it, all other keys are idle while a key that is not
  overlapped acts. One lemma for each handler, and one that maps it to a step of `KeyGestures`.
  `NoEventIsLost` needs a second invariant, `Roomy`, which counts time. A turn takes an event and
  lasts a tick at most, so four units are put down for each tick: one for the timer of each key
  and two for the samples. `Debt` is what these have still to pay before they report again:
  `KeyDebt` by the stage and the timer of a key, `ScanDebt` by the time to the next
  sample and the keys still to scan, and `RestDebt` while the lock may be given back or is,
  since a wakeup samples at any time but a key that is held can then only be let go once.
  `Covered` says that four units for each queued event never exceed what has been paid. Each handler
  has a lemma that what it reports raises the debt by four an event. `Timing` is what the
  theorem assumes: two keys, a tick a turn, a queue of 9 (10 in the code), a sample every 4
  ticks (4), no stage of a key shorter than 4 (15) and the lock given back after 10 or more (15).
* **`HeadsetPower_proofs`.** `ChargerInv` adds to `ChargerLockAccounted` in which states the
  charger's timer may be running, and that a restart is in the one of two states
  `Bt_Reset` leaves. `HandOverInv` is the argument for `HandsOverBeforeOff`: while the headset waits to go
  off, `HIBER` is held and the hand-over has fewer ticks left than the wait. The property is about
  leaving `WAIT_POWER_OFF` only: a headset that charges switches off when it is unplugged, whether
  `gSwithMasterTimer` runs or not (`Bat_ExitChargerIn`).
* **`YcTimer_proofs`.** `LinksInv` says that links of nodes that were ever in the list lead to such
  nodes and never in a ring, and that those in the list are armed; `WalkInv`, that what the walk
  still owes is in the list ahead of the cursor, and that what is ahead of the cursor and
  no longer in the list is stopped. The second part of `WalkInv` carries the argument: it says why following
  the link of a node that its callback unlinked still comes back into the list. Reachability is
  the least closed set (`From`), so that a lemma about pushing a node and one about unlinking one
  exhibit a closed set each, where an induction along the list would
  otherwise be needed.
* **`FlashUsers_proofs`.** For every layout the assumptions allow, every set of images of one length,
  every cut into packets, every record, and any byte width. `IInv` says that an
  image `i`, a first id `f`, a stage `h` and a count `u` explain the state:
  * `Protocol` numbers the messages of an update: START is 0, the packets are 1 to `Count`, then END and
    RESET. `h` is the last one the headset has handled; what is on its way is of stage `h` or
    `h + 1`, in order, and perhaps a RESET; the phone waits in one of these stages.
    `u` counts the repeats of a first packet of id 0 that were taken as new. This is why a slot whose
    image passes holds exactly the image: with `u > 0` the length is wrong.
  * `Wiping`, `Writing`, `Settled` and `Changing` say how far `work` has come: up to
    a frontier the slot holds the image, beyond it erased bytes, and every page still to be
    programmed holds the bytes that belong there.
  * `Switches(j)` names what is left of the five commands of `Bt_CBChangeCode` and what the pointer
    reads as after `j` of them. A pointer that is partly programmed is neither slot unless it is complete,
    because a slot's address does not end in an erased byte.
  * `Record` follows a save command by command: `TornAt(n)` says that the sector holds the first `n`
    bytes of what was last handed over, and erased bytes after them; while the core is quiet,
    the sum taken so far is that of the bytes summed.

  `TornRecordRejected` then is arithmetic (`SumTooHigh`): in a record cut short, the bytes of the sum that are
  still erased claim more than its data add up to. `UpdateImplements` maps `Bt_SPPCallBack` with a
  good END to `Pass`, `Bt_CBChangeCode` to `Switch`, its flash commands to `Replace`, and the rest to
  `GiveUp`, `PowerFailure` or stutters; `Touches` says that a command touches one of slot, record
  and pointer only, and so keeps what is booted. Sums over prefixes are computed by
  least-element induction on the length: a set of naturals that holds 0 and is closed under successor has them
  all (`SetInduction`, from the library's `WFMin`), which needs no operator
  as a parameter.

The type invariants of `YcQueue`, `IpcRing`, `Led`, `McuState`, `Keypad` and `HeadsetPower` are
proved and not repeated in the runs.

Only model-checked:

* all of liveness (`EventuallyDelivered`, `DueTimerServed`, `QueueServed`,
  `PowerOffNotHeldByLed`, `PowerOffCompletes`, `EventsServed`, `LockGivenBack`,
  `EventuallyInstalled`, `UndisturbedUpdateBoots`, `PowerOffFinishes`, `ChargingEnds`), which
  needs fairness and ENABLED. It includes that an update gets through: what is proved of `FlashUsers`
  says what the headset may boot, not that it comes to it.

Every safety invariant, every action property and every refinement that a run checks is stated
by a theorem.

## 5. Not modelled

Most of the lines under `src/` are vendored: the CMSIS headers and DSP library, echo
cancelling and noise suppression, codecs, register headers, and the listing of the core's
Bluetooth stack. They hold arithmetic on samples or code of which the M0 sees only the
commands and events. What is left out of the rest, and why:

* *Reconnection, sniff mode, transmit power* (`gReconTimer`, `gBtReconWorkTimer`): timers that send a
  command to a stack whose answers are arbitrary here; any order of what they do is already in
  `HeadsetPower`'s reports.
* *The protocol between the halves* and the synchronisation of their audio run in the core and in
  the air. `HeadsetPower` has one half's side of handing over, against one that
  answers anything.
* *The hands-free service level connection*: a straight line of AT commands in which every OK
  moves one state on, and the parsing of text. Its one effect on shared state, on
  the player, is in `VoicePrompt`.
* *Key functions*: tables looked up by role and state. The bound of the search
  (`yc_RemoteCtr.c` 530) is listed as a hazard. The one function with a state, power on and off, is in
  `HeadsetPower`.
* *Media thresholds*: they steer buffers that the core's audio hardware fills and drains, and the code of
  that is not here.
* *Combination keys*: configured off. *Battery level*: averaging and scaling of samples.
* *The torn read of a 24-bit ring pointer* (`yc_drv_common.c` 36): whether it can happen
  depends on where in memory a ring lies, and on the width of the core's store.
* *Memory pool, device list, delay queue, SBC player, drone*: used by example applications and the UART driver,
  which are not in the headset's Makefile.
* *USB and register drivers, debug log, build products*: register writes, or not built into the headset.
