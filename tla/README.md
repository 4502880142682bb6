# TLA+ models of the Bluetooth speech display

The repository is the firmware of a small device on an STM32F103RC: RT-Thread
4.0.3, a Bluetooth module on uart3, a SYN6288 speech chip on uart2, an OLED
display and a button. A peer sends lines over Bluetooth; a line is spoken, shown
on the display, or sets the clock. The program's own code is `applications/`
(about 1000 lines); it leans on the kernel's IPC (`rt-thread/src/ipc.c`), its
scheduler and its heap (`mem.c`), on the serial device framework, and on the software
clock and the C library's calendar. This directory holds TLA+ modules
for those parts, the TLC runs over them and proofs that TLAPS checks.

## The system

| Part | State | Operations | Talks to |
|---|---|---|---|
| `ble` (bluetooth.c), priority 25 | the buffer `_data_`, its index, `ble_rxsem` | callback `uart_rx_ind`; `uart_sample_get_char`; `data_parsing` | receives from uart3; sends the address of `_data_` to three mailboxes |
| `main` (main.cpp), 10 | `head`, the converted text | start-up; receive loop that speaks a message | waits on `ble_mb_6288`; writes uart2 by polling |
| `oled_text` (oled_btn.cpp), 20 | `text` | `u8g2_get_txt` | waits on `ble_mb_oled`; releases `oled_sem_event` |
| `dst_show` (oled_btn.cpp), 23 | `d_text`, `width`, `offset`, the clock | `u8g2_dst_thread`, `changeTime`, `getStrTime` | polls `ble_mb_time` and `oled_sem_event` once per frame |
| `btn_scan`, `btn_ctrl` (oled_btn.cpp), 21 each | `mode`, `btn_oled_mbt` | callbacks of the button, `btn_ctrl_entry` | `btn_ctrl` sets `mode`, `dst_show` reads it |
| `SYN_serial` (syn6288.c), 25 | `syn_rx_sem` | callback `syn6288_input`; `SYN6288_thread_entry`; `SYN_FrameInfo` | receives from uart2 and prints |
| serial device (serial.c) | `rt_serial_rx_fifo` | `rt_hw_serial_isr`, `_serial_int_rx` | fed by the interrupt, read by `ble` and `SYN_serial` |
| kernel IPC (ipc.c) | value or mails, suspended threads | take, release, reset; send, receive | all threads and interrupts |
| clock (rtc.c, soft_rtc.c, time.c) | `init_time`, `init_tick`, the struct tm of `localtime` | get and set time and date | set by `main`, `dst_show` and the shell `tshell` (20), shown by `dst_show` |
| heap (mem.c) | linked blocks, `lfree` | `rt_malloc`, `rt_free`, `rt_realloc`, `rt_calloc` | `changeTime`, `main`, the C library, the kernel |
| UART driver (drv_usart.c) | flags of the UART | putc, getc, interrupt | serial device |

There is one processor. Threads are scheduled strictly by priority (a smaller
number runs first), interrupts come between any two instructions that do not run
with interrupts disabled, and no lock protects `_data_`, `text`, `mode` or `d_text`.

### What is hard, and what correctness means

* *A wake-up can be lost.* Both readers test the queue, find it empty and then
  wait on a semaphore that an interrupt releases. Correct: no thread sleeps
  while a byte is unread. `SYN_serial` has this property; `ble` does not, because
  it resets the semaphore in between.
* *One buffer for all messages.* `ble` sends the address of `_data_`, not a copy.
  Correct: whoever copies it finds the message he was sent. This holds for `main`
  and `oled_text` only because both outrank `ble`; it does not hold for the
  clock, whose mailbox is polled by a thread that sleeps.
* *Limits.* A full receive ring, a semaphore at its maximum, a full mailbox whose
  refusal nobody looks at, a line longer than the buffer.
* *A copy that is interrupted.* `dst_show` copies `text` while `oled_text` may
  replace it at any character. Correct: in the end the display shows the last text.
* *Start-up order.* `ble` runs while `main` still waits for the display; its
  receivers do not exist yet.
* *A clock that is set by halves.* `set_time` and `set_date` each read the clock,
  change half of it and write it back, while ticks go on and the shell may do the
  same. Correct: the clock ends up at the time asked for; `localtime` hands out one
  struct for all.
* *Memory that is never given back.* `changeTime` allocates six blocks per frame.
  The allocator has to stand any sequence of calls; the program has to run out of memory.
* *Several presses in a row* through a mailbox of finite size between two threads
  of one priority.

`PROJECT.json` lists these as hazards, each at its line. Four have no property. Two the models cannot
decide: writes behind an array (a time message of more than six fields), after which C says nothing of
the program, and the flag TC of the UART, where the timing of the hardware decides. Two do go wrong, and
no line of the repository says that they must not: what becomes of messages that arrive before
the receivers are up, and the string of the time while the shell runs `date`. `HandoverIntact`
and `ShownIsOneMoment` name them as the exceptions.

## Modules

| Module | Models | State and actions |
|---|---|---|
| `LossyFifo` | what the serial device promises | a queue `q` of at most `Capacity` bytes; `Put` forgets the oldest byte on overrun, `Indicate` reports the length, `Get`/`GetNothing` |
| `SerialRxFifo` | serial.c, interrupt receive | `buffer`, `put_index`, `get_index`, `is_full`; `IsrPut`, `IsrIndicate`, `Read`; implements `LossyFifo` with capacity `Bufsz - 1` |
| `RtIpc`, `RtSemaphore`, `RtMailbox` | ipc.c | kernel objects as values; one operator per section that runs with interrupts disabled |
| `SynReader` | syn6288.c, the thread | `LossyFifo` + `RtSemaphore` + program counter |
| `BleReader` | bluetooth.c, `uart_sample_get_char` | the same with the RESET; history `cancelled` |
| `BleParser` | bluetooth.c, `data_parsing` | `data` (the array and the byte behind it), `i`, `ch`, `todo` (sends still to do); history `line` |
| `BlePipeline` | bluetooth.c + main.cpp + oled_btn.cpp | extends `BleParser` and `RtMailbox`: three mailboxes, three receivers, priorities, start-up |
| `OledDisplay` | oled_btn.cpp, `u8g2_get_txt` and `u8g2_dst_thread` | `text`, `d_text`, `width`, `offset`, `mode`, `oled_sem_event`; the copy goes character by character |
| `ButtonMode` | oled_btn.cpp, the button | mailbox, list of ready threads of priority 21, pending callbacks, `mode`; histories `last`, `overtaken` (how often `btn_scan` went before a `btn_ctrl` with mails to take) |
| `Calendar` | time.c: `gmtime_r`, `mktime` | operators, and the calendar as it is taught (`NextDate`) to compare them with |
| `Clock` | soft_rtc.c, rtc.c and oled_btn.cpp: `date`, `getStrTime` | extends `Calendar`: `ticks`, `init_time`, `tmp`, `now`, and for each of three threads where it is (in `getStrTime`: at which field), `tm_new` and what it is about to write; history `hist` |
| `Allocator` | what the heap promises | `own`: the memory handed out; `Alloc`, `Release`, `Shrink` |
| `SmallMem` | mem.c and its users | `heap` (the headers that can be reached), `lfree`, `theirs`, `time_parse`; implements `Allocator` |
| `MC*` | | instances for TLC |
| `*Proofs` | | theorems, a module for each component |

`SynReader` and `BleReader` use `LossyFifo` instead of the ring; that this is
sound is what `ImplementsLossyFifo` shows. An action of a module is a section the
code runs with interrupts disabled, or a stretch in which the thread touches
nothing that another one can touch. Places where the modules stand for code in a
way that needs an argument:

* **Interrupts.** While a receive interrupt is being served (`isr`) no thread step
  is enabled. `uart_isr` calls the serial framework only when RXNE is set, so
  each interrupt delivers at least one byte. A byte that comes between
  `rt_device_open` and `rt_device_set_rx_indicate` (bluetooth.c 105-107, syn6288.c
  91-92) is queued without a unit; as each thread reads before it first waits,
  this gives no state that cannot also come about afterwards.
* **Semaphores.** A release hands the unit to a suspended thread without touching
  `value`. The thread leaves `rt_sem_take` in a step of its own (`Woken`), as it is
  only made ready by the release.
* **The buffer.** `_data_` has `ONE_DATA_MAXLEN` cells and the code can store the
  terminator in the byte behind them. C leaves the effect open; `data_parsing`
  never returns and that byte is padding, `ch` or a saved register, so
  nothing the function depends on changes. The model has this cell. A mail is modelled by the
  string that is in the buffer when it is sent; `HandoverIntact` compares it with
  the buffer when it is copied.
* **Early mails.** While `main` is in `u8g2.begin` (an external library call that sleeps), `ble`
  already parses and sends. Such mails carry the same address, or the mailbox refuses them. A
  receiver that comes up copies the last line as many times as there are mails, and if `ble`
  is in the middle of the next line then, a mixture of the two. The models mark these mails `early` and
  show that they are served; of their contents nothing is said, as nothing in the repository is.
* **Priorities.** A thread step of `BlePipeline` needs `CanRun`: nobody of
  higher priority is ready. `main` can block on the heap's semaphore in the
  conversion to GBK, but then `dst_show`, the holder, is ready and `ble` still does not run.
* **What main speaks.** `strcat` appends to `head`, an array of one byte: undefined
  in C. The models say when the buffer is read, not what is spoken.
* **Copying.** `rt_strncpy` does not look at the source again behind a NUL
  (kservice.c 401-421); `CopyCell` pads in one step for that reason. `oled_text` and
  `btn_ctrl` outrank `dst_show`, so their rounds are single actions to it.
* **Pixels.** The width of `u8g2_uint_t` depends on how the package u8g2 is built,
  which is not in the repository; `UintMod` is a parameter. All glyphs have one width.
* **Setting the clock.** `time` reads `init_time` and then the tick, `SET_TIME` reads the tick and
  then writes `init_time`. A tick or another thread between the two reads has the same effect
  as before the first; between tick and write it does not, so `Stamp` and `Store` are two actions. `tshell`
  outranks `dst_show` and does not block in `date`: nothing of `dst_show` runs in between (`Runs`).
  Of the shell's commands only `date` sets the clock or calls `localtime` (`FINSH_USING_MSH_ONLY`).
  `Read` is one action because the copy of the struct is made with the scheduler locked, and a tick or a
  command of the shell between `time` and `localtime` has the effect of one after both: `localtime` converts what `time`
  has returned, and the struct it leaves is not read again before `dst_show`'s own call in `getStrTime`. `date` without numbers (`DateShow`) is one action, too:
  `dst_show` cannot run in between, and it has no part in the clock but the struct it leaves behind.
* **Showing the clock.** `getStrTime` is not locked: `time`, `localtime` and the reading of each field are
  actions of their own (`GetNow`, `LocalTime`, `StrField`). The two reads of `tm_year`, for century and year,
  are one: what is written over between them is seen by all the fields behind them as well, and the
  string is torn either way.
* **Numbers of a message.** `Messages` are the numbers `atoi` returns. If a message has fewer than
  six fields the others are what happens to be in a fresh block, hence any of them. A field of five
  bytes fits into a block of `malloc(4)` only because `rt_malloc` rounds up to 12 bytes.
  Messages that write behind `time_parse` or behind a block are left out, and so is what happens when
  `malloc` has returned NULL and `strcpy` writes to address 0.
* **Width of time_t.** It is the compiler's (64 bits with a recent newlib, 32 bits before). The models take
  it to be wide enough; with 32 bits `mktime` overflows in 2038, although `date` accepts years up to 2099.
* **The heap.** A function of mem.c holds `heap_sem` from its first look at the links to its last, so it is one action.
  `rt_realloc` to a larger size is `rt_malloc`, a copy and `rt_free`, with the
  semaphore released in between: these are actions of the model already. `rt_calloc` is `rt_malloc` and a memset.
  A header that has become part of another block is not kept in `heap`: nothing reads it.
* **Equal priorities.** `rt_schedule` puts a preempted thread at the end of
  its list (scheduler.c 430-462), so either button thread may overtake the other at any
  time (`Preempt`).

## Runs

| Run | Shows | Bounds |
|---|---|---|
| `serial_fifo` | the ring implements the lossy queue; the flag is only set on a full ring | 4 cells, 2 byte values: the ring wraps, overruns and does both at once |
| `syn_reader` | no lost wake-up; what is received is printed | queue of 2, semaphore up to 2: overrun, saturation and left-over units occur |
| `ble_reader` | the only way to oversleep is the RESET; the next byte repairs it | the same |
| `pipeline` | messages reach `main` and `oled_text` unchanged, no mail to them is refused once they are up, every mailbox is served; the buffer holds the current line, closed behind it, whatever came before | buffer of 2, lines up to 3, 5 characters, NUL among them; mailboxes of 2, which fill up during start-up |
| `oled_display` | the display settles on the last text and shows it; the offset gets into range | texts of up to 2 of 2 glyphs, 16 pixel values |
| `button_mode` | the mode follows the last press the mailbox had room for; a press is refused only after `btn_scan` went before a `btn_ctrl` with mails to take, often enough for the callbacks of these rounds to fill the mailbox | mailbox of 3, up to 2 callbacks per poll: it fills up |
| `heap` | links, lowest free block and the users' blocks survive any sequence of calls; NULL only for want of room; the heap implements `Allocator`; in the end `changeTime` gets NULL for ever | 12 words, headers of 1, blocks of 2 or more, sizes 1, 3, 4: rounding, splits, exact fits, joins on both sides |
| `clock` | `date` ends at the time asked for, within stated limits; the string of `getStrTime` is of one moment; a tick is the next second of the calendar, or the jump back at the wrap. The calendar is compared day by day with its definition, 1970-2103 (`CalendarChecked`) | counter of 5 ticks, 2 per second; up to 2 ticks per call (3 in `clock_midnight`); messages just before a leap day, for 30 February, above 8 and 16 bits, and out of range |

`HeapRunsOut` is a property that holds and that nobody wants: it says how the leak ends.
`NullOnlyWithoutRoom` names one block that `rt_malloc` passes over although the data
would just fit: the last one of the heap, because the search stops below
`mem_size_aligned - size`. `LandsOnRequest` says what can happen to a request: cut to 8 and 16 bits,
late by the seconds in between, a day behind at midnight, or with the time of a command
that the shell ran in between. `TickIsNextSecond` says what becomes of the clock after 49 days.

Bounds: `LineMax` (characters before the end mark), `MaxEvents` (callbacks of
one poll), `MaxAge` (ticks during one call) and `LastYear` bound what the environment does. `Bufsz`, `Capacity`, `SemMax`, `MbSize`,
`ONE_DATA_MAXLEN`, `MAX_STR` are sizes of the code made small (64 or 128, one less, 65535, 8, 31,
61), and so are `MemSize`, `Hdr`, `MinSize`, `TimeFields` (in words: thousands, 3, 3, 6), `TickMod` and
`RT_TICK_PER_SECOND` (2^32, 1000); the proofs hold for all values. No run needs a state constraint. Each
property has a mutant in `PROJECT.json`, an operator marked in the modules as a form the
code could have had by mistake, under which TLC finds it violated.

Four runs show that the code does not do what one of its comments says:

| Run | The comment | The code |
|---|---|---|
| `ble_reader_lost` | received data releases the semaphore that is waited for | a byte between the failed read and the RESET is overslept until another one comes (bluetooth.c 41) |
| `parser_fit` | the maximal length counts the terminator | a line of `ONE_DATA_MAXLEN` characters or more is closed behind the array (61) |
| `pipeline_time` | what is passed on is the time | the next message can replace it before `dst_show` looks (72) |
| `clock_midnight` | `set_time` does not modify the date | midnight between its read and its write: the old date is written back (rtc.c 106) |

Three comments are wrong in ways that need no run. The one at `width` (oled_btn.cpp 30) says that
it is that of the scrolling text; the first frame with a new text still uses the width of the
old one (266). Those at `mb_once` and in `btn_ctrl_entry` (14, 304) say that one press scrolls; one press
stops the scrolling (68). `rt_realloc` does not round up to `MIN_SIZE_ALIGNED`, although "every
data block must be at least MIN_SIZE_ALIGNED long" (mem.c 298); the models show that this does no harm.
The comment at `DATA_CMD_END` (bluetooth.c 17) says that the end mark is the carriage
return; the value is the letter a, which therefore can be in no message. The models follow the value.

### Fairness

* `SynReader`, `BleReader`: weak fairness of the end of an interrupt (bytes arrive far more
  slowly than the handler loops) and strong fairness of the thread: interrupts
  disable its steps again and again, and all threads above it block or sleep in every round.
* `BlePipeline`: weak fairness of each receiver, which a ready thread that outranks
  the others has under this scheduler; of the timer that ends the sleep of
  `dst_show`; and of the start of the display. Nothing is assumed of `ble`: the peer may
  fall silent at any time.
* `OledDisplay`: weak fairness of `dst_show`, as the threads above it block in every round.
* `SmallMem`: weak fairness of the allocation in `changeTime`, which `dst_show` comes to in every round.
* `NextByteWakes` and `TextIsShown` have assumptions on the environment (bytes keep
  coming; the text stays the same) in the formula itself.

## Proofs

| Theorem | For every | Inductive invariant and why it is needed |
|---|---|---|
| `RingTypeCorrect`, `RingFlagMeansFull`, `RingImplementsLossyFifo` (`SerialRxFifoProofs`) | buffer size >= 2 | `RingInv`: the flag is only set on a full ring, so equal indices always mean empty; the refinement then follows action by action from how `Contents` moves |
| `SynNeverOversleeps`, `SynTypeCorrect` (`SynReaderProofs`) | capacity, semaphore maximum | `WakeupInv`: between the failed read and the wait an unread byte always leaves a unit; a suspended thread has value 0 |
| `BleOversleepsOnlyByReset`, `BleTypeCorrect` (`BleReaderProofs`) | capacity, semaphore maximum | `ResetInv`: the same from the RESET on, with `cancelled` for what it threw away |
| `ParserBufferHoldsLine` (`BlePipelineProofs`) | buffer length, lines of every length | `LineInv`: the index is the length of what is kept, while a line is sent the cell behind it is NUL |
| `PipelineHandoverIntact`, `PipelineSendFindsEmptyBox`, `PipelineTypeCorrect` (`BlePipelineProofs`) | buffer length, message, mailbox size | `PipeInv`: a receiver sleeps only on an empty box; mails that are not early hold the present string, since `ble` runs only when the receivers have emptied their boxes; the order of start-up. `InPlace` and `BoxesBounded` complete it to the types |
| `DisplaySettlesOnText`, `DisplayTypeCorrect` (`OledDisplayProofs`) | texts of every length, number of glyphs, pixel arithmetic | `DisplayInv`: with no unit left, what has been copied so far is a prefix of `text`; a unit means the copy will be made again |
| `HeapTypeCorrect`, `HeapStaysLinked`, `HeapIsPlugged`, `HeapLfreeLowest`, `HeapNullOnlyWithoutRoom`, `HeapRoomAsAsked`, `HeapImplementsAllocator` (`SmallMemProofs`) | heap, header, minimum and request sizes | `HeapInv`: the links lead both ways, no two free blocks in a row, `lfree` the lowest; `UserInv`: users hold blocks in use. `Linked` adds to `BlocksLinked` that `prev` of every block is a block that leads to it, which the join backwards needs; `PluggedBut` makes an exception for the block just freed, until `plug_holes` has joined it. What a call leaves of the other blocks (`SameUsedBut`) gives the refinement |
| `ModeIsTheButtons`, `ButtonTypes` (`ButtonModeProofs`) | mailbox size, callbacks per poll | `ButtonInv`: the newest mail is that of the last press, or the mode is; `btn_ctrl` is in the ready list or in the mailbox's list, never in both or neither, and suspended only on an empty mailbox. The property alone speaks of one resting place and says nothing of the mails on the way |
| `RefusalNeedsOvertaking` (`ButtonModeProofs`) | the same | `Counted`, with `ButtonInv`: the mails in the box and the callbacks still to come are no more than the rounds since it was empty can have made (`Within`); where the two threads stand in the ready list decides whether the present round is among them |
| `CalendarTheorem`, `MktimeInverse` (`ClockProofs`) | last year | no state, see below |
| `ClockTypes`, `ClockTicks` (`ClockProofs`) | messages, tick rate, cycle of the tick counter up to 50 days, calls below a day, last year from 2100 | `Control`: where the threads are; `Bounds`: how far the clock can be from the years a message can name |
| `ClockShowsOneMoment` (`ClockProofs`) | the same | `Text`, with the two above: unless another thread came in between, `now` and then `localtime`'s struct are a time since the call began, of which the fields already read, in the string, and those still to be read, in the struct, are the fields (`Recent`); `tshell` has called `localtime` before it writes the clock (`Tearing`) |
| `ClockLandsOnRequest` (`ClockProofs`) | the same | `Aim`, with `Control` and `Bounds`: for each call how far it has come (`Course`), that the shell's call inside one of `dst_show` is the younger one (`Nested`), and that at boot the clock runs on from `SOFT_RTC_TIME_DEFAULT` (`Booting`) |

**The calendar.** `gmtime_r` takes the length of one year after another off the day, `mktime` uses a formula with a
correction for the centuries. That the two agree would be an induction over the years. As the
prover cannot instantiate an induction rule, the proof takes the first year for which they differ, which exists
because the naturals are well founded, and compares it with the year before. The table of
the months is gone through case by case. `CalendarIsRight` is then three cases: within a
month, at its end, at the end of the year.

**How far the clock can go.** `set_date` writes a day of 2000 to 2099. `set_time` writes the day it read, and until it has
written, the tick counter may wrap (at most 50 days of seconds) and the time of day be replaced (one day).
So between `set_time` and `set_date` the clock may be off by 51 days, and by twice that when the shell's `date`
comes between the two calls of `dst_show`. `Room` is this allowance, by what the threads have left to do;
it is why the time never leaves the calendar. Without it `TypeOK` is not inductive: nothing would
stop one `set_time` after another from moving the clock on.

**Where date lands.** After `set_time` the time of day is right on whatever day (`Same`), `set_date` keeps it and puts in the day
(`Lands`); what ticks in between makes it late, by the seconds that begin during the call. When these carry it over midnight
before `set_date` reads, the day is put in afterwards and the clock is a day behind: the second disjunct of `LandsOnRequest`. At
boot the date comes first, and it keeps a time of day just after midnight (`Early`).

The only assumptions are the named ones on the constants. Those of the clock are: the tick counter wraps within 50 days
(2^32 ticks of a millisecond are 49.7); one call of `date` or one round of drawing takes less than a day; and
the calendar of the model goes beyond 2099, the last year `date` accepts (`LastYear`; the code's loop has no last year).

The four parts of the clock's invariant held in TLC, on the constants of the run `clock`, before they were proved.

Only model-checked: the liveness properties (`ByteIsPrinted`, `NextByteWakes`,
`EveryBoxServed`, `TextIsShown`, `ScrollSettles`, `HeapRunsOut`), as fairness is out of the prover's
reach. Every invariant, every refinement and the two action properties of the passing runs are theorems.

## Not modelled

* Errors at start-up (a device not found, a thread not created): the hardware is fixed.
* The packages button, u8g2 and gbk2utf8: their sources are not in the repository;
  modelled from their use where they matter.
* DMA, POSIX and the other modes of the serial framework, timed waits, mutexes,
  events and message queues of the kernel: the program does not use them.
* Board support, HAL, CMSIS: third-party code.
* Kernel threads, timers and objects, other than by their effect.

## Plan

1. (done) receive ring, semaphores, the two readers, the parser, the pipeline, the display, the button.
2. (done) the calendar, the clock and those who set it, the heap and the leak in `changeTime`.
3. `MailboxRing`: in_offset, out_offset and entry of ipc.c, shown to implement the
   sequence of `RtMailbox`.
4. `Timers`: the list of rt_timer_check across the wrap of the tick counter.
5. (done) theorems for every invariant, refinement and action property of the passing runs.
