# A TLA+ development for ECEN5013_AESD

The repository holds the homework programs of a course on embedded systems: a
FreeRTOS application for the TM4C1294 with parts of a TI demo around it (HW5),
five Linux programs that exchange messages or share data between processes and
threads (HW4), two kernel modules (HW3), a kernel's `sys.c` with a system call
added that sorts (HW2) and build scripts (HW1). `Project1` and `Project2` only
link to other repositories.

This directory models the programs of HW5, HW4, HW3 and HW2, checks them with
TLC on small instances, and proves most of their safety properties, and the
refinements of the HW4 programs, with TLAPS for all values of the constants.

- [Inventory](#inventory)
- [Modules and the code they model](#modules-and-the-code-they-model)
- [Runs](#runs)
- [What disagrees with the documentation](#what-disagrees-with-the-documentation)
- [Proofs](#proofs)
- [Not modelled](#not-modelled)
- [Plan](#plan)

To repeat a run: `tlc -workers 2 -config Shmem.cfg MCShmemIPC`. To repeat the
proofs: `tlapm LoggerApp_proofs.tla`, and the same for the other modules whose
names end in `_proofs`.

## Inventory

### HW5: the FreeRTOS application

`main` (`freertos_demo.c`) creates a queue of 10 `logger_struct` and four tasks
of equal priority, ignoring whether `xTaskCreate` succeeded, and starts the
scheduler (preemption and time slicing on, 1000 ticks a second, 32-bit ticks).

| part | state | operations | interacts through |
|---|---|---|---|
| `LEDTask` (`LEDTask.c`) | `send_message`, local `count`, LED pins | polls the flag, stamps, clears it, sends, counts; `Timer1Callback` sets the flag and toggles the LEDs | `loggerQueue`, timer |
| `TemperatureTask` (`Temperature.c`) | `measureTemperature`, the reading | polls, clears, reads over I2C, stamps, sends; `Timer2Callback` sets the flag | `loggerQueue`, timer, I2C |
| `AlertTask` (`alert.c`) | `edge`, `sendAlert` | polls `edge` and the flag, stamps, sends; `Timer3Callback` sets the flag; `PortEHandler` sets `edge` | `loggerQueue`, timer, interrupt |
| `LoggerTask` (`Logger.c`) | none | receives, prints on the UART | `loggerQueue` |
| time stamps (`LEDTask.c`) | none | `timestamp()`, `TicksToMS` | called by all senders |
| I2C access (`Temperature.c`) | the sensor's registers | `i2c_write`, `i2c_read`, `read_temperature` | the TMP102 sensor, whose ALERT pin is the interrupt of `alert.c` |
| UART console (`utils/uartstdio.c`) | two ring buffers, the echo and discard flags | `UARTwrite`, `UARTgets`, `UARTgetc`, `UARTPeek`, the flushes; `UARTStdioIntHandler` refills, echoes and edits the line | the UART's FIFOs. The logger prints through it: as the makefiles do not define `UART_BUFFERED`, straight into the FIFO |
| spider demo (`spider_task.c`) | bitmaps of the live and the dead spiders, positions, a touch queue | a task for each spider moves, draws and clears it; the control task creates or kills a spider where the screen is touched | display queue, touch interrupt |
| idle hook (`idle_task.c`) | the statistics last drawn | draws a frame and five statistics, each when it has changed | display queue |
| display task (`display_task.c`) | the screen | takes requests from a queue of 10 and draws them | display queue |
| rest of the TI demo (`lwip_task.c`, `cgifuncs.c`, `led_task.c`, ...) | | compiled and linked | |

The tasks of TI's demo are compiled and linked but not started by this `main`;
they are modelled as TI's demo runs them.

What is hard: four tasks, three timer callbacks and an interrupt handler share
plain variables without locks; the order of clearing a flag and using what it
announces decides whether an event is lost; sends block with a timeout and
their result is ignored; a time stamp is taken in two calls; a reading arrives
in two bytes; and the idle hook of the TI demo must never run because the queue
it sends to does not exist. On the console an interrupt handler writes to the
same indices as the program, echoes through the function it may have
interrupted, and takes back characters the program may have seen. The spiders'
tasks share their bitmaps with a control task of higher priority outside
critical sections, and a string to be drawn is sent by reference.

What makes it correct: no wake-up, timer expiry or pin change is lost; messages
come out in order, none twice; alerts are sent while and only while the pin is
low, up to one in flight; readings and thresholds mean the right degrees; the
processor never idles; a full queue drains. The console loses, repeats and
reorders no byte, and what the terminal shows is the line the program gets;
spiders stay apart, in their area, leave no image behind and die when killed;
the idle hook never waits, and nothing of an old value stays on the screen.

### HW4: five Linux programs

Four of them are the same client and server over four transports: the client
picks a message at random, sends it, waits for the answer and logs both; the
server answers. Both loops run 10 times, and SIGINT cleans up and exits.

| program | state | what is hard |
|---|---|---|
| `IPC_shmem_p1/p2` | a structure in shared memory, two named semaphores | the order of copies and posts is the only lock; a SIGINT between any two steps leaves names and values behind; unlinked semaphores live on in the other process |
| `IPC_msg_p1/p2` | one POSIX queue for both directions | a process can receive its own message; an answer to an answer overruns a buffer |
| `IPC_pipes` | two pipes, four ends in each of two processes | end of file depends on who still holds an end; results of `read` and `write` are ignored |
| `IPC_sockets_server/_client` | a listening socket, one connection | only one client is ever accepted; results of `read` and `send` are ignored |
| `pthread_sub` | one `FILE *`, two flags, a list | two threads and `main` share the file pointer without a lock; a signal is handled by whichever thread it reaches; a thread opens the log for each report and never closes it |

What makes them correct: each logged reply answers the request logged with it,
one question at a time (module `RequestReply` says just this); nobody waits for
a peer that has gone; a session after an interrupted one works. In
`pthread_sub`: the report counts the letters of the text; a child's log is not
closed under it; signals end the process.

### HW3, HW2, HW1

| part | state | operations | what is hard |
|---|---|---|---|
| `first_kernel_module.c` (HW3) | a timer | load, the timer's function, which arms it again, unload | the function may run while the module is unloaded |
| `list_sort.c` (HW3) | two lists | counts the runs of a sorted array, filters them, frees both lists | the last run; links read after a free; names not given, memory not granted |
| `sorting` in `sys.c`, `sorting.c` (HW2) | the program's arrays, a kernel buffer | copy in, quick sort, copy out | faults in a copy, a size that overflows, recursion on a kernel stack |
| identities in `sys.c` | the credentials | `setuid`, `setreuid`, `setresuid`, `setfsuid`, the same for groups | what a long sequence of permitted calls adds up to |
| processes | parents, groups, sessions, subreapers | `setpgid`, `setsid`, `PR_SET_CHILD_SUBREAPER`, fork, exec, exit | consistency of a tree that changes between any two calls |
| priorities | nice values | `setpriority`, `getpriority` | several targets of which some are refused |
| limits | soft and hard limit, CPU timer | `setrlimit`, `prlimit64`, `getrlimit` in three widths | conversions between widths; a timer set for an older limit |
| memory map | `mm_struct`'s addresses, auxiliary vector | `PR_SET_MM` in its forms | an address changed at a time, but constraints between them |
| settings, names, usage, memory size | `prctl` flags, uts names, counters | `prctl`, `sethostname` and its like, `getrusage`, `times`, `sysinfo` | a long name under a short one, counts moving from thread to process, values scaled to a width |

What makes them correct: nothing of a removed module runs; lists and sorted
arrays are right and complete; privileges dropped cannot be regained; a limit
read back is the limit set; a refused call changes nothing; what is reported is
what was set or used. HW1: Makefiles and a script.

The hazards of all these parts, each at its line and with the properties that
look at it, are listed in `PROJECT.json`.

## Modules and the code they model

| module | models | composes |
|---|---|---|
| `LoggerApp` | the four tasks, three timers, interrupt handler and queue of HW5 | |
| `LoggerApp_proofs` | theorems about it | `LoggerApp` |
| `Timestamp` | `timestamp()`, `TicksToMS` and how the tasks call them | |
| `Tmp102` | the I2C transfers and conversions, and the sensor | |
| `UartStdio`, `MCUartStdio` | both builds of the console, its interrupt handler, UART and terminal | |
| `UartStdio_proofs` | theorems about it | `UartStdio` |
| `Display` | the display task, its queue and the screen | |
| `SpiderDemo` | the spiders' tasks, the control task and the touch interrupt | `Display` |
| `IdleStats` | the idle hook and the strings it draws | `Display` |
| `MCBoard` | an instance of the parts of HW5 | `Tmp102`, `Timestamp`, `SpiderDemo`, `IdleStats` |
| `Board_proofs` | theorems about them | `Tmp102`, `Timestamp`, `SpiderDemo`, `IdleStats` |
| `RequestReply` | abstract: what the HW4 programs promise | |
| `ShmemIPC`, `MCShmemIPC`, `ShmemIPC_proofs` | `IPC_shmem_p1.c`, `IPC_shmem_p2.c` | implements `RequestReply` |
| `MsgQueueIPC`, `MCMsgQueueIPC`, `MsgQueueIPC_proofs` | `IPC_msg_p1.c`, `IPC_msg_p2.c` | |
| `PipeIPC`, `MCPipeIPC`, `PipeIPC_proofs` | `IPC_pipes.c` | implements `RequestReply` |
| `SocketIPC`, `MCSocketIPC`, `SocketIPC_proofs` | `IPC_sockets_server.c`, `IPC_sockets_client.c` | implements `RequestReply` |
| `PthreadSub` | `pthread_sub.c` | |
| `KernelModules` | `first_kernel_module.c` and `list_sort.c` of HW3 | |
| `SysSort` | the system call `sorting` and the program that calls it | |
| `SysCred`, `SysProcess`, `SysPriority`, `SysLimits`, `SysMm`, `SysPrctl`, `SysUts`, `SysUsage`, `SysInfo` | the other system calls of HW2's `sys.c` | |
| `MCHomework` | an instance of the parts of HW4, HW3 and HW2 that do not exchange messages | `PthreadSub`, `KernelModules` and the `Sys` modules |
| `Homework_proofs` | theorems about all of them | `PthreadSub`, `KernelModules` and the `Sys` modules |

`MCBoard` and `MCHomework` hold parts that do not interact. A variable `active`
picks the part each behaviour follows, and the variables of the others stay as
they are.

Every module keeps the code's names for variables and functions. An action is
the code between two accesses to state that another actor can touch. Text that
only matters to a human (formats, log headers, ids, UART output) is left out.
Definitions whose comment calls them a variant or a mutant differ from the
action that follows them by one plausible mistake; they take no part in `Next`
and are there to see that the properties notice the mistake.

### LoggerApp

`pc[t]` is the place of task `t` between two accesses to shared state, `wait`
when it is blocked in the kernel. `send_message`, `measureTemperature`,
`sendAlert`, `edge` and `loggerQueue` are the variables of the code, `count`
the local of `LEDTask`. The build has optimisation off, so a polled flag is
read again on every turn of its loop. A poll that fails changes nothing and is
not an action of its own.

- `LEDPoll`, `LEDClear`, `LEDSend`, `LEDInc` are the body of the loop in
  `LEDTask`; the flag is cleared after the stamp is taken. `TemperatureTask`
  and `AlertTask` clear theirs first, and `AlertPoll`/`AlertTest` are the two
  loads of `edge == 0x01 && sendAlert == true`.
- `PortEEnter`, `PortEClear` and `PortERead` are the handler, during which no
  task or callback runs (`isr = "idle"` guards them) but the pin may move.
- `xQueueSend` and `Receive` are the kernel's queue as the tasks use it: a
  receive wakes one blocked sender, a send wakes a blocked receiver, and a woken
  task tries again, so that another task may have been faster.
- Time is abstracted away: `Timer1Callback`, `Timer2Callback`, `Timer3Callback`
  and `Timeout` may happen whenever their timer or block time is running. What
  holds in the model holds for every period and timeout.
- `received`, `unserved` and `staleAlerts` are history variables.
- `Created` stands for the tasks whose creation succeeded; `LoggerTask` is
  always among them.

### Timestamp

`now` is the tick counter. `StampOnce` is `LEDTask`, which calls `timestamp()`
once; `StampSec` and `StampMsec` are the two calls of `TemperatureTask` and
`AlertTask`. `TicksToMS` keeps the 32-bit product of the code (`% TickWord`).

### Tmp102

`SetUp` writes `TLOW` and `THIGH` byte by byte with the encoding of
`i2c_write`; `ReadPointer`, `ReadHigh`, `ReadLow` are the bytes of `i2c_read`,
and `Converted` is the arithmetic of `read_temperature`. The sensor is external:
`Convert` stores a new temperature at any moment, keeps the low byte that
belongs to a high byte already given, and drives ALERT as a comparator.
Temperatures are counted in sixteenths of a degree, which makes 0.0625 exact.

### UartStdio

`buffered` says which build a behaviour follows. In the buffered one each load
of an index the handler also writes, and each store, is a step of its own.
`TxLoad` loads the write index, for `IsBufferFull`, `IsBufferEmpty`, the store of
a character or the new index; the second load and what follows from both are
`WriteTest`, `WriteCheck`, `PrimeTest` and `FlushTest`, the stores `WriteStore` and
`WriteAdvance`. `PrimeBegin`, `PrimeMove`, `PrimeAdvance` and `PrimeEnd` are
`UARTPrimeTransmit` with the interrupt disabled; `PeekBegin`, `PeekNext` and
`PeekEnd` are `UARTPeek`, character by character; `RxTest`, `RxTake` and `RxAdvance`
find, read and remove a character for `UARTgets` and `UARTgetc`. The handler
(`IntEnter`, `IntReceive`, `IntExit`) stops the program (`isr`), as the processor
does. In the other build `GetsChar`, `GetsEcho` and `GetsReturn` are `UARTgets`,
whose echo waits for room in the FIFO. `due`, `kept` and `screen` are history: the
bytes accepted for output, the bytes typed and not rubbed out, and what the
terminal shows.

`BytesInOrder` names what the code's missing locks do, and excludes nothing else.
`raced`, for the transmit ring: the handler echoes between the load of the index
for `UARTwrite`'s store and the store of the new index, where it and the program
overwrite each other's characters; or it fills the ring between the first load
of the test and that store, so that "not full" is out of date. `underrun`, for
the receive ring: the handler rubs out the one character the program has found
and has not removed yet. Leaving out any of these clauses makes the run fail. The
other stale answers ("full" or "empty" when the ring no longer is) do no harm,
and neither does a `UARTPeek` that passes over a character being rubbed out, except
that what it reports may be gone: `peeked` is about a CR that is still there.

The comment of `UARTPeek` (lines 1353-1358) and the one at 1669-1677 say that a CR
marks the end of a line in the receive buffer whatever was typed. The code puts
the CR in `cChar`, which it echoes, and stores `i32Char`, the character typed
(1690). A line ended with LF or ESC is therefore not found by `UARTPeek('\r')`.
`UARTgets` takes all three for an end and does not mind. The model does what the
code does: in the run, `<<"LF">>` is typed, and `InputInOrder` says that the ring
holds the characters as they were typed. This is listed as a finding; it needs no
counterexample of its own.

### Display, SpiderDemo, IdleStats

`displayQueue` is the queue, `pen` where the next line begins, `canvas` what
can be seen: the centres of the images, the lines, and the columns of each box
that are not blank. Strings are records of the number of characters before,
in and after the visible part. `DisplayLets` is the scheduler's rule: a task of
a lower priority runs only when the display task has nothing to do.

A spider's task goes through `SpiderTaskStarts`, `Looks`, `Moves` (the critical
section), `Draws` and `Wakes`, and from `Looks` to `Clears` and `Ends` when it
finds itself dead. `ControlTask` takes a touch and creates or kills a spider;
`ControlTouchCallback` is the interrupt. `shared` collects the spiders that got a
second task: a new spider is marked alive by its own task, which runs only when
no touch is waiting, so that two touches in a row get the same place.

`hook` is where the idle hook is: the requests of its first call, then the five
statistics in turn. `DisplayValue`, `DisplayIP` and `TaskString` are the
formatting: how many columns, and where they begin.

### PthreadSub, KernelModules

In `PthreadSub` an action is what a thread does between two uses of `logging`,
`print_stat` or `kill_msg`. A closed stream loses the line or ends the process,
and a `NULL` one ends it. `handler` runs in any thread that lives. The report of
letters is computed as the code computes it and compared with a definition of
its own (`RightReport`): `OuterLoop` and `InnerLoop` are the loops that sort,
with the body `Exchanged`, and `CountingLoop` with `CharSeen` the one that
counts, each a function of the loop's variable.

When `gdb.txt` cannot be opened (148-161 has no `else`), which also happens when
no stream is left, `child1_funct` goes on with a length and a pointer it has never
set. `unread` marks this: the report is then any list, and the sort, the report of
an empty list and the final `free` may each end the process. `ReportCounts` claims
nothing of such a report. What this sort might overwrite elsewhere in memory is not
modelled. The stream of `gdb.txt` is open within one step only: that another
thread might find no stream left because of it is left out.

`KernelModules` has a turn of each loop of `list_init` and `list_exit` as an
action. The call of `sort()` before them is the kernel's, modelled by what it does:
a bijection that puts the names in order. `given` is the number of names on the
command line; the other slots of `animals[]` stay `NULL`, for `strcmp` to follow,
and a `kmalloc` that fails is followed as well (`KmallocFails`): `insmod` dies there
(`oops`) and the module is never loaded. `ListFrees` frees a node and then reads its
link. Either the link is still there, or the allocator has changed it (`torn`), and
then nothing is known of the rest of the walk; `NodesFreed` says that no node is
freed twice up to then, and that an undisturbed walk frees every node of both lists.

The timer's function runs on any processor. `hello_exit` is `del_timer`, which takes
the timer off its queue and does not wait for a running function; `overtaken` records
that there was one. That function then queues the timer of a module that is going
away, and may itself still run when `FreeModule` has released the module's memory.
The run reaches all of this. `NoTimerAfterUnload` names it as its one exception
and says that in every other case neither the function nor the timer outlives
`hello_exit`. No sentence of the repository promises more, so there is no finding.

### The Sys modules

A system call is one step where the code holds a lock throughout or works on a
copy that it commits at the end; a call that is refused is the stutter the
code's early returns make it. `getrusage` and `times` do neither and take several. Calls that only read are operators, and the
properties compare what they return with what was set.

- **SysCred** keeps real, effective, saved and file-system ids and the
  capability sets, which the (external) `FixSetuid` changes after the ids.
- **SysProcess** has the tree of processes; `fork`, `execve` and `exit` are
  external. `PR_SET_CHILD_SUBREAPER` sets its own flag (line 2452) before its walk
  takes `tasklist_lock`; the two are one step, and what the properties say of
  subreapers holds once the call has returned.
- **SysPriority** gives every outcome of visiting the selected tasks in any
  order.
- **SysLimits** keeps one limit of one process, the caller's capability and the
  CPU timer, in the kernel's own, the 64-bit, the 32-bit and the oldest width.
  `LimitsReadBack` names an exception in the code: a CPU limit of 0 is stored as
  1, above a hard limit of 0.
- **SysMm** has every address of the map and the checks between them. `Maps` are
  the whole maps a process may ask for or be started with; what `execve` leaves
  passes the checks.
- **SysPrctl** keeps the settings and the result of each call.
  `McePolicyReported` names an exception: a `PR_MCE_KILL_SET` refused with
  EINVAL has already set the process's flag.
- **SysUsage** has counters that move from a thread to its process and from a
  child to its parent, and serves one call of `getrusage` or `times` in steps
  (`sample`). `getrusage` takes the siglock and reads the numbers of the process and
  its children, adds up the threads one by one (`accumulate_thread_rusage`) while
  they count on, lets go of the lock and looks at the memory (`ru_maxrss`).
  While it holds the lock (`Locked`) no thread exits or starts and no child is
  reaped. `times` takes no lock: it adds up the threads as
  `thread_group_cputime` does, beginning again when one exits, and then reads `cutime`
  and `cstime` one after the other (`tms_cutime`, `tms_cstime`). `UsageConserved`
  therefore claims of a sum over running threads that it lies between what they had
  used when the call began and when it ended, of `getrusage`'s numbers of the
  children that they are of one moment (the comment at 1737), and of `times` only that
  each number is right: a child waited for between its reads has its system time
  counted and its user time not. One counter stands for the user time and the six
  counts that are summed like it; the process's own system time is summed with its
  user time, the children's is kept apart. `RUSAGE_BOTH`, which only the kernel asks
  for, is kept; `getrusage` for another process than the caller's is left out.
- **SysUts**, **SysInfo**: names in fixed buffers, sizes scaled to what a width can
  hold.
- **SysSort** has each allocation, copy, comparison loop and recursive call of
  `sorting` as a step, with the recursion as a stack of frames. A fault in a
  copy loses the buffer (`SortCorrect` counts one for each fault), and indices
  leave the buffer only when the size in bytes does not fit 32 bits.

### RequestReply, and the four transports

`RequestReply` has one open question and at most one answer; `Ask`, `Reply`
and `Take` are its steps.

- **ShmemIPC** tells names from semaphores: `names` is what `sem_open` finds,
  `sem` what each process holds, `value` the semaphores in order of creation.
  `Start` and `SIGINT` are the user. Between `unlink1` and `unlink2` the other
  process can come in.
- **MsgQueueIPC** does the same for `/my_queue`. `mq_send` hands the message to
  a process already waiting, otherwise it queues it for whoever comes first.
  `ServerOverrun` is the `strcat` of an answer to an answer, longer than
  `response[30]`: the server goes on or is killed (`crashed`).
- **PipeIPC** keeps which of the four ends each process has open. `Read` gives
  end of file only if no process holds the write end; `Write` kills the writer
  if nobody holds the read end. A structure never read into has an
  indeterminate pointer, so using it may kill the process or not.
- **SocketIPC** has the backlog, the one accepted connection, and the reset
  that unread bytes cause when a process ends.

## Runs

| run | instance | shows |
|---|---|---|
| `logger_app` | all three senders, queue of 2, one LED message | `NeverIdle`, `NoLostWakeup`, `NoExpiryLost`, `EdgeFollowsPin`, `OneStaleAlert` under every interleaving of tasks, timers, timeouts and pin changes |
| `logger_live` | LED and alert senders, queue of 2, two LED messages, with fairness | `ToggleCountsInOrder`; `QueueDrains`: a full queue is relieved; `AlertsKeepComing`: a pin that stays low keeps producing alerts |
| `alert_at_boot` | alert sender only | a pin low at start-up is not noticed (below) |
| `timestamp_order` | one task of each kind, a second of 3 ticks | stamps of the tasks that call `timestamp()` twice go back (below) |
| `uart` | rings of 3 and 2, FIFO of 2, 2 calls of the program | `BytesInOrder`, `ScreenShowsLine`, `RingDrains`: whatever is waiting to be sent is sent or discarded |
| `board` | sensor, stamps, spiders, statistics in turn | `ReadingIsCurrent`, `AlertIsAtThreshold`; `StampWithinASecond`: a stamp is never ahead of the clock and less than a second behind; `SpidersLeaveNoTrace`, `MovesKeepApart`, `KilledIsCleared`; `StatsShown` |
| `shmem` | 2 rounds, 2 requests, 3 starts of each program, 2 SIGINTs | `MutualExclusion` in every session both processes share; `SessionCompletes`; `Implements` |
| `msg_queue` | 2 rounds, 3 requests, 2 starts, 1 SIGINT | `OneInFlight`, `ClientFinishes` |
| `msg_queue_reply` | one session, no SIGINT | the client can take its own request for the reply (below) |
| `pipe` | 3 rounds, 3 requests, SIGINT to either process | `OnlyLastReplyStale`, `NobodyHangs`, `Implements` |
| `socket` | 2 rounds, 2 requests, two clients, SIGINT to the server and a client | `AnswerOrRepeat`, `EverybodyEnds`, `Implements` |
| `homework` | the kernel code of HW2 and HW3 and the threads of HW4 in turn | `DroppedForGood`, `IdsNeverGrow`; `ProcessTreeSound`; `LimitsHold`; `MapStaysSane`; `SortingWorks`; `ModulesSound`; `ReportsExact` (names, usage, memory size, priorities, error policy); `ReportCounts`, `StreamsOpenForChildren`, `KillsEndProcess` |

`Implements` says that each step of the transport is, under the refinement
mapping to `RequestReply`, one of its steps or a stutter, up to the moment when
a SIGINT, a kill or a restart breaks the session; what may happen after that is
what the other properties of the run are about.

**Bounds.** A queue of two places has the three cases that matter (empty, one
free place, full) and three senders can all be blocked on it; what the safety
runs of `LoggerApp` show is proved for every queue length. Two LED messages can
be in the queue together, which is what an order needs. In the HW4 modules that
exchange messages two rounds are a first and a last one and leave a stale reply
to be found; two or three requests tell commands from text; three starts allow a
session after two that were interrupted, and two SIGINTs allow one in each
process or in each session.

`board`: the temperatures (`SomeTemps`) include every case of the sign, the
fraction and the comparison, and the theorems cover all of them. Two ticks make
a second and the product wraps after eight of the nine ticks (`TickWord`,
`MaxTick`), so that seconds begin and end and the overflow is reached. The
spiders live in a row of four places, where two must meet; two slots and three
tasks (`MaxTasks`) let one spider get two tasks; three touches create and kill
(the heap that refuses a further task is `MaxTasks`). An area of 6 by 3 with the
same touches, 9 million states, passes as well. The display queue has the
code's length of 10, which the first call of the idle hook exceeds. Addresses
have every length, packet counts every number of digits; two changes
(`MaxChanges`) let any value follow any other.

`uart`: a ring of 3 holds two characters, so that it is empty, half full, full
and wraps; `\n` is two characters and may fit half. In the buffered build three
inputs (a CR rubbed out, CR LF, and LF alone) race with two calls (`MaxCalls`) of
any kind: an echo in one call meets what another left in the ring, and each clause
of `raced` and `underrun` is needed. In the other build every sequence of four keys
is edited in a line of three.

`homework`: three user ids are root, the own and a foreign one; three processes
are enough for a group or a subreaper's descendants above and below the caller
(four were checked once). Arrays of up to four elements of three values pass
through the sort; the sizes 8, 16 and 17 overflow a signed and an unsigned
`int`, scaled to 64 values (`INT_MOD`), and are more than the number of elements
that are looked at one by one (`Looked`). `sysinfo`'s widths and the names are
scaled in the same way, each constant commented with what it stands for.
Limits have four widths that differ (7 for the kernel's largest, 5 for a 32-bit
caller's, 3 for the oldest call's, and 4 open files), address spaces four
addresses and the auxiliary vector three entries, of which one can be used;
the theorems cover every width. One map passes the checks, and its data and heap
already fill the data limit, so that moving them is only refused in the run
(`RLIMIT_DATA`; with twice the limit, where both move, it passes as well). Two threads
use up to two units, children one each of user and system time, and the memory
is one page (`MaxUse`, `MaxChildUse`, `MaxRss`): enough for a thread to run, exit or
start, and a child to be reaped, before, between and after the reads of a call. The
array of HW3 has four slots (`NoOfElements`) and three names. Texts have up to four characters out of a space,
three capitals and their small letters (`Capitals`, `SmallLetters`, `Case`),
which reaches the limit of the report (`CountLimit`); three streams (`MaxStreams`) run out while child 1 has one and
child 2 reports for the second time (`MaxTicks`), and there are as many kill signals as threads (`MaxKills`).

**Fairness.** The tasks of HW5 have one priority and share the processor by
time slices, the timer service preempts them and the tick ends a bounded wait:
weak fairness of `AlertTask`, `Timer3Callback` and `PortEHandler`. `LoggerTask`
is strongly fair since an interrupt disables it only for a few instructions at
a time, and a task's timeout is strongly fair because its block time runs on
through all the waits of one call. The other tasks and the pin need no fairness.
The console's program runs when no interrupt is served, an enabled interrupt is
served and the UART sends what it has: weak fairness of each. The spiders'
tasks have one priority and are preempted by the control and display tasks, so
each is strongly fair; those two are weakly fair. Touches, keys and changes of
the statistics need not happen.
In HW4 the kernel schedules every process and thread that is ready (weak
fairness of each); nobody need send a SIGINT. `ShmemIPC` assumes that the user starts
both programs; `MsgQueueIPC` assumes nothing about starts.

**Deadlock** is checked for `LoggerApp`, which never ends. The HW4 programs end,
or may wait for a peer that is not started again; time stops at `MaxTick` in
`Timestamp`; the touches, keys, signals and calls of the other runs are bounded.

## What disagrees with the documentation

- `alert_at_boot`: `alert.h` says that `AlertTask` is notified when the
  temperature is above the threshold, but the interrupt fires on edges and
  `edge` starts at 0 without a look at the pin. When the sensor, which is not
  reset with the board, already holds ALERT low, no alert is sent until the pin
  has gone high and low again.
- `timestamp_order`: `AlertTask` and `TemperatureTask` take seconds and
  milliseconds from two calls. If a second begins in between, the stamp shows
  almost a second too little and lies before the task's previous one.
- `msg_queue_reply`: with one queue for both directions, `mq_receive` of the
  client can return the request it has just sent, which it logs as the reply.

`TicksToMS` multiplies in 32 bits and overflows after 4294967 ticks, 71.6
minutes at 1000 Hz. The properties of `Timestamp` hold as long as the
conversion fits (`Fits`); after the overflow they claim nothing.

## Proofs

The proof modules are checked to the last leaf by TLAPS 1.4.5 with its SMT,
Zenon and LS4 backends. They rest on the named assumptions of the modules they
extend and on nothing else. These say of the constants only what the code's own
constants satisfy: lengths, rounds and widths are positive; `Created` is a
non-empty set of senders; temperatures fit 12 bits and the threshold is a whole
number of degrees that fits 8 bits; a spider is not larger than its area; a
request is a command flag and a text; the widths of limits are ordered; an
auxiliary vector has more than two entries; letters come after the space, no
capital is a small letter, and `Case` leads from the one to the other; the
number of values of an `int` is a multiple of eight, and an array too long to be followed element by
element is one whose size in bytes overflows; threads are finitely many. Bounds
on starts, signals and touches are any natural number.

**LoggerApp_proofs**, for every queue length and every set of created tasks:

- `TypeCorrect`. The types alone are not inductive: `count < MaxCount` when
  `LEDTask` counts follows only from where it passed the test of the bound
  (`CountBound`), and the set of tasks that can wait needs that a task that was
  not created never runs (`OnlyCreatedRun`). Together they are `TaskInv`.
- `WakeupsAreNotLost`. `NoLostWakeup` is stated so that it is inductive
  relative to `TaskInv`: while a sender is blocked, there is a ready sender
  inside `xQueueSend` for *every* free place. "Some place is free, so some
  sender is ready" would not be preserved by a second receive. The proof counts
  the woken tasks with the cardinality theorems of finite sets.
- `IdleHookNeverRuns` follows: if all tasks were blocked the queue would be
  empty and no sender woken, and `QueueLength` would be 0.
- `EdgeIsCurrent` needs that no interrupt shows before `AlertTask` enables it
  (`NoEarlyInterrupt`), and then goes by the steps of the handler.
- `AtMostOneStaleAlert`: `StaleInv` adds that no stale alert was counted while
  `edge = 1` or while `AlertTask` is between its test and its send.
- `ExpiriesAreServed`: inductive relative to `TaskInv`.
- `TogglesInOrder`: `OrderInv` puts every count in the queue between what was
  received and the count `LEDTask` sends next, which is one more than `count`
  while it has sent and not yet counted, and orders the counts in the queue.

**Board_proofs**:

- `Tmp102`, for every set of temperatures and every threshold. `DecodeEncode`:
  for every value of 12 bits, two's complement, reading two bytes, joining, sign
  extension and shift give the value back; `BufferDecodes`: what `i2c_write`
  sends for a threshold decodes to it. `ReadInv` says that the bytes fetched so
  far belong to one temperature of the window of this reading, `WriteInv` which
  bytes of which threshold have arrived; `TypeCorrect`, `ReadingsAreCurrent` and
  `AlertsAtThreshold` follow.
- `Timestamp`, for every rate and width of the clock. `StampsAreRecent`: between
  the two calls the seconds are those of when the stamp was begun (`StampInv`);
  `TwoFields` bounds what the fields of two instants show together.
- `SpiderDemo`, for any number of slots, tasks and touches and any area.
  `SpidersAreCleared`: an image on the display is *minded* by a task that is at
  it or one step from it and about to draw; with the request that is under way
  this is inductive (`DrawnInv`). It needs that a spider which is not shared has
  one task, which is where the spider is (`OwnInv`), and that nothing leaves the
  area (`AreaInv`). `SpidersStayApart` is the action property of the critical
  section.
- `IdleStats`, for whatever values the statistics take and whenever they change:
  `StatsAreShown`, if `DISPLAY_QUEUE_SIZE > 1`. At most one request is ever
  waiting, since the display's task is of a higher priority than the idle hook,
  and everything before it has been drawn (`QueueInv`); so the string a request
  points to is still the one it was made with. A box shows one value, not ahead
  of the one that is drawn next (`TextInv`, `HookInv`): the sent packets are
  only ever counted up, so their string never gets narrower, and the other
  strings clear what lies beside them. The property asks for a free place
  right after a request too, hence the hypothesis.

**ShmemIPC_proofs**, for any number of rounds, starts and SIGINTs:

- `ExclusionHolds`. `PairInv` follows the posts of every semaphore: one that can
  still be opened by the other program has no posts but those of the process
  that posts to it (`FreshInv`), a process that is alone has asked at most once
  or answered nothing (`AloneInv`), and with the same two semaphores the posts
  and the turns add up to at most one (`TurnInv`). That no old semaphore gets
  into a new session follows from the order of the opens and unlinks
  (`OpenInv`, `UnlinkInv`, `KindInv`).
- `Refinement`: relative to `PairInv`, and up to the first SIGINT or restart,
  `CalmInv` says which copy of the question or answer each place holds; every
  step then maps to a step of `RequestReply` or a stutter.

**PipeIPC_proofs**, **SocketIPC_proofs**, for any number of rounds, requests and
(socket) clients, and interruptions of any of the processes: where the open
question or its answer is (`TurnInv`, `Turn`), how the loop counters are related
through what is in transit (`TurnInv`, `Count`), and what this makes of the log
(`LogInv`, `Logged`). `StaleOnlyAtTheEnd`, `AnsweredOrRepeated` and both
`Refinement` theorems follow.

**MsgQueueIPC_proofs**, for any number of starts and SIGINTs and any size of the
queue. `NeverFull`: the messages in a queue are not the invariant, since a
process that has received may send. `CreditInv` counts the messages of each
queue together with the processes that may still send to it, at most one in
all, and none as long as the client has not opened the queue; `NameInv` says
that a queue cannot be opened any more when its client has ended.

**Homework_proofs**, for every instance of the modules:

- `SysCred`, any ids: `RootIsDropped` is inductive with the types;
  `IdsOnlyFewer` goes through the four ids of each call; `RootNeverReturns`, "a
  setuid program can completely drop its privileges" (comments in `sys.c`),
  combines the two.
- `SysProcess`, any pids: `GroupsInOneSession`. A group or session named after a
  process that lives is in that process's session or led by it (`GroupHome`,
  `SessionHome`): without these `setsid` could start a session whose number is
  in use. `TreeStaysSound` adds the subreapers and so is all of
  `ProcessTreeSound`. That the parents form a tree is stated by a rank that
  grows from parent to child (`Tree`), which each `exit` that gives its children
  to another process has to renew; the recursive `Above` is shown to be the set
  of ancestors (what is in every set that holds the parent and is closed under
  parents), and the nearest subreaper above a process to have all the others
  above it.
- `SysPriority`, any tasks, groups and users: `PriorityAnswersHold`, of every
  outcome of one call from any priorities.
- `SysLimits`, limits of any widths: `LimitsAreKept`. `LimitInv` is what
  `do_prlimit` leaves in each field; the conversions of each width are shown to
  be inverse to each other on what the width can express.
- `SysMm`, any address space, data limit, vector and set of maps:
  `MapsStaySane`, by the checks before each commit and, for the vector, because
  a partial copy leaves its end as it was.
- `SysUsage`, any finite set of threads and any bounds on their use:
  `UsageStaysConserved`. `UsageInv`: the live threads' counts and what the
  exited ones left add up to what was ever used. `SampleInv` says of a call under
  way that the sum so far, with the counts of the threads yet to be added, lies
  between what was used when the call began and what is used now: a thread that
  runs, starts or, when `times` begins again, exits keeps it so. The sums are folds
  over sets; that their order does not matter is proved first, by induction on the number
  of elements.
- `SysInfo`, any word, 32-bit word, page counts and growth: `SysinfoStaysExact`.
  The doubling loop's test (a sum that has wrapped is smaller) is shown to find
  the overflow exactly (`FitsInBytes`).
- `SysUts`, buffers and layouts of any length, names of any letters:
  `NamesAlwaysReadBack`. `UtsInv` says where in its buffer each name ends and
  that only NULs follow.
- `ReportsStayExact` lifts these, with the policy of `SysPrctl` (`PrctlInv`), to
  `HomeworkSpec`: all of `ReportsExact`.
- `PthreadSub`, any number of streams and signals: `ChildrenKeepTheLog`. While
  a child may write, `logging` is an open stream or `NULL` (`WriteInv`), which
  rests on the order in which `main` makes the threads (`OrderInv`).
- `PthreadSub`, any texts, alphabet and limit: `ReportsCountRight`, all of
  `ReportCounts`. Two characters that differ decide the comparison of the rests
  of the text that begin with them (`RestIs`), so an exchange is one of lowered
  characters; `Sorting` is the invariant of both loops: lowered, the text is a
  rearrangement of what it was, its first characters are in their places, and no
  capital is left once there were two characters to compare. On the sorted text
  `CountIs` says what `count` stands for at each character and `Lists` that the
  members are the letters whose last place has been passed, in order. A list in
  order has its letter `k` in `k`-th place (`LetterRanks`), which is
  `RightReport`. What is printed then stays a beginning of it (`ReportInv`), if the text was read.
- `KernelModules`, any names and filters: `ListsStayComplete`. `ListInv` gives
  each loop's progress: the run it is in, and that the nodes so far are right for
  the names before that run. `FreedInv`, for `NodesFreed`, says which nodes the
  walk of `list_exit` has freed. `TimerEndsWithModule`: while the module is loaded
  the timer is queued or its function runs, never both and never neither
  (`TimerInv`), so that after `del_timer` nothing is left unless the function ran
  (`overtaken`). There is no assumption on the number of processors.
  `ModulesStaySound` combines them.
- `SysSort`, arrays of any size and values, an `int` of any width: `SortingAlwaysWorks`.
  `Seen` is the invariant of the loop of `get_partition_index`, `IsPartition`
  what it returns. `Stack` describes the calls of `quick_sort` that have not
  returned: each stands for a part above those of the calls made after it, two
  elements that are out of order lie in one of these parts, and no call is
  deeper than the elements left allow, which bounds the depth. The array stays a
  rearrangement, a permutation given with its inverse (`Rearranged`), so that
  every value occurs as often as before (`RearrangedCounts`).

The recursive functions of these modules (the loops, `Above`, the sums) are
each shown to satisfy their equation, by proving that one function does; where
induction is needed, it is on a set of numbers that holds 0 and the successor of
each of its members (`Induct`).

**UartStdio_proofs**, for rings of any size, any depth of the FIFO and any finite
texts and typing (that what is typed is a sequence is part of `UartAssumption`):

- `BytesStayInOrder`. The contents of a ring are shown once and for all to be a
  queue: storing under the write index does not show (`Stored`), advancing the
  index appends (`Advanced`), going back removes the last (`Retreated`),
  advancing the read index takes the oldest (`Consumed`), all modulo the size.
  On these, what is accepted is at every moment the FIFO followed by the ring,
  or, within `UARTPrimeTransmit`, by the ring without the character just moved
  (`OutInv`). To keep it, the place `UARTwrite` has tested must still be free,
  its character under the index and the index it has loaded current, or, while
  it tests, there must be room (`UpdInv`): exactly what `raced` destroys. `InInv`
  says the same of the receive ring, also while a character is taken, and
  that a carriage return `UARTPeek` has found is still there; `CtlInv` where the
  interrupt is off, so that `UARTPrimeTransmit` and the unbuffered build run
  alone. The characters are any set that holds those seen so far, since nothing
  bounds them in advance; it grows with each call (`Grows`).
- `LineIsShown`, for the unbuffered `UARTgets` and any length of `pcBuf`: in the
  middle of an echo the screen is not the line, but what is still to be echoed
  will turn it into the line (`Shows`, with a case for each character of the
  backspace, space, backspace that rubs one out).

**Only model-checked**:

- liveness (`QueueDrains`, `AlertsKeepComing`, `RingDrains`, `KilledIsCleared`,
  `SessionCompletes`, `ClientFinishes`, `NobodyHangs`, `EverybodyEnds`,
  `KillsEndProcess`): TLAPS does not do fairness or ENABLED;
- the three properties that are violated, each by a counterexample of TLC.

Every invariant of a passing run is stated by a theorem.

## Not modelled

- FreeRTOS, the TI peripheral library, POSIX and the rest of the kernel appear
  only as the programs use them, as definitions marked external in the map.
  Failing calls that only make a program print and exit are left out.
- Configuration of peripherals, and text that the program never reads back:
  formats, log headers, and `UARTprintf`, which formats for `UARTwrite`.
- The layout of `logger_struct`, into whose `source[10]` and `message[30]`
  longer strings are copied: what lies behind them depends on the compiler, and
  the next assignments overwrite it.
- `SpiderSpeedSet`, which changes delays only; the model lets any delay pass.
- The web server's task, the CGI parameters, `led_task.c` and `random.c` of the TI
  demo: vendor code around lwIP, whose source is not in the repository.
- Start-up code, interrupt vectors and pixel data (`images.c`): no behaviour.
- In `sys.c`, the calls that return a single value (`getpid`, `getuid`, `umask`,
  `getcpu`), and the options of `prctl` that hand their argument to another
  subsystem. `syscalls.h` and `track_calls.c` are a list of prototypes and a
  program that makes calls one after the other.
- HW1: Makefiles and a script that lists system information.

## Plan

Done: every program with concurrency or state of its own, in the order of the
concurrency they hold: `LoggerApp`, `Timestamp`, `Tmp102`, `RequestReply` and its
transports, `UartStdio`, `SpiderDemo`, `IdleStats`, `PthreadSub`, `KernelModules`,
`SysSort` and the other `Sys` modules.

Proved: every invariant the runs check, the four transports with their
refinements, and the action properties that do not speak of fairness.

What is left: liveness, which needs a prover for fairness, and the parts listed
under "Not modelled".
