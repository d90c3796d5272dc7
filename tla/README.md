# TLA+ models of the TTLIDAR driver

The repository drives a TT lidar over a serial port.  A ROS node
(`src/src/ttlidar_node.cpp`) owns one `TTlidarDriver` (`src/sdk/src/ttlidar_driver.cpp`), which
runs a scan thread that frames the bytes of the port into packets, assembles packets to turns of
the head, and hands every turn over to whoever calls `grabScanData()`.  The modules of this
directory model these parts; TLC checks them on small instances, and TLAPS proves the safety
properties for every value of the constants.

Line numbers below are those of `src/sdk/src/ttlidar_driver.cpp` unless another file is named.

## 1. The system

| Part | State | Operations | Talks to | Hard behaviour |
|---|---|---|---|---|
| `TTlidarDriver`, API | `_is_connected`, `_is_scanning`, `_scanthread`, `_lock` | connect, startScan, stopScan, resetlidar, getDeviceInfo, setMotorRpm, disconnect, destructor | the scan thread by `_is_scanning` and `join()`; the port | checks made outside the lock; a thread that gives up by itself; a command and the scan thread on one port |
| Scan thread (226-263) | its locals `scanBuff`, `count` | receive a turn, publish it | `_lock`, `_event`, `_flag_scan_buffer`, `_scan_buff_count` | fills a buffer without the lock, swaps under it |
| Fetch, `grabScanData()` (511-547) | none | wait for the event, lock, copy, clear the count | the same | memcpy while the thread writes; a timeout racing a signal |
| Event (`arch/event.h`) | `_is_signalled`, a condition variable | set, wait | its callers | wake-ups, timeouts and a mutex that is given up in between |
| Assembly, `_parsePacket()`, `_recvScanData()` (265-403) | static `lastStartAngle`, `packetCount`, `scanCount`; a scan buffer | accept, restart or give up a turn | the scan thread | lost packets, statics that outlive a thread, no test of the buffer's end |
| Framing, `_recvPacket()` (405-509) | locals `recvPos`, `paramLen` | hunt for a frame | the port | resynchronisation in pieces of the frame's length |
| Commands, `_sendCommand()`, `_waitforResponse()` (549-693) | a local ring of 512 bytes, `getms()` | send, search for the response | the port | answers that come in pieces, a ring that is not initialised, a clock that comes round |
| Serial port (`arch/linux/linux_serial.cpp`) | `serial_fd`, `_selfpipe`, `_is_serial_opened` | open, close, flush, senddata, recvdata, waitfordata, cancelOperation | the kernel | select on two descriptors, partial frames, reopening |
| Thread, Locker (`arch/linux/linuxthread.hpp`, `arch/locker.h`) | a handle, a mutex | create, join, lock | the driver | a handle that is joined twice |
| Node, `main()` (`src/ttlidar_node.cpp`) | its loop, `ros::ok()` | connect, start, fetch and publish, disconnect, delete | the driver | a shutdown at any moment; a scan that nobody fetches; the lock it shares with the scan thread |

What makes each of them correct:

* driver: at most one scan thread runs and `_is_scanning` does not outlive it; nobody reads the
  port beside a command; a stopping call returns, unless the device falls silent in the middle of
  what is waited for;
* hand-over: what is fetched is what was handed over, once, whole, never while it is written;
* event: every `set()` lets exactly one `wait()` succeed, and nobody sleeps beside a raised flag;
* assembly: a complete turn has the points of every tooth, in order; no more packets than a turn
  has are stored in a buffer, so that it is not overrun as long as the packets are narrow enough
  (the code tests neither a packet's points nor the end of the buffer); and turns keep coming as
  long as no packet is lost;
* serial port: descriptors do not leak, the bytes that were announced are there unless another
  reader took them, and waits end unless they hold a part of what they wait for;
* commands: the frame is as long as it says and its checksum is right; what is taken for an
  answer is one, an answer is passed over in named cases only, and the wait is over when the time
  is, but for a wait that holds a part of an answer;
* node: it returns when it is shut down, under the same condition as the driver's calls, and leaves
  no thread and no open port behind, and while it runs every scan is published or replaced by a
  later one.

## 2. Modules

| Module | Models | Uses |
|---|---|---|
| `TTlidarDriver` | API calls, scan thread, fetches, and what they share | |
| `ScanMailbox` | abstract: a slot for one scan, an event that announces it | |
| `DriverMailbox` | the driver as an implementation of `ScanMailbox`; its run also has the stopping calls | EXTENDS TTlidarDriver, INSTANCE ScanMailbox |
| `Event` | the class Event with its condition variable, and its deadline | INSTANCE AutoResetEvent |
| `AutoResetEvent` | abstract: an auto-reset event | |
| `ScanAssembly` | packets to turns | |
| `MCScanAssembly` | how long the packets are that TLC tries | EXTENDS ScanAssembly |
| `FrameSync` | `_recvPacket()`: bytes to frames | |
| `MCFrameSync` | the streams TLC tries | EXTENDS FrameSync |
| `SerialPort` | descriptors, queue and pipe of the port, and `waitfordata()` | |
| `Response` | `_sendCommand()`, `senddata()`, `_waitforResponse()`, the checksums, `getms()` | |
| `MCResponse` | the commands and the streams TLC tries | EXTENDS Response |
| `Node` | `main()` of the node, its steps joined with the driver's | EXTENDS TTlidarDriver |
| `*_proof` | the theorems of the module before the underscore | TLAPS |

### TTlidarDriver

The variables have the names of the fields and locals they stand for.  `tpc` and `pc` say where a
scan thread or a client is; the locations are the points at which other threads can intervene: a
test made without the lock, taking the lock, a wait, a join, the begin and the end of a copy.
One client, the Controller, makes all calls; the others fetch, as an application of the SDK
would.  (The class has no protection against two threads that both start and stop it, and the
node does not do so.)

* `StartCheck`/`StartScan` are the two halves of `startScan()`, split where it takes `_lock`.
* `StopGrabbing`, `JoinScanThread`, `CommandLock`, `CommandReturn`, `CommandIgnored`,
  `CloseSerial` are the pieces of stopScan, resetlidar, getDeviceInfo, disconnect and the
  destructor; the first three differ only in the command they send, which the model leaves out.
* `GrabScanData` ... `CopyEnd` are `grabScanData()`.  The event is a flag here; `Event` shows that
  the condition variable behaves like that.  The flag is asked for one buffer and then for the
  other (526, 530): `CopyBegin` and `CopyRetest`, between which a thread that starts can reset it
  (233), so that nothing is copied.
* `ThreadStart` ... `ThreadReturn` are `_recvScanDataThreadCallback()`.  `ReceivePacket` stores
  points without the lock: the contents of a buffer are a version number that each packet raises.
  `ReceiveTurn`, `ReceiveUndefined`, `ReceiveTimeout` and `ReceiveFail` are the ends of
  `_recvScanData()`; the second is RESULT_OK read where `_parsePacket()` returned nothing (402),
  with any count.
* `ReceivePart` and `ReceiveRest`, and `ResponsePart` and `ResponseRest` for the waits in `_lock`
  (207-215) and in setMotorRpm(), are `waitfordata()` when a part of what it waits for has come: at
  `partial` and `motor_partial` no time limit counts any more (`linux_serial.cpp`, 296-346), and
  the thread stays there, with `_lock` if it holds it, until the rest comes or the port fails.
* `published` is a history variable: what the thread handed over last.

The second `pthread_join()` of the same handle (disconnect, then the destructor) is undefined in
POSIX; it is modelled as returning at once.  `MaxPoints`, the points of a turn, is assumed to fit
a buffer, which the code does not ensure; `ScanAssembly` has the points and the room.

### Event

What a thread does while it holds `_cond_locker` is one action; `asleep`, `woken` and `expired`
are the moments in `pthread_cond_timedwait()` between which other threads go on.  A failing
`assert(_is_signalled)` ends the process (`aborted`), as the catkin build, which sets no build
type, compiles it.  The driver's own model does not contain that abort.

A wait that is about to sleep computes its deadline (`WaitTime`) from a time of day and a timeout
out of `Clocks` and `Timeouts`; a deadline whose nanoseconds reach a second would be refused with
EINVAL and end the wait with EVENT_FAILED.  `NoWaitFails` says that this never happens, which is
why the driver is modelled without grabScanData()'s answer to it.

### ScanAssembly

A packet stands for its tooth (24 degrees) and the turn it was measured in, and a cell of a scan
buffer for a point.  `ScanNum` is how many points a packet has: half of what its length leaves
behind the head of 7 bytes, in a `_u16`, so that a length below 6 wraps to 65533 or so (316).
`Store` writes them behind what is stored and looks at no limit, as the loop at 370-384 does; a
point beside the buffer is kept as if the buffer went on (`Written`), and `Inside` says that there
is none.  At the real size, 2048 points, a turn of 15 packets of 136 points fits (2040), one of 137
does not (2055), and the longest packet that `_recvPacket()` takes has 146 (2190).

What is assumed of the device, and named as constants:

* the measurement of tooth t begins at most 7 degrees after 24t and has ended when the next tooth
  comes: with more jitter the test at 40 degrees (352) would take a packet for the follower of the
  one before the last;
* fewer than Teeth - 1 packets are lost in a row (after a whole turn of losses a packet of the
  next turn cannot be told from the packet that was expected);
* a packet has points (`PointsAssumption`).  One of 6, 7 or 8 bytes has none and is counted all the
  same, so that its tooth is missing in the turn.

Angles are whole degrees: the code's hundredths and its floats only place points between two
teeth.  The end angle of a packet that is too short for its head is read from bytes that belong to
something else; the model gives it the device's.

`_parsePacket()` has no return statement after an incomplete turn (402); `ReceiveUndefined` is
every outcome a build gives: built without optimisation the caller reads `packetCount`.
`_recvPacket()` and the checksum appear as `LosePacket` and `ReceiveTimeout`.

### FrameSync

A session's bytes are a sequence that the run chooses; `read` and `looked` count what was taken
from the port and what the loop has looked at, so that a piece of what `recvdata()` gave is the
difference.  `WaitForData` takes exactly what the frame still needs: `waitfordata()` announces at
least that much, and the code clamps what is more.  `LookAtByte` is one turn of the loop, with
`SkipByte` for its `continue`s.  `GiveUp` is the end of the time or a failing port; bytes of a
frame that was begun are lost with it, as in the code, which has `recvPos` in a local.

### SerialPort

`queue` is what FIONREAD tells, `pipe` what is in `_selfpipe`.  `Opened` has the device open with
or without a pipe (open() does not tell), `Open` adds the ways in which it fails, in which case
close() is called or nothing was opened.  The actions of a reader are the returns of
`waitfordata()` and the one that goes back to `select()` with the set the last one left, which
no longer contains the pipe.  There are two readers, the scan thread and a caller of
setMotorRpm(), and `taken` is a history of how many of the bytes that were announced to one the
other read before it.  Open, close and flush are made while nobody reads: that is
`PortTurnsOverUnread`, proved of `TTlidarDriver`.  That one thread at a time reads, unless
setMotorRpm() is called, is `PortHasOneReader`.  A pipe whose read end could not be made
non-blocking is left out.

### Response

A call takes a command from `Calls`, puts its frame together (`CommBuf`, `CommCheckSum`, `Frame`),
writes it in parts (`SendSome`; what `write()` answers is ignored, so that the call goes on after
any of them) and, unless it is startScan()'s, waits for the answer.  `stream` is what will come
from the port, chosen when the wait begins, `Data` the ring, which holds anything then; `recvPos`
and `readPos` count as in the code, and `ends` is a history of where the pieces ended.
`WaitForData` is one `waitfordata()` that succeeds and the `recvdata()`s after it: any number of
bytes from `remainSize` up, which `Stored` writes in two parts when they reach the end of the ring,
and beside it when the second part is too long.  `PartComes` is a `waitfordata()` that gets a part
of what it waits for: from then on it has no end of its own, `Stall` lets time pass, and `stalled`
counts it.  `SkipByte`, `WaitForMore`, `Accept` and `Reject` are the turns of the
search, with the code's tests in the code's order on whatever the ring holds; `Verdict` is what
the four callers make of the answer, and `info` the size of getDeviceInfo()'s
`memcpy(info, paramBuff, paramLen)` (158), which tests nothing: the search has its own idea of
where the length lies, and what it accepts makes the copy 0 or a multiple of 256 bytes, never the
41 of a `LIDAR_DEV_INFO_T`.  The wait's three ends, `WaitTimesOut`, `WaitFails` and
`TimeIsUp`, are those of the loop.

`clock` is `getms()`, which comes round at `Wrap`, and `elapsed` a history of the time that has
really passed.  A wait in which nothing comes may end up to `MaxLag` later than it was asked to;
one that holds a part may hold it for `MaxStall`, a bound of the model that the code does not have.
Assumed, and named:

* `RoomAssumption`: between two looks at the port no more comes than fits the ring beside a frame
  that is not complete (512 - 101 = 411 bytes, which take 36 ms at 115200 baud).  The code tests
  the length of a piece nowhere: a longer one runs over bytes the search has not done with, and one
  that is longer than the ring and what is left before its end is written beside it
  (`StoredInside`);
* `ClockAssumption`: a timeout, the lag and the stall are less than the 49.7 days of `getms()`;
* `CommandAssumption`: command words are 1 to 63, as in `ttlidar_protocol.h`, 42 to 49;
* `PayloadAssumption`: the frame, and the eight bytes behind it that `_checksum()` adds as well
  (687), fit `commBuf`, 1024 bytes.  `_sendCommand()` tests no length; its callers send ten bytes
  at most.

### Node

`Node` EXTENDS `TTlidarDriver` with `Clients = {Controller}`: `at` is the statement of `main()`, and
every action of `main()` is the conjunction of the driver's action with the change of `at`, so that
the scan thread's actions run beside it unchanged.  `Shutdown` may come at any moment, and the loop
asks `ok` only at its head.  `NodePublish` keeps the number of points of the message in
`message`.  `NodeResponse` is the response that `disconnect()` awaits coming in parts.  What
`main()` does not call (stopScan, resetlidar, getDeviceInfo, setMotorRpm) is not part of `NodeNext`;
`disconnect()` and `delete` are.

## 3. Runs

| Run | Instance | What it shows |
|---|---|---|
| `driver_safety` | 2 clients, 2 scan threads, 3 packets | thread discipline and hand-over, over all interleavings |
| `driver_mailbox` | 2 clients, 1 scan thread, 3 packets, 1 point | `IsMailbox`: the double buffer implements the one-slot mailbox; `StopReturns`: only a device that is silent in mid-frame or mid-response keeps a stopping call |
| `driver_stale` | 1 client | the finding at 277: a timed-out reception is published with an old count |
| `driver_reconnect` | 1 client | the finding at 57: connect() after disconnect() opens nothing |
| `event` | 3 waiters, spurious wake-ups, resets, 4 sets, 6 clocks, 8 timeouts | each set taken once, no deadline refused, nobody stranded, refinement of `AutoResetEvent` |
| `event_spurious` | 1 waiter | the finding at `event.h:132`: a spurious wake-up fails the assertion |
| `scan_assembly` | 4 teeth, 3 turns, 2 lost in a row, 1 restart, jitter 0 or 7; packets of 1 point, 2 points, or too short (15 points where a `_u16` counts to 16); a buffer of 8 points | whole turns, which turns stay inside the buffer, turns keep coming |
| `frame_sync` | 2 frames, 6 kinds of noise or damage, parameters of 0 to 10 bytes, at most 9 accepted | frames are contiguous, none of the bytes read is dropped, and the hunt stays in step |
| `serial_port` | 2 readers, 4 bytes, waits for 1, 3 or 4 | descriptors, which announced bytes are missing, when a wait ends |
| `response` | 3 commands, 18 streams, 2 stacks, a ring of 28, answers of up to 14, pieces of up to 13, a clock of 4, stalls of 1 | what is sent, accepted and passed over, and how long a call takes |
| `response_frame_t` | the real ring: 512, 100, 411 | the finding at 625: an answer laid out as FRAME_T is passed over |
| `node` | 1 scan thread, 2 packets, turns of up to 2 points, 1 client | `main()` returns, unless the device is silent in mid-frame, and leaves nothing behind; scans are taken |

Why the bounds are enough: two scan threads are what it takes for one to replace another; three
packets fill both buffers and one of them again, which is what a torn or stale copy needs; two
clients compete for one signal, and three waiters are a sleeper, one that was woken and one that
comes in between; the clocks and timeouts have sums of nanoseconds just below a second, exactly a
second and the largest there is.  A turn of four teeth has a first, a last, and two between them,
so that a gap can be inside a turn or across its end, and three turns let a turn be given up, begun
anew in the other buffer and completed.  A buffer of eight points holds a turn of the widest
ordinary packets and nothing more: a fifth packet, which a restart allows, or one that is too short
leaves it.  Four bytes are a wait that is satisfied at once, after one wake-up, after several and
never, and bytes for one reader of two.  Two frames are what it takes to lose one because of the
other; among the parameters are a whole frame, the beginning of one and more than are accepted, and
the noise has a lone first flag, and frames damaged in the second flag, the length and the
command.  The ring of `response` is as small as its assumption allows: a stream of up to 47 bytes
goes round it, in pieces that end before, inside and behind every answer; among the streams are an
answer behind a lone flag, behind a candidate that is never complete, behind a damaged answer and
behind another command's answer, and a clock of four ticks comes round within a call.  `node` has a
turn handed over before, while and after `main()` looks, and a second one that replaces it; one
thread is all that `main()` starts.  All bounds are CONSTANTS with comments, and the theorems hold
for every value of them.

Deadlock is checked in every run.  In `TTlidarDriver` a deleted object, and in `Event` an aborted
process, stutters.

### Fairness

* `TTlidarDriver`: weak fairness of every thread's own steps; nobody must call anything, and the
  device need not send.  The waits for bytes are not fair where they hold a part: `ReceiveRest` and
  `ResponseRest` need not happen, as `waitfordata()` need not return then (`WaitEnds` of
  `SerialPort` states exactly when it does).  `ReceiveEnd` and `ResponseEnd` are strongly fair:
  `_recvPacket()` (421) and `_waitforResponse()` (594) look at the clock between two waits, so that
  a reception or a response ends when its waits keep ending, and the model, which has no clock,
  says so by SF.  `StopReturns` and `NodeReturns` therefore end in
  "or the device is silent for good with a part sent" (`[]Stalled`), for the scan thread that is
  joined as well as for the response under `_lock`.
* `Event`: a waiter that may take the mutex takes it in the end.
* `SerialPort`: `select()` returns when a descriptor is ready or its time has passed.
* `Node`: as for `TTlidarDriver`; `main()` and the scan thread run when they can, `Shutdown` need
  not come and the device need not send.  `ScansAreTaken` needs more than that, since a pthread
  mutex promises no order: strong fairness of `GrabLock`.  That `main()` gets the lock is an
  assumption, then, and not a result; what is checked is that it comes to want it and takes what it
  finds.  It is justified by where the scan thread is when it does not hold `_lock`: it waits for
  the whole of the next packet, milliseconds, before it wants the mutex again, while a thread that
  was waiting for it is woken and takes it.  With weak fairness TLC finds the behaviour in which
  `main()` always comes when the mutex is held.

## 4. Properties and findings

Each hazard of `PROJECT.json` names the properties that would catch it.  Some need their
conditions explained:

* `NextFrameIsFound` speaks of a frame before which the call finds no byte A5.  A byte that breaks
  the pattern is not looked at again as a first flag (468), so that A5 A5 5A loses a frame, and a
  frame without parameters is never returned (501).
* `PublishedIntact` and `CopyUntorn` hold until a later scan thread starts (`SameSession`): that
  thread resets `_flag_scan_buffer` without the lock (233) and starts in the right buffer, while
  the event and the count may still announce a scan of the thread before it, and a fetch that asks
  for the flag twice may copy nothing.
* `NoOverrun` says how far the angle tests bound a buffer, and not that it is never overrun: a turn
  of the widest packets, and one packet for every restart, must fit.  TLC has both sides, and the
  points do leave the buffer where the condition fails.
* `TurnIsWhole` holds when no point was written beside a buffer, and when the turn was begun in the
  buffer that is handed over.  A timeout in the
  middle of a turn makes the thread change buffers while `packetCount` keeps counting; the turn
  that is then completed has its beginning in the other buffer and old points in its place.
* `PromisedBytesAreThere` counts with the bytes that the other reader took.  That it is the only
  reader whose bytes can go missing is `setMotorRpm()`'s doing (101-129, it neither locks nor asks
  `_is_scanning`): with one reader nothing is missing (`OneReaderFindsAll`).
* `AnswersAreSeen` and `NoAnswerLeftBehind` name the ways in which a good answer is lost.  The
  search passes it over when a piece ends within its first three bytes, since the length is then
  read from a place of the ring that nothing was stored in yet (625).  It stays in the ring, and the
  call waits on, times out or fails, when a byte A5 stands before it whose next two bytes make a
  length of up to 100 (629): the search waits for that many bytes, and `waitfordata()` asks for
  `remainSize` new ones each time.  And the call gives up (INVALID, 645-646) with the answer in the
  ring when a frame to the same command with a wrong checksum comes first.
* `ResponseInTime` has `stalled`, what the latest wait held on to a part of its bytes, on top of the
  timeout and the lag: the code does not bound it.
* `AcceptsOnlyAnswers` is about the other direction, and has no condition: nothing that was not
  received is ever taken for an answer, whatever the ring held.
* `NoScanDiscarded` is what makes an empty message harmless.  A fetch that finds no points answers
  RESULT_OK with a count of 0 (after a timeout of the reception, or when a turn was handed
  over between the signal and the lock of an earlier fetch, so that its signal finds the slot
  empty); the node publishes that as a message without ranges.
* `StopReturns` and `NodeReturns` name the one way in which a call does not come back, see Fairness.
* `CleanExit` and `NodeReturns` rest on the second `pthread_join()` of one handle returning, see
  above.

Findings, each the counterexample of a run: a fetch answers RESULT_OK for a scan nobody received
(277); connect() after disconnect() answers for a closed port (57); a spurious wake-up fails an
assertion (`event.h:132`); an answer that is laid out as `FRAME_T` is passed over (625), since the
search takes the length from bytes 1 and 2 and the command from byte 4, where `FRAME_T` has its
second flag and its checksum.  Which layout the device's answers have no source says; `Response`
follows the search.  The same disagreement is behind the size of getDeviceInfo()'s copy.

## 5. What is proved

Each theorem holds for every value of the constants that satisfies the module's ASSUMEs.

* `TTlidarDriver_proof`: `TypeCorrect`, `ThreadDiscipline` (OneScanThread and
  ScanningHasThread), `CommandsRunAlone`, `ScansAreAnnounced`, `ScansStayWhole`.  The inductive
  invariant `IInv` adds what the properties do not say: who can hold the lock where (`LockHeld`),
  that only the Controller is outside grabScanData() (`OthersGrab`), that the threads have
  been created in order and only the latest is alive (`ThreadsInOrder`), and that, up to the start
  of a later thread, the live thread's buffer is the one that is not published (`BuffersApart`).
  From it follow the results about the driver's concurrency that no run states:
  * `NoCircularWait`: `WaitsFor` relates who wants `_lock` to its holder and who joins to the
    thread.  Whoever is waited for goes on (`GoesOn`; only the device may keep it), or it is the
    joined scan thread and the holder of the lock it wants goes on; the Controller holds no lock
    while it joins.
  * `StoppingComesNearer`: while the Controller joins, each move of the scan thread, besides what it
    may still receive, lowers `StepsLeft`, at most 7.  The two are the safety half of
    `StopReturns`; the other half, that who goes on does so, is the fairness.
  * `PortTurnsOverUnread`: what `SerialPort` takes for granted of its caller; and
    `PortHasOneReader`: what `OneReaderFindsAll` assumes.  The exception is setMotorRpm(), which
    reads its response beside the scan thread.
  * `DriverUsesEvent`: the scan thread and the fetches, with the history `answer` of what each
    wait answered, take the steps of `AutoResetEvent`.  `ImplementsEvent` of `Event_proof` is the
    other side of that interface.
* `DriverMailbox_proof`: `DriverIsMailbox`, every step of the driver with one scan thread is a
  step of the mailbox or a stutter.  With a second thread it is not, since the thread resets the
  flag under a scan that is still announced.  `MailboxWithinSession` is what holds then, for any
  number of threads: every step from and to a state within a session (`WithinSession`: no thread
  has started since the latest hand-over) is a step of the mailbox or a stutter.
* `Event_proof`: `SetsAreTakenOnce`, `NobodyIsStranded`, `ImplementsEvent`; `AssertionHolds` for
  one waiter without spurious wake-ups or resets; `WaitTimeExact`, that the deadline of
  `wait()` is exact and normalised, for every time of day and every timeout, from which
  `NoWaitFails` follows.
* `ScanAssembly_proof`: `AnglesBoundTheBuffer`, `TurnsAreWhole`, `ScansKeepComing`.  The first is
  for packets of any number of points and says when they stay inside; it rests on `ProductGrows`,
  since the points stored are at most `widest` for each packet counted (`RoomGrows`).  The
  invariant says that the points stored since the last reset are of consecutive teeth of one turn,
  one tooth's beside each other (`Stretch`), and end with the last packet (`StoredOrDiscarded`,
  `StretchBegins` and `StretchGrows` are its steps), which makes the angle tests exact;
  `AnglesAreTeeth` translates them from degrees to teeth.
* `FrameSync_proof`: `BytesAreKept`, `FramesAreWhole`, `StaysInStep`, for every stream.  The
  invariant says that `scanBuff` is a window on the last bytes looked at (`Window`), that no more
  was read than the frame needs (`NoneTooMany`), and that the window begins at the first frame
  that the call can find (`InStep`).
* `SerialPort_proof`: `DescriptorsAreKept`, `WaitsOnOpenPort`, `BytesAreThere` for any number of
  readers, and `OneReaderFindsAll`.
* `Response_proof`: `StoredInside`, that a piece stays inside the ring exactly when it is no longer
  than the ring and what is left before its end; `RingIsKept`, `AnswersAreReal`,
  `AnswersAreNotMissed`, `AnswersAreTaken`, `ResponsesInTime`, for every stream, ring, clock, stall
  and set of commands, under the assumptions named above.  The invariant adds that what the search
  leaves unread is shorter than the longest frame (`Unread`), so that with `RoomAssumption` a piece
  never reaches it; that a search goes up to the end of a piece (`SearchesPiece`), which is where a
  length may be half there; and that `getms()` has moved on by what has passed and not come round to
  where it was (`ClockTells`), so that the unsigned difference is the time waited.
  `CommandsAreFrames` is about the frame that is sent, of any payload.  `CheckSum` is a recursive
  function, and what it sums is proved by induction over sets: `Induction`, the least element of the
  numbers that are not in a set, from the well-foundedness of the naturals.  `SumOfBody` shows that
  the code's sum, whose field is still 0 and whose eight bytes too many are 0, is the sum of the
  other bytes; `HighAndLow` that the two bytes it is stored in give it back.
  `DamagedByteChangesCheckSum`: blocks of any length that differ in one byte have different sums.
* `Node_proof`: `NodeUsesDriver`, every step of `main()` is a step of `TTlidarDriver`'s Next or
  leaves it alone, so that all theorems about the driver hold under the node; `NodeExitsCleanly`
  and `ScansAreNotDiscarded`.  The invariant is the driver's, with which call belongs to which
  statement (`CallsInOrder`), that one thread is made at most (`OneThreadMade`) and that it is
  joined before a command is sent or the port closed (`ThreadJoined`, `PortClosed`).  Since
  `main()` starts one thread and never calls setMotorRpm(), the driver's results hold without
  their exceptions: `NodeIsMailbox`, `NodePortHasOneReader`, and `NodeHasNoCircularWait`, in which
  who is waited for always goes on.

`TypeCorrect` of every module is the type invariant.

Every safety property of a passing run is proved.  Only model-checked: the liveness properties
(`StopReturns`, `SignalIsTaken`, `WaitEnds`, `NodeReturns`, `ScansAreTaken`), since fairness and
ENABLED are beyond the prover.

## 6. Not modelled

* The Windows port (not built by `CMakeLists.txt`), the demonstration subscriber (it prints what it
  receives), launch, rviz and udev files.
* Of the serial port: the termios set-up, DTR, `rxqueue_count()`, `waitforsent()` and
  `waitforrecv()`, which nobody calls, and the order of the bytes beyond what `FrameSync` and
  `Response` assume of a stream.
* FD_SET() of descriptor -1, which `waitfordata()` makes on a closed port before it tests
  `isOpened()` (`linux_serial.cpp`, 277), and what lies behind a buffer, the ring or a
  `LIDAR_DEV_INFO_T` that is written beyond its end.
* Pieces of a response that are longer than `RoomAssumption` allows, and packets without points.
* Of threads and locks: priorities, `terminate()`, try-lock and timed lock, which nobody calls, and
  a `pthread_create()` that fails.
* Of the node: the ranges, angles and times of the message, which are arithmetic on floats
  without state, and ROS itself.
* `RunningStates` (written and never read), and two threads that both start and stop one driver,
  against which the class has no protection.

## 7. Plan

Done, in the order of importance: `TTlidarDriver`, `ScanMailbox` and `DriverMailbox`, `Event` and
`AutoResetEvent`, `ScanAssembly`, `SerialPort`, `FrameSync`, `Response`, `Node`, each with its
theorems.  What would come next:

1. the scan thread composed with framing and assembly, as one refinement of `TTlidarDriver`'s
   receiving actions, which take their results as inputs now;
2. setMotorRpm() during a scan: `SerialPort` has two readers and counts their bytes; `FrameSync`
   and `Response` sharing one stream would say which bytes;
3. a `pthread_create()` that fails, as a constant of `TTlidarDriver`.
