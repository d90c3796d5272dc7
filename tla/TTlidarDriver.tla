---------------------------- MODULE TTlidarDriver ----------------------------
(***************************************************************************)
(* The concurrent core of class TTlidarDriver: the API calls of the        *)
(* application's threads, the scan thread that startScan() creates, and    *)
(* what they share: _lock, _event, the two scan buffers with the flag that *)
(* says which of them is published, _scan_buff_count, _is_scanning,        *)
(* _is_connected and the serial port.                                      *)
(*                                                                         *)
(* Every application thread may call grabScanData().  One of them, the     *)
(* Controller, also makes the other calls (connect, startScan, stopScan,   *)
(* resetlidar, getDeviceInfo, setMotorRpm, disconnect, delete), as main()  *)
(* of ttlidar_node does.  What a packet holds is left out: a packet that   *)
(* _parsePacket() stores makes the contents of the buffer a new version.   *)
(***************************************************************************)
EXTENDS Integers

CONSTANTS
  Clients,      (* The application threads that use the driver.            *)
  Controller,   (* The one that opens, starts, stops and closes it.        *)
  Free,         (* The owner of _lock when no thread holds it.             *)
  MaxThreads,   (* Bound: scan threads ever created by startScan().        *)
  MaxPackets,   (* Bound: packets ever stored into the scan buffers.       *)
  MaxPoints,    (* Bound: points of a turn; a scan buffer holds them all.   *)
  Room          (* Length of the array a caller passes to grabScanData().  *)

(* The scan threads, numbered in the order of their creation. *)
Threads == 1 .. MaxThreads

Buffers == {"left", "right"}

ASSUME ConstantsAssumption ==
  /\ Controller \in Clients
  /\ MaxThreads \in Nat
  /\ MaxPackets \in Nat
  /\ MaxPoints \in Nat \ {0}
  /\ Room \in Nat \ {0}

ASSUME OwnersAssumption ==
  /\ Clients \cap Threads = {}
  /\ Free \notin Clients \cup Threads

VARIABLES
  is_connected,  (* _is_connected                                          *)
  is_scanning,   (* _is_scanning                                           *)
  serial_open,   (* _is_serial_opened of the Serial object                 *)
  lock,          (* the owner of _lock                                     *)
  signalled,     (* _is_signalled of _event                                *)
  flag,          (* _flag_scan_buffer: the published buffer                *)
  buffers,       (* the version of the contents of each scan buffer        *)
  buff_count,    (* _scan_buff_count                                       *)
  scanthread,    (* the handle in _scanthread, 0 when there is none        *)
  joined,        (* history: the handles that were passed to pthread_join  *)
  tpc,           (* where each scan thread is                              *)
  scanBuff,      (* scanBuff of _recvScanDataThreadCallback()              *)
  count,         (* count of _recvScanDataThreadCallback()                 *)
  result,        (* result of _recvScanDataThreadCallback()                *)
  pc,            (* where each client is                                   *)
  call,          (* the call the Controller is in (or "connect", its last) *)
  copy,          (* what each client's grabScanData() copies               *)
  packets,       (* history: the number of packets stored so far           *)
  published      (* history: the latest hand-over by a scan thread         *)

session == <<is_connected, is_scanning, serial_open, scanthread, joined>>
handover == <<flag, buffers, buff_count, packets, published>>
threads == <<tpc, scanBuff, count, result>>
clients == <<pc, call, copy>>
vars == <<session, lock, signalled, handover, threads, clients>>

Other(b) == IF b = "left" THEN "right" ELSE "left"

Min2(a, b) == IF a < b THEN a ELSE b

(* Thread t moves to another location. *)
TGoto(t, from, to) == tpc[t] = from /\ tpc' = [tpc EXCEPT ![t] = to]

(* Client c moves to another location. *)
Goto(c, from, to) == pc[c] = from /\ pc' = [pc EXCEPT ![c] = to]

(* The thread runs: it was created and has not returned. *)
Live(t) == tpc[t] \notin {"none", "exited"}

(* The object is being deleted, or has been: no new call may be made. *)
Deleting == call = "delete"

(* A scan thread's locals before it starts and after it has returned. *)
NoLocals(t) ==
  /\ scanBuff' = [scanBuff EXCEPT ![t] = "right"]
  /\ count' = [count EXCEPT ![t] = 0]
  /\ result' = [result EXCEPT ![t] = "OK"]

NoCopy == [from |-> "left", seen |-> 0, n |-> 0]

Init ==
  /\ is_connected = FALSE /\ is_scanning = FALSE /\ serial_open = FALSE
  /\ lock = Free /\ signalled = FALSE
  /\ flag = "left" /\ buffers = [b \in Buffers |-> 0] /\ buff_count = 0
  /\ scanthread = 0 /\ joined = {}
  /\ tpc = [t \in Threads |-> "none"]
  /\ scanBuff = [t \in Threads |-> "right"]
  /\ count = [t \in Threads |-> 0]
  /\ result = [t \in Threads |-> "OK"]
  /\ pc = [c \in Clients |-> "idle"]
  /\ call = "none"
  /\ copy = [c \in Clients |-> NoCopy]
  /\ packets = 0
  /\ published = [by |-> 0, version |-> 0, ok |-> TRUE]

-----------------------------------------------------------------------------
(* The Controller's calls.                                                 *)

(* connect(): under _lock. A driver that is connected already answers      *)
(* RESULT_ALREADY_DONE; otherwise the port opens or the call fails.        *)
Connect ==
  /\ pc[Controller] = "idle" /\ ~Deleting
  /\ lock = Free
  /\ call' = "connect"
  /\ \/ is_connected /\ UNCHANGED <<is_connected, serial_open>>
     \/ ~is_connected /\ is_connected' = TRUE /\ serial_open' = TRUE
     \/ ~is_connected /\ UNCHANGED <<is_connected, serial_open>>
  /\ UNCHANGED <<is_scanning, scanthread, joined, lock, signalled, handover, threads, pc, copy>>

(* Fault: startScan() does not ask whether the driver scans already. *)
StartCheckAlways ==
  /\ ~Deleting
  /\ is_connected
  /\ scanthread < MaxThreads
  /\ Goto(Controller, "idle", "start")
  /\ call' = "start"
  /\ UNCHANGED <<session, lock, signalled, handover, threads, copy>>

(* startScan() up to the lock: both checks are made without it. *)
StartCheck ==
  /\ ~Deleting
  /\ is_connected /\ ~is_scanning
  /\ scanthread < MaxThreads
  /\ Goto(Controller, "idle", "start")
  /\ call' = "start"
  /\ UNCHANGED <<session, lock, signalled, handover, threads, copy>>

(* startScan() under _lock: flush, send the command (its answer is not     *)
(* awaited), set _is_scanning and create the thread.                       *)
StartScan ==
  /\ Goto(Controller, "start", "idle")
  /\ lock = Free
  /\ is_scanning' = TRUE
  /\ scanthread' = scanthread + 1
  /\ tpc' = [tpc EXCEPT ![scanthread + 1] = "start"]
  /\ call' = "none"
  /\ UNCHANGED <<is_connected, serial_open, joined, lock, signalled, handover,
                 scanBuff, count, result, copy>>

(* Fault: the scan thread is not told to stop. *)
StopGrabbingSilently(name) ==
  /\ ~Deleting
  /\ is_connected
  /\ Goto(Controller, "idle", "join")
  /\ call' = name
  /\ UNCHANGED <<session, lock, signalled, handover, threads, copy>>

(* The common beginning of the calls that stop the scan thread: after the  *)
(* check of _is_connected, stopGrabingScanData() clears _is_scanning.      *)
StopGrabbing(name) ==
  /\ ~Deleting
  /\ is_connected
  /\ Goto(Controller, "idle", "join")
  /\ call' = name
  /\ is_scanning' = FALSE
  /\ UNCHANGED <<is_connected, serial_open, scanthread, joined, lock, signalled, handover,
                 threads, copy>>

StopScan == StopGrabbing("command")
ResetLidar == StopGrabbing("command")
GetDeviceInfo == StopGrabbing("command")
Disconnect == StopGrabbing("disconnect")

(* ~TTlidarDriver(): disconnect(), then the port is released. No other     *)
(* thread is inside the object.                                            *)
Delete ==
  /\ \A c \in Clients \ {Controller} : pc[c] = "idle"
  /\ \/ StopGrabbing("delete")
     \/ /\ ~Deleting
        /\ ~is_connected
        /\ Goto(Controller, "idle", "deleted")
        /\ call' = "delete"
        /\ UNCHANGED <<session, lock, signalled, handover, threads, copy>>

(* Fault: the scan thread is told to stop and not waited for. *)
JoinScanThreadEarly ==
  /\ Goto(Controller, "join", "command")
  /\ UNCHANGED <<session, lock, signalled, handover, threads, call, copy>>

(* stopGrabingScanData(): Thread::join() returns at once without a handle, *)
(* and otherwise when the thread has returned; the handle stays, so a      *)
(* later call passes it to pthread_join() again.                           *)
JoinScanThread ==
  /\ Goto(Controller, "join", "command")
  /\ \/ scanthread = 0 /\ UNCHANGED joined
     \/ /\ scanthread # 0
        /\ tpc[scanthread] = "exited"
        /\ joined' = joined \cup {scanthread}
  /\ UNCHANGED <<is_connected, is_scanning, serial_open, scanthread, lock, signalled, handover,
                 threads, call, copy>>

(* The command is sent and its response awaited under _lock. *)
CommandLock ==
  /\ Goto(Controller, "command", "response")
  /\ lock = Free
  /\ lock' = Controller
  /\ UNCHANGED <<session, signalled, handover, threads, call, copy>>

(* waitfordata() has some of the bytes it wants and not all: it goes round *)
(* in its loop and no time limit counts any more.                          *)
ResponsePart ==
  /\ serial_open
  /\ Goto(Controller, "response", "partial") \/ Goto(Controller, "motor", "motor_partial")
  /\ UNCHANGED <<session, lock, signalled, handover, threads, call, copy>>

(* The rest has come, another reader took what there was, or the port has  *)
(* failed: the call looks at its time again.                               *)
ResponseRest ==
  /\ Goto(Controller, "partial", "response") \/ Goto(Controller, "motor_partial", "motor")
  /\ UNCHANGED <<session, lock, signalled, handover, threads, call, copy>>

(* The response arrived, was wrong, or did not arrive in time: the call    *)
(* returns.                                                                *)
CommandReturn ==
  /\ call = "command"
  /\ Goto(Controller, "response", "idle")
  /\ call' = "none"
  /\ lock' = Free
  /\ UNCHANGED <<session, signalled, handover, threads, copy>>

(* disconnect() ignores what stopScan() answered. *)
CommandIgnored ==
  /\ call \in {"disconnect", "delete"}
  /\ Goto(Controller, "response", "close")
  /\ lock' = Free
  /\ UNCHANGED <<session, signalled, handover, threads, call, copy>>

(* disconnect() closes the port and leaves _is_connected as it is. *)
CloseSerial ==
  /\ serial_open' = FALSE
  /\ \/ call = "disconnect" /\ Goto(Controller, "close", "idle") /\ call' = "none"
     \/ Deleting /\ Goto(Controller, "close", "deleted") /\ UNCHANGED call
  /\ UNCHANGED <<is_connected, is_scanning, scanthread, joined, lock, signalled, handover,
                 threads, copy>>

(* setMotorRpm() neither stops the scan thread nor takes _lock. *)
SetMotorRpm ==
  /\ ~Deleting
  /\ is_connected
  /\ Goto(Controller, "idle", "motor")
  /\ call' = "motor"
  /\ UNCHANGED <<session, lock, signalled, handover, threads, copy>>

SetMotorRpmReturn ==
  /\ Goto(Controller, "motor", "idle")
  /\ call' = "none"
  /\ UNCHANGED <<session, lock, signalled, handover, threads, copy>>

-----------------------------------------------------------------------------
(* grabScanData(), which every client may call.                            *)

GrabScanData(c) ==
  /\ ~Deleting
  /\ Goto(c, "idle", "wait")
  /\ UNCHANGED <<session, lock, signalled, handover, threads, call, copy>>

(* Event::wait() finds no signal and blocks. *)
EventBlock(c) ==
  /\ ~signalled
  /\ Goto(c, "wait", "blocked")
  /\ UNCHANGED <<session, lock, signalled, handover, threads, call, copy>>

(* Event::wait() takes the signal, at once or after blocking. *)
EventTake(c) ==
  /\ signalled
  /\ Goto(c, "wait", "woken") \/ Goto(c, "blocked", "woken")
  /\ signalled' = FALSE
  /\ UNCHANGED <<session, lock, handover, threads, call, copy>>

(* Fault: a wait that times out resets the event. *)
EventTimeoutReset(c) ==
  /\ Goto(c, "blocked", "idle")
  /\ signalled' = FALSE
  /\ UNCHANGED <<session, lock, handover, threads, call, copy>>

(* The time is up, whether or not a signal has come in the meantime. *)
EventTimeout(c) ==
  /\ Goto(c, "blocked", "idle")
  /\ UNCHANGED <<session, lock, signalled, handover, threads, call, copy>>

(* Fault: grabScanData() copies without waiting for the lock. *)
GrabUnlocked(c) ==
  /\ Goto(c, "woken", "copy")
  /\ lock' = c
  /\ UNCHANGED <<session, signalled, handover, threads, call, copy>>

GrabLock(c) ==
  /\ lock = Free
  /\ Goto(c, "woken", "copy")
  /\ lock' = c
  /\ UNCHANGED <<session, signalled, handover, threads, call, copy>>

(* The flag is asked for one buffer: memcpy() begins, or the flag is asked *)
(* once more, for the other.                                               *)
CopyBegin(c) ==
  /\ LET n == Min2(Room, buff_count) IN
       \/ /\ flag = "left"
          /\ Goto(c, "copy", "copying")
          /\ copy' = [copy EXCEPT ![c] = [from |-> "left", seen |-> buffers["left"], n |-> n]]
       \/ /\ flag = "right"
          /\ Goto(c, "copy", "retest")
          /\ copy' = [copy EXCEPT ![c] = [from |-> "none", seen |-> 0, n |-> n]]
  /\ UNCHANGED <<session, lock, signalled, handover, threads, call>>

(* A thread that starts has reset the flag in the meantime, and nothing is *)
(* copied, or memcpy() begins.                                             *)
CopyRetest(c) ==
  /\ Goto(c, "retest", "copying")
  /\ \/ flag = "left" /\ UNCHANGED copy
     \/ /\ flag = "right"
        /\ copy' = [copy EXCEPT ![c].from = "right", ![c].seen = buffers["right"]]
  /\ UNCHANGED <<session, lock, signalled, handover, threads, call>>

(* Fault: the count outlives the fetch. *)
CopyEndKeepCount(c) ==
  /\ Goto(c, "copying", "idle")
  /\ lock' = Free
  /\ copy' = [copy EXCEPT ![c] = NoCopy]
  /\ UNCHANGED <<session, signalled, handover, threads, call>>

(* memcpy() is done, the count is cleared and the lock released. *)
CopyEnd(c) ==
  /\ Goto(c, "copying", "idle")
  /\ buff_count' = 0
  /\ lock' = Free
  /\ copy' = [copy EXCEPT ![c] = NoCopy]
  /\ UNCHANGED <<session, signalled, flag, buffers, packets, published, threads, call>>

-----------------------------------------------------------------------------
(* _recvScanDataThreadCallback(), run by scan thread t.                    *)

(* The flag is reset without _lock. *)
ThreadStart(t) ==
  /\ TGoto(t, "start", "loop")
  /\ flag' = "left"
  /\ scanBuff' = [scanBuff EXCEPT ![t] = "right"]
  /\ count' = [count EXCEPT ![t] = 0]
  /\ UNCHANGED <<session, lock, signalled, buffers, buff_count, packets, published, result,
                 clients>>

LoopAgain(t) ==
  /\ is_scanning
  /\ TGoto(t, "loop", "receive")
  /\ UNCHANGED <<session, lock, signalled, handover, scanBuff, count, result, clients>>

LoopExit(t) ==
  /\ ~is_scanning
  /\ TGoto(t, "loop", "leaving")
  /\ UNCHANGED <<session, lock, signalled, handover, scanBuff, count, result, clients>>

(* After the loop _is_scanning is cleared once more. *)
ThreadReturn(t) ==
  /\ TGoto(t, "leaving", "exited")
  /\ is_scanning' = FALSE
  /\ NoLocals(t)
  /\ UNCHANGED <<is_connected, serial_open, scanthread, joined, lock, signalled, handover,
                 clients>>

(* The contents of the buffer that thread t fills change. *)
StorePacket(t) ==
  /\ packets < MaxPackets
  /\ packets' = packets + 1
  /\ buffers' = [buffers EXCEPT ![scanBuff[t]] = packets + 1]

(* _recvScanData() stores a packet and waits for the next. *)
ReceivePacket(t) ==
  /\ serial_open
  /\ tpc[t] = "receive"
  /\ StorePacket(t)
  /\ UNCHANGED <<session, lock, signalled, flag, buff_count, published, threads, clients>>

(* As in ResponsePart and ResponseRest: the device stops in the middle of  *)
(* a frame, and goes on, or setMotorRpm() takes what there was.            *)
ReceivePart(t) ==
  /\ serial_open
  /\ TGoto(t, "receive", "partial")
  /\ UNCHANGED <<session, lock, signalled, handover, scanBuff, count, result, clients>>

ReceiveRest(t) ==
  /\ TGoto(t, "partial", "receive")
  /\ UNCHANGED <<session, lock, signalled, handover, scanBuff, count, result, clients>>

(* Fault: a turn may have one point more than the buffer. *)
ReceiveTurnOverrun(t) ==
  /\ serial_open
  /\ TGoto(t, "receive", "lock")
  /\ StorePacket(t)
  /\ \E n \in 1 .. MaxPoints + 1 : count' = [count EXCEPT ![t] = n]
  /\ result' = [result EXCEPT ![t] = "OK"]
  /\ UNCHANGED <<session, lock, signalled, flag, buff_count, published, scanBuff, clients>>

(* _recvScanData() stores the last packet of a turn: count says how many   *)
(* points the turn has.                                                    *)
ReceiveTurn(t) ==
  /\ serial_open
  /\ TGoto(t, "receive", "lock")
  /\ StorePacket(t)
  /\ \E n \in 1 .. MaxPoints : count' = [count EXCEPT ![t] = n]
  /\ result' = [result EXCEPT ![t] = "OK"]
  /\ UNCHANGED <<session, lock, signalled, flag, buff_count, published, scanBuff, clients>>

(* The packet completes no turn and _parsePacket() ends without a return   *)
(* statement: what _recvScanData() reads can be RESULT_OK, with the count  *)
(* as it was, or as if the turn were complete. A packet out of order is    *)
(* not stored.                                                             *)
ReceiveUndefined(t) ==
  /\ serial_open
  /\ TGoto(t, "receive", "lock")
  /\ StorePacket(t) \/ UNCHANGED <<buffers, packets>>
  /\ \E n \in {count[t]} \cup 0 .. MaxPoints : count' = [count EXCEPT ![t] = n]
  /\ result' = [result EXCEPT ![t] = "OK"]
  /\ UNCHANGED <<session, lock, signalled, flag, buff_count, published, scanBuff, clients>>

(* No turn within the timeout. _recvScanData() clears count when its own   *)
(* loop ends; it leaves count alone when _recvPacket() times out. The loop *)
(* goes on to publish in both cases.                                       *)
ReceiveTimeout(t) ==
  /\ serial_open
  /\ TGoto(t, "receive", "lock")
  /\ result' = [result EXCEPT ![t] = "TIMEOUT"]
  /\ count' = [count EXCEPT ![t] = 0] \/ UNCHANGED count
  /\ UNCHANGED <<session, lock, signalled, handover, scanBuff, clients>>

(* Fault: a thread that gives up leaves _is_scanning set. *)
ReceiveFailQuietly(t) ==
  /\ TGoto(t, "receive", "exited")
  /\ NoLocals(t)
  /\ UNCHANGED <<session, lock, signalled, handover, clients>>

(* The device failed or the port is closed: the thread gives up. *)
ReceiveFail(t) ==
  /\ TGoto(t, "receive", "exited")
  /\ is_scanning' = FALSE
  /\ NoLocals(t)
  /\ UNCHANGED <<is_connected, serial_open, scanthread, joined, lock, signalled, handover,
                 clients>>

PublishLock(t) ==
  /\ lock = Free
  /\ TGoto(t, "lock", "publish")
  /\ lock' = t
  /\ UNCHANGED <<session, signalled, handover, scanBuff, count, result, clients>>

(* Fault: the thread goes on filling the buffer it has published. *)
PublishKeepBuffer(t) ==
  /\ TGoto(t, "publish", "signal")
  /\ flag' = Other(flag)
  /\ buff_count' = count[t]
  /\ published' = [by |-> t, version |-> buffers[Other(flag)], ok |-> result[t] = "OK"]
  /\ UNCHANGED <<session, lock, signalled, buffers, packets, scanBuff, count, result, clients>>

(* The flag and the thread's buffer change places, and the count is set. *)
PublishSwap(t) ==
  /\ TGoto(t, "publish", "signal")
  /\ flag' = Other(flag)
  /\ scanBuff' = [scanBuff EXCEPT ![t] = flag]
  /\ buff_count' = count[t]
  /\ published' = [by |-> t, version |-> buffers[Other(flag)], ok |-> result[t] = "OK"]
  /\ UNCHANGED <<session, lock, signalled, buffers, packets, count, result, clients>>

(* Event::set(), still under _lock. *)
PublishSignal(t) ==
  /\ TGoto(t, "signal", "unlock")
  /\ signalled' = TRUE
  /\ UNCHANGED <<session, lock, handover, scanBuff, count, result, clients>>

PublishUnlock(t) ==
  /\ TGoto(t, "unlock", "loop")
  /\ lock' = Free
  /\ UNCHANGED <<session, signalled, handover, scanBuff, count, result, clients>>

-----------------------------------------------------------------------------

ControllerCall ==
  \/ Connect \/ StartCheck
  \/ StopScan \/ ResetLidar \/ GetDeviceInfo \/ Disconnect \/ Delete
  \/ SetMotorRpm

(* The response wait ends. *)
ResponseEnd == CommandReturn \/ CommandIgnored \/ SetMotorRpmReturn

ControllerStep ==
  \/ StartScan \/ JoinScanThread \/ CommandLock \/ CloseSerial
  \/ ResponseEnd

GrabStep(c) ==
  \/ EventBlock(c) \/ EventTake(c) \/ EventTimeout(c)
  \/ GrabLock(c) \/ CopyBegin(c) \/ CopyRetest(c) \/ CopyEnd(c)

(* The ends of a reception. *)
ReceiveEnd(t) ==
  ReceiveTurn(t) \/ ReceiveUndefined(t) \/ ReceiveTimeout(t) \/ ReceiveFail(t)

ThreadStep(t) ==
  \/ ThreadStart(t) \/ LoopAgain(t) \/ LoopExit(t) \/ ThreadReturn(t)
  \/ ReceiveEnd(t)
  \/ PublishLock(t) \/ PublishSwap(t) \/ PublishSignal(t) \/ PublishUnlock(t)

(* What the device decides: a packet, a part of one, the rest. *)
ReceiveSome(t) == ReceivePacket(t) \/ ReceivePart(t) \/ ReceiveRest(t)

ResponseSome == ResponsePart \/ ResponseRest

(* The object is gone: nothing happens any more. *)
Deleted == pc[Controller] = "deleted" /\ UNCHANGED vars

Next ==
  \/ ControllerCall
  \/ ControllerStep
  \/ ResponseSome
  \/ \E c \in Clients : GrabScanData(c) \/ GrabStep(c)
  \/ \E t \in Threads : ThreadStep(t) \/ ReceiveSome(t)
  \/ Deleted

Spec == Init /\ [][Next]_vars

(* The scheduler runs every thread that can move, and a call once made is  *)
(* carried on; nobody is obliged to make a call, nor the device to send.   *)
(* Between two waits the clock is looked at, so that a reception or a      *)
(* response whose waits come to an end again and again ends too; but no    *)
(* wait that has a part of its bytes has to come to an end.                *)
Fairness ==
  /\ WF_vars(ControllerStep)
  /\ SF_vars(ResponseEnd)
  /\ \A c \in Clients : WF_vars(GrabStep(c))
  /\ \A t \in Threads : WF_vars(ThreadStep(t)) /\ SF_vars(ReceiveEnd(t))

FairSpec == Spec /\ Fairness

-----------------------------------------------------------------------------
(* Properties.                                                             *)

ClientPCs ==
  {"idle", "start", "join", "command", "response", "partial", "close", "motor",
   "motor_partial", "deleted", "wait", "blocked", "woken", "copy", "retest", "copying"}

ThreadPCs ==
  {"none", "start", "loop", "receive", "partial", "lock", "publish", "signal", "unlock",
   "leaving", "exited"}

Calls ==
  {"none", "connect", "start", "command", "motor", "disconnect", "delete"}

TypeOK ==
  /\ is_connected \in BOOLEAN /\ is_scanning \in BOOLEAN /\ serial_open \in BOOLEAN
  /\ lock \in Clients \cup Threads \cup {Free}
  /\ signalled \in BOOLEAN
  /\ flag \in Buffers
  /\ buffers \in [Buffers -> 0 .. MaxPackets]
  /\ buff_count \in 0 .. MaxPoints
  /\ scanthread \in 0 .. MaxThreads
  /\ joined \subseteq Threads
  /\ tpc \in [Threads -> ThreadPCs]
  /\ scanBuff \in [Threads -> Buffers]
  /\ count \in [Threads -> 0 .. MaxPoints]
  /\ result \in [Threads -> {"OK", "TIMEOUT"}]
  /\ pc \in [Clients -> ClientPCs]
  /\ call \in Calls
  /\ copy \in [Clients -> [from : Buffers \cup {"none"}, seen : 0 .. MaxPackets,
                           n : 0 .. MaxPoints]]
  /\ packets \in 0 .. MaxPackets
  /\ published \in [by : 0 .. MaxThreads, version : 0 .. MaxPackets, ok : BOOLEAN]

(* At most one scan thread runs, and it is the one whose handle            *)
(* _scanthread holds, so the next join waits for it: startScan() tests     *)
(* _is_scanning outside the lock, and a thread that gave up is replaced    *)
(* without being joined.                                                   *)
OneScanThread == \A t \in Threads : Live(t) => t = scanthread

(* _is_scanning is only ever TRUE while a scan thread runs its loop, also  *)
(* when the thread gave up by itself: a startScan() that answers           *)
(* RESULT_ALREADY_DONE does not lie.                                       *)
ScanningHasThread ==
  is_scanning => \E t \in Threads : Live(t) /\ tpc[t] # "leaving"

(* From the flush in stopGrabingScanData() to the end of the call no scan  *)
(* thread runs: the response a command waits for is read by nobody else,   *)
(* and no thread uses the port while disconnect() closes it.               *)
CommandAlone ==
  pc[Controller] \in {"command", "response", "partial", "close", "deleted"}
    => \A t \in Threads : ~Live(t)

(* A scan that was handed over and not yet fetched is announced: the event *)
(* is signalled, or is about to be, or a client holds the signal and has   *)
(* not cleared the count yet. No fetch is left waiting beside a full slot. *)
NoLostScan ==
  buff_count # 0 =>
    \/ signalled
    \/ \E t \in Threads : tpc[t] = "signal"
    \/ \E c \in Clients : pc[c] \in {"woken", "copy", "retest", "copying"}

(* No thread started after the one that made the latest hand-over. *)
SameSession ==
  \A t \in Threads : t > published.by => tpc[t] \in {"none", "start"}

(* Until a later scan thread starts, the published buffer keeps the very   *)
(* contents that were handed over: the scan thread fills the other one.    *)
PublishedIntact ==
  buff_count # 0 /\ SameSession => buffers[flag] = published.version

(* Until a later scan thread starts, grabScanData() finds a buffer to copy *)
(* when it asks for the flag twice, and nobody writes what its memcpy()    *)
(* reads, although the scan thread stores packets without holding _lock.   *)
CopyUntorn ==
  \A c \in Clients :
    pc[c] = "copying" /\ copy[c].n # 0 /\ SameSession =>
      copy[c].from \in Buffers /\ buffers[copy[c].from] = copy[c].seen

(* A wait for bytes has a part of them and no end: the device is silent in *)
(* the middle of a frame or of a response.                                 *)
Stalled == pc[Controller] = "partial" \/ \E t \in Threads : tpc[t] = "partial"

(* Stopping returns: once stopScan(), resetlidar(), getDeviceInfo(),       *)
(* disconnect() or the destructor waits for the scan thread, the thread    *)
(* leaves and the call comes to its end, whatever the clients do; unless   *)
(* the device falls silent for good with a part sent, which leaves the     *)
(* scan thread, or the call itself, in waitfordata().                      *)
StopReturns ==
  pc[Controller] = "join" ~> (pc[Controller] \in {"idle", "deleted"} \/ []Stalled)

(* A fetch that returns points returns a scan that was received: the node  *)
(* publishes whatever grabScanData() answers RESULT_OK for. The code does  *)
(* not keep this: after a timeout the thread hands over the buffer of the  *)
(* turn before the last with the count of the last.                        *)
GrabbedScanWasReceived ==
  \A c \in Clients : pc[c] = "copying" /\ copy[c].n # 0 => published.ok

(* A connect() that answers for a connected driver leaves an open port.    *)
(* The code does not keep this: disconnect() closes the port and leaves    *)
(* _is_connected set, so the next connect() opens nothing.                 *)
ConnectEstablishes == call = "connect" /\ is_connected => serial_open

=============================================================================
