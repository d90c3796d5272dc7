------------------------ MODULE TTlidarDriver_proof -------------------------
(***************************************************************************)
(* The safety properties of TTlidarDriver, proved for any number of        *)
(* clients and scan threads, any buffer and any number of packets.         *)
(***************************************************************************)
EXTENDS TTlidarDriver, TLAPS

(* _lock is held by exactly the thread that is between lock and unlock. *)
LockHeld ==
  /\ \A t \in Threads : lock = t <=> tpc[t] \in {"publish", "signal", "unlock"}
  /\ \A c \in Clients : lock = c <=> pc[c] \in {"copy", "retest", "copying", "response", "partial"}

(* Only the Controller is ever outside grabScanData(). *)
OthersGrab ==
  \A c \in Clients \ {Controller} :
    pc[c] \in {"idle", "wait", "blocked", "woken", "copy", "retest", "copying"}

(* The handle names the youngest thread, the only one that can be running; *)
(* a thread runs on without _is_scanning only while the Controller waits   *)
(* for it, and none was ever created without a connection.                 *)
ThreadsInOrder ==
  /\ OneScanThread
  /\ pc[Controller] = "start" \/ scanthread # 0 => is_connected
  /\ \A t \in Threads : t > scanthread => tpc[t] = "none"
  /\ \A t \in Threads : Live(t) /\ ~is_scanning => pc[Controller] = "join"
  /\ pc[Controller] \in {"start", "join", "command", "response", "partial", "close", "deleted"}
       => ~is_scanning
  /\ ScanningHasThread

(* A running thread fills the buffer that is not published, and no thread  *)
(* handed anything over before it started.                                 *)
BuffersApart ==
  /\ published.by <= scanthread
  /\ \A t \in Threads : t = published.by => tpc[t] \notin {"none", "start"}
  /\ \A t \in Threads : Live(t) /\ tpc[t] \notin {"start", "leaving"}
                          => scanBuff[t] = Other(flag)

(* memcpy() reads the published buffer, which nobody writes; the flag that *)
(* was not left when it was asked first is right when it is asked again.   *)
CopyFromPublished ==
  \A c \in Clients :
    SameSession =>
      /\ pc[c] = "copying" => copy[c].from = flag /\ copy[c].seen = buffers[flag]
      /\ pc[c] = "retest" => flag = "right"

(* The count that was read is the count that will be cleared. *)
CopyCounts ==
  \A c \in Clients : pc[c] \in {"retest", "copying"} => copy[c].n = Min2(Room, buff_count)

(* startScan() passed its checks within the bound on scan threads. *)
StartBound == pc[Controller] = "start" => scanthread < MaxThreads
(* The inductive invariant.                                                *)

IInv ==
  /\ TypeOK
  /\ StartBound
  /\ LockHeld
  /\ OthersGrab
  /\ ThreadsInOrder
  /\ NoLostScan
  /\ BuffersApart
  /\ PublishedIntact
  /\ CopyFromPublished
  /\ CopyCounts

USE ConstantsAssumption, OwnersAssumption

(* Every step is a step of one of the driver's calls or of one scan thread. *)
LEMMA Steps ==
  ASSUME [Next]_vars
  PROVE  \/ Connect
         \/ StartCheck
         \/ StartScan
         \/ \E name \in Calls : StopGrabbing(name)
         \/ Delete
         \/ JoinScanThread
         \/ CommandLock
         \/ CommandReturn
         \/ CommandIgnored
         \/ CloseSerial
         \/ SetMotorRpm
         \/ SetMotorRpmReturn
         \/ ResponsePart
         \/ ResponseRest
         \/ \E c \in Clients : GrabScanData(c) \/ EventBlock(c) \/ EventTake(c) \/ EventTimeout(c)
                               \/ GrabLock(c) \/ CopyBegin(c) \/ CopyRetest(c) \/ CopyEnd(c)
         \/ \E t \in Threads : ThreadStart(t) \/ LoopAgain(t) \/ LoopExit(t) \/ ThreadReturn(t)
                               \/ ReceivePacket(t) \/ ReceivePart(t) \/ ReceiveRest(t)
                               \/ ReceiveTurn(t) \/ ReceiveUndefined(t) \/ ReceiveTimeout(t)
                               \/ ReceiveFail(t) \/ PublishLock(t)
                               \/ PublishSwap(t) \/ PublishSignal(t) \/ PublishUnlock(t)
         \/ UNCHANGED vars
  BY DEF Next, ControllerCall, ControllerStep, ResponseEnd, ResponseSome, GrabStep, ThreadStep,
         ReceiveEnd, ReceiveSome, Deleted, StopScan, ResetLidar, GetDeviceInfo, Disconnect, Calls

(* A step of an API call, other than the creation of a thread. *)
ApiStep ==
  \/ Connect \/ StartCheck \/ (\E name \in Calls : StopGrabbing(name)) \/ Delete
  \/ JoinScanThread \/ CommandLock \/ CommandReturn \/ CommandIgnored \/ CloseSerial
  \/ SetMotorRpm \/ SetMotorRpmReturn \/ ResponsePart \/ ResponseRest
  \/ \E c \in Clients : GrabScanData(c) \/ GrabStep(c)

(* The same steps, by who takes them.                                      *)
LEMMA StepKinds ==
  ASSUME [Next]_vars
  PROVE  \/ ApiStep \/ StartScan \/ UNCHANGED vars
         \/ \E t \in Threads : ThreadStep(t) \/ ReceiveSome(t)
BY Steps DEF ApiStep, GrabStep, ThreadStep, ReceiveEnd, ReceiveSome

(* API calls leave to the scan thread what is the scan thread's, but for   *)
(* the count, which a fetch clears.                                        *)
LEMMA ApiFrame ==
  ASSUME ApiStep
  PROVE  /\ UNCHANGED <<scanthread, flag, buffers, packets, published, threads>>
         /\ buff_count' \in {buff_count, 0}
BY DEF ApiStep, GrabStep, Connect, StartCheck, StopGrabbing, Delete, JoinScanThread, CommandLock,
   ResponsePart, ResponseRest, CommandReturn, CommandIgnored, CloseSerial, SetMotorRpm,
   SetMotorRpmReturn, GrabScanData, EventBlock, EventTake, EventTimeout, GrabLock, CopyBegin,
   CopyRetest, CopyEnd, session, handover, threads

(* The types, by who changes the variables.                                *)
SessionTypes ==
  /\ is_connected \in BOOLEAN /\ is_scanning \in BOOLEAN /\ serial_open \in BOOLEAN
  /\ scanthread \in 0 .. MaxThreads
  /\ joined \subseteq Threads

HandoverTypes ==
  /\ lock \in Clients \cup Threads \cup {Free}
  /\ signalled \in BOOLEAN
  /\ flag \in Buffers
  /\ buffers \in [Buffers -> 0 .. MaxPackets]
  /\ buff_count \in 0 .. MaxPoints
  /\ packets \in 0 .. MaxPackets
  /\ published \in [by : 0 .. MaxThreads, version : 0 .. MaxPackets, ok : BOOLEAN]

ThreadTypes ==
  /\ tpc \in [Threads -> ThreadPCs]
  /\ scanBuff \in [Threads -> Buffers]
  /\ count \in [Threads -> 0 .. MaxPoints]
  /\ result \in [Threads -> {"OK", "TIMEOUT"}]

ClientTypes ==
  /\ pc \in [Clients -> ClientPCs]
  /\ call \in Calls
  /\ copy \in [Clients -> [from : Buffers \cup {"none"}, seen : 0 .. MaxPackets, n : 0 .. MaxPoints]]

LEMMA TypeParts ==
  /\ TypeOK => SessionTypes /\ HandoverTypes /\ ThreadTypes /\ ClientTypes
  /\ SessionTypes' /\ HandoverTypes' /\ ThreadTypes' /\ ClientTypes' => TypeOK'
BY DEF TypeOK, SessionTypes, HandoverTypes, ThreadTypes, ClientTypes

(* The calls and the thread's end change the session; the bound on threads *)
(* is needed where startScan() creates one.                                *)
LEMMA SessionTypesStep ==
  ASSUME SessionTypes, StartBound, [Next]_vars
  PROVE  SessionTypes'
<1> USE DEF SessionTypes
<1>1. CASE UNCHANGED session
  BY <1>1 DEF session
<1>2. CASE Connect
  BY <1>2 DEF Connect
<1>3. CASE StartScan
  BY <1>3 DEF StartScan, StartBound, Goto
<1>4. ASSUME NEW name \in Calls, StopGrabbing(name) PROVE SessionTypes'
  BY <1>4 DEF StopGrabbing
<1>5. CASE JoinScanThread
  <2>1. UNCHANGED <<is_connected, is_scanning, serial_open, scanthread>>
    BY <1>5 DEF JoinScanThread
  <2>2. joined' = joined \/ (scanthread \in Threads /\ joined' = joined \cup {scanthread})
    BY <1>5 DEF JoinScanThread, Threads
  <2> QED
    BY <2>1, <2>2
<1>6. CASE CloseSerial
  BY <1>6 DEF CloseSerial
<1>7. ASSUME NEW t \in Threads, ThreadReturn(t) \/ ReceiveFail(t) PROVE SessionTypes'
  BY <1>7 DEF ThreadReturn, ReceiveFail
<1> HIDE DEF SessionTypes
<1>8. CASE Delete
  BY <1>8, <1>1, <1>4 DEF Delete, Calls
<1>9. ASSUME NEW c \in Clients,
             GrabScanData(c) \/ EventBlock(c) \/ EventTake(c) \/ EventTimeout(c)
             \/ GrabLock(c) \/ CopyBegin(c) \/ CopyRetest(c) \/ CopyEnd(c)
      PROVE  UNCHANGED session
  BY <1>9 DEF GrabScanData, EventBlock, EventTake, EventTimeout, GrabLock, CopyBegin, CopyRetest,
     CopyEnd
<1>10. ASSUME NEW t \in Threads,
              ThreadStart(t) \/ LoopAgain(t) \/ LoopExit(t) \/ ReceivePacket(t) \/ ReceivePart(t)
              \/ ReceiveRest(t) \/ ReceiveTurn(t) \/ ReceiveUndefined(t) \/ ReceiveTimeout(t)
              \/ PublishLock(t) \/ PublishSwap(t) \/ PublishSignal(t) \/ PublishUnlock(t)
       PROVE  UNCHANGED session
  BY <1>10 DEF ThreadStart, LoopAgain, LoopExit, ReceivePacket, ReceivePart, ReceiveRest,
     ReceiveTurn, ReceiveUndefined, ReceiveTimeout, PublishLock, PublishSwap, PublishSignal,
     PublishUnlock
<1>11. StartCheck \/ CommandLock \/ CommandReturn \/ CommandIgnored \/ SetMotorRpm
       \/ SetMotorRpmReturn \/ ResponsePart \/ ResponseRest \/ UNCHANGED vars => UNCHANGED session
  BY DEF StartCheck, CommandLock, CommandReturn, CommandIgnored, SetMotorRpm, SetMotorRpmReturn,
     ResponsePart, ResponseRest, vars
<1> QED
  BY <1>1, <1>2, <1>3, <1>4, <1>5, <1>6, <1>7, <1>8, <1>9, <1>10, <1>11, Steps

(* The scan thread stores, publishes and signals; clients lock, take the   *)
(* signal and clear the count.                                             *)
LEMMA HandoverTypesStep ==
  ASSUME HandoverTypes, ThreadTypes, [Next]_vars
  PROVE  HandoverTypes'
<1> USE DEF HandoverTypes
<1>1. CASE UNCHANGED <<lock, signalled, handover>>
  BY <1>1 DEF handover
<1>2. CASE CommandLock
  BY <1>2 DEF CommandLock, handover
<1>3. CASE CommandReturn \/ CommandIgnored
  BY <1>3 DEF CommandReturn, CommandIgnored, handover
<1>4. ASSUME NEW c \in Clients, EventTake(c) PROVE HandoverTypes'
  BY <1>4 DEF EventTake, handover
<1>5. ASSUME NEW c \in Clients, GrabLock(c) PROVE HandoverTypes'
  BY <1>5 DEF GrabLock, handover
<1>6. ASSUME NEW c \in Clients, CopyEnd(c) PROVE HandoverTypes'
  BY <1>6 DEF CopyEnd
<1>7. ASSUME NEW t \in Threads, ThreadStart(t) PROVE HandoverTypes'
  BY <1>7 DEF ThreadStart, Buffers
<1>8. ASSUME NEW t \in Threads, ReceivePacket(t) \/ ReceiveTurn(t) \/ ReceiveUndefined(t)
      PROVE  HandoverTypes'
  <2>1. packets' \in 0 .. MaxPackets /\ buffers' \in [Buffers -> 0 .. MaxPackets]
    BY <1>8 DEF ReceivePacket, ReceiveTurn, ReceiveUndefined, StorePacket
  <2> QED
    BY <2>1, <1>8 DEF ReceivePacket, ReceiveTurn, ReceiveUndefined
<1>9. ASSUME NEW t \in Threads, PublishLock(t) PROVE HandoverTypes'
  BY <1>9 DEF PublishLock, handover
<1>10. ASSUME NEW t \in Threads, PublishSwap(t) PROVE HandoverTypes'
  <2>1. Other(flag) \in Buffers /\ t \in 0 .. MaxThreads /\ count[t] \in 0 .. MaxPoints
    BY DEF Other, Buffers, Threads, ThreadTypes
  <2> QED
    BY <2>1, <1>10 DEF PublishSwap
<1>11. ASSUME NEW t \in Threads, PublishSignal(t) \/ PublishUnlock(t) PROVE HandoverTypes'
  BY <1>11 DEF PublishSignal, PublishUnlock, handover
<1> HIDE DEF HandoverTypes
<1>12. ASSUME NEW c \in Clients,
              GrabScanData(c) \/ EventBlock(c) \/ EventTimeout(c) \/ CopyBegin(c) \/ CopyRetest(c)
       PROVE  UNCHANGED <<lock, signalled, handover>>
  BY <1>12 DEF GrabScanData, EventBlock, EventTimeout, CopyBegin, CopyRetest
<1>13. ASSUME NEW t \in Threads,
              LoopAgain(t) \/ LoopExit(t) \/ ThreadReturn(t) \/ ReceivePart(t) \/ ReceiveRest(t)
              \/ ReceiveTimeout(t) \/ ReceiveFail(t)
       PROVE  UNCHANGED <<lock, signalled, handover>>
  BY <1>13 DEF LoopAgain, LoopExit, ThreadReturn, ReceivePart, ReceiveRest, ReceiveTimeout,
     ReceiveFail
<1>14. ASSUME Connect \/ StartCheck \/ StartScan \/ (\E name \in Calls : StopGrabbing(name))
              \/ Delete \/ JoinScanThread \/ CloseSerial \/ SetMotorRpm \/ SetMotorRpmReturn
              \/ ResponsePart \/ ResponseRest \/ UNCHANGED vars
       PROVE  UNCHANGED <<lock, signalled, handover>>
  BY <1>14 DEF Connect, StartCheck, StartScan, StopGrabbing, Delete, JoinScanThread, CloseSerial,
     SetMotorRpm, SetMotorRpmReturn, ResponsePart, ResponseRest, vars
<1> QED
  BY <1>1, <1>2, <1>3, <1>4, <1>5, <1>6, <1>7, <1>8, <1>9, <1>10, <1>11, <1>12, <1>13, <1>14, Steps

(* A scan thread changes its own locals; startScan() sets it going.        *)
LEMMA ThreadTypesStep ==
  ASSUME ThreadTypes, HandoverTypes, [Next]_vars
  PROVE  ThreadTypes'
<1> USE DEF ThreadTypes
<1>1. CASE ApiStep \/ UNCHANGED vars
  BY <1>1, ApiFrame DEF vars, threads
<1>2. CASE StartScan
  BY <1>2 DEF StartScan, ThreadPCs
<1>3. ASSUME NEW t \in Threads, ThreadStep(t) \/ ReceiveSome(t) PROVE ThreadTypes'
  <2>1. tpc' \in [Threads -> ThreadPCs]
    BY <1>3 DEF ThreadStep, ReceiveEnd, ThreadStart, LoopAgain, LoopExit, ThreadReturn,
       ReceiveSome, ReceivePacket, ReceivePart, ReceiveRest, ReceiveTurn, ReceiveUndefined,
       ReceiveTimeout, ReceiveFail, PublishLock, PublishSwap, PublishSignal, PublishUnlock, TGoto,
       threads, ThreadPCs
  <2>2. \/ scanBuff' = scanBuff
        \/ \E b \in Buffers : scanBuff' = [scanBuff EXCEPT ![t] = b]
    BY <1>3 DEF ThreadStep, ReceiveEnd, ThreadStart, LoopAgain, LoopExit, ThreadReturn,
       ReceiveSome, ReceivePacket, ReceivePart, ReceiveRest, ReceiveTurn, ReceiveUndefined,
       ReceiveTimeout, ReceiveFail, PublishLock, PublishSwap, PublishSignal, PublishUnlock,
       NoLocals, threads, HandoverTypes, Buffers
  <2>3. \/ count' = count
        \/ \E n \in 0 .. MaxPoints : count' = [count EXCEPT ![t] = n]
    BY <1>3 DEF ThreadStep, ReceiveEnd, ThreadStart, LoopAgain, LoopExit, ThreadReturn,
       ReceiveSome, ReceivePacket, ReceivePart, ReceiveRest, ReceiveTurn, ReceiveUndefined,
       ReceiveTimeout, ReceiveFail, PublishLock, PublishSwap, PublishSignal, PublishUnlock,
       NoLocals, threads
  <2>4. \/ result' = result
        \/ \E r \in {"OK", "TIMEOUT"} : result' = [result EXCEPT ![t] = r]
    BY <1>3 DEF ThreadStep, ReceiveEnd, ThreadStart, LoopAgain, LoopExit, ThreadReturn,
       ReceiveSome, ReceivePacket, ReceivePart, ReceiveRest, ReceiveTurn, ReceiveUndefined,
       ReceiveTimeout, ReceiveFail, PublishLock, PublishSwap, PublishSignal, PublishUnlock,
       NoLocals, threads
  <2> QED
    BY <2>1, <2>2, <2>3, <2>4
<1> QED
  BY <1>1, <1>2, <1>3, StepKinds

(* Where a call may leave its caller.                                      *)
LEMMA ClientTypesStep ==
  ASSUME ClientTypes, HandoverTypes, [Next]_vars
  PROVE  ClientTypes'
<1> USE DEF ClientTypes
<1>1. ASSUME NEW t \in Threads, ThreadStep(t) \/ ReceiveSome(t) PROVE UNCHANGED clients
  BY <1>1 DEF ThreadStep, ReceiveEnd, ThreadStart, LoopAgain, LoopExit, ThreadReturn,
     ReceiveSome, ReceivePacket, ReceivePart, ReceiveRest, ReceiveTurn, ReceiveUndefined,
     ReceiveTimeout, ReceiveFail, PublishLock, PublishSwap, PublishSignal, PublishUnlock
<1>2. CASE UNCHANGED clients
  BY <1>2 DEF clients
<1>3. ASSUME Connect \/ StartCheck \/ StartScan \/ (\E name \in Calls : StopGrabbing(name))
             \/ Delete \/ JoinScanThread \/ CommandLock \/ CommandReturn \/ CommandIgnored
             \/ CloseSerial \/ SetMotorRpm \/ SetMotorRpmReturn \/ ResponsePart \/ ResponseRest
      PROVE  ClientTypes'
  <2>1. pc' = pc \/ \E to \in ClientPCs : pc' = [pc EXCEPT ![Controller] = to]
    BY <1>3 DEF Connect, StartCheck, StartScan, StopGrabbing, Delete, JoinScanThread, CommandLock,
       CommandReturn, CommandIgnored, CloseSerial, SetMotorRpm, SetMotorRpmReturn, ResponsePart,
       ResponseRest, Goto, ClientPCs
  <2>2. call' \in Calls
    BY <1>3 DEF Connect, StartCheck, StartScan, StopGrabbing, Delete, JoinScanThread, CommandLock,
       CommandReturn, CommandIgnored, CloseSerial, SetMotorRpm, SetMotorRpmReturn, ResponsePart,
       ResponseRest, clients, Calls
  <2>3. copy' = copy
    BY <1>3 DEF Connect, StartCheck, StartScan, StopGrabbing, Delete, JoinScanThread, CommandLock,
       CommandReturn, CommandIgnored, CloseSerial, SetMotorRpm, SetMotorRpmReturn, ResponsePart,
       ResponseRest
  <2> QED
    BY <2>1, <2>2, <2>3
<1>4. ASSUME NEW c \in Clients, GrabScanData(c) \/ GrabStep(c) PROVE ClientTypes'
  <2>1. call' = call /\ \E to \in ClientPCs : pc' = [pc EXCEPT ![c] = to]
    BY <1>4 DEF GrabStep, GrabScanData, EventBlock, EventTake, EventTimeout, GrabLock, CopyBegin,
       CopyRetest, CopyEnd, Goto, ClientPCs
  <2> DEFINE Copies == [from : Buffers \cup {"none"}, seen : 0 .. MaxPackets, n : 0 .. MaxPoints]
  <2>2. /\ Min2(Room, buff_count) \in 0 .. MaxPoints
        /\ buffers["left"] \in 0 .. MaxPackets /\ buffers["right"] \in 0 .. MaxPackets
    BY DEF HandoverTypes, Min2, Buffers
  <2>3. ASSUME CopyBegin(c) PROVE \E k \in Copies : copy' = [copy EXCEPT ![c] = k]
    <3>1. /\ [from |-> "left", seen |-> buffers["left"], n |-> Min2(Room, buff_count)] \in Copies
          /\ [from |-> "none", seen |-> 0, n |-> Min2(Room, buff_count)] \in Copies
      BY <2>2 DEF Buffers
    <3> HIDE DEF Copies
    <3> QED
      BY <2>3, <3>1 DEF CopyBegin
  <2>4. ASSUME CopyRetest(c) PROVE copy' \in [Clients -> Copies]
    BY <2>2, <2>4 DEF CopyRetest, Buffers
  <2>5. ASSUME CopyEnd(c) PROVE \E k \in Copies : copy' = [copy EXCEPT ![c] = k]
    <3>1. NoCopy \in Copies
      BY DEF NoCopy, Buffers
    <3> HIDE DEF Copies
    <3> QED
      BY <2>5, <3>1 DEF CopyEnd
  <2>6. copy' = copy \/ CopyBegin(c) \/ CopyRetest(c) \/ CopyEnd(c)
    BY <1>4 DEF GrabStep, GrabScanData, EventBlock, EventTake, EventTimeout, GrabLock
  <2>7. copy' \in [Clients -> Copies]
    <3> HIDE DEF Copies
    <3>1. copy \in [Clients -> Copies]
      BY DEF Copies
    <3> QED
      BY <2>3, <2>4, <2>5, <2>6, <3>1
  <2> QED
    BY <2>1, <2>7
<1> QED
  BY <1>1, <1>2, <1>3, <1>4, StepKinds DEF ApiStep, vars

(* Each step keeps the types.                                              *)
LEMMA TypeStep ==
  ASSUME TypeOK, StartBound, [Next]_vars
  PROVE  TypeOK'
BY TypeParts, SessionTypesStep, HandoverTypesStep, ThreadTypesStep, ClientTypesStep

(* Each step keeps lock and program counters in accord.                    *)
LEMMA LockStep ==
  ASSUME TypeOK, LockHeld, [Next]_vars
  PROVE  LockHeld'
<1> USE DEF TypeOK, LockHeld, Goto, TGoto, NoLocals, StorePacket,
            session, handover, threads, clients, vars, ThreadPCs, ClientPCs, Calls
<1>1. CASE Connect
  BY <1>1 DEF Connect
<1>2. CASE StartCheck
  BY <1>2 DEF StartCheck
<1>3. CASE StartScan
  BY <1>3 DEF StartScan
<1>4. ASSUME NEW name \in Calls, StopGrabbing(name) PROVE LockHeld'
  BY <1>4 DEF StopGrabbing
<1>5. CASE Delete
  BY <1>5 DEF Delete, StopGrabbing
<1>6. CASE JoinScanThread
  BY <1>6 DEF JoinScanThread
<1>7. CASE CommandLock
  BY <1>7 DEF CommandLock
<1>8. CASE CommandReturn
  BY <1>8 DEF CommandReturn
<1>9. CASE CommandIgnored
  BY <1>9 DEF CommandIgnored
<1>10. CASE CloseSerial
  BY <1>10 DEF CloseSerial
<1>11. CASE SetMotorRpm
  BY <1>11 DEF SetMotorRpm
<1>12. CASE SetMotorRpmReturn
  BY <1>12 DEF SetMotorRpmReturn
<1>13. ASSUME NEW c \in Clients, GrabScanData(c) PROVE LockHeld'
  BY <1>13 DEF GrabScanData
<1>14. ASSUME NEW c \in Clients, EventBlock(c) PROVE LockHeld'
  BY <1>14 DEF EventBlock
<1>15. ASSUME NEW c \in Clients, EventTake(c) PROVE LockHeld'
  BY <1>15 DEF EventTake
<1>16. ASSUME NEW c \in Clients, EventTimeout(c) PROVE LockHeld'
  BY <1>16 DEF EventTimeout
<1>17. ASSUME NEW c \in Clients, GrabLock(c) PROVE LockHeld'
  BY <1>17 DEF GrabLock
<1>18. ASSUME NEW c \in Clients, CopyBegin(c) PROVE LockHeld'
  BY <1>18 DEF CopyBegin
<1>19. ASSUME NEW c \in Clients, CopyEnd(c) PROVE LockHeld'
  BY <1>19 DEF CopyEnd
<1>20. ASSUME NEW t \in Threads, ThreadStart(t) PROVE LockHeld'
  BY <1>20 DEF ThreadStart
<1>21. ASSUME NEW t \in Threads, LoopAgain(t) PROVE LockHeld'
  BY <1>21 DEF LoopAgain
<1>22. ASSUME NEW t \in Threads, LoopExit(t) PROVE LockHeld'
  BY <1>22 DEF LoopExit
<1>23. ASSUME NEW t \in Threads, ThreadReturn(t) PROVE LockHeld'
  BY <1>23 DEF ThreadReturn
<1>24. ASSUME NEW t \in Threads, ReceivePacket(t) PROVE LockHeld'
  BY <1>24 DEF ReceivePacket
<1>25. ASSUME NEW t \in Threads, ReceiveTurn(t) \/ ReceiveUndefined(t) PROVE LockHeld'
  BY <1>25 DEF ReceiveTurn, ReceiveUndefined
<1>26. ASSUME NEW t \in Threads, ReceiveTimeout(t) PROVE LockHeld'
  BY <1>26 DEF ReceiveTimeout
<1>27. ASSUME NEW t \in Threads, ReceiveFail(t) PROVE LockHeld'
  BY <1>27 DEF ReceiveFail
<1>28. ASSUME NEW t \in Threads, PublishLock(t) PROVE LockHeld'
  BY <1>28 DEF PublishLock
<1>29. ASSUME NEW t \in Threads, PublishSwap(t) PROVE LockHeld'
  BY <1>29 DEF PublishSwap
<1>30. ASSUME NEW t \in Threads, PublishSignal(t) PROVE LockHeld'
  BY <1>30 DEF PublishSignal
<1>31. ASSUME NEW t \in Threads, PublishUnlock(t) PROVE LockHeld'
  BY <1>31 DEF PublishUnlock
<1>32. CASE ResponsePart \/ ResponseRest
  BY <1>32 DEF ResponsePart, ResponseRest
<1>33. ASSUME NEW c \in Clients, CopyRetest(c) PROVE LockHeld'
  BY <1>33 DEF CopyRetest
<1>34. ASSUME NEW t \in Threads, ReceivePart(t) \/ ReceiveRest(t) PROVE LockHeld'
  BY <1>34 DEF ReceivePart, ReceiveRest
<1>35. CASE UNCHANGED vars
  BY <1>35
<1> QED
  BY <1>1, <1>2, <1>3, <1>4, <1>5, <1>6, <1>7, <1>8, <1>9, <1>10, <1>11, <1>12, <1>13, <1>14,
     <1>15, <1>16, <1>17, <1>18, <1>19, <1>20, <1>21, <1>22, <1>23, <1>24, <1>25, <1>26, <1>27,
     <1>28, <1>29, <1>30, <1>31, <1>32, <1>33, <1>34, <1>35, Steps

(* Only the Controller enters the calls that open, start, stop and close.  *)
LEMMA OthersStep ==
  ASSUME TypeOK, OthersGrab, [Next]_vars
  PROVE  OthersGrab'
<1> USE DEF TypeOK, OthersGrab, Goto, TGoto,
            session, handover, threads, clients, vars
<1>1. CASE Connect
  BY <1>1 DEF Connect
<1>2. CASE StartCheck
  BY <1>2 DEF StartCheck
<1>3. CASE StartScan
  BY <1>3 DEF StartScan
<1>4. ASSUME NEW name \in Calls, StopGrabbing(name) PROVE OthersGrab'
  BY <1>4 DEF StopGrabbing
<1>5. CASE Delete
  BY <1>5 DEF Delete, StopGrabbing
<1>6. CASE JoinScanThread
  BY <1>6 DEF JoinScanThread
<1>7. CASE CommandLock
  BY <1>7 DEF CommandLock
<1>8. CASE CommandReturn
  BY <1>8 DEF CommandReturn
<1>9. CASE CommandIgnored
  BY <1>9 DEF CommandIgnored
<1>10. CASE CloseSerial
  BY <1>10 DEF CloseSerial
<1>11. CASE SetMotorRpm
  BY <1>11 DEF SetMotorRpm
<1>12. CASE SetMotorRpmReturn
  BY <1>12 DEF SetMotorRpmReturn
<1>13. ASSUME NEW c \in Clients, GrabScanData(c) PROVE OthersGrab'
  BY <1>13 DEF GrabScanData
<1>14. ASSUME NEW c \in Clients, EventBlock(c) PROVE OthersGrab'
  BY <1>14 DEF EventBlock
<1>15. ASSUME NEW c \in Clients, EventTake(c) PROVE OthersGrab'
  BY <1>15 DEF EventTake
<1>16. ASSUME NEW c \in Clients, EventTimeout(c) PROVE OthersGrab'
  BY <1>16 DEF EventTimeout
<1>17. ASSUME NEW c \in Clients, GrabLock(c) PROVE OthersGrab'
  BY <1>17 DEF GrabLock
<1>18. ASSUME NEW c \in Clients, CopyBegin(c) PROVE OthersGrab'
  BY <1>18 DEF CopyBegin
<1>19. ASSUME NEW c \in Clients, CopyEnd(c) PROVE OthersGrab'
  BY <1>19 DEF CopyEnd
<1>20. ASSUME NEW t \in Threads, ThreadStart(t) PROVE OthersGrab'
  BY <1>20 DEF ThreadStart
<1>21. ASSUME NEW t \in Threads, LoopAgain(t) PROVE OthersGrab'
  BY <1>21 DEF LoopAgain
<1>22. ASSUME NEW t \in Threads, LoopExit(t) PROVE OthersGrab'
  BY <1>22 DEF LoopExit
<1>23. ASSUME NEW t \in Threads, ThreadReturn(t) PROVE OthersGrab'
  BY <1>23 DEF ThreadReturn
<1>24. ASSUME NEW t \in Threads, ReceivePacket(t) PROVE OthersGrab'
  BY <1>24 DEF ReceivePacket
<1>25. ASSUME NEW t \in Threads, ReceiveTurn(t) \/ ReceiveUndefined(t) PROVE OthersGrab'
  BY <1>25 DEF ReceiveTurn, ReceiveUndefined
<1>26. ASSUME NEW t \in Threads, ReceiveTimeout(t) PROVE OthersGrab'
  BY <1>26 DEF ReceiveTimeout
<1>27. ASSUME NEW t \in Threads, ReceiveFail(t) PROVE OthersGrab'
  BY <1>27 DEF ReceiveFail
<1>28. ASSUME NEW t \in Threads, PublishLock(t) PROVE OthersGrab'
  BY <1>28 DEF PublishLock
<1>29. ASSUME NEW t \in Threads, PublishSwap(t) PROVE OthersGrab'
  BY <1>29 DEF PublishSwap
<1>30. ASSUME NEW t \in Threads, PublishSignal(t) PROVE OthersGrab'
  BY <1>30 DEF PublishSignal
<1>31. ASSUME NEW t \in Threads, PublishUnlock(t) PROVE OthersGrab'
  BY <1>31 DEF PublishUnlock
<1>32. CASE ResponsePart \/ ResponseRest
  BY <1>32 DEF ResponsePart, ResponseRest
<1>33. ASSUME NEW c \in Clients, CopyRetest(c) PROVE OthersGrab'
  BY <1>33 DEF CopyRetest
<1>34. ASSUME NEW t \in Threads, ReceivePart(t) \/ ReceiveRest(t) PROVE OthersGrab'
  BY <1>34 DEF ReceivePart, ReceiveRest
<1>35. CASE UNCHANGED vars
  BY <1>35
<1> QED
  BY <1>1, <1>2, <1>3, <1>4, <1>5, <1>6, <1>7, <1>8, <1>9, <1>10, <1>11, <1>12, <1>13, <1>14,
     <1>15, <1>16, <1>17, <1>18, <1>19, <1>20, <1>21, <1>22, <1>23, <1>24, <1>25, <1>26, <1>27,
     <1>28, <1>29, <1>30, <1>31, <1>32, <1>33, <1>34, <1>35, Steps

(* Each step keeps the order of the scan threads: startScan() only creates *)
(* one when none runs, and a join only ends when the thread has returned.  *)
LEMMA ThreadsStep ==
  ASSUME TypeOK, StartBound, OthersGrab, ThreadsInOrder, [Next]_vars
  PROVE  ThreadsInOrder'
<1> USE DEF TypeOK, ThreadsInOrder, OneScanThread, ScanningHasThread, Live, OthersGrab,
            Goto, TGoto, Deleting, session, handover, threads, clients, vars, ClientPCs, ThreadPCs,
            Calls
<1>1. CASE Connect
  BY <1>1 DEF Connect
<1>2. CASE StartCheck
  BY <1>2 DEF StartCheck
<1>3. CASE StartScan
  <2> DEFINE new == scanthread + 1
  <2>1. new \in Threads /\ tpc[new] = "none" /\ scanthread' = new
    BY <1>3 DEF StartScan, StartBound, Threads
  <2>2. \A t \in Threads : ~Live(t)
    BY <1>3 DEF StartScan
  <2>3. tpc'[new] = "start" /\ \A t \in Threads \ {new} : tpc'[t] = tpc[t]
    BY <2>1, <1>3 DEF StartScan
  <2>4. OneScanThread' /\ ScanningHasThread'
    BY <2>1, <2>2, <2>3
  <2>5. \A t \in Threads : t > scanthread' => tpc'[t] = "none"
    <3> SUFFICES ASSUME NEW t \in Threads, t > scanthread + 1 PROVE tpc'[t] = "none"
      BY <2>1
    <3>1. t > scanthread /\ t # new
      BY DEF Threads
    <3> QED
      BY <2>3, <3>1
  <2>6. is_scanning' /\ is_connected' /\ pc'[Controller] = "idle"
    BY <1>3 DEF StartScan
  <2> QED
    BY <2>4, <2>5, <2>6
<1>4. ASSUME NEW name \in Calls, StopGrabbing(name) PROVE ThreadsInOrder'
  BY <1>4 DEF StopGrabbing
<1>5. CASE Delete
  <2>1. CASE StopGrabbing("delete")
    BY <2>1 DEF StopGrabbing
  <2>2. CASE ~is_connected /\ Goto(Controller, "idle", "deleted") /\ UNCHANGED <<session, tpc>>
    <3>1. scanthread = 0 /\ ~is_scanning
      BY <2>2 DEF Threads
    <3> QED
      BY <2>2, <3>1
  <2> QED
    BY <2>1, <2>2, <1>5 DEF Delete
<1>6. CASE JoinScanThread
  <2>1. \A t \in Threads : ~Live(t)
    BY <1>6 DEF JoinScanThread, Threads
  <2> QED
    BY <2>1, <1>6 DEF JoinScanThread
<1>7. CASE CommandLock
  BY <1>7 DEF CommandLock
<1>8. CASE CommandReturn
  BY <1>8 DEF CommandReturn
<1>9. CASE CommandIgnored
  BY <1>9 DEF CommandIgnored
<1>10. CASE CloseSerial
  BY <1>10 DEF CloseSerial
<1>11. CASE SetMotorRpm
  BY <1>11 DEF SetMotorRpm
<1>12. CASE SetMotorRpmReturn
  BY <1>12 DEF SetMotorRpmReturn
<1>13. ASSUME NEW c \in Clients, GrabScanData(c) PROVE ThreadsInOrder'
  BY <1>13 DEF GrabScanData
<1>14. ASSUME NEW c \in Clients, EventBlock(c) PROVE ThreadsInOrder'
  BY <1>14 DEF EventBlock
<1>15. ASSUME NEW c \in Clients, EventTake(c) PROVE ThreadsInOrder'
  BY <1>15 DEF EventTake
<1>16. ASSUME NEW c \in Clients, EventTimeout(c) PROVE ThreadsInOrder'
  BY <1>16 DEF EventTimeout
<1>17. ASSUME NEW c \in Clients, GrabLock(c) PROVE ThreadsInOrder'
  BY <1>17 DEF GrabLock
<1>18. ASSUME NEW c \in Clients, CopyBegin(c) PROVE ThreadsInOrder'
  BY <1>18 DEF CopyBegin
<1>19. ASSUME NEW c \in Clients, CopyEnd(c) PROVE ThreadsInOrder'
  BY <1>19 DEF CopyEnd
<1>20. ASSUME NEW t \in Threads, ThreadStart(t) PROVE ThreadsInOrder'
  BY <1>20 DEF ThreadStart
<1>21. ASSUME NEW t \in Threads, LoopAgain(t) PROVE ThreadsInOrder'
  BY <1>21 DEF LoopAgain
<1>22. ASSUME NEW t \in Threads, LoopExit(t) PROVE ThreadsInOrder'
  BY <1>22 DEF LoopExit
<1>23. ASSUME NEW t \in Threads, ThreadReturn(t) PROVE ThreadsInOrder'
  BY <1>23 DEF ThreadReturn
<1>24. ASSUME NEW t \in Threads, ReceivePacket(t) PROVE ThreadsInOrder'
  BY <1>24 DEF ReceivePacket
<1>25. ASSUME NEW t \in Threads, ReceiveTurn(t) \/ ReceiveUndefined(t) PROVE ThreadsInOrder'
  BY <1>25 DEF ReceiveTurn, ReceiveUndefined
<1>26. ASSUME NEW t \in Threads, ReceiveTimeout(t) PROVE ThreadsInOrder'
  BY <1>26 DEF ReceiveTimeout
<1>27. ASSUME NEW t \in Threads, ReceiveFail(t) PROVE ThreadsInOrder'
  BY <1>27 DEF ReceiveFail
<1>28. ASSUME NEW t \in Threads, PublishLock(t) PROVE ThreadsInOrder'
  BY <1>28 DEF PublishLock
<1>29. ASSUME NEW t \in Threads, PublishSwap(t) PROVE ThreadsInOrder'
  BY <1>29 DEF PublishSwap
<1>30. ASSUME NEW t \in Threads, PublishSignal(t) PROVE ThreadsInOrder'
  BY <1>30 DEF PublishSignal
<1>31. ASSUME NEW t \in Threads, PublishUnlock(t) PROVE ThreadsInOrder'
  BY <1>31 DEF PublishUnlock
<1>32. CASE ResponsePart \/ ResponseRest
  <2>1. UNCHANGED <<session, tpc>>
    BY <1>32 DEF ResponsePart, ResponseRest
  <2>2. CASE Goto(Controller, "response", "partial")
    BY <2>1, <2>2
  <2>3. CASE Goto(Controller, "partial", "response")
    BY <2>1, <2>3
  <2>4. CASE Goto(Controller, "motor", "motor_partial")
    BY <2>1, <2>4
  <2>5. CASE Goto(Controller, "motor_partial", "motor")
    BY <2>1, <2>5
  <2> HIDE DEF ThreadsInOrder, OneScanThread, ScanningHasThread, TypeOK, OthersGrab, Goto
  <2> QED
    BY <1>32, <2>2, <2>3, <2>4, <2>5 DEF ResponsePart, ResponseRest
<1>33. ASSUME NEW c \in Clients, CopyRetest(c) PROVE ThreadsInOrder'
  BY <1>33 DEF CopyRetest
<1>34. ASSUME NEW t \in Threads, ReceivePart(t) \/ ReceiveRest(t) PROVE ThreadsInOrder'
  <2>1. CASE ReceivePart(t)
    BY <2>1 DEF ReceivePart
  <2>2. CASE ReceiveRest(t)
    BY <2>2 DEF ReceiveRest
  <2> HIDE DEF ThreadsInOrder, OneScanThread, ScanningHasThread, TypeOK, OthersGrab, TGoto
  <2> QED
    BY <1>34, <2>1, <2>2
<1>35. CASE UNCHANGED vars
  BY <1>35
<1> QED
  BY <1>1, <1>2, <1>3, <1>4, <1>5, <1>6, <1>7, <1>8, <1>9, <1>10, <1>11, <1>12, <1>13, <1>14,
     <1>15, <1>16, <1>17, <1>18, <1>19, <1>20, <1>21, <1>22, <1>23, <1>24, <1>25, <1>26, <1>27,
     <1>28, <1>29, <1>30, <1>31, <1>32, <1>33, <1>34, <1>35, Steps

(* Each step keeps an unfetched scan announced.                            *)
LEMMA NoLostStep ==
  ASSUME TypeOK, StartBound, ThreadsInOrder, NoLostScan, [Next]_vars
  PROVE  NoLostScan'
<1> USE DEF TypeOK, NoLostScan, Goto, TGoto, NoLocals, StorePacket,
            session, handover, threads, clients, vars
<1>1. CASE Connect
  BY <1>1 DEF Connect
<1>2. CASE StartCheck
  BY <1>2 DEF StartCheck
<1>3. CASE StartScan
  <2>1. tpc[scanthread + 1] = "none"
    BY <1>3 DEF StartScan, StartBound, ThreadsInOrder, Threads
  <2>2. \A t \in Threads : tpc[t] = "signal" => tpc'[t] = "signal"
    BY <2>1, <1>3 DEF StartScan
  <2> QED
    BY <2>2, <1>3 DEF StartScan
<1>4. ASSUME NEW name \in Calls, StopGrabbing(name) PROVE NoLostScan'
  BY <1>4 DEF StopGrabbing
<1>5. CASE Delete
  BY <1>5 DEF Delete, StopGrabbing
<1>6. CASE JoinScanThread
  BY <1>6 DEF JoinScanThread
<1>7. CASE CommandLock
  BY <1>7 DEF CommandLock
<1>8. CASE CommandReturn
  BY <1>8 DEF CommandReturn
<1>9. CASE CommandIgnored
  BY <1>9 DEF CommandIgnored
<1>10. CASE CloseSerial
  BY <1>10 DEF CloseSerial
<1>11. CASE SetMotorRpm
  BY <1>11 DEF SetMotorRpm
<1>12. CASE SetMotorRpmReturn
  BY <1>12 DEF SetMotorRpmReturn
<1>13. ASSUME NEW c \in Clients, GrabScanData(c) PROVE NoLostScan'
  BY <1>13 DEF GrabScanData
<1>14. ASSUME NEW c \in Clients, EventBlock(c) PROVE NoLostScan'
  BY <1>14 DEF EventBlock
<1>15. ASSUME NEW c \in Clients, EventTake(c) PROVE NoLostScan'
  BY <1>15 DEF EventTake
<1>16. ASSUME NEW c \in Clients, EventTimeout(c) PROVE NoLostScan'
  BY <1>16 DEF EventTimeout
<1>17. ASSUME NEW c \in Clients, GrabLock(c) PROVE NoLostScan'
  BY <1>17 DEF GrabLock
<1>18. ASSUME NEW c \in Clients, CopyBegin(c) PROVE NoLostScan'
  BY <1>18 DEF CopyBegin
<1>19. ASSUME NEW c \in Clients, CopyEnd(c) PROVE NoLostScan'
  BY <1>19 DEF CopyEnd
<1>20. ASSUME NEW t \in Threads, ThreadStart(t) PROVE NoLostScan'
  BY <1>20 DEF ThreadStart
<1>21. ASSUME NEW t \in Threads, LoopAgain(t) PROVE NoLostScan'
  BY <1>21 DEF LoopAgain
<1>22. ASSUME NEW t \in Threads, LoopExit(t) PROVE NoLostScan'
  BY <1>22 DEF LoopExit
<1>23. ASSUME NEW t \in Threads, ThreadReturn(t) PROVE NoLostScan'
  BY <1>23 DEF ThreadReturn
<1>24. ASSUME NEW t \in Threads, ReceivePacket(t) PROVE NoLostScan'
  BY <1>24 DEF ReceivePacket
<1>25. ASSUME NEW t \in Threads, ReceiveTurn(t) \/ ReceiveUndefined(t) PROVE NoLostScan'
  BY <1>25 DEF ReceiveTurn, ReceiveUndefined
<1>26. ASSUME NEW t \in Threads, ReceiveTimeout(t) PROVE NoLostScan'
  BY <1>26 DEF ReceiveTimeout
<1>27. ASSUME NEW t \in Threads, ReceiveFail(t) PROVE NoLostScan'
  BY <1>27 DEF ReceiveFail
<1>28. ASSUME NEW t \in Threads, PublishLock(t) PROVE NoLostScan'
  BY <1>28 DEF PublishLock
<1>29. ASSUME NEW t \in Threads, PublishSwap(t) PROVE NoLostScan'
  BY <1>29 DEF PublishSwap
<1>30. ASSUME NEW t \in Threads, PublishSignal(t) PROVE NoLostScan'
  BY <1>30 DEF PublishSignal
<1>31. ASSUME NEW t \in Threads, PublishUnlock(t) PROVE NoLostScan'
  BY <1>31 DEF PublishUnlock
<1>32. CASE ResponsePart \/ ResponseRest
  BY <1>32 DEF ResponsePart, ResponseRest
<1>33. ASSUME NEW c \in Clients, CopyRetest(c) PROVE NoLostScan'
  BY <1>33 DEF CopyRetest
<1>34. ASSUME NEW t \in Threads, ReceivePart(t) \/ ReceiveRest(t) PROVE NoLostScan'
  BY <1>34 DEF ReceivePart, ReceiveRest
<1>35. CASE UNCHANGED vars
  BY <1>35
<1> QED
  BY <1>1, <1>2, <1>3, <1>4, <1>5, <1>6, <1>7, <1>8, <1>9, <1>10, <1>11, <1>12, <1>13, <1>14,
     <1>15, <1>16, <1>17, <1>18, <1>19, <1>20, <1>21, <1>22, <1>23, <1>24, <1>25, <1>26, <1>27,
     <1>28, <1>29, <1>30, <1>31, <1>32, <1>33, <1>34, <1>35, Steps

(* The scan thread leaves the clients alone. *)
LEMMA ThreadFrame ==
  ASSUME TypeOK, NEW t \in Threads, ThreadStep(t) \/ ReceiveSome(t)
  PROVE  UNCHANGED <<scanthread, clients>> /\ \A u \in Threads \ {t} : tpc'[u] = tpc[u]
BY DEF ThreadStep, ReceiveEnd, ThreadStart, LoopAgain, LoopExit, ThreadReturn, ReceiveSome,
   ReceivePacket, ReceivePart, ReceiveRest, ReceiveTurn, ReceiveUndefined, ReceiveTimeout,
   ReceiveFail, PublishLock, PublishSwap, PublishSignal, PublishUnlock, TGoto, session, threads,
   TypeOK

(* startScan() checks the bound before it takes the lock, and no thread is *)
(* created in between.                                                     *)
LEMMA StartBoundStep ==
  ASSUME TypeOK, StartBound, OthersGrab, [Next]_vars
  PROVE  StartBound'
<1> USE DEF TypeOK, StartBound
<1>1. CASE StartCheck
  BY <1>1 DEF StartCheck, Goto, session
<1>2. CASE ApiStep /\ ~StartCheck
  <2>1. scanthread' = scanthread
    BY <1>2, ApiFrame
  <2>2. \A c \in Clients : pc'[c] = "start" => pc[c] = "start"
    BY <1>2 DEF ApiStep, GrabStep, Connect, StopGrabbing, Delete, JoinScanThread, CommandLock,
       ResponsePart, ResponseRest, CommandReturn, CommandIgnored, CloseSerial, SetMotorRpm,
       SetMotorRpmReturn, GrabScanData, EventBlock, EventTake, EventTimeout, GrabLock, CopyBegin,
       CopyRetest, CopyEnd, Goto
  <2> QED
    BY <2>1, <2>2
<1>3. CASE StartScan
  BY <1>3 DEF StartScan, Goto
<1>4. ASSUME NEW t \in Threads, ThreadStep(t) \/ ReceiveSome(t) PROVE StartBound'
  BY <1>4, ThreadFrame DEF clients
<1>5. CASE UNCHANGED vars
  BY <1>5 DEF vars, session, clients
<1> QED
  BY <1>1, <1>2, <1>3, <1>4, <1>5, StepKinds

(* A new thread is at its start, where it disturbs nobody. *)
LEMMA StartFrame ==
  ASSUME TypeOK, StartBound, ThreadsInOrder, StartScan
  PROVE  /\ scanthread + 1 \in Threads /\ tpc[scanthread + 1] = "none"
         /\ tpc' = [tpc EXCEPT ![scanthread + 1] = "start"]
         /\ scanthread' = scanthread + 1
         /\ UNCHANGED <<handover, scanBuff, copy>>
         /\ \A c \in Clients : pc'[c] \in {"retest", "copying"} => pc'[c] = pc[c]
BY DEF StartScan, StartBound, ThreadsInOrder, TypeOK, Goto, Threads

(* The running thread keeps to the buffer that is not published. *)
LEMMA BuffersStep ==
  ASSUME TypeOK, StartBound, LockHeld, ThreadsInOrder, BuffersApart, [Next]_vars
  PROVE  BuffersApart'
<1> USE DEF BuffersApart, Live
<1>1. CASE UNCHANGED <<scanthread, flag, published, tpc, scanBuff>>
  BY <1>1
<1>2. CASE StartScan
  <2> DEFINE new == scanthread + 1
  <2>1. new # published.by /\ published.by <= new
    BY DEF TypeOK
  <2>2. \A t \in Threads \ {new} : tpc'[t] = tpc[t]
    BY <1>2, StartFrame DEF TypeOK
  <2>3. tpc'[new] = "start"
    BY <1>2, StartFrame DEF TypeOK
  <2> QED
    BY <1>2, <2>1, <2>2, <2>3, StartFrame DEF handover
<1>3. ASSUME NEW t \in Threads, ThreadStep(t) \/ ReceiveSome(t)
      PROVE  BuffersApart'
  <2> USE DEF TypeOK, TGoto, NoLocals, StorePacket, Buffers, Other, session, handover, threads
  <2>1. \A u \in Threads \ {t} : Live(t) => ~Live(u)
    BY DEF ThreadsInOrder, OneScanThread
  <2>2. CASE ThreadStart(t)
    BY <2>2, <2>1 DEF ThreadStart, ThreadsInOrder, OneScanThread
  <2>3. CASE LoopAgain(t)
    BY <2>3 DEF LoopAgain
  <2>4. CASE LoopExit(t)
    BY <2>4 DEF LoopExit
  <2>5. CASE ThreadReturn(t)
    BY <2>5 DEF ThreadReturn
  <2>6. CASE ReceivePacket(t)
    BY <2>6 DEF ReceivePacket
  <2>7. CASE ReceiveTurn(t) \/ ReceiveUndefined(t)
    BY <2>7 DEF ReceiveTurn, ReceiveUndefined
  <2>8. CASE ReceiveTimeout(t)
    BY <2>8 DEF ReceiveTimeout
  <2>9. CASE ReceiveFail(t)
    BY <2>9 DEF ReceiveFail
  <2>10. CASE PublishLock(t)
    BY <2>10 DEF PublishLock
  <2>11. CASE PublishSwap(t)
    BY <2>11, <2>1 DEF PublishSwap, ThreadsInOrder, OneScanThread
  <2>12. CASE PublishSignal(t)
    BY <2>12 DEF PublishSignal
  <2>13. CASE PublishUnlock(t)
    BY <2>13 DEF PublishUnlock
  <2>14. CASE ReceivePart(t) \/ ReceiveRest(t)
    BY <2>14 DEF ReceivePart, ReceiveRest
  <2> QED
    BY <1>3, <2>2, <2>3, <2>4, <2>5, <2>6, <2>7, <2>8, <2>9, <2>10, <2>11, <2>12, <2>13, <2>14
       DEF ThreadStep, ReceiveEnd, ReceiveSome
<1> QED
  BY <1>1, <1>2, <1>3, StepKinds, ApiFrame DEF vars, session, handover, threads

(* SameSession only begins to hold when a thread publishes. *)
LEMMA SessionStep ==
  ASSUME TypeOK, StartBound, ThreadsInOrder, [Next]_vars,
         SameSession', \A t \in Threads : ~PublishSwap(t)
  PROVE  SameSession /\ published' = published
<1> USE DEF SameSession
<1>1. CASE ApiStep \/ UNCHANGED vars
  BY <1>1, ApiFrame DEF vars, handover, threads
<1>2. CASE StartScan
  BY <1>2, StartFrame DEF handover, TypeOK
<1>3. ASSUME NEW t \in Threads, ThreadStep(t) \/ ReceiveSome(t)
      PROVE  SameSession /\ published' = published
  <2>1. published' = published
    BY <1>3 DEF ThreadStep, ReceiveEnd, ThreadStart, LoopAgain, LoopExit, ThreadReturn,
       ReceiveSome, ReceivePacket, ReceivePart, ReceiveRest, ReceiveTurn, ReceiveUndefined,
       ReceiveTimeout, ReceiveFail, PublishLock, PublishSignal, PublishUnlock, handover
  <2>2. tpc'[t] \in {"none", "start"} => tpc'[t] = tpc[t]
    BY <1>3 DEF ThreadStep, ReceiveEnd, ThreadStart, LoopAgain, LoopExit, ThreadReturn,
       ReceiveSome, ReceivePacket, ReceivePart, ReceiveRest, ReceiveTurn, ReceiveUndefined,
       ReceiveTimeout, ReceiveFail, PublishLock, PublishSignal, PublishUnlock, TGoto, threads,
       TypeOK
  <2> QED
    BY <1>3, <2>1, <2>2, ThreadFrame
<1> QED
  BY <1>1, <1>2, <1>3, StepKinds

(* While no later thread starts, nobody writes the published buffer. *)
LEMMA PublishedBufferStep ==
  ASSUME TypeOK, StartBound, ThreadsInOrder, BuffersApart, [Next]_vars,
         SameSession', \A t \in Threads : ~PublishSwap(t)
  PROVE  flag' = flag /\ buffers'[flag] = buffers[flag]
<1>1. CASE ApiStep \/ StartScan \/ UNCHANGED vars
  BY <1>1, ApiFrame, StartFrame DEF vars, handover
<1>2. ASSUME NEW t \in Threads, ThreadStep(t) \/ ReceiveSome(t)
      PROVE  flag' = flag /\ buffers'[flag] = buffers[flag]
  <2>1. CASE ReceivePacket(t) \/ ReceiveTurn(t) \/ ReceiveUndefined(t)
    <3>1. scanBuff[t] = Other(flag)
      BY <2>1 DEF ReceivePacket, ReceiveTurn, ReceiveUndefined, TGoto, BuffersApart, Live
    <3> QED
      BY <2>1, <3>1 DEF ReceivePacket, ReceiveTurn, ReceiveUndefined, StorePacket, Other,
         Buffers, TypeOK
  <2>2. ~ThreadStart(t)
    <3> SUFFICES ASSUME ThreadStart(t) PROVE FALSE
      OBVIOUS
    <3>1. t > published.by
      <4>1. tpc[t] = "start" /\ t = scanthread
        BY DEF ThreadStart, TGoto, ThreadsInOrder, OneScanThread, Live
      <4>2. published.by <= t /\ published.by # t
        BY <4>1 DEF BuffersApart
      <4> QED
        BY <4>2 DEF TypeOK, Threads
    <3>2. tpc'[t] = "loop" /\ published' = published
      BY DEF ThreadStart, TGoto, TypeOK
    <3> QED
      BY <3>1, <3>2 DEF SameSession
  <2> QED
    BY <1>2, <2>1, <2>2 DEF ThreadStep, ReceiveEnd, ReceiveSome, ReceivePart, ReceiveRest,
       LoopAgain, LoopExit, ThreadReturn, ReceiveTimeout, ReceiveFail, PublishLock, PublishSignal,
       PublishUnlock, handover
<1> QED
  BY <1>1, <1>2, StepKinds

(* What was handed over stays in the published buffer.                     *)
LEMMA PublishedStep ==
  ASSUME TypeOK, StartBound, ThreadsInOrder, BuffersApart, PublishedIntact, [Next]_vars
  PROVE  PublishedIntact'
<1> USE DEF PublishedIntact
<1>1. ASSUME NEW t \in Threads, PublishSwap(t)
      PROVE  buffers'[flag'] = published'.version
  BY <1>1 DEF PublishSwap
<1>2. ASSUME SameSession', \A t \in Threads : ~PublishSwap(t), buff_count' # 0
      PROVE  buffers'[flag'] = published'.version
  <2>1. buff_count # 0
    BY <1>2, StepKinds, ApiFrame, StartFrame
       DEF ThreadStep, ReceiveEnd, ThreadStart, LoopAgain, LoopExit, ThreadReturn, ReceiveSome,
           ReceivePacket, ReceivePart, ReceiveRest, ReceiveTurn, ReceiveUndefined, ReceiveTimeout,
           ReceiveFail, PublishLock, PublishSignal, PublishUnlock, handover, vars
  <2> QED
    BY <1>2, <2>1, SessionStep, PublishedBufferStep
<1> QED
  BY <1>1, <1>2

(* Only a hand-over and the end of a fetch change the count.               *)
LEMMA CountFrame ==
  ASSUME [Next]_vars, \A t \in Threads : ~PublishSwap(t), \A c \in Clients : ~CopyEnd(c)
  PROVE  buff_count' = buff_count
<1>1. CASE ApiStep
  BY <1>1 DEF ApiStep, GrabStep, Connect, StartCheck, StopGrabbing, Delete, JoinScanThread,
     CommandLock, CommandReturn, CommandIgnored, CloseSerial, SetMotorRpm, SetMotorRpmReturn,
     ResponsePart, ResponseRest, GrabScanData, EventBlock, EventTake, EventTimeout, GrabLock,
     CopyBegin, CopyRetest, handover
<1>2. CASE StartScan \/ UNCHANGED vars
  BY <1>2 DEF StartScan, handover, vars
<1>3. ASSUME NEW t \in Threads, ThreadStep(t) \/ ReceiveSome(t) PROVE buff_count' = buff_count
  BY <1>3 DEF ThreadStep, ReceiveEnd, ThreadStart, LoopAgain, LoopExit, ThreadReturn, ReceiveSome,
     ReceivePacket, ReceivePart, ReceiveRest, ReceiveTurn, ReceiveUndefined, ReceiveTimeout,
     ReceiveFail, PublishLock, PublishSignal, PublishUnlock, handover
<1> QED
  BY <1>1, <1>2, <1>3, StepKinds

(* A fetch that is under way keeps its copy; one that begins takes what is *)
(* published.                                                              *)
LEMMA CopyFrame ==
  ASSUME TypeOK, ApiStep, NEW c \in Clients, pc'[c] \in {"retest", "copying"}
  PROVE  CopyBegin(c) \/ CopyRetest(c) \/ (pc'[c] = pc[c] /\ copy'[c] = copy[c])
<1>1. pc \in [Clients -> ClientPCs] /\ DOMAIN copy = Clients
  BY DEF TypeOK
<1>2. CASE pc' = pc /\ copy' = copy
  BY <1>2
<1>3. ASSUME Connect \/ StartCheck \/ (\E name \in Calls : StopGrabbing(name)) \/ Delete
             \/ JoinScanThread \/ CommandLock \/ CommandReturn \/ CommandIgnored \/ CloseSerial
             \/ SetMotorRpm \/ SetMotorRpmReturn \/ ResponsePart \/ ResponseRest
      PROVE  pc'[c] = pc[c] /\ copy' = copy
  <2>1. copy' = copy /\ (pc' = pc \/ \E to \in ClientPCs \ {"retest", "copying"} :
                                       pc' = [pc EXCEPT ![Controller] = to])
    BY <1>3 DEF Connect, StartCheck, StopGrabbing, Delete, JoinScanThread, CommandLock,
       CommandReturn, CommandIgnored, CloseSerial, SetMotorRpm, SetMotorRpmReturn, ResponsePart,
       ResponseRest, Goto, clients, ClientPCs
  <2> QED
    BY <1>1, <2>1
<1>4. ASSUME NEW d \in Clients, GrabScanData(d) \/ EventBlock(d) \/ EventTake(d) \/ EventTimeout(d)
                               \/ GrabLock(d)
      PROVE  pc'[c] = pc[c] /\ copy' = copy
  BY <1>1, <1>4 DEF GrabScanData, EventBlock, EventTake, EventTimeout, GrabLock, Goto
<1>5. ASSUME NEW d \in Clients, d # c, CopyBegin(d) \/ CopyRetest(d)
      PROVE  pc'[c] = pc[c] /\ copy'[c] = copy[c]
  BY <1>1, <1>5 DEF CopyBegin, CopyRetest, Goto
<1>6. ASSUME NEW d \in Clients, CopyEnd(d)
      PROVE  pc'[c] = pc[c] /\ copy'[c] = copy[c]
  BY <1>1, <1>6 DEF CopyEnd, Goto
<1> QED
  BY <1>2, <1>3, <1>4, <1>5, <1>6 DEF ApiStep, GrabStep

(* Whatever the step, a fetch begins to copy, asks again, or stays where   *)
(* it is, and what it copies stays.                                        *)
LEMMA CopySteps ==
  ASSUME TypeOK, StartBound, ThreadsInOrder, [Next]_vars,
         NEW c \in Clients, pc'[c] \in {"retest", "copying"}
  PROVE  CopyBegin(c) \/ CopyRetest(c) \/ (pc'[c] = pc[c] /\ copy'[c] = copy[c])
BY StepKinds, CopyFrame, StartFrame, ThreadFrame DEF vars, clients

(* What a retest and a copy find when they hold the lock.                  *)
LEMMA CopyAlone ==
  ASSUME TypeOK, LockHeld, NEW c \in Clients, pc[c] \in {"retest", "copying"}
  PROVE  /\ \A t \in Threads : ~PublishSwap(t)
         /\ \A d \in Clients \ {c} : ~CopyEnd(d)
BY DEF LockHeld, PublishSwap, CopyEnd, TGoto, Goto

(* The buffer under memcpy() stays the published one: PublishSwap needs the *)
(* lock, which the client holds.                                           *)
LEMMA CopyStep ==
  ASSUME TypeOK, StartBound, LockHeld, ThreadsInOrder, BuffersApart, CopyFromPublished, [Next]_vars
  PROVE  CopyFromPublished'
<1> SUFFICES ASSUME NEW c \in Clients, pc'[c] \in {"retest", "copying"}, SameSession'
             PROVE  /\ pc'[c] = "copying" => copy'[c].from = flag' /\ copy'[c].seen = buffers'[flag']
                    /\ pc'[c] = "retest" => flag' = "right"
  BY DEF CopyFromPublished
<1>1. CASE CopyBegin(c)
  BY <1>1 DEF CopyBegin, CopyRetest, Goto, handover, TypeOK
<1>2. ASSUME pc[c] \in {"retest", "copying"}
      PROVE  SameSession /\ flag' = flag /\ buffers'[flag] = buffers[flag]
  <2>1. \A t \in Threads : ~PublishSwap(t)
    BY <1>2, CopyAlone
  <2> QED
    BY <2>1, SessionStep, PublishedBufferStep
<1>3. CASE CopyRetest(c)
  <2>1. pc[c] = "retest" /\ pc'[c] = "copying" /\ UNCHANGED <<flag, buffers>>
    BY <1>3 DEF CopyRetest, Goto, handover, TypeOK
  <2>2. flag = "right"
    BY <1>2, <2>1 DEF CopyFromPublished
  <2>3. copy' = [copy EXCEPT ![c].from = "right", ![c].seen = buffers["right"]]
    BY <1>3, <2>2 DEF CopyRetest
  <2>4. copy'[c].from = "right" /\ copy'[c].seen = buffers["right"]
    BY <2>3 DEF TypeOK
  <2> QED
    BY <2>1, <2>2, <2>4
<1>4. CASE pc'[c] = pc[c] /\ copy'[c] = copy[c]
  BY <1>2, <1>4 DEF CopyFromPublished
<1> QED
  BY <1>1, <1>3, <1>4, CopySteps

(* The count is changed under the lock only, which the fetch holds.        *)
LEMMA CountStep ==
  ASSUME TypeOK, StartBound, LockHeld, ThreadsInOrder, CopyCounts, [Next]_vars
  PROVE  CopyCounts'
<1> SUFFICES ASSUME NEW c \in Clients, pc'[c] \in {"retest", "copying"}
             PROVE  copy'[c].n = Min2(Room, buff_count')
  BY DEF CopyCounts
<1>1. CASE CopyBegin(c)
  BY <1>1 DEF CopyBegin, CopyRetest, handover, TypeOK
<1>2. CASE CopyRetest(c)
  <2>1. pc[c] = "retest" /\ buff_count' = buff_count
    BY <1>2 DEF CopyRetest, Goto, handover
  <2>2. copy'[c].n = copy[c].n
    BY <1>2 DEF CopyRetest, TypeOK
  <2> QED
    BY <2>1, <2>2 DEF CopyCounts
<1>3. CASE pc'[c] = pc[c] /\ copy'[c] = copy[c]
  <2>1. /\ \A t \in Threads : ~PublishSwap(t)
        /\ \A d \in Clients \ {c} : ~CopyEnd(d)
    BY <1>3, CopyAlone
  <2>2. ~CopyEnd(c)
    BY <1>3 DEF CopyEnd, Goto, TypeOK
  <2>3. buff_count' = buff_count
    BY <2>1, <2>2, CountFrame
  <2> QED
    BY <1>3, <2>3 DEF CopyCounts
<1> QED
  BY <1>1, <1>2, <1>3, CopySteps

(* The invariant holds of the constructed object.                          *)
LEMMA InitIInv == Init => IInv
<1> SUFFICES ASSUME Init PROVE IInv
  OBVIOUS
<1> USE DEF Init
<1>1. TypeOK
  <2>1. copy \in [Clients ->
                  [from : Buffers \cup {"none"}, seen : 0 .. MaxPackets, n : 0 .. MaxPoints]]
    BY DEF Buffers, NoCopy
  <2>2. published \in [by : 0 .. MaxThreads, version : 0 .. MaxPackets, ok : BOOLEAN]
    OBVIOUS
  <2>3. /\ tpc \in [Threads -> ThreadPCs] /\ scanBuff \in [Threads -> Buffers]
        /\ count \in [Threads -> 0 .. MaxPoints] /\ result \in [Threads -> {"OK", "TIMEOUT"}]
    BY DEF ThreadPCs, Buffers
  <2>4. pc \in [Clients -> ClientPCs] /\ call \in Calls
    BY DEF ClientPCs, Calls
  <2>5. buffers \in [Buffers -> 0 .. MaxPackets] /\ flag \in Buffers
    BY DEF Buffers
  <2>6. /\ is_connected \in BOOLEAN /\ is_scanning \in BOOLEAN /\ serial_open \in BOOLEAN
        /\ lock \in Clients \cup Threads \cup {Free} /\ signalled \in BOOLEAN
    OBVIOUS
  <2>7. /\ buff_count \in 0 .. MaxPoints /\ packets \in 0 .. MaxPackets
        /\ scanthread \in 0 .. MaxThreads /\ joined \subseteq Threads
    OBVIOUS
  <2> HIDE DEF Init
  <2> QED
    BY <2>1, <2>2, <2>3, <2>4, <2>5, <2>6, <2>7 DEF TypeOK
<1>2. StartBound /\ LockHeld /\ OthersGrab
  BY DEF StartBound, LockHeld, OthersGrab
<1>3. ThreadsInOrder
  BY DEF ThreadsInOrder, OneScanThread, ScanningHasThread, Live
<1>4. NoLostScan /\ PublishedIntact /\ CopyFromPublished /\ CopyCounts
  BY DEF NoLostScan, PublishedIntact, CopyFromPublished, CopyCounts
<1>5. BuffersApart
  BY DEF BuffersApart, Live, Threads
<1> QED
  BY <1>1, <1>2, <1>3, <1>4, <1>5 DEF IInv

(* Every step keeps it.                                                    *)
LEMMA StepIInv == IInv /\ [Next]_vars => IInv'
BY TypeStep, StartBoundStep, LockStep, OthersStep, ThreadsStep, NoLostStep, BuffersStep,
   PublishedStep, CopyStep, CountStep DEF IInv

(* So it always holds.                                                     *)
LEMMA Invariance == Spec => []IInv
BY InitIInv, StepIInv, PTL DEF Spec

(* The driver's variables keep their types: the flag names a buffer, the   *)
(* owner of _lock is a thread, each location is one of the thread's own.   *)
THEOREM TypeCorrect == Spec => []TypeOK
BY Invariance, PTL DEF IInv

(* startScan() never makes a second thread run beside the first, and       *)
(* _is_scanning is only set while a thread runs its loop, for any          *)
(* number of clients, restarts and threads that give up by themselves.     *)
THEOREM ThreadDiscipline == Spec => [](OneScanThread /\ ScanningHasThread)
<1>1. IInv => OneScanThread /\ ScanningHasThread
  BY DEF IInv, ThreadsInOrder
<1> QED
  BY <1>1, Invariance, PTL

(* From the join in stopGrabingScanData() to the end of the call that made *)
(* it, no scan thread runs: responses are read by their command alone, and *)
(* disconnect() closes the port under nobody.                              *)
THEOREM CommandsRunAlone == Spec => []CommandAlone
<1>1. IInv => CommandAlone
  BY DEF IInv, ThreadsInOrder, CommandAlone
<1> QED
  BY <1>1, Invariance, PTL

(* A scan handed over and not fetched is always announced: by the          *)
(* event, by the thread about to signal it, or to a client that will clear *)
(* the count.                                                              *)
THEOREM ScansAreAnnounced == Spec => []NoLostScan
<1>1. IInv => NoLostScan
  BY DEF IInv
<1> QED
  BY <1>1, Invariance, PTL

(* Until a later thread starts, a published scan keeps the contents that   *)
(* were handed over, and no memcpy() in grabScanData() reads a torn scan,  *)
(* although packets are stored without the lock.                           *)
THEOREM ScansStayWhole == Spec => [](PublishedIntact /\ CopyUntorn)
<1>1. IInv => PublishedIntact /\ CopyUntorn
  BY DEF IInv, CopyFromPublished, CopyUntorn, TypeOK
<1> QED
  BY <1>1, Invariance, PTL

-----------------------------------------------------------------------------
(* Who waits for whom.                                                     *)

(* x cannot go on before y does: it wants _lock, which y holds, or it is   *)
(* the Controller and joins y.  (A wait for the event ends by itself.)     *)
WantsLock(x) ==
  \/ x \in Clients /\ pc[x] \in {"start", "command", "woken"}
  \/ x \in Threads /\ tpc[x] = "lock"

Joins(x, t) == x = Controller /\ pc[x] = "join" /\ t = scanthread /\ tpc[t] # "exited"

WaitsFor(x, y) ==
  \/ WantsLock(x) /\ lock # Free /\ y = lock
  \/ y \in Threads /\ Joins(x, y)

(* y waits for nobody: it holds _lock, or it is a scan thread that does    *)
(* not need it or may have it. (It may wait for the device.)               *)
GoesOn(y) ==
  \/ y \in Clients /\ lock = y
  \/ y \in Threads /\ Live(y) /\ (tpc[y] = "lock" => lock = Free)

Actors == Clients \cup Threads

(* A thread that startScan() made was made: the handle names it, and the   *)
(* join ends when it returns.                                              *)
HandlesAreThreads == \A t \in Threads : t <= scanthread => tpc[t] # "none"

LEMMA HandlesStep ==
  ASSUME IInv, HandlesAreThreads, [Next]_vars
  PROVE  HandlesAreThreads'
<1> USE DEF HandlesAreThreads
<1>1. CASE ApiStep \/ UNCHANGED vars
  BY <1>1, ApiFrame DEF threads, session, vars
<1>2. CASE StartScan
  <2>1. /\ scanthread' = scanthread + 1 /\ scanthread \in Nat
        /\ tpc' = [tpc EXCEPT ![scanthread + 1] = "start"]
        /\ tpc \in [Threads -> ThreadPCs]
    BY <1>2 DEF StartScan, IInv, TypeOK
  <2> SUFFICES ASSUME NEW t \in Threads, t <= scanthread + 1 PROVE tpc'[t] # "none"
    BY <2>1
  <2>2. t \in Nat /\ (t = scanthread + 1 \/ t <= scanthread)
    BY <2>1 DEF Threads
  <2> QED
    BY <2>1, <2>2
<1>3. ASSUME NEW t \in Threads, ThreadStep(t) \/ ReceiveSome(t) PROVE HandlesAreThreads'
  <2>1. tpc \in [Threads -> ThreadPCs]
    BY DEF IInv, TypeOK
  <2>2. scanthread' = scanthread /\ \A u \in Threads : tpc'[u] = "none" => tpc[u] = "none"
    BY <1>3, <2>1 DEF ThreadStep, ReceiveEnd, ThreadStart, LoopAgain, LoopExit, ThreadReturn,
       ReceiveSome, ReceivePacket, ReceivePart, ReceiveRest, ReceiveTurn, ReceiveUndefined,
       ReceiveTimeout, ReceiveFail, PublishLock, PublishSwap, PublishSignal, PublishUnlock, TGoto,
       session, threads
  <2> QED
    BY <2>2
<1> QED
  BY <1>1, <1>2, <1>3, StepKinds

LEMMA HandlesInvariance == Spec => []HandlesAreThreads
<1>1. Init => HandlesAreThreads
  BY DEF Init, HandlesAreThreads, Threads
<1>2. IInv /\ HandlesAreThreads /\ [Next]_vars => HandlesAreThreads'
  BY HandlesStep
<1> QED
  BY <1>1, <1>2, Invariance, PTL DEF Spec

(* Who goes on waits for nobody... *)
LEMMA WhoGoesOn ==
  ASSUME IInv, NEW y \in Actors, GoesOn(y)
  PROVE  \A z \in Actors : ~WaitsFor(y, z)
<1>1. CASE y \in Clients /\ lock = y
  <2>1. pc[y] \in {"copy", "retest", "copying", "response", "partial"} /\ y \notin Threads
    BY <1>1 DEF IInv, LockHeld
  <2> QED
    BY <2>1 DEF WaitsFor, WantsLock, Joins
<1>2. CASE y \in Threads /\ Live(y) /\ (tpc[y] = "lock" => lock = Free)
  <2>1. y \notin Clients /\ y # Controller
    BY <1>2
  <2> QED
    BY <1>2, <2>1 DEF WaitsFor, WantsLock, Joins
<1> QED
  BY <1>1, <1>2 DEF GoesOn

(* ...and who holds the lock goes on. *)
LEMMA HolderGoesOn ==
  ASSUME IInv, lock # Free
  PROVE  lock \in Actors /\ GoesOn(lock)
<1>1. lock \in Clients \cup Threads
  BY DEF IInv, TypeOK
<1>2. lock \in Threads => tpc[lock] \in {"publish", "signal", "unlock"}
  BY DEF IInv, LockHeld
<1> QED
  BY <1>1, <1>2 DEF GoesOn, Live, Actors

(* Nobody waits in a circle: who is waited for goes on, or it is the scan  *)
(* thread that disconnect() and the others join, and it waits for _lock,   *)
(* whose holder goes on.  The Controller holds no lock while it joins, and *)
(* nobody waits for the event with _lock held.                             *)
THEOREM NoCircularWait ==
  Spec => [](\A x, y \in Actors : WaitsFor(x, y) =>
               \/ GoesOn(y) /\ \A z \in Actors : ~WaitsFor(y, z)
               \/ /\ x = Controller /\ WaitsFor(y, lock)
                  /\ GoesOn(lock) /\ \A z \in Actors : ~WaitsFor(lock, z))
<1>1. ASSUME IInv, HandlesAreThreads, NEW x \in Actors, NEW y \in Actors, WaitsFor(x, y)
      PROVE  \/ GoesOn(y) /\ \A z \in Actors : ~WaitsFor(y, z)
             \/ /\ x = Controller /\ WaitsFor(y, lock)
                /\ GoesOn(lock) /\ \A z \in Actors : ~WaitsFor(lock, z)
  <2>1. CASE lock # Free /\ y = lock
    BY <1>1, <2>1, HolderGoesOn, WhoGoesOn
  <2>2. CASE y \in Threads /\ Joins(x, y)
    <3>1. Live(y)
      <4>1. y = scanthread /\ tpc[y] # "exited" /\ y \in Nat
        BY <2>2 DEF Joins, Threads
      <4>2. tpc[y] # "none"
        BY <1>1, <2>2, <4>1 DEF HandlesAreThreads
      <4> QED
        BY <4>1, <4>2 DEF Live
    <3>2. CASE tpc[y] = "lock" => lock = Free
      BY <1>1, <2>2, <3>1, <3>2, WhoGoesOn DEF GoesOn
    <3>3. CASE tpc[y] = "lock" /\ lock # Free
      <4>1. x = Controller /\ WaitsFor(y, lock)
        BY <2>2, <3>3 DEF Joins, WaitsFor, WantsLock
      <4> QED
        BY <1>1, <3>3, <4>1, HolderGoesOn, WhoGoesOn
    <3> QED
      BY <3>2, <3>3
  <2> QED
    BY <1>1, <2>1, <2>2 DEF WaitsFor
<1>2. IInv /\ HandlesAreThreads =>
        \A x, y \in Actors : WaitsFor(x, y) =>
               \/ GoesOn(y) /\ \A z \in Actors : ~WaitsFor(y, z)
               \/ /\ x = Controller /\ WaitsFor(y, lock)
                  /\ GoesOn(lock) /\ \A z \in Actors : ~WaitsFor(lock, z)
  BY <1>1
<1> QED
  BY <1>2, Invariance, HandlesInvariance, PTL

(* How many steps the thread has before it at most, once it is told to     *)
(* stop.                                                                   *)
StepsLeft(t) ==
  CASE tpc[t] \in {"receive", "partial"} -> 7
    [] tpc[t] = "lock" -> 6
    [] tpc[t] = "publish" -> 5
    [] tpc[t] = "signal" -> 4
    [] tpc[t] \in {"start", "unlock"} -> 3
    [] tpc[t] = "loop" -> 2
    [] tpc[t] = "leaving" -> 1
    [] tpc[t] \in {"none", "exited"} -> 0

LEMMA FewerStepsLeft ==
  ASSUME IInv, pc[Controller] = "join", [Next]_vars, NEW t \in Threads, tpc'[t] # tpc[t],
         ~ReceivePart(t), ~ReceiveRest(t)
  PROVE  StepsLeft(t)' < StepsLeft(t) /\ StepsLeft(t) \in 1 .. 7
<1>1. PICK u \in Threads : ThreadStep(u) \/ ReceiveSome(u)
  <2>1. ~StartScan /\ ~ApiStep /\ ~UNCHANGED vars
    BY ApiFrame DEF StartScan, Goto, threads, vars
  <2> QED
    BY <2>1, StepKinds
<1>2. tpc \in [Threads -> ThreadPCs]
  BY DEF IInv, TypeOK
<1> USE DEF TGoto
<1>3. u = t /\ ThreadStep(t)
  BY <1>1, <1>2 DEF ThreadStep, ReceiveEnd, ThreadStart, LoopAgain, LoopExit, ThreadReturn,
     ReceiveSome, ReceivePacket, ReceivePart, ReceiveRest, ReceiveTurn, ReceiveUndefined,
     ReceiveTimeout, ReceiveFail, PublishLock, PublishSwap, PublishSignal, PublishUnlock, threads
<1>4. ~is_scanning
  BY DEF IInv, ThreadsInOrder
<1>5. \/ tpc[t] = "start" /\ tpc'[t] = "loop"
      \/ tpc[t] = "loop" /\ tpc'[t] = "leaving"
      \/ tpc[t] = "leaving" /\ tpc'[t] = "exited"
      \/ tpc[t] = "receive" /\ tpc'[t] \in {"lock", "exited"}
      \/ tpc[t] = "lock" /\ tpc'[t] = "publish"
      \/ tpc[t] = "publish" /\ tpc'[t] = "signal"
      \/ tpc[t] = "signal" /\ tpc'[t] = "unlock"
      \/ tpc[t] = "unlock" /\ tpc'[t] = "loop"
  BY <1>2, <1>3, <1>4 DEF ThreadStep, ReceiveEnd, ThreadStart, LoopAgain, LoopExit, ThreadReturn,
     ReceiveTurn, ReceiveUndefined, ReceiveTimeout, ReceiveFail, PublishLock, PublishSwap,
     PublishSignal, PublishUnlock
<1> QED
  BY <1>5 DEF StepsLeft

(* A scan thread that is waited for only ever comes nearer to its end, in  *)
(* at most seven steps of its own besides what it may still receive: it is *)
(* not started again, and none of its steps leads back. With               *)
(* NoCircularWait this is why stopping returns, if the device does not     *)
(* leave a wait with a part of its bytes for ever.                         *)
THEOREM StoppingComesNearer ==
  Spec => [][pc[Controller] = "join" =>
               \A t \in Threads : tpc'[t] # tpc[t] =>
                 \/ ReceivePart(t) \/ ReceiveRest(t)
                 \/ StepsLeft(t)' < StepsLeft(t) /\ StepsLeft(t) \in 1 .. 7]_vars
<1>1. IInv /\ [Next]_vars =>
        (pc[Controller] = "join" =>
           \A t \in Threads : tpc'[t] # tpc[t] =>
             \/ ReceivePart(t) \/ ReceiveRest(t)
             \/ StepsLeft(t)' < StepsLeft(t) /\ StepsLeft(t) \in 1 .. 7)
  BY FewerStepsLeft
<1> QED
  BY <1>1, Invariance, PTL DEF Spec

-----------------------------------------------------------------------------
(* Who reads the port.                                                     *)

InSetMotorRpm == pc[Controller] \in {"motor", "motor_partial"}

(* a takes bytes from the serial port: the scan thread receives, or the    *)
(* Controller waits for the response to a command.                         *)
ReadsPort(a) ==
  \/ a \in Threads /\ tpc[a] \in {"receive", "partial"}
  \/ a = Controller /\ pc[a] \in {"response", "partial"}
  \/ a = Controller /\ InSetMotorRpm

(* The port is flushed (startScan(), stopGrabingScanData()), opened or     *)
(* closed.                                                                 *)
PortTurnsOver == StartScan \/ JoinScanThread \/ CloseSerial \/ serial_open' # serial_open

(* One thread at a time takes bytes from the port, although no lock guards *)
(* it, unless setMotorRpm() is called during a scan: what SerialPort_proof *)
(* asks for as OneReader.                                                  *)
THEOREM PortHasOneReader ==
  Spec => [](\A a, b \in Actors :
               ReadsPort(a) /\ ReadsPort(b) => a = b \/ InSetMotorRpm)
<1>1. ASSUME IInv, NEW a \in Actors, NEW b \in Actors, ReadsPort(a), ReadsPort(b),
             ~InSetMotorRpm
      PROVE  a = b
  <2>1. \A t \in Threads : tpc[t] \in {"receive", "partial"} =>
          t = scanthread /\ pc[Controller] \notin {"response", "partial"}
    BY <1>1 DEF IInv, ThreadsInOrder, OneScanThread, Live
  <2> QED
    BY <1>1, <2>1 DEF ReadsPort
<1>2. IInv => \A a, b \in Actors :
                ReadsPort(a) /\ ReadsPort(b) => a = b \/ InSetMotorRpm
  BY <1>1
<1> QED
  BY <1>2, Invariance, PTL

(* The port is flushed, opened and closed while nobody reads it: no        *)
(* reader's bytes are thrown away and no descriptor is closed under a      *)
(* select() (the guard Idle of SerialPort's actions).                      *)
THEOREM PortTurnsOverUnread ==
  Spec => [][PortTurnsOver => \A a \in Actors : ~ReadsPort(a)]_vars
<1>1. ASSUME IInv, [Next]_vars, PortTurnsOver, NEW a \in Actors, ReadsPort(a)
      PROVE  FALSE
  <2>1. CASE StartScan
    <3>1. pc[Controller] = "start"
      BY <2>1 DEF StartScan, Goto
    <3> QED
      BY <1>1, <3>1 DEF ReadsPort, InSetMotorRpm, IInv, ThreadsInOrder, Live
  <2>2. CASE JoinScanThread
    <3>1. pc[Controller] = "join" /\ (scanthread = 0 \/ tpc[scanthread] = "exited")
      BY <2>2 DEF JoinScanThread, Goto
    <3>2. \A t \in Threads : tpc[t] \in {"receive", "partial"} => t = scanthread
      BY <1>1 DEF IInv, ThreadsInOrder, OneScanThread, Live
    <3> QED
      BY <1>1, <3>1, <3>2 DEF ReadsPort, InSetMotorRpm, Threads
  <2>3. CASE CloseSerial
    <3>1. pc[Controller] = "close"
      BY <2>3 DEF CloseSerial, Goto
    <3> QED
      BY <1>1, <3>1 DEF ReadsPort, InSetMotorRpm, IInv, ThreadsInOrder, Live
  <2>4. CASE Connect /\ ~is_connected
    <3>1. pc[Controller] = "idle"
      BY <2>4 DEF Connect
    <3>2. \A t \in Threads : tpc[t] \in {"receive", "partial"} => t = scanthread
      BY <1>1 DEF IInv, ThreadsInOrder, OneScanThread, Live
    <3> QED
      BY <1>1, <2>4, <3>1, <3>2 DEF ReadsPort, InSetMotorRpm, IInv, ThreadsInOrder, Threads
  <2>5. ASSUME ~CloseSerial, ~(Connect /\ ~is_connected) PROVE serial_open' = serial_open
    <3>1. CASE ApiStep
      BY <2>5, <3>1 DEF ApiStep, GrabStep, Connect, StartCheck, StopGrabbing, Delete,
         JoinScanThread, CommandLock, ResponsePart, ResponseRest, CommandReturn, CommandIgnored,
         SetMotorRpm, SetMotorRpmReturn, GrabScanData, EventBlock, EventTake, EventTimeout,
         GrabLock, CopyBegin, CopyRetest, CopyEnd, session
    <3>2. CASE StartScan
      BY <3>2 DEF StartScan
    <3>3. ASSUME NEW t \in Threads, ThreadStep(t) \/ ReceiveSome(t)
          PROVE  serial_open' = serial_open
      BY <3>3 DEF ThreadStep, ReceiveEnd, ThreadStart, LoopAgain, LoopExit, ThreadReturn,
         ReceiveSome, ReceivePacket, ReceivePart, ReceiveRest, ReceiveTurn, ReceiveUndefined,
         ReceiveTimeout, ReceiveFail, PublishLock, PublishSwap, PublishSignal, PublishUnlock,
         session
    <3>4. CASE UNCHANGED vars
      BY <3>4 DEF vars, session
    <3> QED
      BY <1>1, <3>1, <3>2, <3>3, <3>4, StepKinds
  <2> QED
    BY <1>1, <2>1, <2>2, <2>3, <2>4, <2>5 DEF PortTurnsOver
<1>2. IInv /\ [Next]_vars => (PortTurnsOver => \A a \in Actors : ~ReadsPort(a))
  BY <1>1
<1> QED
  BY <1>2, Invariance, PTL DEF Spec

-----------------------------------------------------------------------------
(* The event.                                                              *)

VARIABLE answer  (* history: what each client's latest wait() answered *)

(* A wait ends where the client goes on with the signal, or returns from   *)
(* grabScanData() without it.                                              *)
Answers ==
  answer' = [c \in Clients |->
               IF pc[c] # "woken" /\ pc'[c] = "woken" THEN "EVENT_OK"
               ELSE IF pc[c] = "blocked" /\ pc'[c] = "idle" THEN "EVENT_TIMEOUT"
               ELSE answer[c]]

AnsweredSpec ==
  /\ Init /\ answer = [c \in Clients |-> "none"]
  /\ [][Next /\ Answers]_<<vars, answer>>

Blocked == {c \in Clients : pc[c] = "blocked"}

UsedEvent == INSTANCE AutoResetEvent
  WITH Waiters <- Clients, mark <- signalled, waiting <- Blocked

LEMMA EventUsed ==
  ASSUME TypeOK, answer \in [Clients -> {"none", "EVENT_OK", "EVENT_TIMEOUT"}], Next, Answers
  PROVE  UsedEvent!ENext \/ UNCHANGED UsedEvent!evars
<1> USE DEF Goto
<1>1. pc \in [Clients -> ClientPCs] /\ DOMAIN answer = Clients
  BY DEF TypeOK
<1>2. ASSUME NEW c \in Clients, EventBlock(c) PROVE UsedEvent!Block(c)
  <2>1. Blocked' = Blocked \cup {c}
    BY <1>1, <1>2 DEF EventBlock, Blocked
  <2>2. answer' = answer
    BY <1>1, <1>2 DEF EventBlock, Answers
  <2> QED
    BY <1>2, <2>1, <2>2 DEF EventBlock, UsedEvent!Block
<1>3. ASSUME NEW c \in Clients, EventTake(c) PROVE UsedEvent!Take(c)
  <2>1. Blocked' = Blocked \ {c}
    BY <1>1, <1>3 DEF EventTake, Blocked
  <2>2. answer' = [answer EXCEPT ![c] = "EVENT_OK"]
    BY <1>1, <1>3 DEF EventTake, Answers
  <2> QED
    BY <1>3, <2>1, <2>2 DEF EventTake, UsedEvent!Take
<1>4. ASSUME NEW c \in Clients, EventTimeout(c) PROVE UsedEvent!Expire(c)
  <2>1. Blocked' = Blocked \ {c} /\ c \in Blocked
    BY <1>1, <1>4 DEF EventTimeout, Blocked
  <2>2. answer' = [answer EXCEPT ![c] = "EVENT_TIMEOUT"]
    BY <1>1, <1>4 DEF EventTimeout, Answers
  <2> QED
    BY <1>4, <2>1, <2>2 DEF EventTimeout, UsedEvent!Expire
<1>5. ASSUME NEW t \in Threads, PublishSignal(t) PROVE UsedEvent!EventSet
  <2>1. pc' = pc
    BY <1>5 DEF PublishSignal, clients
  <2> QED
    BY <1>1, <1>5, <2>1 DEF PublishSignal, UsedEvent!EventSet, Blocked, Answers
<1>6. ASSUME \A c \in Clients : ~EventBlock(c) /\ ~EventTake(c) /\ ~EventTimeout(c),
             \A t \in Threads : ~PublishSignal(t)
      PROVE  UNCHANGED UsedEvent!evars
  <2>1. /\ signalled' = signalled
        /\ \A c \in Clients : /\ (pc'[c] = "blocked") <=> (pc[c] = "blocked")
                              /\ pc'[c] = "woken" => pc[c] = "woken"
    <3>1. CASE ApiStep
      BY <1>1, <1>6, <3>1 DEF ApiStep, GrabStep, Connect, StartCheck, StopGrabbing, Delete,
         JoinScanThread, CommandLock, ResponsePart, ResponseRest, CommandReturn, CommandIgnored,
         CloseSerial, SetMotorRpm, SetMotorRpmReturn, GrabScanData, GrabLock, CopyBegin,
         CopyRetest, CopyEnd
    <3>2. CASE StartScan
      BY <1>1, <3>2 DEF StartScan
    <3>3. ASSUME NEW t \in Threads, ThreadStep(t) \/ ReceiveSome(t)
          PROVE  signalled' = signalled /\ pc' = pc
      BY <1>6, <3>3 DEF ThreadStep, ReceiveEnd, ThreadStart, LoopAgain, LoopExit, ThreadReturn,
         ReceiveSome, ReceivePacket, ReceivePart, ReceiveRest, ReceiveTurn, ReceiveUndefined,
         ReceiveTimeout, ReceiveFail, PublishLock, PublishSwap, PublishUnlock, clients
    <3>4. CASE UNCHANGED vars
      BY <3>4 DEF vars, clients
    <3> QED
      BY <3>1, <3>2, <3>3, <3>4, StepKinds
  <2>2. Blocked' = Blocked
    BY <2>1 DEF Blocked
  <2>3. answer' = answer
    BY <1>1, <2>1 DEF Answers
  <2> QED
    BY <2>1, <2>2, <2>3 DEF UsedEvent!evars
<1> QED
  BY <1>2, <1>3, <1>4, <1>5, <1>6 DEF UsedEvent!ENext

(* The driver uses its event as AutoResetEvent has it, which class Event   *)
(* implements (Event_proof): the scan thread raises it, grabScanData()     *)
(* waits for it, and nothing else touches it.                              *)
THEOREM DriverUsesEvent == AnsweredSpec => UsedEvent!ESpec
<1> DEFINE AnswerOK == answer \in [Clients -> {"none", "EVENT_OK", "EVENT_TIMEOUT"}]
<1>1. Init /\ answer = [c \in Clients |-> "none"] => UsedEvent!EInit /\ AnswerOK
  BY DEF Init, UsedEvent!EInit, Blocked
<1>2. AnswerOK /\ [Next /\ Answers]_<<vars, answer>> => AnswerOK'
  BY DEF Answers
<1>3. TypeOK /\ AnswerOK /\ [Next /\ Answers]_<<vars, answer>>
        => [UsedEvent!ENext]_(UsedEvent!evars)
  <2>1. UNCHANGED <<vars, answer>> => UNCHANGED UsedEvent!evars
    BY DEF vars, clients, Blocked, UsedEvent!evars
  <2> QED
    BY <2>1, EventUsed
<1>4. [Next /\ Answers]_<<vars, answer>> => [Next]_vars
  OBVIOUS
<1>5. AnsweredSpec => Spec
  BY <1>4, PTL DEF AnsweredSpec, Spec
<1> QED
  BY <1>1, <1>2, <1>3, <1>5, TypeCorrect, PTL DEF AnsweredSpec, UsedEvent!ESpec

=============================================================================
