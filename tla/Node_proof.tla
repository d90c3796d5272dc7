----------------------------- MODULE Node_proof -----------------------------
(***************************************************************************)
(* The safety properties of main() of ttlidar_node, proved for any number  *)
(* of packets, any length of a turn and of the array that is copied into.  *)
(* What is proved of the driver holds under main(): its steps are the      *)
(* driver's.                                                               *)
(***************************************************************************)
EXTENDS Node, DriverMailbox_proof

USE ConstantsAssumption, OwnersAssumption, NodeAssumption

(* A step of main() or beside it is a step of the driver or none.          *)
LEMMA NodeStepIsDriverStep ==
  ASSUME [NodeNext]_nvars
  PROVE  [Next]_vars
<1>1. CASE UNCHANGED nvars \/ Shutdown
  BY <1>1 DEF nvars, Shutdown
<1>2. CASE NodeConnect \/ NodeStartScan \/ NodeDisconnect \/ NodeDelete
  BY <1>2 DEF NodeConnect, NodeStartScan, NodeDisconnect, NodeDelete, Next, ControllerCall,
     ControllerStep
<1>3. CASE NodeGrab \/ NodeGrabTimeout \/ NodePublish
  BY <1>3 DEF NodeGrab, NodeGrabTimeout, NodePublish, Next, GrabStep
<1>4. CASE NodeInside
  BY <1>4 DEF NodeInside, NodeWait, NodeCopy, NodeStopping, Next, GrabStep, ControllerStep,
     ResponseEnd
<1>5. ASSUME NEW t \in Threads, ScanThread(t) PROVE [Next]_vars
  BY <1>5 DEF ScanThread, Next
<1>6. CASE NodeReturned
  BY <1>6 DEF NodeReturned, Deleted
<1>7. CASE NodeResponse
  BY <1>7 DEF NodeResponse, Next
<1> QED
  BY <1>1, <1>2, <1>3, <1>4, <1>5, <1>6, <1>7 DEF NodeNext, Main

(* main() uses the driver as its interface says: whatever is proved of     *)
(* TTlidarDriver for any use holds under the node.                         *)
THEOREM NodeUsesDriver == NodeSpec => Spec
<1>1. NodeInit => Init
  BY DEF NodeInit
<1> QED
  BY <1>1, NodeStepIsDriverStep, PTL DEF NodeSpec, Spec

(* One scan thread is made, and it is joined before anything else is       *)
(* stopped; the port is open only on a connected driver.                   *)
OneThreadMade ==
  /\ scanthread \in {0, 1}
  /\ at \in {"connect", "failed", "start", "starting"} => scanthread = 0

ThreadJoined ==
  pc[Controller] \in {"command", "response", "partial", "close", "deleted"} =>
    scanthread = 0 \/ scanthread \in joined

PortClosed ==
  /\ serial_open => is_connected
  /\ pc[Controller] = "deleted" => ~serial_open

NInv ==
  /\ IInv
  /\ NodeTypeOK
  /\ OneThreadMade
  /\ ThreadJoined
  /\ PortClosed

(* What the scan thread's steps leave to main().                           *)
LEMMA ScanThreadFrame ==
  ASSUME NEW t \in Threads, ScanThread(t)
  PROVE  UNCHANGED <<node, clients, is_connected, serial_open, scanthread, joined>>
BY DEF ScanThread, ThreadStep, ReceiveEnd, ReceiveSome, ThreadStart, LoopAgain, LoopExit,
   ThreadReturn, ReceivePacket, ReceivePart, ReceiveRest, ReceiveTurn, ReceiveUndefined,
   ReceiveTimeout, ReceiveFail, PublishLock, PublishSwap, PublishSignal, PublishUnlock, session

(* Where each step of main() takes it, with what it does to the session.   *)
LEMMA MainSteps ==
  ASSUME Main \/ NodeResponse \/ Shutdown \/ NodeReturned \/ UNCHANGED nvars
  PROVE  \/ NodeConnect
         \/ NodeStartScan
         \/ NodeGrab
         \/ NodeGrabTimeout
         \/ NodePublish
         \/ NodeDisconnect
         \/ NodeDelete
         \/ (NodeWait /\ UNCHANGED node)
         \/ (NodeCopy /\ UNCHANGED node)
         \/ (NodeStopping /\ UNCHANGED node)
         \/ (ResponseSome /\ UNCHANGED node)
         \/ UNCHANGED <<vars, at, message>>
BY DEF Main, NodeResponse, Shutdown, NodeInside, NodeReturned, Deleted, nvars, node, vars

(* The types of main()'s own variables.                                    *)
NodeTypes ==
  /\ at \in {"connect", "failed", "start", "starting", "loop", "grab", "disconnect", "delete"}
  /\ ok \in BOOLEAN
  /\ message \in -1 .. MaxPoints

LEMMA NodeTypesStep ==
  ASSUME NInv, NodeNext \/ UNCHANGED nvars
  PROVE  NodeTypes'
<1> USE DEF NodeTypes
<1>1. NodeTypes /\ TypeOK
  BY DEF NInv, NodeTypeOK, IInv
<1>2. at' \in {"connect", "failed", "start", "starting", "loop", "grab", "disconnect", "delete"}
  BY <1>1 DEF NodeNext, Main, Shutdown, NodeConnect, NodeStartScan, NodeGrab, NodeGrabTimeout,
     NodePublish, NodeDisconnect, NodeDelete, NodeInside, NodeResponse, ScanThread,
     NodeReturned, NGoto, node, nvars
<1>3. ok' \in BOOLEAN
  BY <1>1 DEF NodeNext, Main, Shutdown, NodeConnect, NodeStartScan, NodeGrab, NodeGrabTimeout,
     NodePublish, NodeDisconnect, NodeDelete, NodeInside, NodeResponse, ScanThread, NodeReturned,
     node, nvars
<1>4. CASE NodePublish
  BY <1>1, <1>2, <1>3, <1>4 DEF NodePublish, TypeOK
<1>5. message' = message \/ NodePublish
  BY DEF NodeNext, Main, Shutdown, NodeConnect, NodeStartScan, NodeGrab, NodeGrabTimeout,
     NodeDisconnect, NodeDelete, NodeInside, NodeResponse, ScanThread, NodeReturned, node, nvars
<1> QED
  BY <1>1, <1>2, <1>3, <1>4, <1>5

(* Each call is entered from its statement and returns to it.              *)
LEMMA CallsStep ==
  ASSUME NInv, NodeNext \/ UNCHANGED nvars
  PROVE  CallsInOrder'
<1> USE DEF CallsInOrder, Goto, NGoto
<1>1. /\ CallsInOrder /\ pc \in [Clients -> ClientPCs] /\ Controller \in Clients
      /\ at \in {"connect", "failed", "start", "starting", "loop", "grab", "disconnect", "delete"}
      /\ is_connected \in BOOLEAN
  BY DEF NInv, IInv, TypeOK, NodeTypeOK
<1>2. CASE NodeConnect
  BY <1>1, <1>2 DEF NodeConnect, Connect
<1>3. CASE NodeStartScan
  BY <1>1, <1>3 DEF NodeStartScan, StartCheck, StartScan, session
<1>4. CASE NodeGrab
  BY <1>1, <1>4 DEF NodeGrab, GrabScanData, session
<1>5. CASE NodeGrabTimeout
  BY <1>1, <1>5 DEF NodeGrabTimeout, EventTimeout, session
<1>6. CASE NodePublish
  BY <1>1, <1>6 DEF NodePublish, CopyEnd, session
<1>7. CASE NodeDisconnect
  BY <1>1, <1>7 DEF NodeDisconnect, Disconnect, StopGrabbing
<1>8. CASE NodeDelete
  BY <1>1, <1>8 DEF NodeDelete, Delete, StopGrabbing, session
<1>9. CASE NodeWait /\ UNCHANGED node
  BY <1>1, <1>9 DEF NodeWait, EventBlock, EventTake, session, node
<1>10. CASE NodeCopy /\ UNCHANGED node
  BY <1>1, <1>10 DEF NodeCopy, GrabLock, CopyBegin, CopyRetest, session, node
<1>11. CASE NodeStopping /\ UNCHANGED node
  BY <1>1, <1>11 DEF NodeStopping, JoinScanThread, CommandLock, CommandIgnored, CloseSerial,
     Deleting, session, node
<1>12. CASE UNCHANGED <<vars, at, message>>
  BY <1>1, <1>12 DEF vars, session, clients
<1>13. ASSUME NEW t \in Threads, ScanThread(t) PROVE CallsInOrder'
  BY <1>1, <1>13, ScanThreadFrame DEF node, clients
<1>14. CASE ResponseSome /\ UNCHANGED node
  BY <1>1, <1>14 DEF ResponseSome, ResponsePart, ResponseRest, session, node
<1> QED
  BY <1>2, <1>3, <1>4, <1>5, <1>6, <1>7, <1>8, <1>9, <1>10, <1>11, <1>12, <1>13,
     <1>14, MainSteps DEF NodeNext

(* startScan() is called once.                                             *)
LEMMA OneThreadStep ==
  ASSUME NInv, NodeNext \/ UNCHANGED nvars
  PROVE  OneThreadMade'
<1> USE DEF OneThreadMade, NGoto
<1>1. OneThreadMade /\ CallsInOrder
  BY DEF NInv, NodeTypeOK
<1>2. CASE NodeStartScan
  BY <1>1, <1>2 DEF NodeStartScan, StartCheck, StartScan, session
<1>3. CASE NodeConnect
  BY <1>1, <1>3 DEF NodeConnect, Connect
<1>4. CASE NodeGrab \/ NodeGrabTimeout \/ NodePublish
  BY <1>1, <1>4 DEF NodeGrab, NodeGrabTimeout, NodePublish, GrabScanData, EventTimeout, CopyEnd,
     session
<1>5. CASE NodeDisconnect \/ NodeDelete
  BY <1>1, <1>5 DEF NodeDisconnect, NodeDelete, Disconnect, Delete, StopGrabbing, session
<1>6. CASE (NodeWait \/ NodeCopy \/ NodeStopping \/ ResponseSome) /\ UNCHANGED node
  BY <1>1, <1>6 DEF NodeWait, NodeCopy, NodeStopping, EventBlock, EventTake, GrabLock, CopyBegin,
     CopyRetest, ResponseSome, ResponsePart, ResponseRest, JoinScanThread, CommandLock,
     CommandIgnored, CloseSerial, session, node
<1>7. CASE UNCHANGED <<vars, at, message>>
  BY <1>1, <1>7 DEF vars, session
<1>8. ASSUME NEW t \in Threads, ScanThread(t) PROVE OneThreadMade'
  BY <1>1, <1>8, ScanThreadFrame DEF node
<1> QED
  BY <1>2, <1>3, <1>4, <1>5, <1>6, <1>7, <1>8, MainSteps DEF NodeNext

(* Only the join leads to where the thread must have been joined; a driver *)
(* that never connected has none, and no open port.                        *)
LEMMA StoppedStep ==
  ASSUME NInv, NodeNext \/ UNCHANGED nvars
  PROVE  ThreadJoined' /\ PortClosed'
<1> USE DEF ThreadJoined, PortClosed, Goto, NGoto
<1>1. /\ ThreadJoined /\ PortClosed /\ OneThreadMade /\ CallsInOrder
      /\ pc \in [Clients -> ClientPCs] /\ Controller \in Clients
      /\ is_connected \in BOOLEAN
  BY DEF NInv, NodeTypeOK, IInv, TypeOK
<1>2. CASE NodeConnect
  BY <1>1, <1>2 DEF NodeConnect, Connect
<1>3. CASE NodeStartScan
  BY <1>1, <1>3 DEF NodeStartScan, StartCheck, StartScan, session
<1>4. CASE NodeGrab \/ NodeGrabTimeout \/ NodePublish
  BY <1>1, <1>4 DEF NodeGrab, NodeGrabTimeout, NodePublish, GrabScanData, EventTimeout, CopyEnd,
     session
<1>5. CASE NodeDisconnect
  BY <1>1, <1>5 DEF NodeDisconnect, Disconnect, StopGrabbing
<1>6. CASE NodeDelete
  BY <1>1, <1>6 DEF NodeDelete, Delete, StopGrabbing, session, OneThreadMade, CallsInOrder
<1>7. CASE (NodeWait \/ NodeCopy) /\ UNCHANGED node
  BY <1>1, <1>7 DEF NodeWait, NodeCopy, EventBlock, EventTake, GrabLock, CopyBegin, CopyRetest,
     session
<1>8. CASE NodeStopping /\ UNCHANGED node
  BY <1>1, <1>8 DEF NodeStopping, JoinScanThread, CommandLock, CommandIgnored, CloseSerial, session
<1>9. CASE UNCHANGED <<vars, at, message>>
  BY <1>1, <1>9 DEF vars, session, clients
<1>10. ASSUME NEW t \in Threads, ScanThread(t) PROVE ThreadJoined' /\ PortClosed'
  BY <1>1, <1>10, ScanThreadFrame DEF clients
<1>11. CASE ResponseSome /\ UNCHANGED node
  BY <1>1, <1>11 DEF ResponseSome, ResponsePart, ResponseRest, session
<1> QED
  BY <1>2, <1>3, <1>4, <1>5, <1>6, <1>7, <1>8, <1>9, <1>10, <1>11, MainSteps
     DEF NodeNext

(* The invariant holds when main() has constructed the driver, and every   *)
(* step keeps it.                                                          *)
LEMMA NodeInvariance == NodeSpec => []NInv
<1>1. ASSUME NodeInit PROVE NInv
  <2>1. IInv
    BY <1>1, InitIInv DEF NodeInit
  <2>2. NodeTypes
    <3>1. -1 \in -1 .. MaxPoints
      OBVIOUS
    <3> QED
      BY <1>1, <3>1 DEF NodeInit, NodeTypes
  <2>3. CallsInOrder /\ OneThreadMade /\ ThreadJoined /\ PortClosed
    BY <1>1 DEF NodeInit, Init, CallsInOrder, OneThreadMade, ThreadJoined, PortClosed
  <2> QED
    BY <2>1, <2>2, <2>3 DEF NInv, NodeTypeOK, NodeTypes
<1>2. ASSUME NInv, [NodeNext]_nvars PROVE NInv'
  <2>1. IInv'
    BY <1>2, NodeStepIsDriverStep, StepIInv DEF NInv
  <2> QED
    BY <1>2, <2>1, NodeTypesStep, CallsStep, OneThreadStep, StoppedStep
       DEF NInv, NodeTypeOK, NodeTypes
<1> QED
  BY <1>1, <1>2, PTL DEF NodeSpec

(* main() is only in the call that its statement makes, and calls nothing  *)
(* but connect() on a driver that is not connected; no message has more    *)
(* points than a turn.                                                     *)
THEOREM NodeTypeCorrect == NodeSpec => []NodeTypeOK
<1>1. NInv => NodeTypeOK
  BY DEF NInv
<1> QED
  BY <1>1, NodeInvariance, PTL

(* Whenever main() returns, every scan thread that was made has returned   *)
(* and was joined, and the port is closed, whether or not the lidar could  *)
(* be opened.                                                              *)
THEOREM NodeExitsCleanly == NodeSpec => []CleanExit
<1>1. ASSUME NInv PROVE CleanExit
  <2> SUFFICES ASSUME pc[Controller] = "deleted"
               PROVE  /\ \A t \in Threads : tpc[t] = "none" \/ (tpc[t] = "exited" /\ t \in joined)
                      /\ ~serial_open
    BY DEF CleanExit
  <2>1. ~serial_open
    BY <1>1 DEF NInv, PortClosed
  <2>2. ASSUME NEW t \in Threads, tpc[t] # "none" PROVE tpc[t] = "exited" /\ t \in joined
    <3>1. tpc[t] = "exited"
      BY <1>1, <2>2 DEF NInv, IInv, ThreadsInOrder, Live
    <3>2. ~(t > scanthread)
      BY <1>1, <2>2 DEF NInv, IInv, ThreadsInOrder
    <3>3. t = 1 /\ scanthread = 1
      BY <1>1, <3>2 DEF NInv, OneThreadMade, Threads
    <3> QED
      BY <1>1, <3>1, <3>3 DEF NInv, ThreadJoined
  <2> QED
    BY <2>1, <2>2
<1> QED
  BY <1>1, NodeInvariance, PTL

(* The count that grabScanData() clears is the one it copied: main() holds *)
(* _lock, without which no scan thread changes it (CopyCounts).            *)
THEOREM ScansAreNotDiscarded == NodeSpec => []NoScanDiscarded
<1>1. NInv => NoScanDiscarded
  BY DEF NInv, IInv, CopyCounts, NoScanDiscarded
<1> QED
  BY <1>1, NodeInvariance, PTL

(* The handle is 1 at most, so no later thread starts. *)
LEMMA NodeWithinSession == NInv => WithinSession
BY DEF NInv, IInv, TypeOK, ThreadsInOrder, OneThreadMade, WithinSession, SameSession, Threads

(* Under main() of ttlidar_node the driver's hand-over is a one-slot       *)
(* mailbox, whatever the driver itself would allow: main() calls           *)
(* startScan() once.  Each scan is published at most once, whole, and none *)
(* after a later one.                                                      *)
THEOREM NodeIsMailbox == NodeSpec => IsMailbox
<1>1. IInv /\ IInv' /\ HandedOver /\ WithinSession /\ WithinSession' /\ [NodeNext]_nvars
        => [Mailbox!MNext]_(Mailbox!mvars)
  BY NodeStepIsDriverStep, MailboxStep
<1>2. NodeInit => Mailbox!MInit
  BY MailboxInit DEF NodeInit
<1> QED
  BY <1>1, <1>2, NodeWithinSession, NodeInvariance, NodeUsesDriver, HandedOverInvariance, PTL
     DEF NodeSpec, IsMailbox, Mailbox!MSpec

(* Whoever wants the lock, or the thread's end, while main() runs waits    *)
(* for somebody who waits for nobody: main() and the scan thread never     *)
(* wait for each other.                                                    *)
THEOREM NodeHasNoCircularWait ==
  NodeSpec => [](\A x, y \in Actors : WaitsFor(x, y) => GoesOn(y))
<1>1. ASSUME IInv, HandlesAreThreads, NEW x \in Actors, NEW y \in Actors, WaitsFor(x, y)
      PROVE  GoesOn(y)
  <2>1. CASE lock # Free /\ y = lock
    BY <1>1, <2>1, HolderGoesOn
  <2>2. CASE y \in Threads /\ Joins(x, y)
    <3>1. pc[Controller] = "join" /\ y = scanthread /\ tpc[y] # "exited" /\ y \in Nat
      BY <2>2 DEF Joins, Threads
    <3>2. Live(y)
      BY <1>1, <2>2, <3>1 DEF HandlesAreThreads, Live
    <3>3. ASSUME tpc[y] = "lock", lock # Free PROVE FALSE
      <4>1. lock \in Clients \cup Threads
        BY <1>1, <3>3 DEF IInv, TypeOK
      <4>2. CASE lock \in Clients
        BY <1>1, <3>1, <4>2 DEF IInv, LockHeld
      <4>3. CASE lock \in Threads
        <5>1. tpc[lock] \in {"publish", "signal", "unlock"} /\ lock = scanthread
          BY <1>1, <4>3 DEF IInv, LockHeld, ThreadsInOrder, OneScanThread, Live
        <5> QED
          BY <3>1, <3>3, <5>1
      <4> QED
        BY <3>3, <4>1, <4>2, <4>3
    <3> QED
      BY <2>2, <3>2, <3>3 DEF GoesOn
  <2> QED
    BY <1>1, <2>1, <2>2 DEF WaitsFor
<1>2. NInv /\ HandlesAreThreads => \A x, y \in Actors : WaitsFor(x, y) => GoesOn(y)
  BY <1>1 DEF NInv
<1> QED
  BY <1>2, NodeInvariance, NodeUsesDriver, HandlesInvariance, PTL

(* main() calls no setMotorRpm(), so one thread at a time takes bytes from *)
(* the port: main() for a response, or the scan thread.                    *)
THEOREM NodePortHasOneReader ==
  NodeSpec => [](\A a, b \in Actors : ReadsPort(a) /\ ReadsPort(b) => a = b)
<1>1. NInv => ~InSetMotorRpm
  BY DEF NInv, CallsInOrder, NodeTypeOK, InSetMotorRpm
<1>2. Spec => [](\A a, b \in Actors :
                   ReadsPort(a) /\ ReadsPort(b) => a = b \/ InSetMotorRpm)
  BY PortHasOneReader
<1>3. NInv /\ (\A a, b \in Actors :
                 ReadsPort(a) /\ ReadsPort(b) => a = b \/ InSetMotorRpm)
        => \A a, b \in Actors : ReadsPort(a) /\ ReadsPort(b) => a = b
  BY <1>1
<1> QED
  BY <1>2, <1>3, NodeInvariance, NodeUsesDriver, PTL

=============================================================================
