------------------------ MODULE DriverMailbox_proof -------------------------
(***************************************************************************)
(* The driver's hand-over implements the one-slot mailbox, for any number  *)
(* of clients, packets and points: from end to end when startScan()        *)
(* creates at most one scan thread, and in every step that does not begin  *)
(* another session when it creates more.                                   *)
(***************************************************************************)
EXTENDS DriverMailbox, TTlidarDriver_proof

USE ConstantsAssumption, OwnersAssumption

(* Points are only there to be fetched after a hand-over. *)
HandedOver == buff_count # 0 => published.by # 0

LEMMA HandedOverStep ==
  ASSUME IInv, HandedOver, [Next]_vars
  PROVE  HandedOver'
<1> USE DEF HandedOver
<1>1. ASSUME NEW t \in Threads, PublishSwap(t) PROVE published'.by # 0
  BY <1>1 DEF PublishSwap, Threads
<1>2. ASSUME \A t \in Threads : ~PublishSwap(t)
      PROVE  published' = published /\ buff_count' \in {buff_count, 0}
  BY <1>2, StepKinds, ApiFrame DEF StartScan, ThreadStep, ReceiveEnd, ReceiveSome, ThreadStart,
     LoopAgain, LoopExit, ThreadReturn, ReceivePacket, ReceivePart, ReceiveRest, ReceiveTurn,
     ReceiveUndefined, ReceiveTimeout, ReceiveFail, PublishLock, PublishSignal, PublishUnlock,
     handover, vars
<1> QED
  BY <1>1, <1>2

(* A fetch that copies points copies some that were handed over.           *)
LEMMA CopiedWasHandedOver ==
  ASSUME IInv, HandedOver, NEW c \in Clients, pc[c] = "copying", copy[c].n # 0
  PROVE  published.by # 0 /\ buff_count # 0
BY DEF HandedOver, IInv, CopyCounts, Min2, TypeOK

(* No thread has started after the one that made the latest hand-over, if  *)
(* there was any.                                                          *)
WithinSession == published.by # 0 => SameSession

(* That is so as long as there is one thread. *)
LEMMA OneSession ==
  ASSUME MaxThreads <= 1, TypeOK
  PROVE  WithinSession
BY DEF WithinSession, SameSession, TypeOK, Threads

(* The copying client holds the lock, so there is one at most. *)
LEMMA OneCopies ==
  ASSUME IInv, NEW c \in Clients, pc[c] \in {"copy", "retest", "copying"}
  PROVE  /\ \A d \in Clients \ {c} : pc[d] # "copying"
         /\ \A t \in Threads : ~PublishSwap(t)
BY DEF IInv, LockHeld, PublishSwap, TGoto

(* A step that publishes nothing and fetches nothing is not visible in the *)
(* mailbox.                                                                *)
LEMMA Unseen ==
  ASSUME IInv, HandedOver, WithinSession, WithinSession', [Next]_vars,
         \A t \in Threads : ~PublishSwap(t),
         buff_count' = buff_count,
         \A c \in Clients : (pc'[c] = "copying") <=> (pc[c] = "copying"),
         \A c \in Clients : pc[c] = "copying" => copy'[c] = copy[c]
  PROVE  Slot' = Slot /\ \A c \in Clients : Taken(c)' = Taken(c)
<1>1. published.by # 0 => flag' = flag /\ buffers'[flag] = buffers[flag]
  <2> SUFFICES ASSUME published.by # 0 PROVE flag' = flag /\ buffers'[flag] = buffers[flag]
    OBVIOUS
  <2>1. published' = published
    BY StepKinds, ApiFrame DEF StartScan, ThreadStep, ReceiveEnd, ReceiveSome, ThreadStart,
       LoopAgain, LoopExit, ThreadReturn, ReceivePacket, ReceivePart, ReceiveRest, ReceiveTurn,
       ReceiveUndefined, ReceiveTimeout, ReceiveFail, PublishLock, PublishSignal, PublishUnlock,
       handover, vars
  <2>2. SameSession'
    BY <2>1 DEF WithinSession
  <2> QED
    BY <2>2, PublishedBufferStep DEF IInv
<1>2. Slot' = Slot
  BY <1>1 DEF Slot, HandedOver
<1>3. ASSUME NEW c \in Clients PROVE Taken(c)' = Taken(c)
  <2> SUFFICES ASSUME pc[c] = "copying", copy[c].n # 0 PROVE Taken(c)' = Taken(c)
    BY DEF Taken
  <2>1. copy[c].from = flag
    BY CopiedWasHandedOver DEF WithinSession, IInv, CopyFromPublished
  <2> QED
    BY <1>1, <2>1, CopiedWasHandedOver DEF Taken
<1> QED
  BY <1>2, <1>3

LEMMA Quiet ==
  ASSUME IInv, [Next]_vars,
         \A t \in Threads : ~PublishSwap(t),
         \A c \in Clients : ~CopyRetest(c) /\ ~CopyEnd(c),
         \A c \in Clients : CopyBegin(c) => flag # "left"
  PROVE  /\ buff_count' = buff_count
         /\ \A c \in Clients : (pc'[c] = "copying") <=> (pc[c] = "copying")
         /\ \A c \in Clients : pc[c] = "copying" => copy'[c] = copy[c]
<1>1. buff_count' = buff_count
  BY CountFrame
<1>2. TypeOK /\ StartBound /\ ThreadsInOrder
  BY DEF IInv
<1>3. ASSUME NEW c \in Clients, pc'[c] = "copying"
      PROVE  pc[c] = "copying" /\ copy'[c] = copy[c]
  <2>1. ~CopyBegin(c)
    BY <1>3 DEF CopyBegin, Goto, IInv, TypeOK
  <2> QED
    BY <1>2, <1>3, <2>1, CopySteps
<1>4. ASSUME NEW c \in Clients, pc[c] = "copying"
      PROVE  pc'[c] = "copying"
  <2>1. CASE ApiStep
    <3> USE DEF Goto, IInv, TypeOK
    <3>1. ASSUME NEW d \in Clients, GrabScanData(d) \/ GrabStep(d) PROVE pc'[c] = "copying"
      BY <1>4, <3>1 DEF GrabStep, GrabScanData, EventBlock, EventTake, EventTimeout, GrabLock,
         CopyBegin
    <3>2. CASE ~\E d \in Clients : GrabScanData(d) \/ GrabStep(d)
      BY <1>4, <2>1, <3>2 DEF ApiStep, Connect, StartCheck, StopGrabbing, Delete, JoinScanThread,
         CommandLock, CommandReturn, CommandIgnored, CloseSerial, SetMotorRpm, SetMotorRpmReturn,
         ResponsePart, ResponseRest
    <3> QED
      BY <3>1, <3>2
  <2>2. CASE StartScan
    BY <1>4, <2>2 DEF StartScan, Goto, IInv, TypeOK
  <2>3. ASSUME NEW t \in Threads, ThreadStep(t) \/ ReceiveSome(t) PROVE pc' = pc
    BY <1>2, <2>3, ThreadFrame DEF clients
  <2>4. CASE UNCHANGED vars
    BY <1>4, <2>4 DEF vars, clients
  <2> QED
    BY <1>4, <2>1, <2>2, <2>3, <2>4, StepKinds
<1> QED
  BY <1>1, <1>3, <1>4

(* The swap under the lock is one Put. *)
LEMMA SwapPuts ==
  ASSUME IInv, IInv', NEW t \in Threads, PublishSwap(t)
  PROVE  \E s \in Scans \cup {NoScan} : Mailbox!Put(s)
<1>1. \A c \in Clients : pc[c] # "copying"
  BY DEF PublishSwap, TGoto, IInv, LockHeld
<1>2. UNCHANGED clients
  BY ThreadFrame DEF ThreadStep, IInv
<1>3. \A c \in Clients : Taken(c) = NoScan /\ Taken(c)' = NoScan
  BY <1>1, <1>2 DEF Taken, clients
<1>4. [c \in Clients |-> Taken(c)]' = [c \in Clients |-> Taken(c)]
  BY <1>3
<1>5. Slot' \in Scans \cup {NoScan}
  <2> SUFFICES ASSUME buff_count' # 0 PROVE [version |-> buffers'[flag'], n |-> buff_count'] \in Scans
    BY DEF Slot
  <2> QED
    BY DEF Scans, IInv, TypeOK
<1> QED
  BY <1>4, <1>5 DEF Mailbox!Put

(* Where the copy begins, the fetch takes the scan out of the slot: the    *)
(* flag still says right when it is asked again, within a session.         *)
LEMMA CopyTakes ==
  ASSUME IInv, HandedOver, WithinSession, NEW c \in Clients,
         (CopyBegin(c) /\ flag = "left") \/ CopyRetest(c)
  PROVE  Mailbox!Take(c) \/ UNCHANGED Mailbox!mvars
<1>1. pc'[c] = "copying" /\ pc[c] # "copying" /\ lock = c
  BY DEF CopyBegin, CopyRetest, Goto, IInv, TypeOK, LockHeld
<1>2. \A d \in Clients \ {c} : pc[d] # "copying" /\ pc'[d] # "copying"
  BY <1>1 DEF CopyBegin, CopyRetest, Goto, IInv, TypeOK, LockHeld
<1>3. /\ UNCHANGED <<flag, buffers, buff_count>>
      /\ copy'[c].n = Min2(Room, buff_count)
      /\ buff_count # 0 => copy'[c].from = flag
  <2>1. CASE CopyBegin(c) /\ flag = "left"
    BY <2>1 DEF CopyBegin, handover, IInv, TypeOK
  <2>2. CASE CopyRetest(c)
    <3>1. pc[c] = "retest" /\ UNCHANGED <<flag, buffers, buff_count>>
      BY <2>2 DEF CopyRetest, Goto, handover
    <3>2. copy[c].n = Min2(Room, buff_count)
      BY <3>1 DEF IInv, CopyCounts
    <3>3. copy \in [Clients ->
                    [from : Buffers \cup {"none"}, seen : 0 .. MaxPackets, n : 0 .. MaxPoints]]
      BY DEF IInv, TypeOK
    <3>4. copy'[c].n = copy[c].n
      BY <2>2, <3>3 DEF CopyRetest
    <3>5. buff_count # 0 => flag = "right"
      <4>1. CopyFromPublished
        BY DEF IInv
      <4> QED
        BY <3>1, <4>1 DEF HandedOver, WithinSession, CopyFromPublished
    <3>6. flag = "right" => copy'[c].from = flag
      BY <2>2, <3>3 DEF CopyRetest
    <3> QED
      BY <3>1, <3>2, <3>4, <3>5, <3>6
  <2> QED
    BY <2>1, <2>2
<1>4. Slot' = NoScan
  BY <1>1 DEF Slot
<1>5. \A d \in Clients \ {c} : Taken(d) = NoScan /\ Taken(d)' = NoScan
  BY <1>2 DEF Taken
<1>6. Taken(c) = NoScan
  BY <1>1 DEF Taken
<1>7. CASE buff_count = 0
  <2>1. Slot = NoScan /\ copy'[c].n = 0
    BY <1>3, <1>7 DEF Slot, Min2
  <2>2. Taken(c)' = NoScan
    BY <2>1 DEF Taken
  <2> QED
    BY <1>4, <1>5, <1>6, <2>1, <2>2 DEF Mailbox!mvars
<1>8. CASE buff_count # 0
  <2>1. Slot = [version |-> buffers[flag], n |-> buff_count]
    BY <1>1, <1>2, <1>8 DEF Slot
  <2>2. copy'[c].n # 0
    BY <1>3, <1>8 DEF Min2
  <2>3. Taken(c)' = [version |-> buffers[flag], n |-> Min2(Room, buff_count)]
    BY <1>1, <1>3, <1>8, <2>2 DEF Taken
  <2>4. Taken(c)' = Mailbox!FirstPoints(Slot)
    BY <2>1, <2>3 DEF Mailbox!FirstPoints, Min2
  <2>5. Slot # NoScan
    BY <1>8, <2>1 DEF NoScan
  <2> QED
    BY <1>4, <1>5, <1>6, <2>4, <2>5 DEF Mailbox!Take
<1> QED
  BY <1>7, <1>8

(* Where it ends, the fetch returns, and the cleared count keeps the slot  *)
(* empty.                                                                  *)
LEMMA CopyReturns ==
  ASSUME IInv, NEW c \in Clients, CopyEnd(c)
  PROVE  Mailbox!Return(c) \/ UNCHANGED Mailbox!mvars
<1>1. pc[c] = "copying" /\ pc'[c] # "copying"
  BY DEF CopyEnd, Goto, IInv, TypeOK
<1>2. \A d \in Clients \ {c} : pc[d] # "copying" /\ pc'[d] # "copying"
  BY <1>1, OneCopies DEF CopyEnd, Goto, IInv, TypeOK
<1>3. Slot = NoScan /\ Slot' = NoScan
  BY <1>1 DEF Slot, CopyEnd
<1>4. \A d \in Clients \ {c} : Taken(d) = NoScan /\ Taken(d)' = NoScan
  BY <1>2 DEF Taken
<1>5. Taken(c)' = NoScan
  BY <1>1 DEF Taken
<1>6. CASE Taken(c) = NoScan
  <2>1. \A d \in Clients : Taken(d)' = Taken(d)
    BY <1>4, <1>5, <1>6
  <2> QED
    BY <2>1, <1>3 DEF Mailbox!mvars
<1>7. CASE Taken(c) # NoScan
  <2>1. [d \in Clients |-> Taken(d)'] = [[d \in Clients |-> Taken(d)] EXCEPT ![c] = NoScan]
    BY <1>4, <1>5, ZenonT(30)
  <2> QED
    BY <2>1, <1>3, <1>7 DEF Mailbox!Return
<1> QED
  BY <1>6, <1>7

LEMMA MailboxInit == Init => Mailbox!MInit
BY DEF Init, Mailbox!MInit, Slot, Taken

LEMMA MailboxStep ==
  ASSUME IInv, IInv', HandedOver, WithinSession, WithinSession', [Next]_vars
  PROVE  [Mailbox!MNext]_(Mailbox!mvars)
<1>1. ASSUME NEW t \in Threads, PublishSwap(t) PROVE Mailbox!MNext
  BY <1>1, SwapPuts DEF Mailbox!MNext
<1>2. ASSUME NEW c \in Clients, (CopyBegin(c) /\ flag = "left") \/ CopyRetest(c)
      PROVE  [Mailbox!MNext]_(Mailbox!mvars)
  BY <1>2, CopyTakes DEF Mailbox!MNext
<1>3. ASSUME NEW c \in Clients, CopyEnd(c) PROVE [Mailbox!MNext]_(Mailbox!mvars)
  BY <1>3, CopyReturns DEF Mailbox!MNext
<1>4. ASSUME \A t \in Threads : ~PublishSwap(t),
             \A c \in Clients : ~CopyRetest(c) /\ ~CopyEnd(c),
             \A c \in Clients : CopyBegin(c) => flag # "left"
      PROVE  UNCHANGED Mailbox!mvars
  BY <1>4, Quiet, Unseen DEF Mailbox!mvars
<1> QED
  BY <1>1, <1>2, <1>3, <1>4

(* What holds together with the invariant.                                 *)
LEMMA HandedOverInvariance == Spec => [](IInv /\ HandedOver)
<1>1. Init => HandedOver
  BY DEF Init, HandedOver
<1>2. IInv /\ HandedOver /\ [Next]_vars => HandedOver'
  BY HandedOverStep
<1> QED
  BY <1>1, <1>2, Invariance, PTL DEF Spec

(* However often the scan is stopped and started, the hand-over is a       *)
(* mailbox within each session: only the scan thread that starts and       *)
(* resets the flag without _lock, and what follows until it hands over its *)
(* first scan, may be seen as anything else.                               *)
THEOREM MailboxWithinSession ==
  Spec => [][WithinSession /\ WithinSession' => [Mailbox!MNext]_(Mailbox!mvars)]_vars
<1>1. IInv /\ IInv' /\ HandedOver /\ [Next]_vars =>
        (WithinSession /\ WithinSession' => [Mailbox!MNext]_(Mailbox!mvars))
  BY MailboxStep
<1> QED
  BY <1>1, HandedOverInvariance, PTL DEF Spec

(* With one scan thread at most, the two buffers, the flag, the count, the *)
(* event and _lock give grabScanData()'s callers a one-slot mailbox: every *)
(* scan is fetched at most once, whole, and none after a later one.        *)
THEOREM DriverIsMailbox == ASSUME MaxThreads <= 1 PROVE Spec => IsMailbox
<1>1. IInv => WithinSession
  BY OneSession DEF IInv
<1>2. IInv /\ IInv' /\ HandedOver /\ WithinSession /\ WithinSession' /\ [Next]_vars
        => [Mailbox!MNext]_(Mailbox!mvars)
  BY MailboxStep
<1> QED
  BY <1>1, <1>2, MailboxInit, HandedOverInvariance, PTL DEF Spec, IsMailbox, Mailbox!MSpec

=============================================================================
