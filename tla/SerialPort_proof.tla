-------------------------- MODULE SerialPort_proof --------------------------
(***************************************************************************)
(* The safety properties of SerialPort, proved for any queue, any number   *)
(* of wanted bytes and any readers.                                        *)
(***************************************************************************)
EXTENDS SerialPort, TLAPS

(* open() and close() leave either nothing, a port, or a port and a pipe.  *)
PipeWithPort ==
  /\ ~is_opened => selfpipe = NoPipe
  /\ selfpipe.rd = None <=> selfpipe.wr = None

(* The inductive invariant. *)
IInv ==
  /\ TypeOK
  /\ PipeWithPort
  /\ NoDescriptorLeaks
  /\ SelectsOnOpenPort

-----------------------------------------------------------------------------
LEMMA LowestIsFree ==
  ASSUME NEW a, NEW b
  PROVE  Lowest({a, b}) \in Fds /\ Lowest({a, b}) # a /\ Lowest({a, b}) # b
<1> DEFINE S == Fds \ {a, b}
<1>1. \E f \in S : \A g \in S : f <= g
  <2>1. CASE 0 \in S
    BY <2>1, SMT DEF Fds
  <2>2. CASE 0 \notin S /\ 1 \in S
    BY <2>2, SMT DEF Fds
  <2>3. CASE 0 \notin S /\ 1 \notin S
    <3>1. 2 \in S
      BY <2>3, SMT DEF Fds
    <3> QED
      BY <2>3, <3>1, SMT DEF Fds
  <2> QED
    BY <2>1, <2>2, <2>3
<1>2. Lowest({a, b}) \in S
  BY <1>1 DEF Lowest
<1> QED
  BY <1>2

LEMMA NoneIsNoFd == None \notin Fds
  BY SMT DEF None, Fds

(* What open() leaves when the device opens. *)
LEMMA OpenedHolds ==
  ASSUME PortAssumption, Opened({})
  PROVE  /\ serial_fd' \in Fds /\ is_opened' = TRUE
         /\ selfpipe' \in [rd : Fds \cup {None}, wr : Fds \cup {None}]
         /\ open_fds' \subseteq Fds /\ open_fds' = Held'
         /\ (selfpipe.rd = None <=> selfpipe.wr = None)'
         /\ queue' = 0 /\ pipe' = 0
<1> DEFINE fd == Lowest({})
           rd == Lowest({} \cup {fd})
           wr == Lowest({} \cup {fd, rd})
<1>1. fd \in Fds
  <2>1. \E f \in Fds : \A g \in Fds : f <= g
    BY SMT DEF Fds
  <2>2. Fds \ {} = Fds
    OBVIOUS
  <2> QED
    BY <2>1, <2>2 DEF Lowest
<1>2. rd \in Fds /\ wr \in Fds
  <2>1. {} \cup {fd} = {fd, fd} /\ {} \cup {fd, rd} = {fd, rd}
    OBVIOUS
  <2> QED
    BY <2>1, LowestIsFree
<1>3. /\ serial_fd' = fd /\ is_opened' = TRUE /\ queue' = 0 /\ pipe' = 0
      /\ \/ selfpipe' = NoPipe /\ open_fds' = {} \cup {fd}
         \/ selfpipe' = [rd |-> rd, wr |-> wr] /\ open_fds' = {} \cup {fd, rd, wr}
  BY DEF Opened
<1> HIDE DEF fd, rd, wr
<1>4. CASE selfpipe' = NoPipe /\ open_fds' = {fd}
  <2>1. Held' = {fd}
    BY <1>1, <1>3, <1>4, NoneIsNoFd DEF Held, NoPipe
  <2> QED
    BY <1>1, <1>3, <1>4, <2>1 DEF NoPipe
<1>5. CASE selfpipe' = [rd |-> rd, wr |-> wr] /\ open_fds' = {fd, rd, wr}
  <2>1. Held' = {fd, rd, wr}
    BY <1>1, <1>2, <1>3, <1>5, NoneIsNoFd DEF Held
  <2> QED
    BY <1>1, <1>2, <1>3, <1>5, <2>1, NoneIsNoFd
<1> QED
  BY <1>3, <1>4, <1>5

LEMMA ClosedHolds ==
  ASSUME IInv, Closed
  PROVE  /\ serial_fd' = None /\ selfpipe' = NoPipe /\ is_opened' = FALSE
         /\ open_fds' = {} /\ Held' = {}
         /\ queue' = 0 /\ pipe' = 0
  BY DEF IInv, NoDescriptorLeaks, Closed, Held, NoPipe

(* Nothing but a state in which nobody waits has its port changed. *)
LEMMA PortStep == IInv /\ (Open \/ Close) /\ PortAssumption => IInv'
<1> SUFFICES ASSUME IInv, Open \/ Close, PortAssumption PROVE IInv'
  OBVIOUS
<1>1. /\ Closed \/ Opened(IF is_opened THEN open_fds \ Held ELSE open_fds)
      /\ \A r \in Readers : state[r] = "idle"
      /\ state' = state /\ want' = want /\ input_set' = input_set
      /\ size' = size /\ answer' = answer /\ taken' = taken
  BY DEF Open, Close, Idle, readers
<1>2. (IF is_opened THEN open_fds \ Held ELSE open_fds) = {}
  BY DEF IInv, NoDescriptorLeaks, PipeWithPort, Held, NoPipe
<1>3. 0 \in 0 .. MaxQueue /\ 0 \in 0 .. MaxCancels
  BY SMT DEF PortAssumption
<1>4. SelectsOnOpenPort'
  BY <1>1 DEF SelectsOnOpenPort
<1>5. CASE Closed
  <2>1. /\ serial_fd' = None /\ selfpipe' = NoPipe /\ is_opened' = FALSE
        /\ open_fds' = {} /\ Held' = {}
        /\ queue' = 0 /\ pipe' = 0
    BY <1>5, ClosedHolds
  <2>2. TypeOK'
    BY <1>1, <1>3, <2>1 DEF IInv, TypeOK, NoPipe
  <2>3. PipeWithPort' /\ NoDescriptorLeaks'
    BY <2>1 DEF PipeWithPort, NoDescriptorLeaks, NoPipe
  <2> QED
    BY <1>4, <2>2, <2>3 DEF IInv
<1>6. CASE Opened({})
  <2>1. TypeOK'
    BY <1>1, <1>3, <1>6, OpenedHolds DEF IInv, TypeOK
  <2>2. PipeWithPort' /\ NoDescriptorLeaks'
    BY <1>6, OpenedHolds, NoneIsNoFd DEF PipeWithPort, NoDescriptorLeaks
  <2> QED
    BY <1>4, <2>1, <2>2 DEF IInv
<1> QED
  BY <1>1, <1>2, <1>5, <1>6

(* The steps that leave the descriptors alone. *)
LEMMA KeepDescriptors ==
  ASSUME IInv, UNCHANGED descriptors
  PROVE  /\ PipeWithPort' /\ NoDescriptorLeaks' /\ Held' = Held
         /\ serial_fd' \in Fds \cup {None}
         /\ selfpipe' \in [rd : Fds \cup {None}, wr : Fds \cup {None}]
         /\ is_opened' \in BOOLEAN /\ open_fds' \subseteq Fds
         /\ Held = open_fds
  BY DEF IInv, TypeOK, descriptors, PipeWithPort, NoDescriptorLeaks, Held

(* The steps of the kernel and of other threads. *)
LEMMA BytesStep ==
  IInv /\ (Flush \/ Arrive \/ CancelOperation) /\ PortAssumption => IInv'
<1> SUFFICES ASSUME IInv, Flush \/ Arrive \/ CancelOperation, PortAssumption PROVE IInv'
  OBVIOUS
<1>1. UNCHANGED descriptors /\ UNCHANGED readers
  BY DEF Flush, Arrive, CancelOperation
<1>2. queue' \in 0 .. MaxQueue /\ pipe' \in 0 .. MaxCancels
  <2>1. queue \in 0 .. MaxQueue /\ pipe \in 0 .. MaxCancels
    BY DEF IInv, TypeOK
  <2>2. \A n, max \in Nat : n < max => n + 1 \in 0 .. max
    BY SMT
  <2>3. queue \in Nat /\ pipe \in Nat /\ MaxQueue \in Nat /\ MaxCancels \in Nat
    BY <2>1 DEF PortAssumption
  <2>4. 0 \in 0 .. MaxQueue
    BY SMT DEF PortAssumption
  <2>5. CASE Flush
    BY <2>1, <2>4, <2>5 DEF Flush
  <2>6. CASE Arrive
    BY <2>1, <2>2, <2>3, <2>6 DEF Arrive
  <2>7. CASE CancelOperation
    BY <2>1, <2>2, <2>3, <2>7 DEF CancelOperation
  <2> QED
    BY <2>5, <2>6, <2>7
<1>3. TypeOK'
  BY <1>1, <1>2, KeepDescriptors DEF IInv, TypeOK, readers
<1>4. SelectsOnOpenPort'
  BY <1>1 DEF IInv, SelectsOnOpenPort, descriptors, readers
<1> QED
  BY <1>1, <1>3, <1>4, KeepDescriptors DEF IInv

(* A wait that returns. *)
LEMMA AnswerStep ==
  ASSUME IInv, NEW r \in Readers, NEW ans \in {"OK", "TIMEOUT", "DEV_ERR"},
         Answer(r, ans), UNCHANGED descriptors, UNCHANGED queue,
         pipe' \in 0 .. MaxCancels, want' \in [Readers -> 0 .. MaxQueue]
  PROVE  IInv'
<1>1. /\ state' = [state EXCEPT ![r] = IF ans = "OK" THEN "read" ELSE "idle"]
      /\ answer' = [answer EXCEPT ![r] = ans]
      /\ size' = [size EXCEPT ![r] = IF ans = "OK" THEN queue ELSE 0]
      /\ input_set' = [input_set EXCEPT ![r] = {}]
      /\ taken' = taken
  BY DEF Answer
<1>2. TypeOK
  BY DEF IInv
<1>3. /\ queue \in 0 .. MaxQueue /\ 0 \in 0 .. MaxQueue
      /\ (IF ans = "OK" THEN queue ELSE 0) \in 0 .. MaxQueue
  <2>1. \A n \in Nat : 0 \in 0 .. n
    BY SMT
  <2>2. queue \in 0 .. MaxQueue /\ 0 \in 0 .. MaxQueue
    BY <1>2, <2>1, PortAssumption DEF TypeOK, PortAssumption
  <2> QED
    BY <2>2
<1>4. TypeOK'
  <2>1. /\ state' \in [Readers -> {"idle", "select", "read"}]
        /\ size' \in [Readers -> 0 .. MaxQueue]
        /\ input_set' \in [Readers -> SUBSET Fds]
        /\ answer' \in [Readers -> {"none", "OK", "TIMEOUT", "DEV_ERR"}]
        /\ taken' \in [Readers -> 0 .. MaxQueue]
    BY <1>1, <1>2, <1>3 DEF TypeOK
  <2> QED
    BY <2>1, <1>3, KeepDescriptors DEF TypeOK
<1>5. SelectsOnOpenPort'
  <2> SUFFICES ASSUME NEW q \in Readers, state'[q] = "select"
               PROVE  /\ is_opened' /\ input_set'[q] \subseteq open_fds'
                      /\ serial_fd' \in input_set'[q]
    BY DEF SelectsOnOpenPort
  <2>1. q # r /\ state[q] = "select" /\ input_set'[q] = input_set[q]
    BY <1>1, <1>2 DEF TypeOK
  <2> QED
    BY <2>1 DEF IInv, SelectsOnOpenPort, descriptors
<1> QED
  BY <1>4, <1>5, KeepDescriptors DEF IInv

LEMMA WaitStep ==
  ASSUME IInv, PortAssumption, NEW r \in Readers, NEW n \in Wants, WaitForData(r, n)
  PROVE  IInv'
<1>1. /\ state[r] = "idle" /\ is_opened /\ want' = [want EXCEPT ![r] = n]
      /\ UNCHANGED descriptors /\ UNCHANGED queue /\ UNCHANGED pipe
  BY DEF WaitForData
<1>2. TypeOK /\ n \in 0 .. MaxQueue
  BY SMT DEF IInv, PortAssumption
<1>3. want' \in [Readers -> 0 .. MaxQueue] /\ pipe' \in 0 .. MaxCancels
  BY <1>1, <1>2 DEF TypeOK
<1>4. CASE Answer(r, "OK") \/ Answer(r, "DEV_ERR")
  BY <1>1, <1>3, <1>4, AnswerStep
<1>5. CASE /\ state' = [state EXCEPT ![r] = "select"]
           /\ input_set' = [input_set EXCEPT ![r] = {serial_fd, selfpipe.rd} \ {None}]
           /\ UNCHANGED <<size, answer, taken>>
  <2>1. /\ {serial_fd, selfpipe.rd} \ {None} \subseteq Fds
        /\ {serial_fd, selfpipe.rd} \ {None} \subseteq open_fds
        /\ serial_fd \in {serial_fd, selfpipe.rd} \ {None}
    BY <1>1, <1>2 DEF IInv, TypeOK, NoDescriptorLeaks, Held
  <2>2. TypeOK'
    <3>1. /\ state' \in [Readers -> {"idle", "select", "read"}]
          /\ input_set' \in [Readers -> SUBSET Fds]
          /\ size' \in [Readers -> 0 .. MaxQueue]
          /\ answer' \in [Readers -> {"none", "OK", "TIMEOUT", "DEV_ERR"}]
          /\ taken' \in [Readers -> 0 .. MaxQueue]
          /\ queue' \in 0 .. MaxQueue
      BY <1>1, <1>2, <1>5, <2>1 DEF TypeOK
    <3> QED
      BY <3>1, <1>1, <1>3, KeepDescriptors DEF TypeOK
  <2>3. SelectsOnOpenPort'
    <3> SUFFICES ASSUME NEW q \in Readers, state'[q] = "select"
                 PROVE  /\ is_opened' /\ input_set'[q] \subseteq open_fds'
                        /\ serial_fd' \in input_set'[q]
      BY DEF SelectsOnOpenPort
    <3>1. CASE q = r
      BY <3>1, <1>1, <1>2, <1>5, <2>1 DEF TypeOK, descriptors
    <3>2. CASE q # r
      <4>1. state[q] = "select" /\ input_set'[q] = input_set[q]
        BY <3>2, <1>2, <1>5 DEF TypeOK
      <4> QED
        BY <4>1, <1>1 DEF IInv, SelectsOnOpenPort, descriptors
    <3> QED
      BY <3>1, <3>2
  <2> QED
    BY <1>1, <2>2, <2>3, KeepDescriptors DEF IInv
<1> QED
  BY <1>4, <1>5 DEF WaitForData

LEMMA SelectStep ==
  ASSUME IInv, PortAssumption, NEW r \in Readers,
         WaitClosed(r) \/ SelectReturns(r) \/ RecvData(r)
  PROVE  IInv'
<1>1. /\ TypeOK /\ UNCHANGED descriptors /\ want' = want
      /\ 0 \in 0 .. MaxCancels
  BY SMT DEF IInv, WaitClosed, SelectReturns, SelectFails, SelectExpires, SelectCancelled,
         SelectReady, RecvData, PortAssumption
<1>2. want' \in [Readers -> 0 .. MaxQueue]
  BY <1>1 DEF TypeOK
<1>3. CASE WaitClosed(r) \/ SelectFails(r) \/ SelectExpires(r)
  <2>1. /\ Answer(r, "DEV_ERR") \/ Answer(r, "TIMEOUT")
        /\ UNCHANGED queue /\ pipe' \in 0 .. MaxCancels
    BY <1>1, <1>3 DEF WaitClosed, SelectFails, SelectExpires, TypeOK
  <2> QED
    BY <2>1, <1>1, <1>2, AnswerStep
<1>4. CASE SelectCancelled(r)
  <2>1. Answer(r, "TIMEOUT") /\ UNCHANGED queue /\ pipe' \in 0 .. MaxCancels
    BY <1>1, <1>4 DEF SelectCancelled
  <2> QED
    BY <2>1, <1>1, <1>2, AnswerStep
<1>5. CASE SelectReady(r)
  <2>1. UNCHANGED queue /\ pipe' \in 0 .. MaxCancels
    BY <1>1, <1>5 DEF SelectReady, TypeOK
  <2>2. CASE Answer(r, "OK")
    BY <2>1, <2>2, <1>1, <1>2, AnswerStep
  <2>3. CASE /\ input_set' = [input_set EXCEPT ![r] = Ready(r)]
             /\ UNCHANGED <<state, size, answer, taken>>
    <3>1. Ready(r) \subseteq input_set[r] /\ serial_fd \in Ready(r) /\ state[r] = "select"
      BY <1>5 DEF SelectReady, Ready
    <3>2. Ready(r) \subseteq Fds
      BY <3>1, <1>1 DEF TypeOK
    <3>3. TypeOK'
      <4>1. /\ state' \in [Readers -> {"idle", "select", "read"}]
            /\ input_set' \in [Readers -> SUBSET Fds]
            /\ size' \in [Readers -> 0 .. MaxQueue]
            /\ answer' \in [Readers -> {"none", "OK", "TIMEOUT", "DEV_ERR"}]
            /\ taken' \in [Readers -> 0 .. MaxQueue]
            /\ queue' \in 0 .. MaxQueue
        BY <1>1, <2>1, <2>3, <3>2 DEF TypeOK
      <4> QED
        BY <4>1, <1>1, <1>2, <2>1, KeepDescriptors DEF TypeOK
    <3>4. SelectsOnOpenPort'
      <4> SUFFICES ASSUME NEW q \in Readers, state'[q] = "select"
                   PROVE  /\ is_opened' /\ input_set'[q] \subseteq open_fds'
                          /\ serial_fd' \in input_set'[q]
        BY DEF SelectsOnOpenPort
      <4>1. /\ state[q] = "select" /\ is_opened
            /\ input_set[q] \subseteq open_fds /\ serial_fd \in input_set[q]
        BY <2>3 DEF IInv, SelectsOnOpenPort
      <4>2. /\ is_opened' = is_opened /\ open_fds' = open_fds
            /\ serial_fd' = serial_fd
        BY <1>1 DEF descriptors
      <4>3. (input_set'[q] = Ready(r) /\ q = r) \/ input_set'[q] = input_set[q]
        BY <2>3, <1>1 DEF TypeOK
      <4> QED
        BY <3>1, <4>1, <4>2, <4>3
    <3> QED
      BY <1>1, <3>3, <3>4, KeepDescriptors DEF IInv
  <2> QED
    BY <1>5, <2>2, <2>3 DEF SelectReady
<1>6. CASE RecvData(r)
  <2>1. PICK n \in {want[r], size[r]} :
          LET got == IF n < queue THEN n ELSE queue IN
            queue' = queue - got /\ taken' = TakenFrom(r, got)
    BY <1>6 DEF RecvData
  <2>2. /\ state' = [state EXCEPT ![r] = "idle"]
        /\ input_set' = input_set /\ size' = size /\ answer' = answer /\ pipe' = pipe
    BY <1>6 DEF RecvData
  <2> DEFINE got == IF n < queue THEN n ELSE queue
  <2>3. queue' \in 0 .. MaxQueue /\ taken' \in [Readers -> 0 .. MaxQueue]
    <3>1. n \in 0 .. MaxQueue /\ queue \in 0 .. MaxQueue
      BY <1>1 DEF TypeOK
    <3>2. got \in Nat /\ queue' \in 0 .. MaxQueue
      BY <2>1, <3>1, SMT
    <3>3. taken' = TakenFrom(r, got)
      BY <2>1
    <3> HIDE DEF got
    <3>4. \A q \in Readers : size[q] \in 0 .. MaxQueue /\ taken[q] \in 0 .. MaxQueue
      BY <1>1 DEF TypeOK
    <3>5. \A q \in Readers :
            (IF taken[q] + got < size[q] THEN taken[q] + got ELSE size[q]) \in 0 .. MaxQueue
      BY <3>2, <3>4, SMT
    <3>6. 0 \in 0 .. MaxQueue
      BY SMT DEF PortAssumption
    <3> QED
      BY <3>2, <3>3, <3>5, <3>6 DEF TakenFrom
  <2>4. TypeOK'
    <3>1. state' \in [Readers -> {"idle", "select", "read"}]
      BY <1>1, <2>2 DEF TypeOK
    <3> QED
      BY <3>1, <1>1, <1>2, <2>2, <2>3, KeepDescriptors DEF TypeOK
  <2>5. SelectsOnOpenPort'
    <3> SUFFICES ASSUME NEW q \in Readers, state'[q] = "select"
                 PROVE  /\ is_opened' /\ input_set'[q] \subseteq open_fds'
                        /\ serial_fd' \in input_set'[q]
      BY DEF SelectsOnOpenPort
    <3>1. state[q] = "select"
      BY <2>2, <1>1 DEF TypeOK
    <3> QED
      BY <3>1, <1>1, <2>2 DEF IInv, SelectsOnOpenPort, descriptors
  <2> QED
    BY <1>1, <2>4, <2>5, KeepDescriptors DEF IInv
<1> QED
  BY <1>3, <1>4, <1>5, <1>6 DEF SelectReturns

LEMMA InitIInv == Init /\ PortAssumption => IInv
<1> SUFFICES ASSUME Init, PortAssumption PROVE IInv
  OBVIOUS
<1>1. 0 \in 0 .. MaxQueue /\ 0 \in 0 .. MaxCancels
  BY SMT DEF PortAssumption
<1>2. TypeOK
  BY <1>1 DEF Init, TypeOK, NoPipe
<1> QED
  BY <1>2 DEF Init, IInv, PipeWithPort, NoDescriptorLeaks, SelectsOnOpenPort, Held, NoPipe

LEMMA AlwaysIInv == Spec => []IInv
<1>1. IInv /\ [Next]_vars => IInv'
  <2> SUFFICES ASSUME IInv, [Next]_vars PROVE IInv'
    OBVIOUS
  <2>1. CASE UNCHANGED vars
    BY <2>1 DEF vars, descriptors, readers, IInv, TypeOK, PipeWithPort, NoDescriptorLeaks,
       SelectsOnOpenPort, Held
  <2> QED
    BY <2>1, PortAssumption, PortStep, BytesStep, WaitStep, SelectStep DEF Next
<1> QED
  BY <1>1, InitIInv, PortAssumption, PTL DEF Spec

(* The queue, the pipe and the descriptors stay in their ranges. *)
THEOREM TypeCorrect == Spec => []TypeOK
<1>1. IInv => TypeOK
  BY DEF IInv
<1> QED
  BY <1>1, AlwaysIInv, PTL

(* Whatever fails in open(), the object and the process agree about the    *)
(* descriptors that are open.                                              *)
THEOREM DescriptorsAreKept == Spec => []NoDescriptorLeaks
<1>1. IInv => NoDescriptorLeaks
  BY DEF IInv
<1> QED
  BY <1>1, AlwaysIInv, PTL

(* Nobody selects on a descriptor that was closed.                         *)
THEOREM WaitsOnOpenPort == Spec => []SelectsOnOpenPort
<1>1. IInv => SelectsOnOpenPort
  BY DEF IInv
<1> QED
  BY <1>1, AlwaysIInv, PTL

-----------------------------------------------------------------------------
(* The steps that touch no reader, and take no byte while one is to read.  *)
LEMMA PromiseKept ==
  ASSUME IInv, PromisedBytesAreThere, IInv', UNCHANGED readers,
         Idle \/ queue' = queue \/ queue' = queue + 1
  PROVE  PromisedBytesAreThere'
<1> SUFFICES ASSUME NEW r \in Readers, state'[r] = "read"
             PROVE  want'[r] <= size'[r] /\ size'[r] <= queue' + taken'[r]
  BY DEF PromisedBytesAreThere
<1>1. /\ state[r] = "read" /\ want'[r] = want[r] /\ size'[r] = size[r]
      /\ taken'[r] = taken[r]
      /\ ~Idle
  BY DEF readers, Idle
<1>2. want[r] <= size[r] /\ size[r] <= queue + taken[r]
  BY <1>1 DEF PromisedBytesAreThere
<1>3. queue \in Nat /\ size[r] \in Nat /\ taken[r] \in Nat
  BY DEF IInv, TypeOK
<1>4. queue' = queue \/ queue' = queue + 1
  BY <1>1
<1>5. size[r] <= queue' + taken[r]
  BY <1>2, <1>3, <1>4, SMT
<1> QED
  BY <1>1, <1>2, <1>5

(* What a wait of r does not touch: the promises to the others.            *)
LEMMA OthersKeepPromise ==
  ASSUME PromisedBytesAreThere, NEW r \in Readers, UNCHANGED <<queue, taken>>,
         \A q \in Readers : q # r =>
           state'[q] = state[q] /\ want'[q] = want[q] /\ size'[q] = size[q],
         state'[r] = "read" => want'[r] <= size'[r] /\ size'[r] <= queue + taken[r]
  PROVE  PromisedBytesAreThere'
  BY DEF PromisedBytesAreThere

(* A wait answers OK for as many bytes as its reader wants.                *)
LEMMA PromiseGiven ==
  ASSUME IInv, PromisedBytesAreThere, NEW r \in Readers, NEW ans, Answer(r, ans),
         UNCHANGED queue, ans = "OK" => queue >= want'[r], want'[r] \in Nat,
         \A q \in Readers : q # r => want'[q] = want[q]
  PROVE  PromisedBytesAreThere'
<1>1. /\ state'[r] = (IF ans = "OK" THEN "read" ELSE "idle")
      /\ size'[r] = (IF ans = "OK" THEN queue ELSE 0)
      /\ UNCHANGED taken
      /\ \A q \in Readers : q # r => state'[q] = state[q] /\ size'[q] = size[q]
  BY DEF Answer, IInv, TypeOK
<1>2. queue \in Nat /\ taken[r] \in Nat
  BY DEF IInv, TypeOK
<1>3. queue <= queue + taken[r] /\ (queue >= want'[r] => want'[r] <= queue)
  BY <1>2, SMT
<1>4. state'[r] = "read" => want'[r] <= size'[r] /\ size'[r] <= queue + taken[r]
  BY <1>1, <1>3
<1> QED
  BY <1>1, <1>4, OthersKeepPromise

(* What one reader takes the others miss, and no more.                     *)
LEMMA PromiseTaken ==
  ASSUME IInv, PromisedBytesAreThere, NEW r \in Readers, RecvData(r)
  PROVE  PromisedBytesAreThere'
<1> SUFFICES ASSUME NEW q \in Readers, state'[q] = "read"
             PROVE  want'[q] <= size'[q] /\ size'[q] <= queue' + taken'[q]
  BY DEF PromisedBytesAreThere
<1>1. q # r /\ state[q] = "read"
  BY DEF RecvData, IInv, TypeOK
<1>2. PICK got : got \in {want[r], size[r], queue} /\ queue' = queue - got
                 /\ taken' = TakenFrom(r, got)
  BY DEF RecvData
<1>3. taken'[q] = IF taken[q] + got < size[q] THEN taken[q] + got ELSE size[q]
  BY <1>1, <1>2 DEF TakenFrom
<1>4. want'[q] = want[q] /\ size'[q] = size[q]
  BY DEF RecvData
<1>5. want[q] <= size[q] /\ size[q] <= queue + taken[q]
  BY <1>1 DEF PromisedBytesAreThere
<1>6. /\ queue \in Nat /\ queue' \in Nat /\ size[q] \in Nat /\ taken[q] \in Nat
      /\ got \in Nat
  <2>1. got \in 0 .. MaxQueue /\ queue \in 0 .. MaxQueue
    BY <1>2 DEF IInv, TypeOK
  <2>2. queue' \in Nat
    <3>1. PICK n \in {want[r], size[r]} : queue' = queue - (IF n < queue THEN n ELSE queue)
      BY DEF RecvData
    <3>2. n \in Nat /\ queue \in Nat
      BY DEF IInv, TypeOK
    <3> QED
      BY <3>1, <3>2, SMT
  <2> QED
    BY <2>1, <2>2 DEF IInv, TypeOK
<1>7. size[q] <= queue' + taken'[q]
  BY <1>2, <1>3, <1>5, <1>6, SMT
<1> QED
  BY <1>4, <1>5, <1>7

LEMMA PromiseStep ==
  ASSUME IInv, PromisedBytesAreThere, Next, IInv', PortAssumption
  PROVE  PromisedBytesAreThere'
<1>1. CASE Open \/ Close \/ Flush \/ Arrive \/ CancelOperation
  <2>1. /\ UNCHANGED readers
        /\ Idle \/ queue' = queue \/ queue' = queue + 1
    BY <1>1 DEF Open, Close, Flush, Arrive, CancelOperation
  <2> QED
    BY <2>1, PromiseKept
<1>2. ASSUME NEW r \in Readers, NEW n \in Wants, WaitForData(r, n)
      PROVE  PromisedBytesAreThere'
  <2>1. /\ want'[r] = n /\ UNCHANGED queue
        /\ \A q \in Readers : q # r => want'[q] = want[q]
    BY <1>2 DEF WaitForData, IInv, TypeOK
  <2>2. n \in Nat
    BY DEF PortAssumption
  <2>3. CASE Enough(n) /\ Answer(r, "OK")
    BY <2>1, <2>2, <2>3, PromiseGiven DEF Enough
  <2>4. CASE Answer(r, "DEV_ERR")
    BY <2>1, <2>2, <2>4, PromiseGiven
  <2>5. CASE state' = [state EXCEPT ![r] = "select"] /\ UNCHANGED <<size, answer, taken>>
    BY <2>1, <2>5, OthersKeepPromise DEF IInv, TypeOK
  <2> QED
    BY <1>2, <2>3, <2>4, <2>5 DEF WaitForData
<1>3. ASSUME NEW r \in Readers, WaitClosed(r) \/ SelectReturns(r)
      PROVE  PromisedBytesAreThere'
  <2>1. UNCHANGED queue /\ want' = want /\ want'[r] \in Nat
    BY <1>3 DEF WaitClosed, SelectReturns, SelectFails, SelectExpires, SelectCancelled,
       SelectReady, IInv, TypeOK
  <2>2. CASE Answer(r, "DEV_ERR") \/ Answer(r, "TIMEOUT")
    BY <2>1, <2>2, PromiseGiven
  <2>3. CASE Enough(want[r]) /\ Answer(r, "OK")
    BY <2>1, <2>3, PromiseGiven DEF Enough
  <2>4. CASE UNCHANGED <<state, size, answer, taken>>
    BY <2>1, <2>4 DEF PromisedBytesAreThere
  <2> QED
    BY <1>3, <2>2, <2>3, <2>4 DEF WaitClosed, SelectReturns, SelectFails, SelectExpires,
       SelectCancelled, SelectReady
<1> QED
  BY <1>1, <1>2, <1>3, PromiseTaken DEF Next

(* However many threads read, a reader misses only bytes that another one  *)
(* took: the read in one call of what was announced in another loses none  *)
(* by itself.                                                              *)
THEOREM BytesAreThere == Spec => []PromisedBytesAreThere
<1>1. Init => PromisedBytesAreThere
  BY DEF Init, PromisedBytesAreThere
<1>2. IInv /\ IInv' /\ PromisedBytesAreThere /\ [Next]_vars => PromisedBytesAreThere'
  <2> SUFFICES ASSUME IInv, IInv', PromisedBytesAreThere, [Next]_vars
               PROVE  PromisedBytesAreThere'
    OBVIOUS
  <2>1. CASE UNCHANGED vars
    BY <2>1 DEF vars, readers, PromisedBytesAreThere
  <2> QED
    BY <2>1, PortAssumption, PromiseStep
<1> QED
  BY <1>1, <1>2, AlwaysIInv, PTL DEF Spec

-----------------------------------------------------------------------------
(* One thread that reads has nobody to take its bytes.                     *)
OneReader == \A q, r \in Readers : q = r

NoneTaken == \A r \in Readers : taken[r] = 0

(* With one reader, as PortHasOneReader of TTlidarDriver_proof shows it    *)
(* outside setMotorRpm(), what waitfordata() announced is in the queue.    *)
THEOREM OneReaderFindsAll ==
  ASSUME OneReader
  PROVE  Spec => [](\A r \in Readers : state[r] = "read" => want[r] <= queue)
<1>1. Init => NoneTaken
  BY DEF Init, NoneTaken
<1>2. IInv /\ NoneTaken /\ [Next]_vars => NoneTaken'
  <2> SUFFICES ASSUME IInv, NoneTaken, [Next]_vars PROVE NoneTaken'
    OBVIOUS
  <2>1. CASE UNCHANGED taken
    BY <2>1 DEF NoneTaken
  <2>2. ASSUME NEW r \in Readers, RecvData(r)
        PROVE  NoneTaken'
    <3>1. \E got : taken' = TakenFrom(r, got)
      BY <2>2 DEF RecvData
    <3> QED
      BY <3>1, OneReader DEF TakenFrom, NoneTaken, OneReader
  <2>3. CASE Open \/ Close \/ Flush \/ Arrive \/ CancelOperation \/ UNCHANGED vars
    <3>1. UNCHANGED taken
      BY <2>3 DEF Open, Close, Flush, Arrive, CancelOperation, vars, readers
    <3> QED
      BY <2>1, <3>1
  <2>4. ASSUME NEW r \in Readers,
               WaitClosed(r) \/ SelectReturns(r) \/ (\E n \in Wants : WaitForData(r, n))
        PROVE  NoneTaken'
    <3>1. UNCHANGED taken
      BY <2>4 DEF WaitClosed, WaitForData, SelectReturns, SelectFails, SelectExpires,
         SelectCancelled, SelectReady, Answer
    <3> QED
      BY <2>1, <3>1
  <2> QED
    BY <2>2, <2>3, <2>4 DEF Next
<1>3. IInv /\ NoneTaken /\ PromisedBytesAreThere
        => \A r \in Readers : state[r] = "read" => want[r] <= queue
  <2> SUFFICES ASSUME IInv, NoneTaken, PromisedBytesAreThere,
                      NEW r \in Readers, state[r] = "read"
               PROVE  want[r] <= queue
    OBVIOUS
  <2>1. want[r] <= size[r] /\ size[r] <= queue + 0
    BY DEF NoneTaken, PromisedBytesAreThere
  <2>2. want[r] \in Nat /\ size[r] \in Nat /\ queue \in Nat
    BY DEF IInv, TypeOK
  <2> QED
    BY <2>1, <2>2, SMT
<1> QED
  BY <1>1, <1>2, <1>3, AlwaysIInv, BytesAreThere, PTL DEF Spec
=============================================================================
